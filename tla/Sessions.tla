------------------------------ MODULE Sessions ------------------------------
(***************************************************************************)
(* Session tokens of the passwd server: the refresh_tokens table, the      *)
(* handlers that create, rotate and revoke its rows, and the account row   *)
(* they hang off.                                                          *)
(*                                                                         *)
(* Every HTTP request runs in a goroutine of its own and the handlers hold *)
(* no lock and open no transaction across their store calls, so one store  *)
(* call is one atomic step and the calls of different requests interleave  *)
(* freely.  A request slot r keeps what its handler has read so far in     *)
(* req[r]; the server may stop between any two steps (Crash).              *)
(*                                                                         *)
(* A refresh token is a number: the position in tok of the record with     *)
(* which it was minted.  The random 256-bit token and its hash are         *)
(* abstracted to that number, so two tokens never collide.                 *)
(***************************************************************************)
EXTENDS Naturals, Sequences, FiniteSets

CONSTANTS
    Users,       \* account ids (a UUID: never reused after a deletion)
    NoUser,      \* "no account" in an idle request slot
    Reqs,        \* slots for requests being served at the same time
    RefreshTTL,  \* auth.RefreshTokenTTL
    AccessTTL,   \* auth.AccessTokenTTL
    MaxTokens,   \* bound: refresh tokens minted in a behaviour
    MaxTime,     \* bound: last instant of the clock
    MaxRevokes,  \* bound: logouts and recoveries begin below this epoch
    MayFail,     \* may a store call fail?
    MayCrash     \* may the server stop and be started again?

ASSUME SessionsAssumption ==
    /\ NoUser \notin Users
    /\ IsFiniteSet(Reqs)
    /\ RefreshTTL \in Nat
    /\ AccessTTL \in Nat
    /\ MaxTokens \in Nat
    /\ MaxTime \in Nat
    /\ MaxRevokes \in Nat
    /\ MayFail \in BOOLEAN
    /\ MayCrash \in BOOLEAN

VARIABLES
    account,    \* account[u]: is there a row for u in the users table?
    tok,        \* every token ever minted, with its immutable columns
    rows,       \* refresh_tokens: the tokens that have a row
    used,       \* refresh_tokens: the rows whose used column is set
    now,        \* the wall clock
    req,        \* req[r]: the handler running in slot r
    \* History, read by no handler:
    epoch,      \* epoch[u]: how often all rows of u have been deleted
    revoked,    \* revoked[u]: when that last happened, and by what
    lostMarks   \* tokens whose "used" mark was lost to a store error

vars == <<account, tok, rows, used, now, req, epoch, revoked, lostMarks>>

table   == <<rows, used>>
history == <<epoch, revoked, lostMarks>>

-----------------------------------------------------------------------------
(***************************************************************************)
(* Types.  access is the expiry of the access token handed out with the    *)
(* refresh token; parent is the token it was rotated from (0: a login or a *)
(* recovery).  root and straddled are history: the epoch in which the      *)
(* family's credentials were checked, and whether a revocation came        *)
(* between the reading and the writing of a request that minted the token  *)
(* or one of its ancestors.                                                *)
(***************************************************************************)
Token == [user : Users, expires : Nat, access : Nat, parent : Nat,
          root : Nat, straddled : BOOLEAN]

PC == {"idle", "purge", "reuse", "mark", "issue", "rotate", "revoke",
       "logout", "erase"}

Revocation == [at : Nat, by : {"none", "reuse", "recovery", "logout", "erase"}]

\* token: the token presented to handleRefresh (0: none); seen: the epoch
\* of the user when the handler read the store; root: see Token.
Request == [pc : PC, user : Users \cup {NoUser}, token : Nat,
            seen : Nat, root : Nat]

Idle == [pc |-> "idle", user |-> NoUser, token |-> 0, seen |-> 0, root |-> 0]

Serving(pc, u, t, root) ==
    [pc |-> pc, user |-> u, token |-> t, seen |-> epoch[u], root |-> root]

Init ==
    /\ account = [u \in Users |-> TRUE]
    /\ tok = <<>>
    /\ rows = {}
    /\ used = {}
    /\ now = 0
    /\ req = [r \in Reqs |-> Idle]
    /\ epoch = [u \in Users |-> 0]
    /\ revoked = [u \in Users |-> [at |-> 0, by |-> "none"]]
    /\ lostMarks = {}

-----------------------------------------------------------------------------
(***************************************************************************)
(* The store's operations on the table.                                    *)
(***************************************************************************)
RowsOf(u) == {t \in rows : tok[t].user = u}

\* Mutant: an upsert, which brings a deleted row back.
MarkUpserts(t) ==
    /\ rows' = rows \cup {t}
    /\ used' = used \cup {t}

\* Mutant: the rotated token keeps its used = 0.
MarkForgets(t) ==
    UNCHANGED table

\* Mutant: a mark recorded for a row that is no longer there.
MarkMissing(t) ==
    /\ used' = used \cup {t}
    /\ rows' = rows

\* Mutant: rotation removes the old row, so a replay would go unseen.
MarkDeletes(t) ==
    /\ rows' = rows \ {t}
    /\ used' = used \ {t}

\* UPDATE ... SET used = 1 WHERE token_hash = ?: nothing if there is no row.
MarkRefreshTokenUsed(t) ==
    /\ used' = used \cup ({t} \cap rows)
    /\ rows' = rows

DeleteRefreshToken(t) ==
    /\ rows' = rows \ {t}
    /\ used' = used \ {t}

\* Mutant: only the active sessions of the list are deleted.
DeleteKeepsUsed(u) ==
    /\ rows' = rows \ (RowsOf(u) \ used)
    /\ used' = used

\* Mutant: the delete is scoped to expired rows.
DeleteOnlyExpired(u) ==
    /\ rows' = {t \in rows : tok[t].user # u \/ tok[t].expires >= now}
    /\ used' = used \cap {t \in rows : tok[t].user # u \/ tok[t].expires >= now}

DeleteRowsOf(u) ==
    /\ rows' = rows \ RowsOf(u)
    /\ used' = used \ RowsOf(u)

\* All rows of u go in one statement (or in DeleteAccount's transaction).
DeleteRefreshTokensForUser(u, by) ==
    /\ DeleteRowsOf(u)
    /\ epoch' = [epoch EXCEPT ![u] = @ + 1]
    /\ revoked' = [revoked EXCEPT ![u] = [at |-> now, by |-> by]]
    /\ UNCHANGED lostMarks

\* Mutant: rotated tokens are listed as sessions too.
ListIncludesUsed(u) ==
    {t \in RowsOf(u) : tok[t].expires > now}

\* ListRefreshTokensForUser: unused, unexpired rows, what the user is shown.
ListRefreshTokensForUser(u) ==
    {t \in RowsOf(u) \ used : tok[t].expires > now}

-----------------------------------------------------------------------------
(***************************************************************************)
(* Helpers of the handlers.                                                *)
(***************************************************************************)
\* A store call may return an error; it has then changed nothing.
StoreError == MayFail

GoTo(r, pc) == req' = [req EXCEPT ![r].pc = pc]
Respond(r)  == req' = [req EXCEPT ![r] = Idle]

\* Bound: a handler that will mint a token starts only if one is left.
TokenBudget ==
    Len(tok) + Cardinality({r \in Reqs :
                   req[r].pc \in {"mark", "issue", "rotate", "revoke"}})
        < MaxTokens

\* requireAuth: the caller holds an access token of u that has not expired.
\* The check is stateless: it does not look for the account's row.
Authenticated(u) ==
    \E t \in DOMAIN tok : tok[t].user = u /\ now < tok[t].access

\* The record of the token pair minted for request r now.
NewToken(r) ==
    LET q == req[r]
    IN [user      |-> q.user,
        expires   |-> now + RefreshTTL,
        access    |-> now + AccessTTL,
        parent    |-> q.token,
        root      |-> q.root,
        straddled |-> \/ q.seen # epoch[q.user]
                      \/ q.token # 0 /\ tok[q.token].straddled]

-----------------------------------------------------------------------------
(***************************************************************************)
(* issueTokens, the last step of handleLogin, handleWebAuthnLoginFinish,   *)
(* handleRefresh and handleRecoveryComplete.  A token whose row cannot be  *)
(* stored is never handed out.                                             *)
(***************************************************************************)
IssueTokens(r) ==
    /\ req[r].pc = "issue"
    /\ \/ /\ tok' = Append(tok, NewToken(r))
          /\ rows' = rows \cup {Len(tok) + 1}
          /\ UNCHANGED used
       \/ /\ StoreError
          /\ UNCHANGED <<tok, table>>
    /\ Respond(r)
    /\ UNCHANGED <<account, now, history>>

\* handleLogin and handleWebAuthnLoginFinish with accepted credentials: the
\* account's row is read, then tokens are issued.
Login(r, u) ==
    /\ req[r].pc = "idle"
    /\ account[u]
    /\ TokenBudget
    /\ req' = [req EXCEPT ![r] = Serving("issue", u, 0, epoch[u])]
    /\ UNCHANGED <<account, tok, table, now, history>>

-----------------------------------------------------------------------------
(***************************************************************************)
(* handleRefresh.                                                          *)
(***************************************************************************)
\* Mutant: reuse detection before rotation is gone.
RefreshBranchNoReuse(t) ==
    IF now > tok[t].expires THEN "purge" ELSE "mark"

\* Where the row that was read sends the handler.
RefreshBranch(t) ==
    IF now > tok[t].expires THEN "purge"
    ELSE IF t \in used THEN "reuse"
    ELSE "mark"

\* GetRefreshToken found a row.  (No row: 401 and nothing changes.)
RefreshLookup(r, t) ==
    /\ req[r].pc = "idle"
    /\ t \in rows
    /\ RefreshBranch(t) = "mark" => TokenBudget
    /\ req' = [req EXCEPT ![r] =
                  Serving(RefreshBranch(t), tok[t].user, t, tok[t].root)]
    /\ UNCHANGED <<account, tok, table, now, history>>

\* Expired: the row is deleted, an error is ignored, 401.
RefreshPurge(r) ==
    /\ req[r].pc = "purge"
    /\ \/ DeleteRefreshToken(req[r].token)
       \/ StoreError /\ UNCHANGED table
    /\ Respond(r)
    /\ UNCHANGED <<account, tok, now, history>>

\* Used: every row of the user is deleted, an error is ignored, 401.
RefreshReuse(r) ==
    /\ req[r].pc = "reuse"
    /\ \/ DeleteRefreshTokensForUser(req[r].user, "reuse")
       \/ StoreError /\ UNCHANGED <<table, history>>
    /\ Respond(r)
    /\ UNCHANGED <<account, tok, now>>

\* Rotation: the presented token is marked used.  Both a missing row and a
\* store error are ignored, and tokens are issued in any case.
RefreshMark(r) ==
    /\ req[r].pc = "mark"
    /\ \/ /\ MarkRefreshTokenUsed(req[r].token)
          /\ UNCHANGED lostMarks
       \/ /\ StoreError
          /\ lostMarks' = lostMarks \cup {req[r].token}
          /\ UNCHANGED table
    /\ GoTo(r, "issue")
    /\ UNCHANGED <<account, tok, now, epoch, revoked>>

-----------------------------------------------------------------------------
(***************************************************************************)
(* handleRecoveryComplete with a valid recovery code: rotate the master    *)
(* password, delete the user's rows, issue tokens.                         *)
(***************************************************************************)
RecoveryLookup(r, u) ==
    /\ req[r].pc = "idle"
    /\ account[u]
    /\ TokenBudget
    /\ epoch[u] < MaxRevokes
    /\ req' = [req EXCEPT ![r] = Serving("rotate", u, 0, epoch[u])]
    /\ UNCHANGED <<account, tok, table, now, history>>

\* RotateMasterPassword fails if the account has gone meanwhile.
RecoveryRotate(r) ==
    /\ req[r].pc = "rotate"
    /\ \/ account[req[r].user] /\ GoTo(r, "revoke")
       \/ ~account[req[r].user] /\ Respond(r)
       \/ StoreError /\ Respond(r)
    /\ UNCHANGED <<account, tok, table, now, history>>

\* An error of the delete is logged only: the recovery goes on.
RecoveryRevoke(r) ==
    LET u == req[r].user
    IN /\ req[r].pc = "revoke"
       /\ \/ /\ DeleteRefreshTokensForUser(u, "recovery")
             /\ req' = [req EXCEPT ![r] =
                           [pc |-> "issue", user |-> u, token |-> 0,
                            seen |-> epoch[u] + 1, root |-> epoch[u] + 1]]
          \/ /\ StoreError
             /\ GoTo(r, "issue")
             /\ UNCHANGED <<table, history>>
       /\ UNCHANGED <<account, tok, now>>

-----------------------------------------------------------------------------
(***************************************************************************)
(* handleLogoutAll and handleDeleteAccount, both behind requireAuth.       *)
(***************************************************************************)
LogoutAllAccept(r, u) ==
    /\ req[r].pc = "idle"
    /\ Authenticated(u)
    /\ epoch[u] < MaxRevokes
    /\ req' = [req EXCEPT ![r] = Serving("logout", u, 0, epoch[u])]
    /\ UNCHANGED <<account, tok, table, now, history>>

LogoutAll(r) ==
    /\ req[r].pc = "logout"
    /\ \/ DeleteRefreshTokensForUser(req[r].user, "logout")
       \/ StoreError /\ UNCHANGED <<table, history>>
    /\ Respond(r)
    /\ UNCHANGED <<account, tok, now>>

DeleteAccountAccept(r, u) ==
    /\ req[r].pc = "idle"
    /\ Authenticated(u)
    /\ req' = [req EXCEPT ![r] = Serving("erase", u, 0, epoch[u])]
    /\ UNCHANGED <<account, tok, table, now, history>>

\* One transaction: the account and all its rows, or (already gone, or an
\* error) nothing at all.
DeleteAccount(r) ==
    LET u == req[r].user
    IN /\ req[r].pc = "erase"
       /\ \/ /\ account[u]
             /\ account' = [account EXCEPT ![u] = FALSE]
             /\ DeleteRefreshTokensForUser(u, "erase")
          \/ /\ ~account[u]
             /\ UNCHANGED <<account, table, history>>
          \/ /\ StoreError
             /\ UNCHANGED <<account, table, history>>
       /\ Respond(r)
       /\ UNCHANGED <<tok, now>>

-----------------------------------------------------------------------------
\* Time passes.
Tick ==
    /\ now < MaxTime
    /\ now' = now + 1
    /\ UNCHANGED <<account, tok, table, req, history>>

\* The process stops and is started again: the database keeps its tables,
\* the requests being served are lost where they stand.
Crash ==
    /\ MayCrash
    /\ req' = [r \in Reqs |-> Idle]
    /\ UNCHANGED <<account, tok, table, now, history>>

\* The steps of a handler that has been started.
Serve(r) ==
    \/ IssueTokens(r)
    \/ RefreshPurge(r)
    \/ RefreshReuse(r)
    \/ RefreshMark(r)
    \/ RecoveryRotate(r)
    \/ RecoveryRevoke(r)
    \/ LogoutAll(r)
    \/ DeleteAccount(r)

\* A client sends a request.
Arrive(r) ==
    \/ \E t \in DOMAIN tok : RefreshLookup(r, t)
    \/ \E u \in Users : \/ Login(r, u)
                        \/ RecoveryLookup(r, u)
                        \/ LogoutAllAccept(r, u)
                        \/ DeleteAccountAccept(r, u)

Next ==
    \/ \E r \in Reqs : Serve(r) \/ Arrive(r)
    \/ Tick
    \/ Crash

Spec == Init /\ [][Next]_vars

\* A handler that has been started runs on: the Go scheduler starves no
\* goroutine.  Nothing is assumed of the clients or of the clock.
FairSpec == Spec /\ \A r \in Reqs : WF_vars(Serve(r))

-----------------------------------------------------------------------------
(***************************************************************************)
(* Properties.                                                             *)
(***************************************************************************)
\* The variables have their types; a row is a minted token, and only rows
\* are marked used.
TypeOK ==
    /\ account \in [Users -> BOOLEAN]
    /\ tok \in Seq(Token)
    /\ rows \subseteq DOMAIN tok
    /\ used \subseteq rows
    /\ now \in Nat
    /\ req \in [Reqs -> Request]
    /\ epoch \in [Users -> Nat]
    /\ revoked \in [Users -> Revocation]
    /\ lostMarks \subseteq DOMAIN tok

\* handleRefresh rotates: once a token has a successor it can never be
\* rotated again, because its row is gone or marked used, whatever else ran
\* between the handler's lookup, its mark and its issue.  The one way out is
\* an ignored error of MarkRefreshTokenUsed.
RotationLineage ==
    \A t \in DOMAIN tok :
        LET p == tok[t].parent
        IN p # 0 => p \notin rows \/ p \in used \/ p \in lostMarks

\* A revocation (logout everywhere, recovery, reuse detection, account
\* deletion) is complete: a row of a family whose credentials were checked
\* before the user's last revocation can only come from a request that was
\* between its lookup and its issue when a revocation hit.
RevocationComplete ==
    \A t \in rows :
        tok[t].root = epoch[tok[t].user] \/ tok[t].straddled

\* Access tokens cannot be revoked, but they lapse: AccessTTL after a
\* revocation no access token of a revoked family is valid, unless it was
\* minted by such a straddling request or descends from one.
AccessLapses ==
    \A t \in DOMAIN tok :
        LET u == tok[t].user
        IN tok[t].root < epoch[u] /\ ~tok[t].straddled
               => tok[t].access <= revoked[u].at + AccessTTL

\* handleListSessions and handleRefresh agree on what a session is: what the
\* user is shown can be refreshed, and what can be refreshed is shown, save
\* for a token in its last instant (the list wants expires > now, the
\* refresh only refuses now > expires).
ListMatchesRefresh ==
    \A u \in Users :
        LET refreshable == {t \in RowsOf(u) : RefreshBranch(t) = "mark"}
        IN /\ ListRefreshTokensForUser(u) \subseteq refreshable
           /\ \A t \in refreshable \ ListRefreshTokensForUser(u) :
                 tok[t].expires = now

\* The tokens rotated directly from token p.
Successors(p) == {t \in DOMAIN tok : tok[t].parent = p}

\* Concurrent refreshes of one token can fork the session (the lookup and
\* the mark are two store calls), but never into more sessions than there
\* were requests being served at the same time.
ForksBounded ==
    \A p \in DOMAIN tok \ lostMarks :
        Cardinality(Successors(p)) <= Cardinality(Reqs)

\* A row that has been deleted does not come back, and a stored token that
\* was rotated does not become fresh again: not through a late mark, a late
\* purge or a handler that was in flight.
NoResurrection ==
    [][\A t \in DOMAIN tok : /\ t \notin rows => t \notin rows'
                             /\ t \in used => t \in used' \/ t \notin rows'
      ]_vars

\* A session ends for a cause of its own: a row leaves the table only in a
\* step that revokes its user's sessions, or when it has expired.  Nothing
\* another user does, and no rotation, deletes it.
RowsLeaveForCause ==
    [][\A t \in rows \ rows' :
           \/ epoch'[tok[t].user] = epoch[tok[t].user] + 1
           \/ tok[t].expires < now
      ]_vars

\* Reuse detection acts: once a handler has seen a used token presented,
\* every row its user has at that moment is eventually deleted.
ReuseEndsFamily ==
    \A r \in Reqs : \A t \in 1..MaxTokens :
        (req[r].pc = "reuse" /\ t \in RowsOf(req[r].user)) ~> (t \notin rows)

-----------------------------------------------------------------------------
(***************************************************************************)
(* What the repository says of this code and the code does not guarantee   *)
(* (refuted by a run of its own).                                          *)
(***************************************************************************)
\* handleRefresh: "Presenting an already-used token means it was replayed":
\* so a token should be exchanged for at most one successor.
SingleSuccessor ==
    \A p \in DOMAIN tok : Cardinality(Successors(p)) <= 1
=============================================================================
