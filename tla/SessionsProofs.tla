--------------------------- MODULE SessionsProofs ---------------------------
(***************************************************************************)
(* Proofs about Sessions, for every set of users and of request slots and  *)
(* every value of the bounds.                                              *)
(***************************************************************************)
EXTENDS Sessions, SequenceTheorems, FiniteSetTheorems, TLAPS

-----------------------------------------------------------------------------
(***************************************************************************)
(* The inductive invariant.                                                *)
(***************************************************************************)
\* What a handler in flight holds: a user, the minted token it was given
\* (always one for handleRefresh, an expired one if it is to be purged), and
\* a view of the epoch that can only be behind.
RequestsSound ==
    \A r \in Reqs :
        LET q == req[r]
        IN q.pc # "idle" =>
             /\ q.user \in Users
             /\ q.seen <= epoch[q.user]
             /\ q.token # 0 => /\ q.token \in DOMAIN tok
                               /\ tok[q.token].user = q.user
             /\ q.pc \in {"purge", "reuse", "mark"} => q.token # 0
             /\ q.pc \in {"rotate", "revoke"} => q.token = 0
             /\ q.pc = "purge" => tok[q.token].expires < now

\* A token's family is never ahead of its user's epoch, its parent was
\* minted, and its access token lapses within AccessTTL from now.
TokensSound ==
    \A t \in DOMAIN tok :
        /\ tok[t].parent # 0 => tok[t].parent \in DOMAIN tok
        /\ tok[t].root <= epoch[tok[t].user]
        /\ tok[t].access <= now + AccessTTL

\* A refresh that is about to issue has retired the token it was given.
MarkedBeforeIssue ==
    \A r \in Reqs :
        LET q == req[r]
        IN q.pc = "issue" /\ q.token # 0
             => q.token \notin rows \/ q.token \in used \/ q.token \in lostMarks

\* A handler that has seen the user's current epoch works on a family of
\* that epoch, or on one that straddled a revocation.
FreshView ==
    \A r \in Reqs :
        LET q == req[r]
        IN q.pc # "idle" =>
             /\ q.root <= epoch[q.user]
             /\ q.seen = epoch[q.user] =>
                  \/ q.root = epoch[q.user]
                  \/ q.token # 0 /\ tok[q.token].straddled

\* Revocations lie in the past.
RevokedInPast == \A u \in Users : revoked[u].at <= now

IInv ==
    /\ TypeOK
    /\ RequestsSound
    /\ TokensSound
    /\ MarkedBeforeIssue
    /\ RotationLineage
    /\ FreshView
    /\ RevocationComplete
    /\ RevokedInPast
    /\ AccessLapses

-----------------------------------------------------------------------------
(***************************************************************************)
(* Lemmas.                                                                 *)
(***************************************************************************)
\* Minting appends: the tokens there were keep their records.
LEMMA AppendToken ==
    ASSUME NEW s \in Seq(Token), NEW e \in Token
    PROVE  /\ Append(s, e) \in Seq(Token)
           /\ DOMAIN s = 1..Len(s)
           /\ DOMAIN Append(s, e) = 1..(Len(s) + 1)
           /\ Len(s) \in Nat
           /\ \A i \in DOMAIN s : Append(s, e)[i] = s[i] /\ s[i] \in Token
           /\ Append(s, e)[Len(s) + 1] = e
  OBVIOUS

\* A minted token has a record with the types of Token.
LEMMA TokenFields ==
    ASSUME TypeOK, NEW t \in DOMAIN tok
    PROVE  /\ t \in Nat \ {0}
           /\ tok[t].user \in Users
           /\ tok[t].parent \in Nat
           /\ tok[t].root \in Nat
           /\ tok[t].access \in Nat
           /\ tok[t].expires \in Nat
           /\ tok[t].straddled \in BOOLEAN
  <1>1. tok[t] \in Token /\ t \in 1..Len(tok) /\ Len(tok) \in Nat
    BY DEF TypeOK
  <1>2. QED
    BY <1>1 DEF Token

\* The record minted for a request in flight is a token.
LEMMA NewTokenType ==
    ASSUME TypeOK, RequestsSound, NEW r \in Reqs, req[r].pc # "idle"
    PROVE  /\ NewToken(r) \in Token
           /\ NewToken(r).user = req[r].user
           /\ NewToken(r).parent = req[r].token
           /\ NewToken(r).root = req[r].root
           /\ NewToken(r).access = now + AccessTTL
           /\ req[r].seen # epoch[req[r].user] => NewToken(r).straddled
           /\ req[r].token # 0 /\ tok[req[r].token].straddled
                => NewToken(r).straddled
  <1>1. req[r] \in Request /\ req[r].user \in Users
    BY DEF TypeOK, RequestsSound
  <1>2. QED
    BY <1>1, SessionsAssumption DEF TypeOK, NewToken, Token, Request

-----------------------------------------------------------------------------
(***************************************************************************)
(* Induction: the initial state, then one lemma per kind of step.          *)
(***************************************************************************)
LEMMA InitIInv == Init => IInv
  BY SessionsAssumption
  DEF Init, IInv, TypeOK, RequestsSound, TokensSound, MarkedBeforeIssue,
      RotationLineage, FreshView, RevocationComplete, RevokedInPast,
      AccessLapses, Request, Idle, PC, Revocation

\* A request arrives: only its slot changes, and what it reads is current.
LEMMA ArriveIInv ==
    ASSUME IInv, NEW r \in Reqs, Arrive(r)
    PROVE  IInv'
  <1> USE DEF IInv
  <1> DEFINE q == req'[r]
  <1>1. UNCHANGED <<account, tok, rows, used, now, epoch,
                    revoked, lostMarks>>
    BY DEF Arrive, Login, RefreshLookup, RecoveryLookup, LogoutAllAccept,
           DeleteAccountAccept, table, history
  <1>2. PICK pc \in PC \ {"idle"}, u \in Users, t \in Nat, root \in Nat :
          /\ req' = [req EXCEPT ![r] = Serving(pc, u, t, root)]
          /\ pc \in {"purge", "reuse", "mark"} => t # 0
          /\ pc \in {"rotate", "revoke"} => t = 0
          /\ pc = "purge" => tok[t].expires < now
          /\ t # 0 => t \in rows /\ tok[t].user = u /\ root = tok[t].root
          /\ t = 0 => root = epoch[u]
          /\ pc = "issue" => t = 0
    <2>1. CASE \E t \in DOMAIN tok : RefreshLookup(r, t)
      <3>1. PICK t \in DOMAIN tok : RefreshLookup(r, t)
        BY <2>1
      <3>2. RefreshBranch(t) \in {"purge", "reuse", "mark"}
        BY DEF RefreshBranch
      <3>3. RefreshBranch(t) = "purge" => tok[t].expires < now
        BY TokenFields DEF RefreshBranch, TypeOK
      <3>4. t \in Nat \ {0} /\ tok[t].user \in Users /\ tok[t].root \in Nat
        BY TokenFields
      <3>5. /\ RefreshBranch(t) \in PC \ {"idle"}
            /\ RefreshBranch(t) \notin {"issue", "rotate", "revoke"}
        BY <3>2 DEF PC
      <3>6. /\ req' = [req EXCEPT ![r] = Serving(RefreshBranch(t),
                                           tok[t].user, t, tok[t].root)]
            /\ t \in rows
        BY <3>1 DEF RefreshLookup
      <3>7. QED
        BY <3>2, <3>3, <3>4, <3>5, <3>6
    <2>2. CASE \E u \in Users : \/ Login(r, u) \/ RecoveryLookup(r, u)
                                \/ LogoutAllAccept(r, u)
                                \/ DeleteAccountAccept(r, u)
      <3>1. PICK u \in Users : \/ Login(r, u) \/ RecoveryLookup(r, u)
                               \/ LogoutAllAccept(r, u)
                               \/ DeleteAccountAccept(r, u)
        BY <2>2
      <3>2. epoch[u] \in Nat
        BY DEF TypeOK
      <3>3. QED
        BY <3>1, <3>2 DEF Login, RecoveryLookup, LogoutAllAccept,
                          DeleteAccountAccept, PC
    <2>3. QED
      BY <2>1, <2>2 DEF Arrive
  <1>3. Serving(pc, u, t, root) \in Request
    BY DEF Serving, Request, TypeOK
  <1>4. TypeOK'
    BY <1>1, <1>2, <1>3 DEF TypeOK
  <1>5. RequestsSound'
    BY <1>1, <1>2 DEF RequestsSound, Serving, TypeOK
  <1>6. MarkedBeforeIssue'
    BY <1>1, <1>2 DEF MarkedBeforeIssue, Serving, TypeOK
  <1>7. FreshView'
    BY <1>1, <1>2, TokenFields
    DEF FreshView, Serving, TypeOK, RevocationComplete, TokensSound
  <1>8. (TokensSound /\ RotationLineage /\ RevocationComplete
           /\ RevokedInPast /\ AccessLapses)'
    BY <1>1 DEF TokensSound, RotationLineage, RevocationComplete,
                RevokedInPast, AccessLapses
  <1>9. QED
    BY <1>4, <1>5, <1>6, <1>7, <1>8

\* issueTokens: a new token, retired parent, and a family that is current or
\* known to straddle a revocation; or a failed insert and no token.
LEMMA IssueTokensIInv ==
    ASSUME IInv, NEW r \in Reqs, IssueTokens(r)
    PROVE  IInv'
  <1> USE DEF IInv
  <1> DEFINE n == Len(tok) + 1
  <1>1. /\ UNCHANGED <<account, used, now, epoch, revoked, lostMarks>>
        /\ req' = [req EXCEPT ![r] = Idle]
        /\ req[r].pc = "issue"
    BY DEF IssueTokens, Respond, table, history
  <1>2. /\ \/ tok' = Append(tok, NewToken(r)) /\ rows' = rows \cup {n}
           \/ tok' = tok /\ rows' = rows
    BY DEF IssueTokens, table, TypeOK
  <1>3. /\ NewToken(r) \in Token
        /\ NewToken(r).user = req[r].user
        /\ NewToken(r).parent = req[r].token
        /\ NewToken(r).root = req[r].root
        /\ NewToken(r).access = now + AccessTTL
        /\ NewToken(r).root = epoch[NewToken(r).user] \/ NewToken(r).straddled
    <2>1. /\ req[r].user \in Users
          /\ req[r].seen = epoch[req[r].user] =>
               \/ req[r].root = epoch[req[r].user]
               \/ req[r].token # 0 /\ tok[req[r].token].straddled
      BY <1>1 DEF FreshView, RequestsSound
    <2>2. QED
      BY <1>1, <2>1, NewTokenType
  <1>4. /\ DOMAIN tok \subseteq DOMAIN tok'
        /\ \A t \in DOMAIN tok : tok'[t] = tok[t]
        /\ n \notin DOMAIN tok
        /\ \A t \in DOMAIN tok' \ DOMAIN tok :
             t = n /\ tok'[t] = NewToken(r)
        /\ tok' \in Seq(Token)
        /\ rows' \subseteq DOMAIN tok'
        /\ \A t \in rows' \ rows : t = n /\ tok'[t] = NewToken(r)
        /\ rows \subseteq rows'
        /\ rows' \subseteq rows \cup {n}
    <2>1. CASE tok' = tok /\ rows' = rows
      BY <2>1 DEF TypeOK
    <2>2. CASE tok' = Append(tok, NewToken(r)) /\ rows' = rows \cup {n}
      <3>1. /\ tok' \in Seq(Token)
            /\ DOMAIN tok = 1..Len(tok)
            /\ DOMAIN tok' = 1..(Len(tok) + 1)
            /\ Len(tok) \in Nat
            /\ \A t \in DOMAIN tok : tok'[t] = tok[t]
            /\ tok'[n] = NewToken(r)
        BY <2>2, <1>3, AppendToken DEF TypeOK
      <3>2. rows \subseteq 1..Len(tok)
        BY <3>1 DEF TypeOK
      <3>3. n = Len(tok) + 1 /\ DOMAIN tok' = DOMAIN tok \cup {n}
        BY <3>1
      <3>4. rows' \subseteq DOMAIN tok'
        BY <2>2, <3>2, <3>3, <3>1
      <3>5. DOMAIN tok \subseteq DOMAIN tok'
        BY <3>3
      <3>6. QED
        BY <2>2, <3>1, <3>3, <3>4, <3>5
    <2>3. QED
      BY <1>2, <2>1, <2>2
  <1>5. Idle \in Request /\ Idle.pc = "idle"
    BY DEF Idle, Request, PC
  <1>6. TypeOK'
    BY <1>1, <1>2, <1>4, <1>5 DEF TypeOK
  <1>7. RequestsSound'
    BY <1>1, <1>4, <1>5 DEF RequestsSound, TypeOK
  <1>8. TokensSound'
    <2>1. req[r].root <= epoch[req[r].user] /\ req[r] \in Request
      BY <1>1 DEF FreshView, TypeOK
    <2>2. req[r].token # 0 => req[r].token \in DOMAIN tok
      BY <1>1 DEF RequestsSound
    <2>3. now + AccessTTL \in Nat
      BY SessionsAssumption DEF TypeOK
    <2>4. ASSUME NEW t \in DOMAIN tok'
          PROVE  /\ tok'[t].parent # 0 => tok'[t].parent \in DOMAIN tok'
                 /\ tok'[t].root <= epoch[tok'[t].user]
                 /\ tok'[t].access <= now + AccessTTL
      <3>1. CASE t \in DOMAIN tok
        BY <3>1, <1>4 DEF TokensSound
      <3>2. CASE t \notin DOMAIN tok
        BY <3>2, <1>3, <1>4, <2>1, <2>2, <2>3
      <3>3. QED
        BY <3>1, <3>2
    <2>5. QED
      BY <1>1, <2>4 DEF TokensSound
  <1>9. MarkedBeforeIssue'
    BY <1>1, <1>4, <1>5 DEF MarkedBeforeIssue, RequestsSound, TypeOK
  <1>10. RotationLineage'
    BY <1>1, <1>3, <1>4
    DEF RotationLineage, MarkedBeforeIssue, RequestsSound, TokensSound, TypeOK
  <1>11. FreshView'
    BY <1>1, <1>4, <1>5 DEF FreshView, RequestsSound, TypeOK
  <1>12. RevocationComplete'
    BY <1>1, <1>3, <1>4 DEF RevocationComplete, TypeOK
  <1>13. RevokedInPast'
    BY <1>1 DEF RevokedInPast
  <1>14. AccessLapses'
    <2>1. \A t \in DOMAIN tok' \ DOMAIN tok :
            tok'[t].root = epoch[tok'[t].user] \/ tok'[t].straddled
      BY <1>3, <1>4
    <2>2. epoch[NewToken(r).user] \in Nat
      BY <1>3 DEF TypeOK, Token
    <2>3. QED
      BY <1>1, <1>3, <1>4, <2>1, <2>2 DEF AccessLapses
  <1>15. QED
    BY <1>6, <1>7, <1>8, <1>9, <1>10, <1>11, <1>12, <1>13, <1>14

\* All rows of u are deleted while slot r ends, or moves on to issue tokens
\* with a view of the new epoch.
LEMMA RevokeIInv ==
    ASSUME IInv, NEW r \in Reqs, NEW u \in Users,
           NEW by \in {"reuse", "recovery", "logout", "erase"},
           DeleteRefreshTokensForUser(u, by),
           UNCHANGED <<tok, now>>,
           account' \in [Users -> BOOLEAN],
           NEW q \in Request, req' = [req EXCEPT ![r] = q],
           \/ q.pc = "idle"
           \/ /\ q.user = u /\ q.token = 0 /\ q.pc = "issue"
              /\ q.seen = epoch[u] + 1 /\ q.root = epoch[u] + 1
    PROVE  IInv'
  <1> USE DEF IInv
  <1>1. /\ rows' = rows \ RowsOf(u)
        /\ used' = used \ RowsOf(u)
        /\ epoch' = [epoch EXCEPT ![u] = @ + 1]
        /\ revoked' = [revoked EXCEPT ![u] = [at |-> now, by |-> by]]
        /\ lostMarks' = lostMarks
    BY DEF DeleteRefreshTokensForUser, DeleteRowsOf
  <1>2. \A t \in rows' : t \in rows /\ tok[t].user # u
    BY <1>1 DEF RowsOf
  <1>3. TypeOK'
    BY <1>1 DEF TypeOK, Revocation
  <1>4. RequestsSound'
    BY <1>1 DEF RequestsSound, TypeOK, Request
  <1>5. TokensSound'
    BY <1>1, TokenFields DEF TokensSound, TypeOK
  <1>6. MarkedBeforeIssue'
    BY <1>1 DEF MarkedBeforeIssue, TypeOK
  <1>7. RotationLineage'
    BY <1>1 DEF RotationLineage
  <1>8. FreshView'
    BY <1>1 DEF FreshView, RequestsSound, TypeOK, Request
  <1>9. RevocationComplete'
    BY <1>1, <1>2, TokenFields DEF RevocationComplete, TypeOK
  <1>10. RevokedInPast'
    BY <1>1 DEF RevokedInPast, TypeOK
  <1>11. AccessLapses'
    BY <1>1, TokenFields DEF AccessLapses, TokensSound, TypeOK, Revocation
  <1>12. QED
    BY <1>3, <1>4, <1>5, <1>6, <1>7, <1>8, <1>9, <1>10, <1>11

\* The store call of slot r leaves the rows alone (it failed, or it is not
\* about this table) and the slot ends or keeps what it holds.
LEMMA QuietIInv ==
    ASSUME IInv, NEW r \in Reqs,
           UNCHANGED <<tok, rows, used, now, epoch, revoked, lostMarks>>,
           account' \in [Users -> BOOLEAN],
           NEW q \in Request, req' = [req EXCEPT ![r] = q],
           \/ q.pc = "idle"
           \/ /\ q = [req[r] EXCEPT !.pc = q.pc]
              /\ req[r].pc \in {"rotate", "revoke"}
              /\ q.pc \in {"revoke", "issue"}
    PROVE  IInv'
  <1> USE DEF IInv
  <1>1. TypeOK'
    BY DEF TypeOK
  <1>a. \A s \in Reqs : s # r => req'[s] = req[s]
    BY DEF TypeOK
  <1>b. req'[r] = q /\ req[r] \in Request
    BY DEF TypeOK
  <1>c. q.pc # "idle" => /\ q.user = req[r].user
                         /\ q.seen = req[r].seen
                         /\ q.token = req[r].token
                         /\ q.root = req[r].root
                         /\ q.token = 0
                         /\ req[r].pc # "idle"
    BY <1>b DEF RequestsSound, Request
  <1>d. RequestsSound'
    BY <1>a, <1>b, <1>c DEF RequestsSound
  <1>e. FreshView'
    BY <1>a, <1>b, <1>c DEF FreshView
  <1>2. RequestsSound' /\ FreshView'
    BY <1>d, <1>e
  <1>3. MarkedBeforeIssue'
    BY DEF MarkedBeforeIssue, RequestsSound, TypeOK, Request
  <1>4. (TokensSound /\ RotationLineage /\ RevocationComplete
           /\ RevokedInPast /\ AccessLapses)'
    BY DEF TokensSound, RotationLineage, RevocationComplete,
           RevokedInPast, AccessLapses
  <1>5. QED
    BY <1>1, <1>2, <1>3, <1>4

\* Every step of a handler in flight.
LEMMA ServeIInv ==
    ASSUME IInv, NEW r \in Reqs, Serve(r)
    PROVE  IInv'
  <1> USE DEF IInv
  <1> DEFINE u == req[r].user
  <1>1. Idle \in Request /\ Idle.pc = "idle"
    BY DEF Idle, Request, PC
  <1>2. /\ account \in [Users -> BOOLEAN]
        /\ req[r] \in Request
    BY DEF TypeOK
  <1>3. req[r].pc # "idle" => u \in Users
    BY DEF RequestsSound
  <1>4. CASE IssueTokens(r)
    BY <1>4, IssueTokensIInv
  <1>5. CASE RefreshPurge(r)
    <2>1. /\ UNCHANGED <<account, tok, now, epoch, revoked, lostMarks>>
          /\ req' = [req EXCEPT ![r] = Idle]
          /\ rows' \subseteq rows
          /\ \A t \in rows' : t \in used <=> t \in used'
          /\ used' \subseteq rows'
      BY <1>2, <1>5 DEF RefreshPurge, DeleteRefreshToken, Respond,
                             table, history, TypeOK
    <2>2. TypeOK'
      BY <1>1, <2>1 DEF TypeOK
    <2>3. RequestsSound' /\ FreshView'
      BY <1>1, <2>1 DEF RequestsSound, FreshView, TypeOK
    <2>4. MarkedBeforeIssue' /\ RotationLineage'
      BY <1>1, <2>1 DEF MarkedBeforeIssue, RotationLineage, TypeOK
    <2>5. (TokensSound /\ RevocationComplete /\ RevokedInPast /\ AccessLapses)'
      BY <2>1 DEF TokensSound, RevocationComplete, RevokedInPast, AccessLapses
    <2>6. QED
      BY <2>2, <2>3, <2>4, <2>5
  <1>6. CASE RefreshReuse(r)
    <2>1. /\ UNCHANGED <<account, tok, now>>
          /\ req' = [req EXCEPT ![r] = Idle]
          /\ u \in Users
      BY <1>3, <1>6 DEF RefreshReuse, Respond
    <2>2. CASE DeleteRefreshTokensForUser(u, "reuse")
      BY <1>1, <1>2, <2>1, <2>2, RevokeIInv
    <2>3. CASE UNCHANGED <<table, history>>
      BY <1>1, <1>2, <2>1, <2>3, QuietIInv DEF table, history
    <2>4. QED
      BY <1>6, <2>2, <2>3 DEF RefreshReuse
  <1>7. CASE RefreshMark(r)
    <2>1. /\ UNCHANGED <<account, tok, rows, now, epoch, revoked>>
          /\ req' = [req EXCEPT ![r].pc = "issue"]
          /\ req[r].pc = "mark"
          /\ used \subseteq used' /\ used' \subseteq rows
          /\ lostMarks \subseteq lostMarks'
          /\ lostMarks' \subseteq lostMarks \cup {req[r].token}
          /\ \/ req[r].token \notin rows
             \/ req[r].token \in used'
             \/ req[r].token \in lostMarks'
      BY <1>2, <1>7 DEF RefreshMark, MarkRefreshTokenUsed, GoTo,
                        table, TypeOK
    <2>2. req[r].token \in DOMAIN tok
      BY <2>1 DEF RequestsSound
    <2>3. req' \in [Reqs -> Request]
      BY <2>1 DEF TypeOK, Request, PC
    <2>4. TypeOK'
      BY <2>1, <2>2, <2>3 DEF TypeOK
    <2>5. RequestsSound' /\ FreshView'
      BY <2>1 DEF RequestsSound, FreshView, TypeOK, Request
    <2>6. MarkedBeforeIssue' /\ RotationLineage'
      BY <2>1 DEF MarkedBeforeIssue, RotationLineage, TypeOK, Request
    <2>7. (TokensSound /\ RevocationComplete /\ RevokedInPast /\ AccessLapses)'
      BY <2>1 DEF TokensSound, RevocationComplete, RevokedInPast, AccessLapses
    <2>8. QED
      BY <2>4, <2>5, <2>6, <2>7
  <1>8. CASE RecoveryRotate(r)
    <2>1. /\ UNCHANGED <<account, tok, rows, used, now, epoch,
                         revoked, lostMarks>>
          /\ \/ req' = [req EXCEPT ![r] = Idle]
             \/ req' = [req EXCEPT ![r] = [req[r] EXCEPT !.pc = "revoke"]]
          /\ req[r].pc = "rotate"
      BY <1>2, <1>8 DEF RecoveryRotate, GoTo, Respond, table, history, TypeOK
    <2>2. [req[r] EXCEPT !.pc = "revoke"] \in Request
      BY <1>2 DEF Request, PC
    <2>3. [req[r] EXCEPT !.pc = "revoke"].pc = "revoke"
      BY <1>2 DEF Request
    <2>4. CASE req' = [req EXCEPT ![r] = Idle]
      BY <1>1, <1>2, <2>1, <2>4, QuietIInv
    <2>5. CASE req' = [req EXCEPT ![r] = [req[r] EXCEPT !.pc = "revoke"]]
      BY <1>2, <2>1, <2>2, <2>3, <2>5, QuietIInv
    <2>6. QED
      BY <2>1, <2>4, <2>5
  <1>9. CASE RecoveryRevoke(r)
    <2> DEFINE q1 == [pc |-> "issue", user |-> u, token |-> 0,
                      seen |-> epoch[u] + 1, root |-> epoch[u] + 1]
               q2 == [req[r] EXCEPT !.pc = "issue"]
    <2>1. /\ UNCHANGED <<account, tok, now>>
          /\ req[r].pc = "revoke"
          /\ u \in Users
          /\ req[r].token = 0
          /\ epoch[u] \in Nat
      BY <1>3, <1>9 DEF RecoveryRevoke, RequestsSound, TypeOK
    <2>2. /\ q1 \in Request /\ q1.user = u /\ q1.token = 0 /\ q1.pc = "issue"
          /\ q1.seen = epoch[u] + 1 /\ q1.root = epoch[u] + 1
      BY <1>2, <2>1 DEF Request, PC
    <2>3. q2 \in Request /\ q2.pc = "issue"
      BY <1>2 DEF Request, PC
    <2>4. CASE /\ DeleteRefreshTokensForUser(u, "recovery")
               /\ req' = [req EXCEPT ![r] = q1]
      BY <1>2, <2>1, <2>2, <2>4, RevokeIInv
    <2>5. CASE /\ req' = [req EXCEPT ![r] = q2]
               /\ UNCHANGED <<table, history>>
      BY <1>2, <2>1, <2>3, <2>5, QuietIInv DEF table, history
    <2>6. QED
      BY <1>2, <1>9, <2>1, <2>4, <2>5 DEF RecoveryRevoke, GoTo, TypeOK
  <1>10. CASE LogoutAll(r)
    <2>1. /\ UNCHANGED <<account, tok, now>>
          /\ req' = [req EXCEPT ![r] = Idle]
          /\ u \in Users
      BY <1>3, <1>10 DEF LogoutAll, Respond
    <2>2. CASE DeleteRefreshTokensForUser(u, "logout")
      BY <1>1, <1>2, <2>1, <2>2, RevokeIInv
    <2>3. CASE UNCHANGED <<table, history>>
      BY <1>1, <1>2, <2>1, <2>3, QuietIInv DEF table, history
    <2>4. QED
      BY <1>10, <2>2, <2>3 DEF LogoutAll
  <1>11. CASE DeleteAccount(r)
    <2>1. /\ UNCHANGED <<tok, now>>
          /\ req' = [req EXCEPT ![r] = Idle]
          /\ u \in Users
      BY <1>3, <1>11 DEF DeleteAccount, Respond
    <2>2. CASE /\ account' = [account EXCEPT ![u] = FALSE]
               /\ DeleteRefreshTokensForUser(u, "erase")
      <3>1. account' \in [Users -> BOOLEAN]
        BY <1>2, <2>2
      <3>2. QED
        BY <1>1, <1>2, <2>1, <2>2, <3>1, RevokeIInv
    <2>3. CASE UNCHANGED <<account, table, history>>
      BY <1>1, <1>2, <2>1, <2>3, QuietIInv DEF table, history
    <2>4. QED
      BY <1>2, <1>11, <2>2, <2>3 DEF DeleteAccount
  <1>12. QED
    BY <1>4, <1>5, <1>6, <1>7, <1>8, <1>9, <1>10, <1>11 DEF Serve

\* Every step of the system preserves the invariant.
LEMMA NextIInv == IInv /\ [Next]_vars => IInv'
  <1> SUFFICES ASSUME IInv, [Next]_vars
               PROVE  IInv'
    OBVIOUS
  <1>1. CASE \E r \in Reqs : Serve(r) \/ Arrive(r)
    BY <1>1, ServeIInv, ArriveIInv
  <1>2. CASE Tick
    <2>1. /\ now \in Nat /\ now' = now + 1
          /\ UNCHANGED <<account, tok, rows, used, req,
                         epoch, revoked, lostMarks>>
      BY <1>2 DEF Tick, table, history, IInv, TypeOK
    <2>2. \A t \in DOMAIN tok : tok[t].access \in Nat /\ tok[t].expires \in Nat
      BY TokenFields DEF IInv
    <2>3. \A v \in Users : revoked[v].at \in Nat
      BY DEF IInv, TypeOK, Revocation
    <2>4. TypeOK' /\ TokensSound' /\ RevokedInPast'
      BY <2>1, <2>2, <2>3, SessionsAssumption
      DEF IInv, TypeOK, TokensSound, RevokedInPast
    <2>5. RequestsSound'
      BY <2>1, <2>2 DEF IInv, RequestsSound
    <2>6. QED
      BY <2>1, <2>4, <2>5 DEF IInv, MarkedBeforeIssue, RotationLineage,
                        FreshView, RevocationComplete, AccessLapses
  <1>3. CASE Crash
    <2>1. /\ req' = [r \in Reqs |-> Idle]
          /\ UNCHANGED <<account, tok, rows, used, now, epoch, revoked,
                         lostMarks>>
      BY <1>3 DEF Crash, table, history, IInv, TypeOK
    <2>2. Idle \in Request /\ Idle.pc = "idle"
      BY DEF Idle, Request, PC
    <2>3. QED
      BY <2>1, <2>2
      DEF IInv, TypeOK, TokensSound, RevokedInPast, RequestsSound,
          MarkedBeforeIssue, RotationLineage, FreshView, RevocationComplete,
          AccessLapses
  <1>4. CASE UNCHANGED vars
    BY <1>4 DEF vars, IInv, TypeOK, TokensSound, RevokedInPast, RequestsSound,
          MarkedBeforeIssue, RotationLineage, FreshView, RevocationComplete,
          AccessLapses
  <1>5. QED
    BY <1>1, <1>2, <1>3, <1>4 DEF Next

LEMMA SpecIInv == Spec => []IInv
  BY InitIInv, NextIInv, PTL DEF Spec

-----------------------------------------------------------------------------
(***************************************************************************)
(* Theorems.                                                               *)
(***************************************************************************)
\* The variables keep their types; rows are minted tokens.
THEOREM TypeCorrect == Spec => []TypeOK
  BY SpecIInv, PTL DEF IInv

\* A token that has been rotated can never be rotated again, however the
\* requests interleave and wherever the server stops, unless the store lost
\* its mark.
THEOREM RotationLineageHolds == Spec => []RotationLineage
  BY SpecIInv, PTL DEF IInv

\* Sessions of before the last revocation survive it only through a request
\* that was in flight when it happened.
THEOREM RevocationCompleteHolds == Spec => []RevocationComplete
  BY SpecIInv, PTL DEF IInv

\* The access tokens of a revoked family lapse within AccessTTL.
THEOREM AccessLapsesHolds == Spec => []AccessLapses
  BY SpecIInv, PTL DEF IInv

\* What one step does to the rows: only a fresh token is added, a mark stays
\* until its row goes, and rows go with a revocation of their user or after
\* they have expired.
LEMMA StepRows ==
    ASSUME IInv, Next
    PROVE  /\ \A t \in DOMAIN tok : /\ t \notin rows => t \notin rows'
                                    /\ t \in used => t \in used' \/ t \notin rows'
           /\ \A t \in rows \ rows' :
                 \/ epoch'[tok[t].user] = epoch[tok[t].user] + 1
                 \/ tok[t].expires < now
  <1> DEFINE P == /\ \A t \in DOMAIN tok :
                       /\ t \notin rows => t \notin rows'
                       /\ t \in used => t \in used' \/ t \notin rows'
                  /\ \A t \in rows \ rows' :
                       \/ epoch'[tok[t].user] = epoch[tok[t].user] + 1
                       \/ tok[t].expires < now
  <1> USE DEF IInv
  <1>1. ASSUME UNCHANGED table
        PROVE  P
    BY <1>1 DEF table
  <1>2. ASSUME NEW u \in Users, NEW by, DeleteRefreshTokensForUser(u, by)
        PROVE  P
    BY <1>2 DEF DeleteRefreshTokensForUser, DeleteRowsOf, RowsOf, TypeOK
  <1>3. ASSUME NEW r \in Reqs, Serve(r)
        PROVE  P
    <2>1. req[r].pc # "idle" => req[r].user \in Users
      BY DEF RequestsSound
    <2>2. CASE IssueTokens(r)
      <3>1. Len(tok) + 1 \notin DOMAIN tok
        BY DEF TypeOK
      <3>2. QED
        BY <2>2, <3>1 DEF IssueTokens, table
    <2>3. CASE RefreshPurge(r)
      <3>1. req[r].token \in rows => tok[req[r].token].expires < now
        BY <2>3 DEF RefreshPurge, RequestsSound
      <3>2. QED
        BY <2>3, <3>1, <1>1 DEF RefreshPurge, DeleteRefreshToken
    <2>4. CASE RefreshMark(r)
      BY <2>4, <1>1 DEF RefreshMark, MarkRefreshTokenUsed, table
    <2>5. CASE RecoveryRotate(r)
      BY <2>5, <1>1 DEF RecoveryRotate
    <2>6. CASE RefreshReuse(r) \/ RecoveryRevoke(r) \/ LogoutAll(r)
                 \/ DeleteAccount(r)
      BY <2>1, <2>6, <1>1, <1>2
      DEF RefreshReuse, RecoveryRevoke, LogoutAll, DeleteAccount
    <2>7. QED
      BY <1>3, <2>2, <2>3, <2>4, <2>5, <2>6 DEF Serve
  <1>4. ASSUME NEW r \in Reqs, Arrive(r)
        PROVE  P
    BY <1>4, <1>1 DEF Arrive, Login, RefreshLookup, RecoveryLookup,
                      LogoutAllAccept, DeleteAccountAccept
  <1>5. ASSUME Tick \/ Crash
        PROVE  P
    BY <1>5, <1>1 DEF Tick, Crash
  <1>6. QED
    BY <1>3, <1>4, <1>5 DEF Next

\* Deleted rows do not come back and rotated tokens do not become fresh.
THEOREM NoResurrectionHolds == Spec => NoResurrection
  <1>1. IInv /\ [Next]_vars =>
          [\A t \in DOMAIN tok : /\ t \notin rows => t \notin rows'
                                 /\ t \in used => t \in used' \/ t \notin rows'
          ]_vars
    BY StepRows
  <1>2. QED
    BY <1>1, SpecIInv, PTL DEF Spec, NoResurrection

\* A row leaves with a revocation of its own user, or after it has expired.
THEOREM RowsLeaveForCauseHolds == Spec => RowsLeaveForCause
  <1>1. IInv /\ [Next]_vars =>
          [\A t \in rows \ rows' :
              \/ epoch'[tok[t].user] = epoch[tok[t].user] + 1
              \/ tok[t].expires < now
          ]_vars
    BY StepRows
  <1>2. QED
    BY <1>1, SpecIInv, PTL DEF Spec, RowsLeaveForCause

\* The list of sessions and the refresh agree, but for a token's last instant.
THEOREM ListMatchesRefreshHolds == Spec => []ListMatchesRefresh
  <1>1. TypeOK => ListMatchesRefresh
    <2> SUFFICES ASSUME TypeOK PROVE ListMatchesRefresh
      OBVIOUS
    <2>1. \A t \in rows : tok[t].expires \in Nat /\ now \in Nat
      BY TokenFields DEF TypeOK
    <2>2. QED
      BY <2>1 DEF ListMatchesRefresh, ListRefreshTokensForUser, RefreshBranch, RowsOf
  <1>2. QED
    BY <1>1, TypeCorrect, PTL

-----------------------------------------------------------------------------
(***************************************************************************)
(* Forks.  A token can be given to several refreshes until the first mark; *)
(* each of them becomes one successor at most, and none can be added after *)
(* the first successor.                                                    *)
(***************************************************************************)
\* The refreshes of token p that may still give it a successor.
Holders(p) ==
    {r \in Reqs : req[r].token = p /\ req[r].pc \in {"mark", "issue"}}

ForkInv ==
    \A p \in DOMAIN tok \ lostMarks :
        /\ IsFiniteSet(Successors(p))
        /\ Cardinality(Successors(p)) + Cardinality(Holders(p)) <= Cardinality(Reqs)

\* Some of the requests are finitely many, and no more than all.
LEMMA SomeRequests ==
    ASSUME NEW S \in SUBSET Reqs
    PROVE  /\ IsFiniteSet(S) /\ Cardinality(S) \in Nat
           /\ Cardinality(Reqs) \in Nat /\ Cardinality(S) <= Cardinality(Reqs)
  BY FS_Subset, FS_CardinalityType, SessionsAssumption

\* A token without successors has no more holders than there are requests.
LEMMA NoForkYet ==
    ASSUME NEW S \in SUBSET Reqs, NEW T, T = {}
    PROVE  IsFiniteSet(T) /\ Cardinality(T) + Cardinality(S) <= Cardinality(Reqs)
  BY SomeRequests, FS_EmptySet

\* Steps that mint no token and let no refresh of a token begin.
LEMMA QuietForks ==
    ASSUME ForkInv, tok' = tok, lostMarks \subseteq lostMarks',
           \A p \in DOMAIN tok : Holders(p)' \subseteq Holders(p)
    PROVE  ForkInv'
  <1> SUFFICES ASSUME NEW p \in DOMAIN tok \ lostMarks'
               PROVE  /\ IsFiniteSet(Successors(p)')
                      /\ Cardinality(Successors(p)') + Cardinality(Holders(p)') <= Cardinality(Reqs)
    BY DEF ForkInv
  <1>1. Successors(p)' = Successors(p)
    BY DEF Successors
  <1>2. /\ IsFiniteSet(Successors(p))
        /\ Cardinality(Successors(p)) + Cardinality(Holders(p)) <= Cardinality(Reqs)
    BY DEF ForkInv
  <1>3. Holders(p) \in SUBSET Reqs /\ Holders(p)' \in SUBSET Holders(p)
    BY DEF Holders
  <1>4. /\ IsFiniteSet(Holders(p)) /\ Cardinality(Holders(p)) \in Nat
        /\ Cardinality(Reqs) \in Nat
    BY <1>3, SomeRequests
  <1>5. Cardinality(Holders(p)') \in Nat /\ Cardinality(Holders(p)') <= Cardinality(Holders(p))
    BY <1>3, <1>4, FS_Subset, FS_CardinalityType
  <1>6. Cardinality(Successors(p)) \in Nat
    BY <1>2, FS_CardinalityType
  <1>7. QED
    BY <1>1, <1>2, <1>4, <1>5, <1>6

\* A slot whose request ends or is no refresh leaves the holders.
LEMMA FewerHolders ==
    ASSUME TypeOK, NEW r \in Reqs, NEW q, req' = [req EXCEPT ![r] = q], NEW p \in DOMAIN tok,
           q.pc \in {"mark", "issue"} /\ q.token = p => r \in Holders(p)
    PROVE  Holders(p)' \subseteq Holders(p)
  BY DEF Holders, TypeOK

\* A refresh begins: the token it read has no successor yet.
LEMMA LookupForks ==
    ASSUME IInv, ForkInv, NEW r \in Reqs, NEW t \in DOMAIN tok, RefreshLookup(r, t)
    PROVE  ForkInv'
  <1> DEFINE q == Serving(RefreshBranch(t), tok[t].user, t, tok[t].root)
  <1>1. /\ UNCHANGED <<tok, rows, used, lostMarks>> /\ t \in rows /\ req[r].pc = "idle"
        /\ req' = [req EXCEPT ![r] = q]
    BY DEF RefreshLookup, table, history
  <1>2. q.token = t /\ q.pc = RefreshBranch(t) /\ q.pc # "issue"
    BY DEF Serving, RefreshBranch
  <1>3. CASE RefreshBranch(t) # "mark"
    <2>1. \A p \in DOMAIN tok : Holders(p)' \subseteq Holders(p)
      BY <1>1, <1>2, <1>3, FewerHolders DEF IInv
    <2>2. QED
      BY <1>1, <2>1, QuietForks
  <1>4. CASE RefreshBranch(t) = "mark"
    <2> SUFFICES ASSUME NEW p \in DOMAIN tok \ lostMarks
                 PROVE  /\ IsFiniteSet(Successors(p)')
                        /\ Cardinality(Successors(p)') + Cardinality(Holders(p)') <= Cardinality(Reqs)
      BY <1>1 DEF ForkInv
    <2>1. Successors(p)' = Successors(p)
      BY <1>1 DEF Successors
    <2>2. CASE p = t
      <3>1. t \notin used
        BY <1>4 DEF RefreshBranch
      <3>2. t # 0
        BY TokenFields DEF IInv
      <3>3. Successors(p) = {}
        BY <1>1, <2>2, <3>1, <3>2 DEF Successors, IInv, RotationLineage
      <3>4. Holders(p)' \in SUBSET Reqs
        BY DEF Holders
      <3>5. QED
        BY <2>1, <3>3, <3>4, NoForkYet
    <2>3. CASE p # t
      <3>1. Holders(p)' = Holders(p)
        BY <1>1, <1>2, <2>3 DEF Holders, IInv, TypeOK
      <3>2. QED
        BY <2>1, <3>1 DEF ForkInv
    <2>4. QED
      BY <2>2, <2>3
  <1>5. QED
    BY <1>3, <1>4

\* issueTokens: the holder becomes the successor.
LEMMA IssueForks ==
    ASSUME IInv, ForkInv, NEW r \in Reqs, IssueTokens(r)
    PROVE  ForkInv'
  <1> DEFINE n == Len(tok) + 1
             p0 == req[r].token
  <1>1. /\ UNCHANGED lostMarks /\ req' = [req EXCEPT ![r] = Idle] /\ req[r].pc = "issue"
        /\ tok' = tok \/ tok' = Append(tok, NewToken(r))
    BY DEF IssueTokens, Respond, table, history
  <1>2. Idle.pc = "idle"
    BY DEF Idle
  <1>3. CASE tok' = tok
    <2>1. \A p \in DOMAIN tok : Holders(p)' \subseteq Holders(p)
      BY <1>1, <1>2, FewerHolders DEF IInv
    <2>2. QED
      BY <1>1, <1>3, <2>1, QuietForks
  <1>4. CASE tok' = Append(tok, NewToken(r))
    <2>1. NewToken(r) \in Token /\ NewToken(r).parent = p0
      BY <1>1, NewTokenType DEF IInv
    <2>2. /\ DOMAIN tok = 1 .. Len(tok) /\ DOMAIN tok' = 1 .. (Len(tok) + 1) /\ Len(tok) \in Nat
          /\ \A t \in DOMAIN tok : tok'[t] = tok[t]
          /\ tok'[n] = NewToken(r)
      BY <1>4, <2>1, AppendToken DEF IInv, TypeOK
    <2>3. DOMAIN tok' = DOMAIN tok \cup {n} /\ n \notin DOMAIN tok /\ n # 0
      BY <2>2
    <2>4. p0 # n
      BY <1>1, <2>2, <2>3 DEF IInv, RequestsSound
    <2> SUFFICES ASSUME NEW p \in DOMAIN tok' \ lostMarks
                 PROVE  /\ IsFiniteSet(Successors(p)')
                        /\ Cardinality(Successors(p)') + Cardinality(Holders(p)') <= Cardinality(Reqs)
      BY <1>1 DEF ForkInv
    <2>5. Successors(p)' = {t \in DOMAIN tok : tok[t].parent = p} \cup {t \in {n} : p0 = p}
      BY <2>1, <2>2, <2>3 DEF Successors
    <2>6. Holders(p)' = Holders(p) \ {r}
      BY <1>1, <1>2 DEF Holders, IInv, TypeOK
    <2>7. CASE p = n
      <3>1. \A t \in DOMAIN tok : tok[t].parent # n
        BY <2>3 DEF IInv, TokensSound
      <3>2. Successors(p)' = {} /\ Holders(p)' \in SUBSET Reqs
        BY <2>4, <2>5, <2>6, <2>7, <3>1 DEF Holders
      <3>3. QED
        BY <3>2, NoForkYet
    <2>8. CASE p # n
      <3>1. /\ p \in DOMAIN tok \ lostMarks
            /\ IsFiniteSet(Successors(p))
            /\ Cardinality(Successors(p)) + Cardinality(Holders(p)) <= Cardinality(Reqs)
        BY <2>3, <2>8 DEF ForkInv
      <3>2. Holders(p) \in SUBSET Reqs
        BY DEF Holders
      <3>3. /\ IsFiniteSet(Holders(p)) /\ Cardinality(Holders(p)) \in Nat /\ Cardinality(Reqs) \in Nat
        BY <3>2, SomeRequests
      <3>4. Cardinality(Successors(p)) \in Nat
        BY <3>1, FS_CardinalityType
      <3>5. Cardinality(Holders(p) \ {r}) = IF r \in Holders(p) THEN Cardinality(Holders(p)) - 1 ELSE Cardinality(Holders(p))
        BY <3>3, FS_RemoveElement
      <3>6. CASE p0 = p
        <4>1. r \in Holders(p)
          BY <1>1, <3>6 DEF Holders
        <4>2. Successors(p)' = Successors(p) \cup {n} /\ n \notin Successors(p)
          BY <2>3, <2>5, <3>6 DEF Successors
        <4>3. /\ IsFiniteSet(Successors(p) \cup {n})
              /\ Cardinality(Successors(p) \cup {n}) = Cardinality(Successors(p)) + 1
          BY <3>1, <4>2, FS_AddElement
        <4>4. QED
          BY <2>6, <3>1, <3>3, <3>4, <3>5, <4>1, <4>2, <4>3
      <3>7. CASE p0 # p
        <4>1. Successors(p)' = Successors(p)
          BY <2>5, <3>7 DEF Successors
        <4>2. QED
          BY <2>6, <3>1, <3>3, <3>4, <3>5, <4>1
      <3>8. QED
        BY <3>6, <3>7
    <2>9. QED
      BY <2>7, <2>8
  <1>5. QED
    BY <1>1, <1>3, <1>4

\* Every step keeps the bound.
LEMMA NextForks ==
    ASSUME IInv, ForkInv, [Next]_vars
    PROVE  ForkInv'
  <1> USE DEF IInv
  <1>i. Idle.pc = "idle"
    BY DEF Idle
  <1>0. \A p \in DOMAIN tok : p # 0
    BY TokenFields
  <1>1. ASSUME NEW r \in Reqs, Serve(r) PROVE ForkInv'
    <2>1. CASE IssueTokens(r)
      BY <2>1, IssueForks
    <2>2. CASE RefreshMark(r)
      <3>1. /\ tok' = tok /\ lostMarks \subseteq lostMarks' /\ req[r].pc = "mark"
            /\ req' = [req EXCEPT ![r].pc = "issue"]
        BY <2>2 DEF RefreshMark, GoTo
      <3>2. ASSUME NEW p \in DOMAIN tok PROVE Holders(p)' \subseteq Holders(p)
        BY <3>1 DEF Holders, TypeOK, Request
      <3>3. QED
        BY <3>1, <3>2, QuietForks
    <2>3. CASE RefreshPurge(r) \/ RefreshReuse(r) \/ LogoutAll(r) \/ DeleteAccount(r)
      <3>1. tok' = tok /\ lostMarks' = lostMarks /\ req' = [req EXCEPT ![r] = Idle]
        BY <2>3 DEF RefreshPurge, RefreshReuse, LogoutAll, DeleteAccount, Respond, DeleteRefreshTokensForUser, history
      <3>2. \A p \in DOMAIN tok : Holders(p)' \subseteq Holders(p)
        BY <1>i, <3>1, FewerHolders
      <3>3. QED
        BY <3>1, <3>2, QuietForks
    <2>4. CASE RecoveryRotate(r) \/ RecoveryRevoke(r)
      <3>1. tok' = tok /\ lostMarks' = lostMarks
        BY <2>4 DEF RecoveryRotate, RecoveryRevoke, DeleteRefreshTokensForUser, history
      <3>2. req[r].token = 0
        BY <2>4 DEF RecoveryRotate, RecoveryRevoke, RequestsSound
      <3>3. \A s \in Reqs : s # r => req'[s] = req[s]
        BY <2>4 DEF RecoveryRotate, RecoveryRevoke, GoTo, Respond, TypeOK
      <3>4. req'[r].token = 0 \/ req'[r].pc = "idle"
        BY <1>i, <2>4, <3>2 DEF RecoveryRotate, RecoveryRevoke, GoTo, Respond, TypeOK, Request
      <3>5. ASSUME NEW p \in DOMAIN tok PROVE Holders(p)' \subseteq Holders(p)
        BY <1>0, <3>3, <3>4 DEF Holders
      <3>6. QED
        BY <3>1, <3>5, QuietForks
    <2>5. QED
      BY <1>1, <2>1, <2>2, <2>3, <2>4 DEF Serve
  <1>2. ASSUME NEW r \in Reqs, Arrive(r) PROVE ForkInv'
    <2>1. CASE \E t \in DOMAIN tok : RefreshLookup(r, t)
      BY <2>1, LookupForks
    <2>2. CASE \E u \in Users : \/ Login(r, u) \/ RecoveryLookup(r, u)
                                \/ LogoutAllAccept(r, u) \/ DeleteAccountAccept(r, u)
      <3>1. PICK u \in Users, pc \in PC : req' = [req EXCEPT ![r] = Serving(pc, u, 0, epoch[u])]
        BY <2>2 DEF Login, RecoveryLookup, LogoutAllAccept, DeleteAccountAccept, PC
      <3>2. tok' = tok /\ lostMarks' = lostMarks
        BY <2>2 DEF Login, RecoveryLookup, LogoutAllAccept, DeleteAccountAccept, history
      <3>3. Serving(pc, u, 0, epoch[u]).token = 0
        BY DEF Serving
      <3>4. \A p \in DOMAIN tok : Holders(p)' \subseteq Holders(p)
        BY <1>0, <3>1, <3>3, FewerHolders
      <3>5. QED
        BY <3>2, <3>4, QuietForks
    <2>3. QED
      BY <1>2, <2>1, <2>2 DEF Arrive
  <1>3. CASE Tick \/ UNCHANGED vars
    <2>1. UNCHANGED <<tok, lostMarks, req>>
      BY <1>3 DEF Tick, vars, history
    <2>2. ASSUME NEW p \in DOMAIN tok PROVE Holders(p)' \subseteq Holders(p)
      BY <2>1 DEF Holders
    <2>3. QED
      BY <2>1, <2>2, QuietForks
  <1>4. CASE Crash
    <2>1. UNCHANGED <<tok, lostMarks>> /\ \A r \in Reqs : req'[r] = Idle
      BY <1>4 DEF Crash, history
    <2>2. ASSUME NEW p \in DOMAIN tok PROVE Holders(p)' \subseteq Holders(p)
      BY <1>i, <2>1 DEF Holders
    <2>3. QED
      BY <2>1, <2>2, QuietForks
  <1>5. QED
    BY <1>1, <1>2, <1>3, <1>4 DEF Next

\* A session forks into no more sessions than requests were served at once,
\* whatever is revoked and wherever the server stops, unless a mark was lost.
THEOREM ForksBoundedHolds == Spec => []ForksBounded
  <1> DEFINE Inv == IInv /\ ForkInv
  <1>1. Init => Inv
    BY InitIInv DEF Init, ForkInv
  <1>2. Inv /\ [Next]_vars => Inv'
    BY NextIInv, NextForks
  <1>3. Inv => ForksBounded
    <2> SUFFICES ASSUME ForkInv, NEW p \in DOMAIN tok \ lostMarks
                 PROVE  Cardinality(Successors(p)) <= Cardinality(Reqs)
      BY DEF ForksBounded
    <2>1. /\ IsFiniteSet(Successors(p))
          /\ Cardinality(Successors(p)) + Cardinality(Holders(p)) <= Cardinality(Reqs)
      BY DEF ForkInv
    <2>2. Holders(p) \in SUBSET Reqs
      BY DEF Holders
    <2>3. QED
      BY <2>1, <2>2, SomeRequests, FS_CardinalityType
  <1>4. QED
    BY <1>1, <1>2, <1>3, PTL DEF Spec

-----------------------------------------------------------------------------
(***************************************************************************)
(* Sessions implements SessionLedger: every step of a handler enters,      *)
(* retires, loses, revokes or lapses tokens, or leaves the ledger alone.   *)
(***************************************************************************)
\* What the ledger says of a token.
Entry == [t \in DOMAIN tok |-> [user |-> tok[t].user, parent |-> tok[t].parent,
                                expires |-> tok[t].expires]]

Ledger == INSTANCE SessionLedger WITH
    TTL <- RefreshTTL, Lossy <- MayFail, entry <- Entry, fresh <- rows \ used,
    retired <- used, lost <- lostMarks

\* The ledger's entries are the minted tokens.
LEMMA EntryOf ==
    /\ DOMAIN Entry = DOMAIN tok
    /\ \A t \in DOMAIN tok : Entry[t].user = tok[t].user /\ Entry[t].expires = tok[t].expires
  BY DEF Entry

\* A row leaves the ledger alone when its columns and the clock do.
LEMMA LedgerStutters ==
    ASSUME UNCHANGED <<tok, rows, used, lostMarks, now>>
    PROVE  UNCHANGED Ledger!vars
  BY DEF Ledger!vars, Entry

\* issueTokens enters a token; the one it was exchanged for is retired.
LEMMA IssueEnters ==
    ASSUME IInv, NEW r \in Reqs, IssueTokens(r)
    PROVE  Ledger!Next \/ UNCHANGED Ledger!vars
  <1> DEFINE n == Len(tok) + 1
             p == req[r].token
             u == req[r].user
  <1>1. /\ UNCHANGED <<used, lostMarks, now>> /\ req[r].pc = "issue"
        /\ \/ tok' = Append(tok, NewToken(r)) /\ rows' = rows \cup {n}
           \/ UNCHANGED <<tok, rows>>
    BY DEF IssueTokens, table, history
  <1>2. CASE UNCHANGED <<tok, rows>>
    BY <1>1, <1>2, LedgerStutters
  <1>3. CASE tok' = Append(tok, NewToken(r)) /\ rows' = rows \cup {n}
    <2>1. /\ NewToken(r) \in Token /\ NewToken(r).user = u /\ NewToken(r).parent = p
          /\ u \in Users /\ p \in Nat
      BY <1>1, NewTokenType DEF IInv, RequestsSound, TypeOK, Request
    <2>2. NewToken(r).expires = now + RefreshTTL
      BY DEF NewToken
    <2>3. /\ DOMAIN tok = 1 .. Len(tok) /\ DOMAIN tok' = 1 .. (Len(tok) + 1) /\ Len(tok) \in Nat
          /\ \A t \in DOMAIN tok : tok'[t] = tok[t]
          /\ tok'[n] = NewToken(r)
      BY <1>3, <2>1, AppendToken DEF IInv, TypeOK
    <2>4. DOMAIN tok' = DOMAIN tok \cup {n} /\ n \notin DOMAIN tok /\ n \in Nat \ {0}
      BY <2>3
    <2>5. n \notin used
      BY <2>4 DEF IInv, TypeOK
    <2>6. rows' \ used' = (rows \ used) \cup {n}
      BY <1>1, <1>3, <2>5
    <2>7. p # 0 => /\ p \in DOMAIN Entry /\ Entry[p].user = u
                   /\ p \notin rows \ used \/ p \in lostMarks
      BY <1>1, EntryOf DEF IInv, RequestsSound, MarkedBeforeIssue
    <2>8. Entry' = [i \in DOMAIN Entry \cup {n} |->
                      IF i = n THEN [user |-> u, parent |-> p, expires |-> now + RefreshTTL]
                               ELSE Entry[i]]
      BY <2>1, <2>2, <2>3, <2>4, EntryOf DEF Entry
    <2>9. Ledger!Enter(n, u, p)
      BY <1>1, <2>4, <2>6, <2>7, <2>8, EntryOf DEF Ledger!Enter
    <2>10. QED
      BY <2>1, <2>4, <2>9 DEF Ledger!Next
  <1>4. QED
    BY <1>1, <1>2, <1>3

\* The deletion of a user's rows is the ledger's revocation.
LEMMA DeleteRevokes ==
    ASSUME IInv, NEW u \in Users, NEW by, DeleteRefreshTokensForUser(u, by),
           UNCHANGED <<tok, now>>
    PROVE  Ledger!Next
  <1>1. /\ rows' = rows \ RowsOf(u) /\ used' = used \ RowsOf(u)
        /\ UNCHANGED <<lostMarks, Entry>>
    BY DEF DeleteRefreshTokensForUser, DeleteRowsOf, Entry
  <1>2. used \subseteq rows /\ rows \subseteq DOMAIN tok
    BY DEF IInv, TypeOK
  <1>3. /\ rows' \ used' = {t \in rows \ used : Entry[t].user # u}
        /\ used' = {t \in used : Entry[t].user # u}
    BY <1>1, <1>2, EntryOf DEF RowsOf
  <1>4. Ledger!Revoke(u)
    BY <1>1, <1>3 DEF Ledger!Revoke
  <1>5. QED
    BY <1>4 DEF Ledger!Next

\* Every step of the server is a step of the ledger or leaves it alone.
LEMMA LedgerStep ==
    ASSUME IInv, [Next]_vars
    PROVE  Ledger!Next \/ UNCHANGED Ledger!vars
  <1> DEFINE P == Ledger!Next \/ UNCHANGED Ledger!vars
  <1>0. used \subseteq rows /\ rows \subseteq DOMAIN tok
    BY DEF IInv, TypeOK
  <1>1. ASSUME NEW r \in Reqs, Serve(r) PROVE P
    <2>u. req[r].pc # "idle" => req[r].user \in Users
      BY DEF IInv, RequestsSound
    <2>1. CASE IssueTokens(r)
      BY <2>1, IssueEnters
    <2>2. CASE RefreshPurge(r)
      <3> DEFINE t == req[r].token
      <3>1. UNCHANGED <<tok, now, lostMarks, Entry>>
        BY <2>2 DEF RefreshPurge, history, Entry
      <3>2. CASE UNCHANGED table \/ t \notin rows
        <4>1. UNCHANGED <<rows, used>>
          BY <1>0, <2>2, <3>2 DEF RefreshPurge, DeleteRefreshToken, table
        <4>2. QED
          BY <3>1, <4>1, LedgerStutters
      <3>3. CASE DeleteRefreshToken(t) /\ t \in rows
        <4>1. t \in DOMAIN Entry /\ Entry[t].expires < now
          BY <1>0, <2>2, <3>3, EntryOf DEF RefreshPurge, IInv, RequestsSound
        <4>2. t \in (rows \ used) \cup used /\ rows' \ used' = (rows \ used) \ {t} /\ used' = used \ {t}
          BY <3>3 DEF DeleteRefreshToken
        <4>3. Ledger!Lapse(t)
          BY <3>1, <4>1, <4>2 DEF Ledger!Lapse
        <4>4. QED
          BY <4>1, <4>3 DEF Ledger!Next
      <3>4. QED
        BY <2>2, <3>2, <3>3 DEF RefreshPurge
    <2>3. CASE RefreshMark(r)
      <3> DEFINE t == req[r].token
      <3>1. UNCHANGED <<tok, now, Entry>>
        BY <2>3 DEF RefreshMark, Entry
      <3>2. t \in DOMAIN Entry
        BY <2>3, EntryOf DEF RefreshMark, IInv, RequestsSound
      <3>3. CASE MarkRefreshTokenUsed(t) /\ lostMarks' = lostMarks /\ t \in rows \ used
        <4>1. rows' \ used' = (rows \ used) \ {t} /\ used' = used \cup {t}
          BY <3>3 DEF MarkRefreshTokenUsed
        <4>2. Ledger!Retire(t)
          BY <3>1, <3>3, <4>1 DEF Ledger!Retire
        <4>3. QED
          BY <3>2, <4>2 DEF Ledger!Next
      <3>4. CASE MarkRefreshTokenUsed(t) /\ lostMarks' = lostMarks /\ t \notin rows \ used
        <4>1. UNCHANGED <<rows, used>>
          BY <3>4 DEF MarkRefreshTokenUsed
        <4>2. QED
          BY <3>1, <3>4, <4>1, LedgerStutters
      <3>5. CASE StoreError /\ lostMarks' = lostMarks \cup {t} /\ UNCHANGED table
        <4>1. Ledger!Lose(t)
          BY <3>1, <3>2, <3>5 DEF Ledger!Lose, StoreError, table
        <4>2. QED
          BY <3>2, <4>1 DEF Ledger!Next
      <3>6. QED
        BY <2>3, <3>3, <3>4, <3>5 DEF RefreshMark
    <2>4. CASE RecoveryRotate(r)
      BY <2>4, LedgerStutters DEF RecoveryRotate, table, history
    <2>5. CASE RefreshReuse(r) \/ LogoutAll(r)
      BY <2>u, <2>5, LedgerStutters, DeleteRevokes DEF RefreshReuse, LogoutAll, table, history
    <2>6. CASE RecoveryRevoke(r)
      BY <2>u, <2>6, LedgerStutters, DeleteRevokes DEF RecoveryRevoke, table, history
    <2>7. CASE DeleteAccount(r)
      BY <2>u, <2>7, LedgerStutters, DeleteRevokes DEF DeleteAccount, table, history
    <2>8. QED
      BY <1>1, <2>1, <2>2, <2>3, <2>4, <2>5, <2>6, <2>7 DEF Serve
  <1>2. ASSUME NEW r \in Reqs, Arrive(r) PROVE P
    BY <1>2, LedgerStutters
    DEF Arrive, Login, RefreshLookup, RecoveryLookup, LogoutAllAccept, DeleteAccountAccept, table, history
  <1>3. CASE Tick
    <2>1. UNCHANGED <<rows, used, lostMarks, Entry>> /\ now' = now + 1
      BY <1>3 DEF Tick, table, history, Entry
    <2>2. Ledger!Tick
      BY <2>1 DEF Ledger!Tick
    <2>3. QED
      BY <2>2 DEF Ledger!Next
  <1>4. CASE Crash \/ UNCHANGED vars
    BY <1>4, LedgerStutters DEF Crash, vars, table, history
  <1>5. QED
    BY <1>1, <1>2, <1>3, <1>4 DEF Next

\* The interleaved handlers, their ignored errors and the restarts add up to
\* a ledger of tokens: nothing is exchanged before it is retired (unless the
\* retirement was lost to a store error), and nothing is struck out but by a
\* revocation of its whole user or by its expiry.
THEOREM LedgerImplemented == Spec => Ledger!Spec
  <1>1. Init => Ledger!Init
    BY DEF Init, Ledger!Init, Entry
  <1>2. IInv /\ [Next]_vars => [Ledger!Next]_(Ledger!vars)
    BY LedgerStep
  <1>3. QED
    BY <1>1, <1>2, SpecIInv, PTL DEF Spec, Ledger!Spec

-----------------------------------------------------------------------------
(***************************************************************************)
(* One request at a time.  The forks and the sessions that survive their   *)
(* revocation come from overlapping requests only: a server that serves    *)
(* one request after the other has neither, restarts included.             *)
(***************************************************************************)
\* No mark is lost where the store does not fail.
NoneLost == ~MayFail => lostMarks = {}

LEMMA NoneLostAlways == Spec => []NoneLost
  <1>1. Init => NoneLost
    BY DEF Init, NoneLost
  <1>2. NoneLost /\ [Next]_vars => NoneLost'
    BY DEF NoneLost, Next, vars, Serve, Arrive, IssueTokens, RefreshPurge, RefreshReuse,
           RefreshMark, RecoveryRotate, RecoveryRevoke, LogoutAll, DeleteAccount, Login,
           RefreshLookup, RecoveryLookup, LogoutAllAccept, DeleteAccountAccept, Tick, Crash,
           DeleteRefreshTokensForUser, StoreError, history
  <1>3. QED
    BY <1>1, <1>2, PTL DEF Spec

\* With one request at a time and a store that answers, a token has at most
\* one successor, so that "presenting an already-used token means it was
\* replayed", as handleRefresh says, and no honest client is logged out.
THEOREM SequentialRotation ==
    ASSUME ~MayFail, Cardinality(Reqs) = 1
    PROVE  Spec => []SingleSuccessor
  <1>1. NoneLost /\ ForksBounded => SingleSuccessor
    BY DEF NoneLost, ForksBounded, SingleSuccessor
  <1>2. QED
    BY <1>1, NoneLostAlways, ForksBoundedHolds, PTL

\* The handler in flight has seen the last revocation of its user, and no
\* token comes from one that had not.
OwnView ==
    /\ \A r \in Reqs : req[r].pc # "idle" => req[r].seen = epoch[req[r].user]
    /\ \A t \in DOMAIN tok : ~tok[t].straddled

\* A revocation leaves nothing behind: every row is of a family whose
\* credentials were checked after it, and every access token of an older
\* family lapses within AccessTTL.
CleanRevocation ==
    /\ \A t \in rows : tok[t].root = epoch[tok[t].user]
    /\ \A t \in DOMAIN tok :
         tok[t].root < epoch[tok[t].user]
             => tok[t].access <= revoked[tok[t].user].at + AccessTTL

\* The only slot there is.
LEMMA OneSlot ==
    ASSUME Cardinality(Reqs) = 1, NEW r \in Reqs
    PROVE  Reqs = {r}
  <1>1. PICK x : Reqs = {x}
    BY FS_Singleton, SessionsAssumption
  <1>2. QED
    BY <1>1

LEMMA NextOwnView ==
    ASSUME Cardinality(Reqs) = 1, IInv, OwnView, [Next]_vars
    PROVE  OwnView'
  <1>i. Idle.pc = "idle"
    BY DEF Idle
  <1>1. ASSUME NEW r \in Reqs, Serve(r) PROVE OwnView'
    <2>r. Reqs = {r} /\ req \in [Reqs -> Request]
      BY OneSlot DEF IInv, TypeOK
    <2>1. CASE IssueTokens(r)
      <3>1. /\ req' = [req EXCEPT ![r] = Idle] /\ req[r].pc = "issue"
            /\ tok' = tok \/ tok' = Append(tok, NewToken(r))
        BY <2>1 DEF IssueTokens, Respond, table
      <3>2. /\ req[r].seen = epoch[req[r].user]
            /\ req[r].token # 0 => req[r].token \in DOMAIN tok
        BY <3>1 DEF OwnView, IInv, RequestsSound
      <3>3. ~NewToken(r).straddled
        BY <3>2 DEF NewToken, OwnView
      <3>4. NewToken(r) \in Token
        BY <3>1, NewTokenType DEF IInv
      <3>5. \A t \in DOMAIN tok' : ~tok'[t].straddled
        <4>1. CASE tok' = tok
          BY <4>1 DEF OwnView
        <4>2. CASE tok' = Append(tok, NewToken(r))
          <5>1. /\ DOMAIN tok = 1 .. Len(tok) /\ DOMAIN tok' = 1 .. (Len(tok) + 1) /\ Len(tok) \in Nat
                /\ \A t \in DOMAIN tok : tok'[t] = tok[t]
                /\ tok'[Len(tok) + 1] = NewToken(r)
            BY <4>2, <3>4, AppendToken DEF IInv, TypeOK
          <5>2. DOMAIN tok' = DOMAIN tok \cup {Len(tok) + 1}
            BY <5>1
          <5>3. QED
            BY <3>3, <5>1, <5>2 DEF OwnView
        <4>3. QED
          BY <3>1, <4>1, <4>2
      <3>6. QED
        BY <1>i, <2>r, <3>1, <3>5 DEF OwnView
    <2>2. CASE RefreshPurge(r) \/ RefreshReuse(r) \/ LogoutAll(r) \/ DeleteAccount(r)
      <3>1. tok' = tok /\ req' = [req EXCEPT ![r] = Idle]
        BY <2>2 DEF RefreshPurge, RefreshReuse, LogoutAll, DeleteAccount, Respond
      <3>2. QED
        BY <1>i, <2>r, <3>1 DEF OwnView
    <2>3. CASE RefreshMark(r) \/ RecoveryRotate(r)
      <3>1. /\ tok' = tok /\ epoch' = epoch
            /\ \/ req' = [req EXCEPT ![r] = Idle]
               \/ \E pc : req' = [req EXCEPT ![r].pc = pc]
            /\ req[r].pc # "idle"
        BY <2>3 DEF RefreshMark, RecoveryRotate, GoTo, Respond, history
      <3>2. req[r].seen = epoch[req[r].user]
        BY <3>1 DEF OwnView
      <3>3. req'[r].pc = "idle" \/ (req'[r].seen = req[r].seen /\ req'[r].user = req[r].user)
        BY <1>i, <2>r, <3>1 DEF Request
      <3>4. QED
        BY <2>r, <3>1, <3>2, <3>3 DEF OwnView
    <2>4. CASE RecoveryRevoke(r)
      <3> DEFINE u == req[r].user
      <3>1. tok' = tok /\ u \in Users /\ req[r].pc # "idle" /\ req[r].seen = epoch[u] /\ epoch[u] \in Nat
        BY <2>4 DEF RecoveryRevoke, IInv, RequestsSound, OwnView, TypeOK
      <3>2. CASE /\ DeleteRefreshTokensForUser(u, "recovery")
                 /\ req' = [req EXCEPT ![r] =
                           [pc |-> "issue", user |-> u, token |-> 0,
                            seen |-> epoch[u] + 1, root |-> epoch[u] + 1]]
        <4>1. epoch'[u] = epoch[u] + 1
          BY <3>1, <3>2 DEF DeleteRefreshTokensForUser, IInv, TypeOK
        <4>2. req'[r].user = u /\ req'[r].seen = epoch[u] + 1
          BY <2>r, <3>2
        <4>3. QED
          BY <2>r, <3>1, <4>1, <4>2 DEF OwnView
      <3>3. CASE GoTo(r, "issue") /\ UNCHANGED <<table, history>>
        <4>1. req'[r].user = u /\ req'[r].seen = req[r].seen /\ epoch' = epoch
          BY <2>r, <3>3 DEF GoTo, Request, history
        <4>2. QED
          BY <2>r, <3>1, <4>1 DEF OwnView
      <3>4. QED
        BY <2>4, <3>2, <3>3 DEF RecoveryRevoke
    <2>5. QED
      BY <1>1, <2>1, <2>2, <2>3, <2>4 DEF Serve
  <1>2. ASSUME NEW r \in Reqs, Arrive(r) PROVE OwnView'
    <2>1. /\ UNCHANGED <<tok, epoch>>
          /\ \E pc, u, t, root : req' = [req EXCEPT ![r] = Serving(pc, u, t, root)]
      BY <1>2 DEF Arrive, Login, RefreshLookup, RecoveryLookup, LogoutAllAccept,
                  DeleteAccountAccept, history
    <2>2. req'[r].seen = epoch[req'[r].user]
      BY <2>1 DEF Serving, IInv, TypeOK
    <2>3. QED
      BY <2>1, <2>2, OneSlot DEF OwnView
  <1>3. CASE Tick \/ Crash \/ UNCHANGED vars
    BY <1>i, <1>3 DEF Tick, Crash, vars, OwnView, history
  <1>4. QED
    BY <1>1, <1>2, <1>3 DEF Next

\* With one request at a time a logout everywhere, a recovery, a detected
\* reuse and an account deletion end every session there was.
THEOREM SequentialRevocation ==
    ASSUME Cardinality(Reqs) = 1
    PROVE  Spec => []CleanRevocation
  <1>1. Init => OwnView
    BY DEF Init, OwnView, Idle
  <1>2. IInv /\ OwnView /\ [Next]_vars => OwnView'
    BY NextOwnView
  <1>3. IInv /\ OwnView => CleanRevocation
    BY DEF IInv, OwnView, CleanRevocation, RevocationComplete, AccessLapses, TypeOK
  <1>4. QED
    BY <1>1, <1>2, <1>3, SpecIInv, PTL DEF Spec

-----------------------------------------------------------------------------
(***************************************************************************)
(* The safety half of ReuseEndsFamily.                                     *)
(***************************************************************************)
\* A handler that saw a used token presented is turned away from it by
\* nothing: it stays where it is until the step that deletes every row its
\* user has.
ReuseStands ==
    [][\A r \in Reqs :
          req[r].pc = "reuse" =>
              \/ req'[r] = req[r]
              \/ \A t \in rows' : tok'[t].user # req[r].user]_vars

\* Where the store answers and the server does not stop, a detected reuse is
\* not forgotten, whatever the other requests do meanwhile.
THEOREM ReuseStandsHolds ==
    ASSUME ~MayFail, ~MayCrash
    PROVE  Spec => ReuseStands
  <1> DEFINE A(r) == req[r].pc = "reuse" =>
                       \/ req'[r] = req[r]
                       \/ \A t \in rows' : tok'[t].user # req[r].user
  <1>1. ASSUME TypeOK, Next PROVE \A r \in Reqs : A(r)
    <2> SUFFICES ASSUME NEW r \in Reqs, req[r].pc = "reuse" PROVE A(r)
      OBVIOUS
    <2>0. req \in [Reqs -> Request]
      BY <1>1 DEF TypeOK
    <2>1. ASSUME NEW s \in Reqs, Serve(s), s # r PROVE req'[r] = req[r]
      BY <2>0, <2>1 DEF Serve, IssueTokens, RefreshPurge, RefreshReuse, RefreshMark, RecoveryRotate,
                 RecoveryRevoke, LogoutAll, DeleteAccount, Respond, GoTo
    <2>2. ASSUME NEW s \in Reqs, Arrive(s) PROVE req'[r] = req[r]
      BY <2>0, <2>2 DEF Arrive, Login, RefreshLookup, RecoveryLookup, LogoutAllAccept, DeleteAccountAccept
    <2>3. ASSUME Serve(r) PROVE \A t \in rows' : tok'[t].user # req[r].user
      <3>1. RefreshReuse(r)
        BY <2>3 DEF Serve, IssueTokens, RefreshPurge, RefreshMark, RecoveryRotate,
                    RecoveryRevoke, LogoutAll, DeleteAccount
      <3>2. QED
        BY <3>1 DEF RefreshReuse, StoreError, DeleteRefreshTokensForUser, DeleteRowsOf, RowsOf
    <2>4. ASSUME Tick PROVE req'[r] = req[r]
      BY <2>4 DEF Tick
    <2>5. ~Crash
      BY DEF Crash
    <2>6. QED
      BY <1>1, <2>1, <2>2, <2>3, <2>4, <2>5 DEF Next
  <1>2. TypeOK /\ [Next]_vars => [\A r \in Reqs : A(r)]_vars
    BY <1>1
  <1>3. QED
    BY <1>2, TypeCorrect, PTL DEF Spec, ReuseStands
=============================================================================
