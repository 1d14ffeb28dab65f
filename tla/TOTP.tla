-------------------------------- MODULE TOTP --------------------------------
(***************************************************************************)
(* The TOTP second factor of one account: the TOTP columns of its users    *)
(* row, the handlers that enrol, confirm and remove TOTP, and the part of  *)
(* handleLogin that checks a code once the password has been found right.  *)
(*                                                                         *)
(* As in Sessions, a store call is one atomic step, it may fail, and the   *)
(* requests interleave between them.  Every handler here first reads the   *)
(* users row and from then on works with its copy (req[r].snap).           *)
(* VerifyTOTPAt reads the clock, so it is a step of its own.               *)
(*                                                                         *)
(* The clock counts TOTP periods.  A code is the secret and the period it  *)
(* was computed from: the six digits are abstracted away, so two codes are *)
(* never equal by chance.  Secret 0 is the empty string.                   *)
(***************************************************************************)
EXTENDS Integers, FiniteSets

CONSTANTS
    Reqs,         \* slots for requests being served at the same time
    MaxSecrets,   \* bound: secrets generated in a behaviour
    FirstStep,    \* the period in which the behaviour begins
    MaxStep       \* bound: last period of the clock

ASSUME TOTPAssumption ==
    /\ MaxSecrets \in Nat
    /\ FirstStep \in Nat \ {0}
    /\ MaxStep \in Nat

VARIABLES
    row,        \* users: totp_secret, totp_enabled, totp_last_counter
    now,        \* the wall clock, in TOTP periods
    minted,     \* secrets generated so far: 1..minted
    req,        \* req[r]: the handler running in slot r
    \* History, read by no handler:
    confirmed,  \* secrets for which handleTOTPEnable has accepted a code
    consumed,   \* codes accepted for a login since the secret last changed
    again,      \* a code has been accepted a second time since then
    overlap,    \* since then two logins were in flight at the same time, or
                \* one was in flight across a SetUserTOTP
    rebased     \* since then the secret has been stored once more

vars == <<row, now, minted, req, confirmed, consumed, again, overlap, rebased>>

codes == <<consumed, again, rebased>>

-----------------------------------------------------------------------------
Row  == [secret : Nat, enabled : BOOLEAN, last : Int]
Code == [secret : Nat, step : Int]

WrongCode == [secret |-> 0, step |-> 0]  \* none, or digits of no secret

Request == [op   : {"login", "setup", "enable", "disable"},
            pc   : {"idle", "verify", "write"},
            snap : Row,
            code : Code]

NoTOTP == [secret |-> 0, enabled |-> FALSE, last |-> 0]
Idle   == [op |-> "login", pc |-> "idle", snap |-> NoTOTP, code |-> WrongCode]

Init ==
    /\ row = NoTOTP
    /\ now = FirstStep
    /\ minted = 0
    /\ req = [r \in Reqs |-> Idle]
    /\ confirmed = {}
    /\ consumed = {}
    /\ again = FALSE
    /\ overlap = FALSE
    /\ rebased = FALSE

-----------------------------------------------------------------------------
(***************************************************************************)
(* The store and the code check.                                           *)
(***************************************************************************)
\* The logins in flight: their handlers have read the row.
InFlight == {r \in Reqs : req[r].op = "login" /\ req[r].pc # "idle"}

Respond(r) == req' = [req EXCEPT ![r] = Idle]
GoTo(r, pc) == req' = [req EXCEPT ![r].pc = pc]

\* A store call that returns an error and changes nothing.
StoreError == UNCHANGED <<row, minted, codes, overlap>>

\* UPDATE users SET totp_secret, totp_enabled, totp_last_counter = 0.
SetUserTOTP(secret, enabled) ==
    /\ row' = [secret |-> secret, enabled |-> enabled, last |-> 0]
    /\ LET same == secret = row.secret
       IN /\ consumed' = IF same THEN consumed ELSE {}
          /\ again' = (same /\ again)
          /\ overlap' = ((same /\ overlap) \/ InFlight # {})
          /\ rebased' = (same /\ consumed # {})

\* UPDATE users SET totp_last_counter: unconditional.
SetUserTOTPCounter(counter) ==
    row' = [row EXCEPT !.last = counter]

\* Mutant: two periods of skew instead of one.
VerifyWideSkew(secret, code) ==
    /\ secret # 0
    /\ code.secret = secret
    /\ code.step \in (now - 2)..(now + 2)

\* totpSecret and VerifyTOTPAt: the code of this period or of a neighbour.
VerifyTOTPAt(secret, code) ==
    /\ secret # 0
    /\ code.secret = secret
    /\ code.step \in (now - 1)..(now + 1)

\* The codes worth sending: those of the secret that is stored when the
\* request reads the row, and one more that stands for every other code.
Offered ==
    {WrongCode} \cup
    [secret : {row.secret} \ {0}, step : (now - 1)..(now + 2)]

\* Of the row, handleTOTPEnable and handleTOTPDisable go on with the secret.
SecretOnly == [secret |-> row.secret, enabled |-> FALSE, last |-> 0]

\* GetUser, with what the handler will use of the row.
Read(r, op, pc, snap, code) ==
    /\ req[r].pc = "idle"
    /\ req' = [req EXCEPT ![r] =
                  [op |-> op, pc |-> pc, snap |-> snap, code |-> code]]

-----------------------------------------------------------------------------
(***************************************************************************)
(* handleLogin, from a right password on.                                  *)
(***************************************************************************)
LoginLookup(r, code) ==
    /\ Read(r, "login", "verify", row, code)
    /\ overlap' = (overlap \/ InFlight # {})
    /\ UNCHANGED <<row, now, minted, confirmed, codes>>

\* Mutant: a code of the last consumed period is let through again.
LoginCodeAgain(q) ==
    /\ q.snap.enabled
    /\ VerifyTOTPAt(q.snap.secret, q.code)
    /\ q.code.step >= q.snap.last

\* The row that was read has TOTP on, and the code is good for it.
LoginCodeGood(q) ==
    /\ q.snap.enabled
    /\ VerifyTOTPAt(q.snap.secret, q.code)
    /\ q.code.step > q.snap.last

\* Without TOTP the login ends here as far as this module goes: the password
\* is enough or the passkey path takes over.
LoginVerify(r) ==
    /\ req[r].op = "login" /\ req[r].pc = "verify"
    /\ IF LoginCodeGood(req[r]) THEN GoTo(r, "write") ELSE Respond(r)
    /\ UNCHANGED <<row, now, minted, confirmed, codes, overlap>>

\* The counter is stored and the code is accepted (what is left of the login
\* is issueTokens); an error refuses it.
LoginConsume(r) ==
    LET c == req[r].code
    IN /\ req[r].op = "login" /\ req[r].pc = "write"
       /\ \/ /\ SetUserTOTPCounter(c.step)
             /\ consumed' = consumed \cup {c}
             /\ again' = (again \/ c \in consumed)
             /\ UNCHANGED <<minted, rebased, overlap>>
          \/ StoreError
       /\ Respond(r)
       /\ UNCHANGED <<now, confirmed>>

-----------------------------------------------------------------------------
(***************************************************************************)
(* Enrolment, behind requireAuth: setup stores a fresh secret, enable      *)
(* confirms it with a code, disable removes it with a code.                *)
(***************************************************************************)
\* Bound: one secret is left for the setups that will write.
SecretBudget ==
    minted + Cardinality({r \in Reqs : req[r].op = "setup"}) < MaxSecrets

\* handleTOTPSetup reads the row; if TOTP is enabled it answers 409.
SetupLookup(r) ==
    /\ ~row.enabled
    /\ SecretBudget
    /\ Read(r, "setup", "write", NoTOTP, WrongCode)
    /\ UNCHANGED <<row, now, minted, confirmed, codes, overlap>>

\* The secret is generated and stored, not yet enabled.
SetupWrite(r) ==
    /\ req[r].op = "setup" /\ req[r].pc = "write"
    /\ \/ minted' = minted + 1 /\ SetUserTOTP(minted + 1, FALSE)
       \/ StoreError
    /\ Respond(r)
    /\ UNCHANGED <<now, confirmed>>

\* handleTOTPEnable reads the row; with no secret it answers 400.
EnableLookup(r, code) ==
    /\ row.secret # 0
    /\ Read(r, "enable", "verify", SecretOnly, code)
    /\ UNCHANGED <<row, now, minted, confirmed, codes, overlap>>

\* handleTOTPDisable reads the row; with TOTP off there is nothing to do.
DisableLookup(r, code) ==
    /\ row.enabled
    /\ Read(r, "disable", "verify", SecretOnly, code)
    /\ UNCHANGED <<row, now, minted, confirmed, codes, overlap>>

\* Both check the code against the row they read; a wrong one ends in 400.
ConfirmVerify(r) ==
    LET q == req[r]
        good == VerifyTOTPAt(q.snap.secret, q.code)
    IN /\ q.op \in {"enable", "disable"} /\ q.pc = "verify"
       /\ IF good THEN GoTo(r, "write") ELSE Respond(r)
       /\ confirmed' = IF good /\ q.op = "enable"
                          THEN confirmed \cup {q.snap.secret} ELSE confirmed
       /\ UNCHANGED <<row, now, minted, codes, overlap>>

\* Mutant: enabling sets the flag and leaves the secret column alone.
EnableFlagOnly(r) ==
    /\ req[r].op = "enable" /\ req[r].pc = "write"
    /\ SetUserTOTP(row.secret, TRUE) /\ UNCHANGED minted
    /\ Respond(r)
    /\ UNCHANGED <<now, confirmed>>

\* handleTOTPEnable stores the secret it read, enabled.
EnableWrite(r) ==
    /\ req[r].op = "enable" /\ req[r].pc = "write"
    /\ \/ SetUserTOTP(req[r].snap.secret, TRUE) /\ UNCHANGED minted
       \/ StoreError
    /\ Respond(r)
    /\ UNCHANGED <<now, confirmed>>

\* Mutant: disabling clears the secret and forgets the flag.
DisableKeepsFlag(r) ==
    /\ req[r].op = "disable" /\ req[r].pc = "write"
    /\ SetUserTOTP(0, row.enabled) /\ UNCHANGED minted
    /\ Respond(r)
    /\ UNCHANGED <<now, confirmed>>

\* handleTOTPDisable clears secret and flag.
DisableWrite(r) ==
    /\ req[r].op = "disable" /\ req[r].pc = "write"
    /\ \/ SetUserTOTP(0, FALSE) /\ UNCHANGED minted
       \/ StoreError
    /\ Respond(r)
    /\ UNCHANGED <<now, confirmed>>

-----------------------------------------------------------------------------
Tick ==
    /\ now < MaxStep
    /\ now' = now + 1
    /\ UNCHANGED <<row, minted, req, confirmed, codes, overlap>>

\* The server stops and starts again: requests in flight are lost.
Crash ==
    /\ req' = [r \in Reqs |-> Idle]
    /\ UNCHANGED <<row, now, minted, confirmed, codes, overlap>>

Next ==
    \/ \E r \in Reqs :
          \/ \E c \in Offered : \/ LoginLookup(r, c)
                               \/ EnableLookup(r, c)
                               \/ DisableLookup(r, c)
          \/ LoginVerify(r)
          \/ LoginConsume(r)
          \/ SetupLookup(r)
          \/ SetupWrite(r)
          \/ ConfirmVerify(r)
          \/ EnableWrite(r)
          \/ DisableWrite(r)
    \/ Tick
    \/ Crash

Spec == Init /\ [][Next]_vars

-----------------------------------------------------------------------------
(***************************************************************************)
(* Properties.                                                             *)
(***************************************************************************)
\* The variables have their types, every secret in use was generated, and
\* TOTP is not enabled without a secret.
TypeOK ==
    /\ row \in Row
    /\ row.secret <= minted
    /\ row.enabled => row.secret # 0
    /\ now \in Nat \ {0}
    /\ minted \in Nat
    /\ req \in [Reqs -> Request]
    /\ confirmed \subseteq 1..minted
    /\ consumed \subseteq Code
    /\ again \in BOOLEAN
    /\ rebased \in BOOLEAN
    /\ overlap \in BOOLEAN

\* Enrolment is two-step: whatever setups, confirmations and removals run
\* against each other, TOTP is never required with a secret that the user
\* has not confirmed with a code (which would lock the user out).
EnabledMeansConfirmed ==
    row.enabled => row.secret \in confirmed

\* The replay baseline never runs ahead of the codes the server will accept:
\* a period from now at the latest, some code is newer than the baseline, so
\* neither a race nor a stale request can keep the user out for longer.
BaselineNotAhead ==
    row.last <= now + 1

\* Single use: a code accepted for one login is accepted for no other, unless
\* two logins were in flight at the same time or one began before the TOTP
\* columns were last written (verifyLoginTOTP compares with a counter it read
\* before, and stores the new one unconditionally), or the same secret was
\* stored a second time (which resets the counter).
SingleUseSequential ==
    again => overlap \/ rebased

-----------------------------------------------------------------------------
(***************************************************************************)
(* What the repository says of this code and the code does not guarantee   *)
(* (refuted by a run of its own).                                          *)
(***************************************************************************)
\* verifyLoginTOTP "enforces single use": so a code is good for at most one
\* login as long as the secret is not stored again.
SingleUse == again => rebased
=============================================================================
