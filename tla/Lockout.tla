------------------------------- MODULE Lockout -------------------------------
(***************************************************************************)
(* The per-account lockout (lockoutTracker) and the way handleLogin,       *)
(* handleWebAuthnLoginBegin, handleWebAuthnLoginFinish and                 *)
(* handleRecoveryComplete use it.  They all share one tracker and follow   *)
(* one protocol: ask locked(), check the credentials (a slow Argon2id      *)
(* hash), then call recordFailure() or reset().  Each call takes the       *)
(* tracker's mutex, but no lock is held from the first to the last, so     *)
(* attempts on the same account overlap.                                   *)
(*                                                                         *)
(* One account is modelled: the tracker keeps one independent entry per    *)
(* identifier hash.  lockedTill is kept as the time left until then.       *)
(***************************************************************************)
EXTENDS Integers, FiniteSets

CONSTANTS
    Reqs,      \* attempts on the account that can be in flight together
    MaxFails,  \* lockoutTracker.maxFails
    LockFor    \* lockoutTracker.lockFor, in clock ticks

ASSUME LockoutAssumption ==
    /\ IsFiniteSet(Reqs)
    /\ MaxFails \in Nat \ {0}
    /\ LockFor \in Nat \ {0}

VARIABLES
    fails,    \* lockEntry.fails; 0 if there is no entry
    left,     \* time until lockEntry.lockedTill; 0 if it has passed
    pc,       \* pc[r]: where attempt r stands
    guesses   \* history: wrong credentials checked since the account was
              \* last open again (lock over, success or restart)

vars == <<fails, left, pc, guesses>>

locked == left > 0

Init ==
    /\ fails = 0
    /\ left = 0
    /\ pc = [r \in Reqs |-> "idle"]
    /\ guesses = 0

-----------------------------------------------------------------------------
\* Mutant: the attempt is let in whatever locked() says.
CheckIgnoresLock(r) ==
    /\ pc[r] = "idle"
    /\ pc' = [pc EXCEPT ![r] = "verify"]
    /\ UNCHANGED <<fails, left, guesses>>

\* Mutant: a refused attempt starts the lock period again.
CheckProlongsLock(r) ==
    /\ pc[r] = "idle"
    /\ \/ ~locked /\ pc' = [pc EXCEPT ![r] = "verify"] /\ left' = left
       \/ locked /\ pc' = pc /\ left' = LockFor
    /\ UNCHANGED <<fails, guesses>>

\* The handler asks locked(key); a locked account gets 429 and nothing more.
Check(r) ==
    /\ pc[r] = "idle"
    /\ ~locked
    /\ pc' = [pc EXCEPT ![r] = "verify"]
    /\ UNCHANGED <<fails, left, guesses>>

\* Wrong password, code, assertion or recovery code, or no such account.
VerifyWrong(r) ==
    /\ pc[r] = "verify"
    /\ pc' = [pc EXCEPT ![r] = "fail"]
    /\ guesses' = guesses + 1
    /\ UNCHANGED <<fails, left>>

\* Credentials accepted and tokens issued.
VerifyRight(r) ==
    /\ pc[r] = "verify"
    /\ pc' = [pc EXCEPT ![r] = "ok"]
    /\ UNCHANGED <<fails, left, guesses>>

\* The ways out that count neither as a failure nor as a success: a second
\* factor is asked for, no passkey is enrolled, the challenge has expired,
\* a passkey login has only begun, the store failed (500).
VerifyNeither(r) ==
    /\ pc[r] = "verify"
    /\ pc' = [pc EXCEPT ![r] = "idle"]
    /\ UNCHANGED <<fails, left, guesses>>

\* Mutant: the lock is set and the failure count is kept.
RecordFailureKeepsCount(r) ==
    /\ pc[r] = "fail"
    /\ fails' = fails + 1
    /\ left' = IF fails + 1 >= MaxFails THEN LockFor ELSE left
    /\ pc' = [pc EXCEPT ![r] = "idle"]
    /\ UNCHANGED guesses

\* recordFailure: at maxFails the account is locked and the count restarts.
RecordFailure(r) ==
    /\ pc[r] = "fail"
    /\ IF fails + 1 >= MaxFails
         THEN fails' = 0 /\ left' = LockFor
         ELSE fails' = fails + 1 /\ left' = left
    /\ pc' = [pc EXCEPT ![r] = "idle"]
    /\ UNCHANGED guesses

\* reset: the entry is deleted, with a lock set meanwhile if there is one.
Reset(r) ==
    /\ pc[r] = "ok"
    /\ fails' = 0
    /\ left' = 0
    /\ guesses' = 0
    /\ pc' = [pc EXCEPT ![r] = "idle"]

\* Time passes; when the lock runs out the account is open again.
Tick ==
    /\ locked
    /\ left' = left - 1
    /\ guesses' = IF left = 1 THEN 0 ELSE guesses
    /\ UNCHANGED <<fails, pc>>

\* The tracker is in memory only: a restart forgets it and the attempts.
Restart ==
    /\ fails' = 0
    /\ left' = 0
    /\ guesses' = 0
    /\ pc' = [r \in Reqs |-> "idle"]

Serve(r) ==
    \/ VerifyWrong(r)
    \/ VerifyRight(r)
    \/ VerifyNeither(r)
    \/ RecordFailure(r)
    \/ Reset(r)

Next ==
    \/ \E r \in Reqs : Check(r) \/ Serve(r)
    \/ Tick
    \/ Restart

Spec == Init /\ [][Next]_vars

\* The clock runs and a started handler runs on; clients do as they like.
FairSpec ==
    /\ Spec
    /\ WF_vars(Tick)
    /\ \A r \in Reqs : WF_vars(Serve(r))

-----------------------------------------------------------------------------
(***************************************************************************)
(* Properties.                                                             *)
(***************************************************************************)
\* The failure count stays below the limit: reaching it sets the lock and
\* starts the count again in the same critical section.
TypeOK ==
    /\ fails \in 0..(MaxFails - 1)
    /\ left \in 0..LockFor
    /\ pc \in [Reqs -> {"idle", "verify", "fail", "ok"}]
    /\ guesses \in Nat

\* The budget the lockout leaves: from the moment the account is open to the
\* end of the next lock, however many attempts overlap, the credentials of at
\* most MaxFails - 1 + |Reqs| wrong attempts are ever checked.  (The limit
\* itself can be exceeded: attempts that asked locked() before the lock was
\* set are still checked after it.)
GuessesPerLock == guesses <= MaxFails - 1 + Cardinality(Reqs)

\* A lock is a lock-out for a while, not for good: attempts refused while it
\* is in force do not prolong it, so it is lifted however clients behave.
LockLifts == locked ~> ~locked
=============================================================================
