---------------------------- MODULE LockoutProofs ----------------------------
(***************************************************************************)
(* Proofs about Lockout, for every number of overlapping attempts, every   *)
(* failure limit and every lock period.                                    *)
(***************************************************************************)
EXTENDS Lockout, FiniteSetTheorems, TLAPS

\* The attempts that stand at s, and how many they are.
At(s) == {r \in Reqs : pc[r] = s}
Count(s) == Cardinality(At(s))

(***************************************************************************)
(* The inductive invariant.  While the account is open, every wrong guess  *)
(* of this spell is in the failure count or about to be recorded.  While   *)
(* it is locked, the guesses plus the attempts that can still become one   *)
(* (those let in before the lock) stay within the budget.                  *)
(***************************************************************************)
OpenBudget   == ~locked => guesses <= fails + Count("fail")
LockedBudget == locked => guesses + Count("verify")
                            <= MaxFails - 1 + Cardinality(Reqs)

IInv ==
    /\ TypeOK
    /\ OpenBudget
    /\ LockedBudget

-----------------------------------------------------------------------------
\* Attempts at two different places are different attempts.
LEMMA CountBounds ==
    ASSUME TypeOK
    PROVE  /\ Cardinality(Reqs) \in Nat
           /\ \A s : IsFiniteSet(At(s)) /\ Count(s) \in Nat
           /\ Count("fail") + Count("verify") <= Cardinality(Reqs)
  <1>1. Cardinality(Reqs) \in Nat
    BY FS_CardinalityType, LockoutAssumption
  <1>2. ASSUME NEW s
        PROVE  IsFiniteSet(At(s)) /\ Count(s) \in Nat
    <2>1. At(s) \in SUBSET Reqs
      BY DEF At
    <2>2. IsFiniteSet(At(s))
      BY <2>1, FS_Subset, LockoutAssumption
    <2>3. QED
      BY <2>2, FS_CardinalityType DEF Count
  <1>3. Count("fail") + Count("verify") <= Cardinality(Reqs)
    <2>1. At("fail") \cap At("verify") = {}
      BY DEF At
    <2>2. Cardinality(At("fail") \cup At("verify"))
            = Count("fail") + Count("verify")
      <3>1. IsFiniteSet(At("fail")) /\ IsFiniteSet(At("verify"))
        BY <1>2
      <3>2. Cardinality(At("fail") \cup At("verify"))
              = Cardinality(At("fail")) + Cardinality(At("verify"))
                  - Cardinality(At("fail") \cap At("verify"))
        BY <3>1, FS_Union
      <3>3. Cardinality(At("fail") \cap At("verify")) = 0
        BY <2>1, FS_EmptySet
      <3>4. Count("fail") \in Nat /\ Count("verify") \in Nat
        BY <1>2
      <3>5. QED
        BY <3>2, <3>3, <3>4 DEF Count
    <2>3. At("fail") \cup At("verify") \in SUBSET Reqs
      BY DEF At
    <2>4. Cardinality(At("fail") \cup At("verify")) <= Cardinality(Reqs)
      BY <2>3, FS_Subset, LockoutAssumption
    <2>5. QED
      BY <2>2, <2>4
  <1>4. QED
    BY <1>1, <1>2, <1>3

\* An attempt that moves leaves one place and enters another, and the other
\* places keep their attempts.
LEMMA CountLeave ==
    ASSUME TypeOK, NEW r \in Reqs, NEW b, b # pc[r], NEW a, a = pc[r],
           pc' = [pc EXCEPT ![r] = b]
    PROVE  Count(a)' = Count(a) - 1
  <1>1. At(a)' = At(a) \ {r} /\ r \in At(a)
    BY DEF At, TypeOK
  <1>2. IsFiniteSet(At(a))
    BY CountBounds
  <1>3. QED
    BY <1>1, <1>2, FS_RemoveElement DEF Count

LEMMA CountEnter ==
    ASSUME TypeOK, NEW r \in Reqs, NEW b, b # pc[r],
           pc' = [pc EXCEPT ![r] = b]
    PROVE  Count(b)' = Count(b) + 1
  <1>1. At(b)' = At(b) \cup {r} /\ r \notin At(b)
    BY DEF At, TypeOK
  <1>2. IsFiniteSet(At(b))
    BY CountBounds
  <1>3. QED
    BY <1>1, <1>2, FS_AddElement DEF Count

LEMMA CountSame ==
    ASSUME TypeOK, NEW r \in Reqs, NEW b, pc' = [pc EXCEPT ![r] = b],
           NEW s, s # pc[r], s # b
    PROVE  Count(s)' = Count(s)
  <1>1. At(s)' = At(s)
    BY DEF At, TypeOK
  <1>2. QED
    BY <1>1 DEF Count

-----------------------------------------------------------------------------
LEMMA InitIInv == Init => IInv
  <1> SUFFICES ASSUME Init PROVE IInv
    OBVIOUS
  <1>1. TypeOK
    BY LockoutAssumption DEF Init, TypeOK
  <1>2. Count("fail") \in Nat
    BY <1>1, CountBounds
  <1>3. QED
    BY <1>1, <1>2 DEF Init, IInv, OpenBudget, LockedBudget, locked

LEMMA NextIInv == IInv /\ [Next]_vars => IInv'
  <1> SUFFICES ASSUME IInv, [Next]_vars PROVE IInv'
    OBVIOUS
  <1> USE DEF IInv
  <1> DEFINE N == Cardinality(Reqs)
             V == Count("verify")
             F == Count("fail")
  <1>1. N \in Nat /\ V \in Nat /\ F \in Nat /\ F + V <= N
    BY CountBounds
  <1>2. /\ MaxFails \in Nat \ {0} /\ LockFor \in Nat \ {0}
        /\ fails \in 0..(MaxFails - 1) /\ left \in 0..LockFor /\ guesses \in Nat
    BY LockoutAssumption DEF TypeOK
  <1>3. ASSUME NEW r \in Reqs, Check(r) PROVE IInv'
    <2>1. TypeOK'
      BY <1>3 DEF Check, TypeOK
    <2>2. F' = F
      BY <1>3, CountSame DEF Check
    <2>3. QED
      BY <1>1, <1>2, <1>3, <2>1, <2>2
      DEF Check, OpenBudget, LockedBudget, locked
  <1>4. ASSUME NEW r \in Reqs, VerifyWrong(r) PROVE IInv'
    <2>1. TypeOK'
      BY <1>2, <1>4 DEF VerifyWrong, TypeOK
    <2>2. F' = F + 1 /\ V' = V - 1
      BY <1>4, CountLeave, CountEnter DEF VerifyWrong
    <2>3. QED
      BY <1>1, <1>2, <1>4, <2>1, <2>2
      DEF VerifyWrong, OpenBudget, LockedBudget, locked
  <1>5. ASSUME NEW r \in Reqs, VerifyRight(r) \/ VerifyNeither(r) PROVE IInv'
    <2>1. TypeOK'
      BY <1>5 DEF VerifyRight, VerifyNeither, TypeOK
    <2>2. F' = F /\ V' = V - 1
      BY <1>5, CountLeave, CountSame DEF VerifyRight, VerifyNeither
    <2>3. QED
      BY <1>1, <1>2, <1>5, <2>1, <2>2
      DEF VerifyRight, VerifyNeither, OpenBudget, LockedBudget, locked
  <1>6. ASSUME NEW r \in Reqs, RecordFailure(r) PROVE IInv'
    <2>1. TypeOK'
      BY <1>2, <1>6 DEF RecordFailure, TypeOK
    <2>2. F' = F - 1 /\ V' = V
      BY <1>6, CountLeave, CountSame DEF RecordFailure
    <2>3. QED
      BY <1>1, <1>2, <1>6, <2>1, <2>2
      DEF RecordFailure, OpenBudget, LockedBudget, locked
  <1>7. ASSUME NEW r \in Reqs, Reset(r) PROVE IInv'
    <2>1. TypeOK'
      BY <1>2, <1>7 DEF Reset, TypeOK
    <2>2. F' = F
      BY <1>7, CountSame DEF Reset
    <2>3. QED
      BY <1>1, <1>2, <1>7, <2>1, <2>2
      DEF Reset, OpenBudget, LockedBudget, locked
  <1>8. ASSUME Tick PROVE IInv'
    <2>1. TypeOK'
      BY <1>2, <1>8 DEF Tick, TypeOK, locked
    <2>2. F' = F /\ V' = V
      BY <1>8 DEF Tick, Count, At
    <2>3. QED
      BY <1>1, <1>2, <1>8, <2>1, <2>2
      DEF Tick, OpenBudget, LockedBudget, locked
  <1>9. ASSUME Restart PROVE IInv'
    <2>1. TypeOK'
      BY <1>2, <1>9 DEF Restart, TypeOK
    <2>2. At("fail")' = {}
      BY <1>9 DEF Restart, At
    <2>3. F' = 0
      BY <2>2, FS_EmptySet DEF Count
    <2>4. QED
      BY <1>1, <1>2, <1>9, <2>1, <2>3
      DEF Restart, OpenBudget, LockedBudget, locked
  <1>10. ASSUME UNCHANGED vars PROVE IInv'
    BY <1>10 DEF vars, TypeOK, OpenBudget, LockedBudget, locked, Count, At
  <1>11. QED
    BY <1>3, <1>4, <1>5, <1>6, <1>7, <1>8, <1>9, <1>10 DEF Next, Serve

LEMMA SpecIInv == Spec => []IInv
  BY InitIInv, NextIInv, PTL DEF Spec

-----------------------------------------------------------------------------
\* The tracker's variables keep their ranges; the count stays below maxFails.
THEOREM TypeCorrect == Spec => []TypeOK
  BY SpecIInv, PTL DEF IInv

\* Between two lock periods at most MaxFails - 1 + |Reqs| wrong attempts have
\* their credentials checked, however the attempts overlap.
THEOREM GuessesPerLockHolds == Spec => []GuessesPerLock
  <1>1. IInv => GuessesPerLock
    <2> SUFFICES ASSUME IInv PROVE GuessesPerLock
      OBVIOUS
    <2>1. /\ Cardinality(Reqs) \in Nat
          /\ Count("verify") \in Nat /\ Count("fail") \in Nat
          /\ Count("fail") + Count("verify") <= Cardinality(Reqs)
      BY CountBounds DEF IInv
    <2>2. /\ MaxFails \in Nat \ {0}
          /\ fails \in 0..(MaxFails - 1) /\ guesses \in Nat
      BY LockoutAssumption DEF IInv, TypeOK
    <2>3. QED
      BY <2>1, <2>2 DEF IInv, OpenBudget, LockedBudget, GuessesPerLock
  <1>2. QED
    BY <1>1, SpecIInv, PTL

-----------------------------------------------------------------------------
(***************************************************************************)
(* Corollaries of the budget, and the measure that makes a lock end.       *)
(***************************************************************************)
\* With one attempt at a time the limit is exact: recordFailure's maxFails
\* wrong credentials are checked per lock, and not one more.
THEOREM LimitExactAlone ==
    ASSUME Cardinality(Reqs) = 1
    PROVE  Spec => [](guesses <= MaxFails)
  <1>1. GuessesPerLock => guesses <= MaxFails
    BY LockoutAssumption DEF GuessesPerLock
  <1>2. QED
    BY <1>1, GuessesPerLockHolds, PTL

\* The attempts being served, and the ticks a lock can last at most: what is
\* left of it, and a whole period for each attempt that was let in before it
\* and can still record a failure.
Attempts == {r \in Reqs : pc[r] # "idle"}
LockWaits == left + LockFor * Cardinality(Attempts)

\* No step makes a lock last longer than that, and every tick of it counts:
\* refused attempts do not prolong it, and attempts let in before it prolong
\* it once each.
LockRunsDown ==
    [][locked /\ locked' =>
          /\ LockWaits' <= LockWaits
          /\ left' < left => LockWaits' < LockWaits]_vars

\* A whole period for n + 1 attempts.
LEMMA OneMorePeriod ==
    ASSUME NEW n \in Nat
    PROVE  LockFor * n \in Nat /\ LockFor * (n + 1) = LockFor * n + LockFor
  BY LockoutAssumption

\* The attempts are finitely many; they change with the slot that moves.
LEMMA AttemptsFinite == IsFiniteSet(Attempts) /\ Cardinality(Attempts) \in Nat
  <1>1. Attempts \in SUBSET Reqs
    BY DEF Attempts
  <1>2. QED
    BY <1>1, FS_Subset, FS_CardinalityType, LockoutAssumption

\* A step of a served attempt ends it or keeps it.
LEMMA ServedAttempts ==
    ASSUME TypeOK, NEW r \in Reqs, pc[r] # "idle", NEW b, pc' = [pc EXCEPT ![r] = b]
    PROVE  /\ b # "idle" => Attempts' = Attempts
           /\ b = "idle" => Cardinality(Attempts) = Cardinality(Attempts') + 1
  <1>1. ASSUME b # "idle" PROVE Attempts' = Attempts
    BY <1>1 DEF Attempts, TypeOK
  <1>2. ASSUME b = "idle" PROVE Cardinality(Attempts) = Cardinality(Attempts') + 1
    <2>1. Attempts' = Attempts \ {r} /\ r \in Attempts
      BY <1>2 DEF Attempts, TypeOK
    <2>2. Cardinality(Attempts \ {r}) = Cardinality(Attempts) - 1
      BY <2>1, AttemptsFinite, FS_RemoveElement
    <2>3. Cardinality(Attempts') = Cardinality(Attempts) - 1
      BY <2>1, <2>2
    <2>4. QED
      BY <2>3, AttemptsFinite
  <1>3. QED
    BY <1>1, <1>2

\* A lock is over after at most LockFor * (1 + |Reqs|) ticks, however clients
\* behave, unless a success or a restart ends it before.
THEOREM LockIsBounded ==
    Spec => [](LockWaits <= LockFor * (1 + Cardinality(Reqs))) /\ LockRunsDown
  <1> DEFINE A == Cardinality(Attempts)
             N == Cardinality(Reqs)
             Step == locked /\ locked' =>
                       /\ LockWaits' <= LockWaits
                       /\ left' < left => LockWaits' < LockWaits
  <1>1. TypeOK => LockWaits <= LockFor * (1 + N)
    <2> SUFFICES ASSUME TypeOK PROVE LockWaits <= LockFor * (1 + N)
      OBVIOUS
    <2>1. A \in Nat /\ N \in Nat /\ A <= N
      <3>1. Attempts \in SUBSET Reqs
        BY DEF Attempts
      <3>2. QED
        BY <3>1, AttemptsFinite, FS_Subset, FS_CardinalityType, LockoutAssumption
    <2>2. LockFor * A <= LockFor * N /\ LockFor * A \in Nat /\ LockFor * N \in Nat
      BY <2>1, LockoutAssumption
    <2>3. LockFor * (1 + N) = LockFor * N + LockFor
      BY <2>1, LockoutAssumption
    <2>4. QED
      BY <2>2, <2>3, LockoutAssumption DEF TypeOK, LockWaits
  <1>2. TypeOK /\ [Next]_vars => [Step]_vars
    <2> SUFFICES ASSUME TypeOK, Next, locked, locked' PROVE Step
      BY DEF LockRunsDown
    <2>t. left \in 0 .. LockFor /\ LockFor \in Nat \ {0} /\ A \in Nat /\ LockFor * A \in Nat
      BY AttemptsFinite, OneMorePeriod, LockoutAssumption DEF TypeOK
    <2>1. ASSUME NEW r \in Reqs, Check(r) PROVE FALSE
      BY <2>1 DEF Check
    <2>2. ASSUME NEW r \in Reqs, VerifyWrong(r) \/ VerifyRight(r) PROVE Step
      <3>1. Attempts' = Attempts /\ left' = left
        BY <2>2, ServedAttempts DEF VerifyWrong, VerifyRight
      <3>2. QED
        BY <2>t, <3>1 DEF LockWaits
    <2>3. ASSUME NEW r \in Reqs, VerifyNeither(r) \/ RecordFailure(r) PROVE Step
      <3>1. A = A' + 1 /\ left' \in {left, LockFor}
        BY <2>3, ServedAttempts DEF VerifyNeither, RecordFailure
      <3>2. A' \in Nat
        <4>1. Attempts' \in SUBSET Reqs
          BY DEF Attempts
        <4>2. QED
          BY <4>1, FS_Subset, FS_CardinalityType, LockoutAssumption
      <3>3. LockFor * A = LockFor * A' + LockFor /\ LockFor * A' \in Nat
        BY <3>1, <3>2, OneMorePeriod
      <3>4. QED
        BY <2>t, <3>1, <3>3 DEF LockWaits
    <2>4. ASSUME NEW r \in Reqs, Reset(r) PROVE FALSE
      BY <2>4 DEF Reset, locked
    <2>5. ASSUME Tick PROVE Step
      <3>1. Attempts' = Attempts /\ left' = left - 1
        BY <2>5 DEF Tick, Attempts
      <3>2. QED
        BY <2>t, <3>1 DEF LockWaits
    <2>6. ASSUME Restart PROVE FALSE
      BY <2>6 DEF Restart, locked
    <2>7. QED
      BY <2>1, <2>2, <2>3, <2>4, <2>5, <2>6 DEF Next, Serve
  <1>3. QED
    BY <1>1, <1>2, TypeCorrect, PTL DEF Spec, LockRunsDown
=============================================================================
