--------------------------- MODULE ExtensionProofs ---------------------------
(***************************************************************************)
(* Proofs about Extension, for any number of handlers that run at the same *)
(* time, any idle time and any number of unlocks.                          *)
(***************************************************************************)
EXTENDS Extension, TLAPS

----------------------------------------------------------------------------
(* Types *)

\* TypeOK, split by what the actions change together.
StoreType == stored \in Session /\ alarm \in Nat
JobType ==
    /\ pc \in [Jobs -> Pcs]
    /\ kind \in [Jobs -> Kinds]
    /\ copy \in [Jobs -> Session]
    /\ waits \in [Jobs -> Waiting]
ClockType == now \in 1 .. MaxTime
PopupType == screen \in Screens
HistoryType ==
    /\ unlocks \in 0 .. MaxUnlocks
    /\ lastUse \in [1 .. MaxUnlocks -> Nat]
    /\ gone \in SUBSET (1 .. MaxUnlocks)
FlagType == busy \in BOOLEAN /\ raced \in BOOLEAN

\* The parts make up TypeOK.
LEMMA TypeParts == TypeOK <=> StoreType /\ JobType /\ ClockType /\ PopupType /\ HistoryType /\ FlagType
  BY Zenon DEF TypeOK, StoreType, JobType, ClockType, PopupType, HistoryType, FlagType

\* The numbers the types speak of.
LEMMA Numbers ==
    /\ MaxUnlocks \in Nat /\ Idle \in Nat /\ Idle > 0 /\ MaxTime \in Nat /\ MaxTime >= 1
    /\ NoSession \in Session
  BY ExtensionAssumption DEF MaxTime, NoSession, Session

\* A handler's next await, its end and its start keep the types.
LEMMA GotoType ==
    ASSUME JobType, NEW j \in Jobs, NEW p \in Pcs, NEW s \in Session, Goto(j, p, s)
    PROVE  pc' \in [Jobs -> Pcs] /\ copy' \in [Jobs -> Session]
  BY DEF JobType, Goto

\* What a handler does with the kind and the waiting popup untouched.
LEMMA GoesType ==
    ASSUME JobType, NEW j \in Jobs, NEW p \in Pcs, NEW s \in Session, Goto(j, p, s), UNCHANGED <<kind, waits>>
    PROVE  JobType'
  BY GotoType DEF JobType

\* The end of a handler.
LEMMA FinishType ==
    ASSUME JobType, NEW j \in Jobs, Finish(j)
    PROVE  JobType'
<1>1. pc' \in [Jobs -> Pcs] /\ copy' \in [Jobs -> Session]
  BY GotoType, Numbers DEF Finish, Pcs
<1> QED BY <1>1 DEF Finish, JobType, Kinds, Waiting

\* The start of a handler.
LEMMA HandleType ==
    ASSUME JobType, NEW j \in Jobs, NEW k \in Kinds, NEW w \in Waiting, Handle(j, k, w)
    PROVE  JobType'
<1>1. Entry(k) \in Pcs
  BY DEF Entry, Pcs
<1>2. pc' \in [Jobs -> Pcs] /\ copy' \in [Jobs -> Session]
  BY <1>1, GotoType, Numbers DEF Handle
<1> QED BY <1>2 DEF Handle, JobType

\* The worker's steps keep the types.
LEMMA WorkerType ==
    ASSUME TypeOK, NEW j \in Jobs, WorkerStep(j)
    PROVE  TypeOK'
<1>t. StoreType /\ JobType /\ ClockType /\ PopupType /\ HistoryType /\ FlagType
  BY TypeParts
<1>q. StoreType' /\ JobType' /\ ClockType' /\ PopupType' /\ HistoryType' /\ FlagType' => TypeOK'
  BY Zenon DEF TypeOK, StoreType, JobType, ClockType, PopupType, HistoryType, FlagType
<1>p. {"idle", "get", "check", "remove", "clear", "login", "set", "create", "call", "ok", "locked", "twoFactor", "error", "rejected"} \subseteq Pcs
  BY DEF Pcs, Answers
<1>c. copy[j] \in Session /\ copy[j].id \in 0 .. MaxUnlocks /\ copy[j].lockAt \in Nat /\ now \in Nat
  BY <1>t, Numbers DEF JobType, Session, ClockType
<1>n. NoSession \in Session
  BY Numbers
<1>1. CASE ReadStored(j) \/ CheckLocked(j) \/ CallServer(j)
  <2>1. \E p \in Pcs, s \in Session : Goto(j, p, s) /\ UNCHANGED <<kind, waits>>
    BY <1>t, <1>1, <1>p, <1>n DEF ReadStored, CheckLocked, CallServer, Answer, StoreType
  <2>2. JobType'
    BY <1>t, <2>1, GoesType
  <2>3. StoreType' /\ ClockType' /\ PopupType' /\ HistoryType'
    BY <1>t, <1>1 DEF ReadStored, CheckLocked, CallServer, store, popup, history, StoreType, ClockType, PopupType, HistoryType
  <2>4. UNCHANGED <<busy, raced>>
    BY <1>1 DEF ReadStored, CheckLocked, CallServer, popup, history
  <2>5. FlagType'
    BY Zenon, <1>t, <2>4 DEF FlagType
  <2> QED BY <1>q, <2>2, <2>3, <2>5
<1>2. CASE CheckUnlocked(j) \/ Login(j)
  <2>0. /\ \A i \in 0 .. MaxUnlocks : [id |-> i, lockAt |-> now + Idle] \in Session
        /\ unlocks < MaxUnlocks => unlocks + 1 \in 0 .. MaxUnlocks
    BY <1>c, <1>t, Numbers DEF Session, HistoryType
  <2>1. \E p \in Pcs, s \in Session : Goto(j, p, s) /\ UNCHANGED <<kind, waits>>
    BY <1>p, <1>n, <1>c, <1>2, <2>0 DEF CheckUnlocked, Login, Answer
  <2>2. JobType'
    BY <1>t, <2>1, GoesType
  <2>3. HistoryType'
    <3>1. UNCHANGED gone /\ (unlocks' = unlocks \/ (unlocks' = unlocks + 1 /\ unlocks < MaxUnlocks))
      BY <1>2 DEF CheckUnlocked, Login
    <3>2. \A i : [lastUse EXCEPT ![i] = now] \in [1 .. MaxUnlocks -> Nat]
      BY <1>t, <1>c DEF HistoryType
    <3>3. lastUse' \in [1 .. MaxUnlocks -> Nat]
      BY <1>2, <1>t, <3>2 DEF CheckUnlocked, Login, HistoryType
    <3> QED BY <1>t, <2>0, <3>1, <3>3 DEF HistoryType
  <2>4. StoreType' /\ ClockType' /\ PopupType'
    BY <1>t, <1>2 DEF CheckUnlocked, Login, store, popup, StoreType, ClockType, PopupType
  <2>5. UNCHANGED <<busy, raced>>
    BY <1>2 DEF CheckUnlocked, Login, popup
  <2>6. FlagType'
    BY Zenon, <1>t, <2>5 DEF FlagType
  <2> QED BY <1>q, <2>2, <2>3, <2>4, <2>6
<1>3. CASE SetStored(j) \/ CreateAlarm(j)
  <2>1. \E p \in Pcs, s \in Session : Goto(j, p, s) /\ UNCHANGED <<kind, waits>>
    BY <1>p, <1>n, <1>c, <1>3 DEF SetStored, CreateAlarm, Answer
  <2>2. JobType'
    BY <1>t, <2>1, GoesType
  <2>3. StoreType'
    BY <1>t, <1>c, <1>3 DEF SetStored, CreateAlarm, StoreType
  <2>4. ClockType' /\ PopupType' /\ HistoryType'
    BY <1>t, <1>3 DEF SetStored, CreateAlarm, popup, history, ClockType, PopupType, HistoryType
  <2>5. UNCHANGED <<busy, raced>>
    BY <1>3 DEF SetStored, CreateAlarm, popup, history
  <2>6. FlagType'
    BY Zenon, <1>t, <2>5 DEF FlagType
  <2> QED BY <1>q, <2>2, <2>3, <2>4, <2>6
<1>4. CASE RemoveStored(j)
  <2>1. JobType'
    BY <1>t, <1>p, <1>n, <1>4, GoesType DEF RemoveStored
  <2>2. StoreType' /\ ClockType' /\ PopupType'
    BY <1>t, <1>n, <1>4 DEF RemoveStored, popup, StoreType, ClockType, PopupType
  <2>3. HistoryType'
    <3>1. (1 .. unlocks) \ Held \subseteq 1 .. MaxUnlocks
      BY <1>t, Numbers DEF HistoryType
    <3> QED BY <1>t, <1>4, <3>1 DEF RemoveStored, HistoryType
  <2>4. FlagType'
    BY Zenon, <1>t, <1>4 DEF RemoveStored, popup, FlagType
  <2> QED BY <1>q, <2>1, <2>2, <2>3, <2>4
<1>5. CASE ClearAlarm(j)
  <2>1. JobType'
    <3>1. CASE Finish(j)
      BY <1>t, <3>1, FinishType
    <3>2. CASE \E a \in {"ok", "locked"} : Answer(j, a) /\ UNCHANGED <<kind, waits>>
      BY <1>t, <1>p, <1>n, <3>2, GoesType DEF Answer
    <3> QED BY <1>5, <3>1, <3>2 DEF ClearAlarm
  <2>2. StoreType' /\ ClockType' /\ PopupType' /\ HistoryType'
    BY <1>t, <1>5 DEF ClearAlarm, popup, StoreType, ClockType, PopupType, HistoryType
  <2>3. FlagType'
    BY Zenon, <1>t, <1>5 DEF ClearAlarm, popup, FlagType
  <2> QED BY <1>q, <2>1, <2>2, <2>3
<1>6. CASE FireAlarm(j)
  <2>1. pc' \in [Jobs -> Pcs] /\ copy' \in [Jobs -> Session]
    BY <1>t, <1>p, <1>n, <1>6, GotoType DEF FireAlarm
  <2>2. JobType'
    BY <1>t, <1>6, <2>1 DEF FireAlarm, JobType, Kinds, Waiting
  <2>3. StoreType' /\ ClockType' /\ PopupType' /\ HistoryType'
    BY <1>t, <1>6 DEF FireAlarm, popup, history, StoreType, ClockType, PopupType, HistoryType
  <2>4. FlagType'
    BY Zenon, <1>t, <1>6 DEF FireAlarm, popup, history, FlagType
  <2> QED BY <1>q, <2>2, <2>3, <2>4
<1> QED BY <1>1, <1>2, <1>3, <1>4, <1>5, <1>6 DEF WorkerStep

\* The popup's steps keep the types.
LEMMA PopupStepType ==
    ASSUME TypeOK, NEW j \in Jobs, PopupStep(j)
    PROVE  TypeOK'
<1>t. StoreType /\ JobType /\ ClockType /\ PopupType /\ HistoryType /\ FlagType
  BY TypeParts
<1>q. StoreType' /\ JobType' /\ ClockType' /\ PopupType' /\ HistoryType' /\ FlagType' => TypeOK'
  BY Zenon DEF TypeOK, StoreType, JobType, ClockType, PopupType, HistoryType, FlagType
<1>n. NoSession \in Session /\ {"idle", "get"} \subseteq Pcs
  BY Numbers DEF Pcs
<1>k. {"getState", "unlock", "lock", "getItems", "save", "alarm"} \subseteq Kinds /\ "live" \in Waiting
  BY DEF Kinds, Waiting
<1>u. UNCHANGED <<now, store, history>>
  BY DEF PopupStep, OpenPopup, SubmitUnlock, ClickLock, ClickSave, Send, DeliverUnlocked, DeliverLocked, DeliverFailure,
         DeliverSaved, DeliverRest
<1>1. StoreType' /\ ClockType' /\ HistoryType' /\ raced' = raced
  BY <1>t, <1>u DEF store, history, StoreType, ClockType, HistoryType
<1>w. waits[j] \in Waiting /\ \A w \in Waiting : [Unmounted EXCEPT ![j] = w] \in [Jobs -> Waiting]
  BY <1>t DEF JobType, Unmounted, Waiting
<1>f. ASSUME JobType', PopupType', busy' \in BOOLEAN PROVE TypeOK'
  <2>1. FlagType'
    BY Zenon, <1>t, <1>1, <1>f DEF FlagType
  <2> QED BY <1>q, <1>1, <1>f, <2>1
<1>2. CASE OpenPopup(j) \/ SubmitUnlock(j) \/ ClickLock(j) \/ ClickSave(j)
  <2>1. \E k \in Kinds, b \in BOOLEAN : Send(j, k, b)
    BY <1>k, <1>2 DEF OpenPopup, SubmitUnlock, ClickLock, ClickSave
  <2>2. JobType' /\ busy' \in BOOLEAN
    BY <1>t, <1>k, <2>1, HandleType DEF Send
  <2>3. PopupType'
    BY <1>t, <1>2 DEF OpenPopup, SubmitUnlock, ClickLock, ClickSave, PopupType, Screens
  <2> QED BY <1>f, <2>2, <2>3
<1>3. CASE DeliverUnlocked(j)
  <2>1. pc' \in [Jobs -> Pcs] /\ copy' \in [Jobs -> Session]
    BY <1>t, <1>n, <1>3, GotoType DEF DeliverUnlocked, ShowVault
  <2>2. JobType' /\ PopupType'
    BY <1>t, <1>k, <1>w, <1>3, <2>1 DEF DeliverUnlocked, ShowVault, JobType, PopupType, Screens
  <2>3. busy' \in BOOLEAN
    BY Zenon, <1>3 DEF DeliverUnlocked, ShowVault
  <2> QED BY <1>f, <2>2, <2>3
<1>4. CASE DeliverLocked(j)
  <2>1. pc' \in [Jobs -> Pcs] /\ copy' \in [Jobs -> Session]
    BY <1>t, <1>n, <1>4, GotoType DEF DeliverLocked, ShowUnlock
  <2>2. waits' \in [Jobs -> Waiting] /\ kind' \in [Jobs -> Kinds]
    BY <1>t, <1>k, <1>w, <1>4 DEF DeliverLocked, ShowUnlock, JobType, Waiting
  <2>3. PopupType' /\ JobType'
    BY <1>4, <2>1, <2>2 DEF DeliverLocked, ShowUnlock, JobType, PopupType, Screens
  <2>4. busy' \in BOOLEAN
    BY Zenon, <1>4 DEF DeliverLocked, ShowUnlock
  <2> QED BY <1>f, <2>3, <2>4
<1>5. CASE DeliverFailure(j)
  <2>1. JobType' /\ PopupType'
    BY <1>t, <1>5, FinishType DEF DeliverFailure, FormAnswered, PopupType
  <2>2. busy' \in BOOLEAN
    BY Zenon, <1>5 DEF DeliverFailure, FormAnswered
  <2> QED BY <1>f, <2>1, <2>2
<1>6. CASE DeliverSaved(j)
  <2>1. JobType' /\ PopupType'
    BY <1>t, <1>k, <1>w, <1>6, HandleType DEF DeliverSaved, FormAnswered, PopupType
  <2>2. busy' \in BOOLEAN
    BY Zenon, <1>6 DEF DeliverSaved, FormAnswered
  <2> QED BY <1>f, <2>1, <2>2
<1>7. CASE DeliverRest(j)
  <2>1. JobType' /\ PopupType'
    BY <1>t, <1>7, FinishType DEF DeliverRest, popup, PopupType
  <2>2. busy' \in BOOLEAN
    BY Zenon, <1>t, <1>7 DEF DeliverRest, popup, FlagType
  <2> QED BY <1>f, <2>1, <2>2
<1> QED BY <1>2, <1>3, <1>4, <1>5, <1>6, <1>7 DEF PopupStep

\* Every step keeps the types.
LEMMA TypeNext == TypeOK /\ [Next]_vars => TypeOK'
<1> SUFFICES ASSUME TypeOK, [Next]_vars PROVE TypeOK'
  OBVIOUS
<1>t. StoreType /\ JobType /\ ClockType /\ PopupType /\ HistoryType /\ FlagType
  BY TypeParts
<1>q. StoreType' /\ JobType' /\ ClockType' /\ PopupType' /\ HistoryType' /\ FlagType' => TypeOK'
  BY Zenon DEF TypeOK, StoreType, JobType, ClockType, PopupType, HistoryType, FlagType
<1>1. CASE WorkerStops
  <2>1. pc' \in [Jobs -> Pcs]
    BY <1>t, <1>1 DEF WorkerStops, JobType, Pcs, Answers
  <2>2. kind' \in [Jobs -> Kinds] /\ copy' \in [Jobs -> Session] /\ waits' \in [Jobs -> Waiting]
    BY <1>t, <1>1, Numbers DEF WorkerStops, JobType, Kinds
  <2>3. StoreType' /\ ClockType' /\ PopupType' /\ HistoryType'
    BY <1>t, <1>1 DEF WorkerStops, store, popup, StoreType, ClockType, PopupType, HistoryType
  <2>4. FlagType'
    BY Zenon, <1>t, <1>1 DEF WorkerStops, popup, FlagType
  <2> QED BY <1>q, <2>1, <2>2, <2>3, <2>4 DEF JobType
<1>2. CASE ClosePopup
  <2>1. JobType' /\ PopupType'
    BY <1>t, <1>2 DEF ClosePopup, JobType, PopupType, Waiting, Screens
  <2>2. StoreType' /\ ClockType' /\ HistoryType'
    BY <1>t, <1>2 DEF ClosePopup, store, history, StoreType, ClockType, HistoryType
  <2>3. FlagType'
    BY Zenon, <1>t, <1>2 DEF ClosePopup, history, FlagType
  <2> QED BY <1>q, <2>1, <2>2, <2>3
<1>3. CASE Tick
  <2>1. ClockType'
    BY <1>t, <1>3, Numbers DEF Tick, ClockType
  <2>2. StoreType' /\ JobType' /\ PopupType' /\ HistoryType'
    BY <1>t, <1>3 DEF Tick, store, jobs, popup, history, StoreType, JobType, PopupType, HistoryType
  <2>3. FlagType'
    BY Zenon, <1>t, <1>3 DEF Tick, popup, history, FlagType
  <2> QED BY <1>q, <2>1, <2>2, <2>3
<1>4. CASE UNCHANGED vars
  <2>1. StoreType' /\ JobType' /\ ClockType' /\ PopupType' /\ HistoryType'
    BY <1>t, <1>4 DEF vars, store, jobs, popup, history, StoreType, JobType, ClockType, PopupType, HistoryType
  <2>2. FlagType'
    BY Zenon, <1>t, <1>4 DEF vars, popup, history, FlagType
  <2> QED BY <1>q, <2>1, <2>2
<1> QED BY <1>1, <1>2, <1>3, <1>4, WorkerType, PopupStepType DEF Next

\* The initial state has the types.
LEMMA TypeInit == Init => TypeOK
<1> SUFFICES ASSUME Init PROVE TypeOK
  OBVIOUS
<1>1. StoreType /\ JobType /\ PopupType
  BY Numbers DEF Init, StoreType, JobType, PopupType, Pcs, Kinds, Waiting, Screens
<1>2. ClockType /\ HistoryType
  BY Numbers DEF Init, ClockType, HistoryType
<1>3. FlagType
  BY Zenon DEF Init, FlagType
<1> QED BY <1>1, <1>2, <1>3, TypeParts

\* Storage, handlers and popup always have their types.
THEOREM TypeCorrect == Spec => []TypeOK
  BY TypeInit, TypeNext, PTL DEF Spec

----------------------------------------------------------------------------
(* Sessions that were removed stay removed *)

\* The handler that moves on, and the others.
LEMMA GotoJobs ==
    ASSUME TypeOK, NEW j \in Jobs, NEW p, NEW s, Goto(j, p, s)
    PROVE  /\ pc'[j] = p /\ copy'[j] = s
           /\ \A i \in Jobs \ {j} : pc'[i] = pc[i] /\ copy'[i] = copy[i]
  BY TypeParts DEF Goto, JobType

\* A popup step takes an idle handler, or one that has answered, and leaves it
\* without a copy of the session.
LEMMA PopupJobs ==
    ASSUME TypeOK, NEW j \in Jobs, PopupStep(j)
    PROVE  /\ pc[j] = "idle" \/ pc[j] \in Answers
           /\ \E p \in {"idle", "get", "login", "remove"} :
                /\ Goto(j, p, NoSession)
                /\ p = "remove" => kind'[j] = "lock"
           /\ \A i \in Jobs \ {j} : kind'[i] = kind[i]
           /\ UNCHANGED <<now, stored, alarm, unlocks, lastUse, gone, raced>>
<1>k. kind \in [Jobs -> Kinds]
  BY TypeParts DEF JobType
<1>u. UNCHANGED <<now, stored, alarm, unlocks, lastUse, gone, raced>>
  BY DEF PopupStep, OpenPopup, SubmitUnlock, ClickLock, ClickSave, Send, DeliverUnlocked, DeliverLocked, DeliverFailure,
         DeliverSaved, DeliverRest, store, history
<1>f. ASSUME Finish(j)
      PROVE  Goto(j, "idle", NoSession) /\ \A i \in Jobs \ {j} : kind'[i] = kind[i]
  BY <1>k, <1>f DEF Finish
<1>1. CASE OpenPopup(j) \/ SubmitUnlock(j) \/ ClickLock(j) \/ ClickSave(j)
  <2>1. PICK k \in {"getState", "unlock", "lock", "save"} : pc[j] = "idle" /\ Handle(j, k, "live")
    BY <1>1 DEF OpenPopup, SubmitUnlock, ClickLock, ClickSave, Send
  <2>2. /\ Goto(j, Entry(k), NoSession) /\ kind'[j] = k
        /\ \A i \in Jobs \ {j} : kind'[i] = kind[i]
    BY <1>k, <2>1 DEF Handle
  <2>3. Entry(k) \in {"get", "login", "remove"} /\ (Entry(k) = "remove" => k = "lock")
    BY DEF Entry
  <2> QED BY <1>u, <2>1, <2>2, <2>3
<1>2. CASE DeliverUnlocked(j)
  <2>1. /\ pc[j] \in Answers /\ Goto(j, "get", NoSession)
        /\ \A i \in Jobs \ {j} : kind'[i] = kind[i]
    BY <1>k, <1>2 DEF DeliverUnlocked, ShowVault, Answers
  <2> QED BY <1>u, <2>1
<1>3. CASE DeliverLocked(j)
  <2>1. /\ pc[j] \in Answers /\ Goto(j, "idle", NoSession)
        /\ \A i \in Jobs \ {j} : kind'[i] = kind[i]
    BY <1>k, <1>3 DEF DeliverLocked, ShowUnlock, Answers
  <2> QED BY <1>u, <2>1
<1>4. CASE DeliverFailure(j) \/ DeliverRest(j)
  <2>1. pc[j] \in Answers /\ Finish(j)
    BY <1>4 DEF DeliverFailure, DeliverRest, Answers
  <2> QED BY <1>u, <1>f, <2>1
<1>5. CASE DeliverSaved(j)
  <2>1. pc[j] \in Answers /\ Handle(j, "getItems", waits[j])
    BY <1>5 DEF DeliverSaved, Answers
  <2>2. Goto(j, "get", NoSession) /\ \A i \in Jobs \ {j} : kind'[i] = kind[i]
    BY <1>k, <2>1 DEF Handle, Entry
  <2> QED BY <1>u, <2>1, <2>2
<1> QED BY <1>1, <1>2, <1>3, <1>4, <1>5 DEF PopupStep

\* The steps of no handler.
LEMMA OtherSteps ==
    ASSUME TypeOK, ClosePopup \/ Tick \/ UNCHANGED vars
    PROVE  UNCHANGED <<stored, alarm, pc, kind, copy, unlocks, lastUse, gone, raced>>
  BY DEF ClosePopup, Tick, vars, store, jobs, history

\* A stop leaves no handler with a copy.
LEMMA StopJobs ==
    ASSUME TypeOK, WorkerStops
    PROVE  /\ \A j \in Jobs : pc'[j] \in {"idle"} \cup Answers
           /\ UNCHANGED <<now, stored, alarm, unlocks, lastUse, gone>>
<1>1. \A j \in Jobs : pc'[j] = IF ~Running(j) THEN pc[j] ELSE IF waits[j] = "nobody" THEN "idle" ELSE "rejected"
  BY DEF WorkerStops
<1> QED BY <1>1 DEF WorkerStops, Running, Answers, store

\* RemovedForGood with what it rests on: only sessions that there were are gone.
GoneInv == gone \subseteq 1 .. unlocks /\ RemovedForGood

\* Every step keeps it.
LEMMA GoneNext ==
    ASSUME TypeOK, GoneInv, [Next]_vars
    PROVE  GoneInv'
<1>n. unlocks \in Nat /\ \A u \in gone : u \in Nat /\ 1 <= u /\ u <= unlocks
  BY TypeParts, Numbers DEF HistoryType, GoneInv
<1>p. \A p \in {"idle"} \cup Answers \cup {"get", "login", "remove", "create", "call", "clear"} : p \notin {"check", "set"}
  BY DEF Answers
<1>1. ASSUME NEW j \in Jobs, NEW p, NEW s, Goto(j, p, s), p \in {"check", "set"} => s.id \notin gone,
             stored'.id \notin gone, UNCHANGED <<gone, unlocks>>
      PROVE  GoneInv'
  BY <1>1, GotoJobs DEF GoneInv, RemovedForGood
<1>2. ASSUME NEW j \in Jobs, WorkerStep(j) PROVE GoneInv'
  <2>1. CASE ReadStored(j)
    BY <1>1, <2>1 DEF ReadStored, store, history, GoneInv, RemovedForGood
  <2>2. CASE CheckLocked(j)
    <3>1. PICK p \in {"locked", "remove"} : Goto(j, p, NoSession) /\ UNCHANGED <<stored, gone, unlocks>>
      BY <2>2 DEF CheckLocked, Answer, store, history
    <3> QED BY <1>1, <3>1 DEF GoneInv, RemovedForGood
  <2>3. CASE CheckUnlocked(j)
    <3>1. pc[j] = "check" /\ UNCHANGED <<stored, gone, unlocks>>
      BY <2>3 DEF CheckUnlocked, store
    <3>2. CASE Goto(j, "ok", NoSession)
      BY <1>1, <3>1, <3>2 DEF GoneInv, RemovedForGood
    <3>3. CASE Goto(j, "set", [id |-> copy[j].id, lockAt |-> now + Idle])
      BY <1>1, <3>1, <3>3 DEF GoneInv, RemovedForGood
    <3> QED BY <2>3, <3>2, <3>3 DEF CheckUnlocked, Answer
  <2>4. CASE Login(j)
    <3>1. CASE Goto(j, "set", [id |-> unlocks + 1, lockAt |-> now + Idle]) /\ unlocks' = unlocks + 1
      <4>1. unlocks + 1 \notin gone /\ UNCHANGED <<gone, stored>>
        BY <1>n, <2>4 DEF Login, store
      <4>2. gone' \subseteq 1 .. unlocks'
        BY <1>n, <3>1, <4>1
      <4> QED BY <3>1, <4>1, <4>2, GotoJobs DEF GoneInv, RemovedForGood
    <3>2. CASE UNCHANGED unlocks /\ \E a \in {"twoFactor", "error"} : Answer(j, a)
      <4>1. PICK a \in {"twoFactor", "error"} : Goto(j, a, NoSession) /\ UNCHANGED <<stored, gone, unlocks>>
        BY <2>4, <3>2 DEF Answer, Login, store
      <4> QED BY <1>1, <4>1 DEF GoneInv, RemovedForGood
    <3> QED BY <2>4, <3>1, <3>2 DEF Login
  <2>5. CASE SetStored(j)
    BY <1>1, <2>5 DEF SetStored, history, GoneInv, RemovedForGood
  <2>6. CASE CreateAlarm(j) \/ CallServer(j)
    <3>1. PICK p \in {"ok", "call", "error"} : Goto(j, p, NoSession) /\ UNCHANGED <<stored, gone, unlocks>>
      BY <2>6 DEF CreateAlarm, CallServer, Answer, store, history
    <3> QED BY <1>1, <3>1 DEF GoneInv, RemovedForGood
  <2>7. CASE RemoveStored(j)
    <3>1. /\ stored' = NoSession /\ gone' = gone \cup ((1 .. unlocks) \ Held) /\ UNCHANGED unlocks
          /\ Goto(j, "clear", NoSession)
      BY <2>7 DEF RemoveStored
    <3>2. stored'.id \notin gone' /\ gone' \subseteq 1 .. unlocks'
      <4>1. gone' \subseteq 1 .. unlocks
        BY <3>1 DEF GoneInv
      <4>2. stored'.id = 0 /\ 0 \notin 1 .. unlocks
        BY <1>n, <3>1 DEF NoSession
      <4> QED BY <3>1, <4>1, <4>2
    <3>3. ASSUME NEW i \in Jobs, pc'[i] \in {"check", "set"} PROVE copy'[i].id \notin gone'
      <4>1. i # j /\ pc[i] \in {"check", "set"} /\ copy'[i] = copy[i]
        BY <3>1, <3>3, GotoJobs
      <4>2. copy[i].id \in Held
        BY <4>1 DEF Held
      <4> QED BY <3>1, <4>1, <4>2 DEF GoneInv, RemovedForGood
    <3> QED BY <3>2, <3>3 DEF GoneInv, RemovedForGood
  <2>8. CASE ClearAlarm(j) \/ FireAlarm(j)
    <3>1. PICK p \in {"idle", "ok", "locked", "remove"} : Goto(j, p, NoSession) /\ UNCHANGED <<stored, gone, unlocks>>
      BY <2>8 DEF ClearAlarm, FireAlarm, Finish, Answer, history
    <3> QED BY <1>1, <3>1 DEF GoneInv, RemovedForGood
  <2> QED BY <1>2, <2>1, <2>2, <2>3, <2>4, <2>5, <2>6, <2>7, <2>8 DEF WorkerStep
<1>3. ASSUME NEW j \in Jobs, PopupStep(j) PROVE GoneInv'
  <2>1. PICK p \in {"idle", "get", "login", "remove"} : Goto(j, p, NoSession)
    BY <1>3, PopupJobs
  <2>2. UNCHANGED <<stored, gone, unlocks>>
    BY <1>3, PopupJobs
  <2> QED BY <1>1, <2>1, <2>2 DEF GoneInv, RemovedForGood
<1>4. CASE WorkerStops
  BY <1>p, <1>4, StopJobs DEF GoneInv, RemovedForGood
<1>5. CASE ClosePopup \/ Tick \/ UNCHANGED vars
  BY <1>5, OtherSteps DEF GoneInv, RemovedForGood
<1> QED BY <1>2, <1>3, <1>4, <1>5 DEF Next

\* A session that was removed while no handler held it never comes back, for
\* any number of handlers and however they interleave.
THEOREM RemovalIsForGood == Spec => []RemovedForGood
<1> DEFINE Inv == TypeOK /\ GoneInv
<1>1. Init => Inv
  BY TypeInit DEF Init, GoneInv, RemovedForGood
<1>2. Inv /\ [Next]_vars => Inv'
  BY TypeNext, GoneNext
<1>3. Inv => RemovedForGood
  BY DEF GoneInv
<1>4. QED
  BY <1>1, <1>2, <1>3, PTL DEF Spec

----------------------------------------------------------------------------
(* A stored session has a timer *)

\* What a handler is about to write carries a deadline.
DeadlineOK == \A j \in Jobs : pc[j] \in {"set", "create"} => copy[j].lockAt # 0

\* TimerArmed, as a condition on the state a step leaves.
ArmedInv == DeadlineOK /\ TimerArmed

\* A handler that moves on without changing storage, alarm and history keeps
\* ArmedInv when it is not one of those TimerArmed counts on.
LEMMA MoveArmed ==
    ASSUME TypeOK, ArmedInv, NEW j \in Jobs, NEW p, NEW s, Goto(j, p, s), ~CutShort(j),
           p \in {"set", "create"} => s.lockAt # 0,
           UNCHANGED <<stored, alarm, raced>>,
           \A i \in Jobs \ {j} : kind'[i] = kind[i]
    PROVE  ArmedInv'
<1>1. DeadlineOK'
  BY GotoJobs DEF ArmedInv, DeadlineOK
<1>2. ASSUME stored'.id # 0, alarm' = 0, ~raced' PROVE \E i \in Jobs : CutShort(i)'
  <2>1. PICK i \in Jobs : CutShort(i)
    BY <1>2 DEF ArmedInv, TimerArmed
  <2>2. i # j
    BY <2>1
  <2>3. CutShort(i)'
    BY <2>1, <2>2, GotoJobs DEF CutShort
  <2> QED BY <2>3
<1> QED BY <1>1, <1>2 DEF ArmedInv, TimerArmed

\* Every step keeps it.
LEMMA ArmedNext ==
    ASSUME TypeOK, ArmedInv, [Next]_vars
    PROVE  ArmedInv'
<1>k. kind \in [Jobs -> Kinds]
  BY TypeParts DEF JobType
<1>d. now + Idle # 0
  BY TypeParts, Numbers DEF ClockType
<1>2. ASSUME NEW j \in Jobs, WorkerStep(j) PROVE ArmedInv'
  <2>1. CASE ReadStored(j)
    <3>1. ~CutShort(j) /\ Goto(j, "check", stored) /\ UNCHANGED <<stored, alarm, raced, kind>>
      BY <2>1 DEF ReadStored, CutShort, store, history
    <3> QED BY <3>1, MoveArmed
  <2>2. CASE CheckLocked(j)
    <3>1. ~CutShort(j) /\ UNCHANGED <<stored, alarm, raced, kind>>
      BY <2>2 DEF CheckLocked, CutShort, store, history
    <3>2. Goto(j, "locked", NoSession) \/ Goto(j, "remove", NoSession)
      BY <2>2 DEF CheckLocked, Answer
    <3> QED BY <3>1, <3>2, MoveArmed
  <2>3. CASE CheckUnlocked(j)
    <3>1. ~CutShort(j) /\ UNCHANGED <<stored, alarm, raced, kind>>
      BY <2>3 DEF CheckUnlocked, CutShort, store
    <3>2. Goto(j, "ok", NoSession) \/ Goto(j, "set", [id |-> copy[j].id, lockAt |-> now + Idle])
      BY <2>3 DEF CheckUnlocked, Answer
    <3> QED BY <1>d, <3>1, <3>2, MoveArmed
  <2>4. CASE Login(j)
    <3>1. ~CutShort(j) /\ UNCHANGED <<stored, alarm, raced, kind>>
      BY <2>4 DEF Login, CutShort, store
    <3>2. \/ Goto(j, "set", [id |-> unlocks + 1, lockAt |-> now + Idle])
          \/ Goto(j, "twoFactor", NoSession) \/ Goto(j, "error", NoSession)
      BY <2>4 DEF Login, Answer
    <3> QED BY <1>d, <3>1, <3>2, MoveArmed
  <2>5. CASE SetStored(j)
    <3>1. Goto(j, "create", copy[j]) /\ pc[j] = "set"
      BY <2>5 DEF SetStored
    <3>2. CutShort(j)'
      BY <3>1, GotoJobs DEF CutShort
    <3>3. DeadlineOK'
      BY <3>1, GotoJobs DEF ArmedInv, DeadlineOK
    <3> QED BY <3>2, <3>3 DEF ArmedInv, TimerArmed
  <2>6. CASE CreateAlarm(j)
    <3>1. pc[j] = "create" /\ alarm' = copy[j].lockAt /\ (Goto(j, "ok", NoSession) \/ Goto(j, "call", NoSession))
      BY <2>6 DEF CreateAlarm, Answer
    <3>2. alarm' # 0
      BY <3>1 DEF ArmedInv, DeadlineOK
    <3>3. DeadlineOK'
      BY <3>1, GotoJobs DEF ArmedInv, DeadlineOK
    <3> QED BY <3>2, <3>3 DEF ArmedInv, TimerArmed
  <2>7. CASE CallServer(j)
    <3>1. ~CutShort(j) /\ UNCHANGED <<stored, alarm, raced, kind>>
      BY <2>7 DEF CallServer, CutShort, store, history
    <3>2. Goto(j, "ok", NoSession) \/ Goto(j, "error", NoSession)
      BY <2>7 DEF CallServer, Answer
    <3> QED BY <3>1, <3>2, MoveArmed
  <2>8. CASE RemoveStored(j)
    <3>1. Goto(j, "clear", NoSession) /\ stored'.id = 0
      BY <2>8 DEF RemoveStored, NoSession
    <3>2. DeadlineOK'
      BY <3>1, GotoJobs DEF ArmedInv, DeadlineOK
    <3> QED BY <3>1, <3>2 DEF ArmedInv, TimerArmed
  <2>9. CASE ClearAlarm(j)
    <3>1. Goto(j, "idle", NoSession) \/ Goto(j, "ok", NoSession) \/ Goto(j, "locked", NoSession)
      BY <2>9 DEF ClearAlarm, Finish, Answer
    <3>2. DeadlineOK'
      BY <3>1, GotoJobs DEF ArmedInv, DeadlineOK
    <3>3. stored' = stored /\ raced' = (raced \/ stored.id # 0)
      BY Zenon, <2>9 DEF ClearAlarm
    <3>4. stored'.id # 0 => raced'
      BY Zenon, <3>3
    <3> QED BY <3>2, <3>4 DEF ArmedInv, TimerArmed
  <2>10. CASE FireAlarm(j)
    <3>1. Goto(j, "remove", NoSession) /\ kind'[j] = "alarm"
      BY <1>k, <2>10 DEF FireAlarm
    <3>2. CutShort(j)'
      BY <3>1, GotoJobs DEF CutShort
    <3>3. DeadlineOK'
      BY <3>1, GotoJobs DEF ArmedInv, DeadlineOK
    <3> QED BY <3>2, <3>3 DEF ArmedInv, TimerArmed
  <2> QED BY <1>2, <2>1, <2>2, <2>3, <2>4, <2>5, <2>6, <2>7, <2>8, <2>9, <2>10 DEF WorkerStep
<1>3. ASSUME NEW j \in Jobs, PopupStep(j) PROVE ArmedInv'
  <2>1. /\ ~CutShort(j) /\ UNCHANGED <<stored, alarm, raced>>
        /\ \A i \in Jobs \ {j} : kind'[i] = kind[i]
    BY <1>3, PopupJobs DEF CutShort, Answers
  <2>2. PICK p \in {"idle", "get", "login", "remove"} : Goto(j, p, NoSession)
    BY <1>3, PopupJobs
  <2> QED BY <2>1, <2>2, MoveArmed
<1>4. CASE WorkerStops
  <2>1. DeadlineOK'
    BY <1>4, StopJobs DEF DeadlineOK, Answers
  <2>2. raced' = (raced \/ \E j \in Jobs : CutShort(j))
    BY Zenon, <1>4 DEF WorkerStops
  <2>3. UNCHANGED <<stored, alarm>>
    BY <1>4, StopJobs
  <2>4. TimerArmed'
    BY Zenon, <2>2, <2>3 DEF ArmedInv, TimerArmed
  <2> QED BY <2>1, <2>4 DEF ArmedInv
<1>5. CASE ClosePopup \/ Tick \/ UNCHANGED vars
  <2>1. UNCHANGED <<stored, alarm, pc, kind, copy, raced>>
    BY <1>5, OtherSteps
  <2>2. \A j \in Jobs : CutShort(j)' <=> CutShort(j)
    BY <2>1 DEF CutShort
  <2> QED BY <2>1, <2>2 DEF ArmedInv, DeadlineOK, TimerArmed
<1> QED BY <1>2, <1>3, <1>4, <1>5 DEF Next

\* A stored session without an alarm is always one a handler is still dealing
\* with, or the leftover of a write or a lock that was cut short.
THEOREM TimerAlwaysArmed == Spec => []TimerArmed
<1> DEFINE Inv == TypeOK /\ ArmedInv
<1>1. Init => Inv
  BY TypeInit DEF Init, ArmedInv, DeadlineOK, TimerArmed, NoSession
<1>2. Inv /\ [Next]_vars => Inv'
  BY TypeNext, ArmedNext
<1>3. Inv => TimerArmed
  BY DEF ArmedInv
<1>4. QED
  BY <1>1, <1>2, <1>3, PTL DEF Spec

----------------------------------------------------------------------------
(* No session is used past its idle time *)

\* Session s has a deadline at most Idle after its use as u records it.
Fresh(s, u) == s.id # 0 => s.lockAt <= u[s.id] + Idle

\* Deadlines, in storage and in the copies handlers go on to use, follow the
\* last use; a handler holds a copy through steps of others that use the
\* session again, so the recorded use must never go back.
UseInv ==
    /\ \A i \in 1 .. MaxUnlocks : lastUse[i] <= now
    /\ Fresh(stored, lastUse)
    /\ \A j \in Jobs : pc[j] \in {"check", "set"} => Fresh(copy[j], lastUse)

\* A later use leaves the deadline in order.
LEMMA FreshGrows ==
    ASSUME NEW s \in Session, NEW u \in [1 .. MaxUnlocks -> Nat], NEW v \in [1 .. MaxUnlocks -> Nat],
           \A i \in 1 .. MaxUnlocks : u[i] <= v[i], Fresh(s, u)
    PROVE  Fresh(s, v)
<1>1. SUFFICES ASSUME s.id # 0 PROVE s.lockAt <= v[s.id] + Idle
  BY DEF Fresh
<1>2. s.id \in 1 .. MaxUnlocks /\ s.lockAt \in Nat /\ s.lockAt <= u[s.id] + Idle
  BY <1>1, Numbers DEF Session, Fresh
<1>3. u[s.id] \in Nat /\ v[s.id] \in Nat /\ u[s.id] <= v[s.id]
  BY <1>2
<1> QED BY <1>2, <1>3, Numbers

\* A step of one handler keeps UseInv when what it holds or stores is in order.
LEMMA MoveUse ==
    ASSUME TypeOK, TypeOK', UseInv, NEW j \in Jobs, NEW p, NEW s, Goto(j, p, s),
           p \in {"check", "set"} => Fresh(s, lastUse'),
           Fresh(stored', lastUse'), UNCHANGED now,
           \A i \in 1 .. MaxUnlocks : lastUse[i] <= lastUse'[i] /\ lastUse'[i] <= now
    PROVE  UseInv'
<1>t. lastUse \in [1 .. MaxUnlocks -> Nat] /\ lastUse' \in [1 .. MaxUnlocks -> Nat] /\ copy \in [Jobs -> Session]
  BY DEF TypeOK
<1>1. ASSUME NEW i \in Jobs, pc'[i] \in {"check", "set"} PROVE Fresh(copy'[i], lastUse')
  <2>1. CASE i = j
    BY <1>1, <2>1, GotoJobs
  <2>2. CASE i # j
    <3>1. pc[i] \in {"check", "set"} /\ copy'[i] = copy[i] /\ copy[i] \in Session
      BY <1>t, <1>1, <2>2, GotoJobs
    <3>2. Fresh(copy[i], lastUse)
      BY <3>1 DEF UseInv
    <3> QED BY <1>t, <3>1, <3>2, FreshGrows
  <2> QED BY <2>1, <2>2
<1> QED BY <1>1 DEF UseInv

\* A step that uses no session.
LEMMA QuietUse ==
    ASSUME TypeOK, TypeOK', UseInv, NEW j \in Jobs, NEW p, NEW s, Goto(j, p, s),
           p \in {"check", "set"} => Fresh(s, lastUse),
           Fresh(stored', lastUse), UNCHANGED <<now, lastUse>>
    PROVE  UseInv'
<1>1. \A i \in 1 .. MaxUnlocks : lastUse[i] <= lastUse'[i] /\ lastUse'[i] <= now
  BY DEF UseInv, TypeOK
<1> QED BY <1>1, MoveUse

\* A step that uses session n and holds a copy with a new deadline.
LEMMA TouchUse ==
    ASSUME TypeOK, TypeOK', UseInv, NEW j \in Jobs, NEW n \in 1 .. MaxUnlocks,
           Goto(j, "set", [id |-> n, lockAt |-> now + Idle]),
           lastUse' = [lastUse EXCEPT ![n] = now], UNCHANGED <<now, stored>>
    PROVE  UseInv'
<1>t. lastUse \in [1 .. MaxUnlocks -> Nat] /\ lastUse' \in [1 .. MaxUnlocks -> Nat] /\ now \in Nat /\ stored \in Session
  BY Numbers DEF TypeOK
<1>1. \A i \in 1 .. MaxUnlocks : lastUse[i] <= lastUse'[i] /\ lastUse'[i] <= now
  BY <1>t DEF UseInv
<1>2. Fresh([id |-> n, lockAt |-> now + Idle], lastUse')
  <2>1. lastUse'[n] = now
    BY <1>t
  <2> QED BY <1>t, <2>1, Numbers DEF Fresh
<1>3. Fresh(stored', lastUse')
  BY <1>t, <1>1, FreshGrows DEF UseInv
<1> QED BY <1>1, <1>2, <1>3, MoveUse

\* Every step keeps it.
LEMMA UseNext ==
    ASSUME TypeOK, UseInv, [Next]_vars
    PROVE  UseInv'
<1>t. TypeOK'
  BY TypeNext
<1>n. Fresh(NoSession, lastUse) /\ Fresh(stored, lastUse)
  BY DEF Fresh, NoSession, UseInv
<1>2. ASSUME NEW j \in Jobs, WorkerStep(j) PROVE UseInv'
  <2>1. CASE ReadStored(j)
    <3>1. Goto(j, "check", stored) /\ UNCHANGED <<now, stored, lastUse>>
      BY <2>1 DEF ReadStored, store, history
    <3> QED BY <1>t, <1>n, <3>1, QuietUse
  <2>2. CASE CheckLocked(j)
    <3>1. UNCHANGED <<now, stored, lastUse>> /\ (Goto(j, "locked", NoSession) \/ Goto(j, "remove", NoSession))
      BY <2>2 DEF CheckLocked, Answer, store, history
    <3> QED BY <1>t, <1>n, <3>1, QuietUse
  <2>3. CASE CheckUnlocked(j)
    <3>1. UNCHANGED <<now, stored>> /\ copy[j].id \in 1 .. MaxUnlocks
      BY <2>3, Numbers DEF CheckUnlocked, store, TypeOK, Session
    <3>2. CASE Goto(j, "ok", NoSession) /\ UNCHANGED lastUse
      BY <1>t, <1>n, <3>1, <3>2, QuietUse
    <3>3. CASE /\ Goto(j, "set", [id |-> copy[j].id, lockAt |-> now + Idle])
               /\ lastUse' = [lastUse EXCEPT ![copy[j].id] = now]
      BY <1>t, <3>1, <3>3, TouchUse
    <3> QED BY <2>3, <3>2, <3>3 DEF CheckUnlocked, Answer
  <2>4. CASE Login(j)
    <3>1. UNCHANGED <<now, stored>>
      BY <2>4 DEF Login, store
    <3>2. CASE /\ unlocks < MaxUnlocks
               /\ lastUse' = [lastUse EXCEPT ![unlocks + 1] = now]
               /\ Goto(j, "set", [id |-> unlocks + 1, lockAt |-> now + Idle])
      <4>1. unlocks + 1 \in 1 .. MaxUnlocks
        BY <3>2, Numbers DEF TypeOK
      <4> QED BY <1>t, <3>1, <3>2, <4>1, TouchUse
    <3>3. CASE UNCHANGED lastUse /\ (Goto(j, "twoFactor", NoSession) \/ Goto(j, "error", NoSession))
      BY <1>t, <1>n, <3>1, <3>3, QuietUse
    <3> QED BY <2>4, <3>2, <3>3 DEF Login, Answer
  <2>5. CASE SetStored(j)
    <3>1. pc[j] = "set" /\ stored' = copy[j] /\ Goto(j, "create", copy[j]) /\ UNCHANGED <<now, lastUse>>
      BY <2>5 DEF SetStored, history
    <3>2. Fresh(copy[j], lastUse)
      BY <3>1 DEF UseInv
    <3> QED BY <1>t, <3>1, <3>2, QuietUse
  <2>6. CASE CreateAlarm(j)
    <3>1. UNCHANGED <<now, stored, lastUse>> /\ (Goto(j, "ok", NoSession) \/ Goto(j, "call", NoSession))
      BY <2>6 DEF CreateAlarm, Answer, history
    <3> QED BY <1>t, <1>n, <3>1, QuietUse
  <2>7. CASE CallServer(j)
    <3>1. UNCHANGED <<now, stored, lastUse>> /\ (Goto(j, "ok", NoSession) \/ Goto(j, "error", NoSession))
      BY <2>7 DEF CallServer, Answer, store, history
    <3> QED BY <1>t, <1>n, <3>1, QuietUse
  <2>8. CASE RemoveStored(j)
    <3>1. UNCHANGED <<now, lastUse>> /\ stored' = NoSession /\ Goto(j, "clear", NoSession)
      BY <2>8 DEF RemoveStored
    <3> QED BY <1>t, <1>n, <3>1, QuietUse
  <2>9. CASE ClearAlarm(j)
    <3>1. Goto(j, "idle", NoSession) \/ Goto(j, "ok", NoSession) \/ Goto(j, "locked", NoSession)
      BY <2>9 DEF ClearAlarm, Finish, Answer
    <3>2. UNCHANGED <<now, stored, lastUse>>
      BY <2>9 DEF ClearAlarm
    <3> QED BY <1>t, <1>n, <3>1, <3>2, QuietUse
  <2>10. CASE FireAlarm(j)
    <3>1. UNCHANGED <<now, stored, lastUse>> /\ Goto(j, "remove", NoSession)
      BY <2>10 DEF FireAlarm, history
    <3> QED BY <1>t, <1>n, <3>1, QuietUse
  <2> QED BY <1>2, <2>1, <2>2, <2>3, <2>4, <2>5, <2>6, <2>7, <2>8, <2>9, <2>10 DEF WorkerStep
<1>3. ASSUME NEW j \in Jobs, PopupStep(j) PROVE UseInv'
  <2>1. PICK p \in {"idle", "get", "login", "remove"} : Goto(j, p, NoSession)
    BY <1>3, PopupJobs
  <2>2. UNCHANGED <<now, stored, lastUse>>
    BY <1>3, PopupJobs
  <2> QED BY <1>t, <1>n, <2>1, <2>2, QuietUse
<1>4. CASE WorkerStops
  <2>1. UNCHANGED <<now, stored, lastUse>> /\ \A j \in Jobs : pc'[j] \notin {"check", "set"}
    BY <1>4, StopJobs DEF Answers
  <2> QED BY <1>n, <2>1 DEF UseInv
<1>5. CASE ClosePopup \/ Tick \/ UNCHANGED vars
  <2>1. UNCHANGED <<stored, pc, copy, lastUse>>
    BY <1>5, OtherSteps
  <2>2. now' = now \/ now' = now + 1
    BY <1>5 DEF ClosePopup, Tick, vars
  <2>3. \A i \in 1 .. MaxUnlocks : lastUse'[i] <= now'
    BY <2>1, <2>2 DEF UseInv, TypeOK
  <2> QED BY <2>1, <2>3 DEF UseInv
<1> QED BY <1>2, <1>3, <1>4, <1>5 DEF Next

\* A handler goes from its check to the write, or to the answer that the vault
\* is open, only within Idle of the session's last use.
LEMMA UseStep ==
    ASSUME TypeOK, UseInv, [Next]_vars, NEW j \in Jobs, pc[j] = "check", pc'[j] \in {"set", "ok"}
    PROVE  now <= lastUse[copy[j].id] + Idle
<1>1. ASSUME NEW i \in Jobs, WorkerStep(i) \/ PopupStep(i), i # j PROVE FALSE
  <2>1. \E p, s : Goto(i, p, s)
    <3>1. CASE PopupStep(i)
      BY <3>1, PopupJobs
    <3>2. CASE WorkerStep(i)
      BY <3>2 DEF WorkerStep, ReadStored, CheckLocked, CheckUnlocked, Login, SetStored, CreateAlarm, CallServer,
                  RemoveStored, ClearAlarm, FireAlarm, Answer, Finish
    <3> QED BY <1>1, <3>1, <3>2
  <2> QED BY <1>1, <2>1, GotoJobs
<1>2. ASSUME PopupStep(j) PROVE FALSE
  BY <1>2, PopupJobs DEF Answers
<1>3. ASSUME WorkerStep(j) PROVE CheckUnlocked(j)
  <2>1. CASE CheckLocked(j)
    <3>1. Goto(j, "locked", NoSession) \/ Goto(j, "remove", NoSession)
      BY <2>1 DEF CheckLocked, Answer
    <3> QED BY <3>1, GotoJobs
  <2>2. ~(ReadStored(j) \/ Login(j) \/ SetStored(j) \/ CreateAlarm(j) \/ CallServer(j) \/ RemoveStored(j)
          \/ ClearAlarm(j) \/ FireAlarm(j))
    BY DEF ReadStored, Login, SetStored, CreateAlarm, CallServer, RemoveStored, ClearAlarm, FireAlarm
  <2> QED BY <1>3, <2>1, <2>2 DEF WorkerStep
<1>4. CASE WorkerStops
  <2>1. Running(j) /\ pc'[j] = IF waits[j] = "nobody" THEN "idle" ELSE "rejected"
    BY <1>4 DEF WorkerStops, Running, Answers
  <2> QED BY <2>1
<1>5. CASE ClosePopup \/ Tick \/ UNCHANGED vars
  BY <1>5, OtherSteps
<1>6. CASE CheckUnlocked(j)
  <2>1. copy[j].id # 0 /\ ~(now > copy[j].lockAt)
    BY <1>6 DEF CheckUnlocked, Expired
  <2>2. copy[j].id \in 1 .. MaxUnlocks /\ copy[j].lockAt \in Nat /\ now \in Nat
    BY <2>1, Numbers DEF TypeOK, Session
  <2>3. copy[j].lockAt <= lastUse[copy[j].id] + Idle /\ lastUse[copy[j].id] \in Nat
    BY <2>1, <2>2 DEF UseInv, Fresh, TypeOK
  <2> QED BY <2>1, <2>2, <2>3, Numbers
<1> QED BY <1>1, <1>2, <1>3, <1>4, <1>5, <1>6 DEF Next

\* However late or lost the alarm, no handler ever works with a session that
\* was not used for Idle.
THEOREM IdleNeverUsed == Spec => NeverUsedIdle
<1> DEFINE Inv == TypeOK /\ UseInv
<1>1. Init => Inv
  <2>1. ASSUME Init PROVE UseInv
    BY <2>1 DEF Init, UseInv, Fresh, NoSession
  <2> QED BY <2>1, TypeInit
<1>2. Inv /\ [Next]_vars => Inv'
  BY TypeNext, UseNext
<1>3. Inv /\ [Next]_vars =>
        [\A j \in Jobs : pc[j] = "check" /\ (pc'[j] = "set" \/ pc'[j] = "ok")
                           => now <= lastUse[copy[j].id] + Idle]_vars
  BY UseStep
<1>4. QED
  BY <1>1, <1>2, <1>3, PTL DEF Spec, NeverUsedIdle

----------------------------------------------------------------------------
(* The Unlock form gets its answer *)

\* Handler j is the unlock the form waits for.
AnswersForm(j) == kind[j] = "unlock" /\ waits[j] = "live" /\ pc[j] # "idle"

\* The form's invariant survives a step after which it is busy only if it was,
\* and which leaves the unlock it waits for alone.
LEMMA FormKept ==
    ASSUME UnlockFormAnswers,
           screen' = "unlock" /\ busy' => screen = "unlock" /\ busy,
           \A j \in Jobs : screen' = "unlock" /\ busy' /\ AnswersForm(j) => AnswersForm(j)'
    PROVE  UnlockFormAnswers'
  BY DEF UnlockFormAnswers, AnswersForm

\* The worker never ends a handler that somebody waits for without an answer.
LEMMA WorkerForm ==
    ASSUME TypeOK, UnlockFormAnswers, NEW j \in Jobs, WorkerStep(j)
    PROVE  UnlockFormAnswers'
<1>t. JobType
  BY TypeParts
<1>1. screen' = screen /\ busy' = busy
  BY DEF WorkerStep, ReadStored, CheckLocked, CheckUnlocked, Login, SetStored, CreateAlarm, CallServer,
         RemoveStored, ClearAlarm, FireAlarm, popup
<1>2. ASSUME UNCHANGED <<kind, waits>>, NEW p, NEW s, Goto(j, p, s), p # "idle"
      PROVE  UnlockFormAnswers'
  <2>1. \A i \in Jobs : AnswersForm(i) => AnswersForm(i)'
    BY <1>2, GotoJobs DEF AnswersForm
  <2> QED BY <1>1, <2>1, FormKept
<1>3. ASSUME kind[j] = "alarm" \/ pc[j] = "idle",
             \A i \in Jobs \ {j} : pc'[i] = pc[i] /\ kind'[i] = kind[i] /\ waits'[i] = waits[i]
      PROVE  UnlockFormAnswers'
  <2>1. \A i \in Jobs : AnswersForm(i) => AnswersForm(i)'
    BY <1>3 DEF AnswersForm
  <2> QED BY <1>1, <2>1, FormKept
<1>4. CASE ReadStored(j) \/ CheckLocked(j) \/ CheckUnlocked(j) \/ Login(j)
  BY <1>2, <1>4 DEF ReadStored, CheckLocked, CheckUnlocked, Login, Answer
<1>5. CASE SetStored(j) \/ CreateAlarm(j) \/ CallServer(j) \/ RemoveStored(j)
  BY <1>2, <1>5 DEF SetStored, CreateAlarm, CallServer, RemoveStored, Answer
<1>6. CASE ClearAlarm(j)
  <2>1. CASE kind[j] = "alarm" /\ Finish(j)
    BY <1>t, <1>3, <2>1, GotoJobs DEF Finish, JobType
  <2>2. CASE UNCHANGED <<kind, waits>> /\ (Goto(j, "ok", NoSession) \/ Goto(j, "locked", NoSession))
    BY <1>2, <2>2
  <2> QED BY <1>6, <2>1, <2>2 DEF ClearAlarm, Answer
<1>7. CASE FireAlarm(j)
  BY <1>t, <1>3, <1>7, GotoJobs DEF FireAlarm, JobType
<1> QED BY <1>4, <1>5, <1>6, <1>7 DEF WorkerStep

\* The popup takes an answer from the form only with the form's own unlock.
LEMMA PopupForm ==
    ASSUME TypeOK, UnlockFormAnswers, NEW j \in Jobs, PopupStep(j)
    PROVE  UnlockFormAnswers'
<1>t. JobType
  BY TypeParts
<1>3. ASSUME screen' = "unlock" /\ busy' => screen = "unlock" /\ busy /\ ~AnswersForm(j),
             screen' = "unlock" /\ busy' =>
               \A i \in Jobs \ {j} : pc'[i] = pc[i] /\ kind'[i] = kind[i] /\ waits'[i] = waits[i]
      PROVE  UnlockFormAnswers'
  <2>1. ASSUME NEW i \in Jobs, screen' = "unlock", busy', AnswersForm(i) PROVE AnswersForm(i)'
    BY <1>3, <2>1 DEF AnswersForm
  <2> QED BY <1>3, <2>1, FormKept
<1>f. ASSUME Finish(j)
      PROVE  \A i \in Jobs \ {j} : pc'[i] = pc[i] /\ kind'[i] = kind[i] /\ waits'[i] = waits[i]
  BY <1>t, <1>f, GotoJobs DEF Finish, JobType
<1>4. CASE OpenPopup(j) \/ ClickLock(j) \/ ClickSave(j) \/ DeliverUnlocked(j)
  <2>1. screen' # "unlock"
    BY <1>4 DEF OpenPopup, ClickLock, ClickSave, DeliverUnlocked, ShowVault
  <2> QED BY <2>1 DEF UnlockFormAnswers
<1>5. CASE SubmitUnlock(j)
  <2>1. Goto(j, "login", NoSession) /\ kind'[j] = "unlock" /\ waits'[j] = "live"
    BY <1>t, <1>5 DEF SubmitUnlock, Send, Handle, Entry, JobType
  <2>2. pc'[j] # "idle"
    BY <2>1, GotoJobs
  <2> QED BY <2>1, <2>2 DEF UnlockFormAnswers
<1>6. CASE DeliverLocked(j)
  <2>1. kind[j] # "unlock" /\ ShowUnlock(j)
    BY <1>6 DEF DeliverLocked
  <2>2. busy' => screen = "unlock" /\ busy
    BY Zenon, <2>1 DEF ShowUnlock
  <2>3. screen = "unlock" => \A i \in Jobs \ {j} : pc'[i] = pc[i] /\ kind'[i] = kind[i] /\ waits'[i] = waits[i]
    BY <1>t, <2>1, GotoJobs DEF ShowUnlock, JobType
  <2> QED BY <1>3, <2>1, <2>2, <2>3 DEF AnswersForm
<1>7. CASE DeliverFailure(j)
  <2>1. FormAnswered(j) /\ Finish(j)
    BY <1>7 DEF DeliverFailure
  <2>2. busy' => busy /\ waits[j] # "live"
    BY Zenon, <2>1 DEF FormAnswered
  <2>3. screen' = screen
    BY <2>1 DEF FormAnswered
  <2> QED BY <1>3, <1>f, <2>1, <2>2, <2>3 DEF AnswersForm
<1>8. CASE DeliverSaved(j)
  <2>1. kind[j] = "save" /\ FormAnswered(j) /\ Handle(j, "getItems", waits[j])
    BY <1>8 DEF DeliverSaved
  <2>2. busy' => busy
    BY Zenon, <2>1 DEF FormAnswered
  <2>3. screen' = screen
    BY <2>1 DEF FormAnswered
  <2>4. \A i \in Jobs \ {j} : pc'[i] = pc[i] /\ kind'[i] = kind[i] /\ waits'[i] = waits[i]
    BY <1>t, <2>1, GotoJobs DEF Handle, JobType
  <2> QED BY <1>3, <2>1, <2>2, <2>3, <2>4 DEF AnswersForm
<1>9. CASE DeliverRest(j)
  <2>1. Finish(j) /\ ~AnswersForm(j)
    BY <1>9 DEF DeliverRest, AnswersForm
  <2>2. screen' = screen /\ busy' = busy
    BY <1>9 DEF DeliverRest, popup
  <2> QED BY <1>3, <1>f, <2>1, <2>2
<1> QED BY <1>4, <1>5, <1>6, <1>7, <1>8, <1>9 DEF PopupStep

\* Every step keeps the form's invariant; a stopped worker rejects the promise
\* the form waits for.
LEMMA FormNext ==
    ASSUME TypeOK, UnlockFormAnswers, [Next]_vars
    PROVE  UnlockFormAnswers'
<1>1. CASE WorkerStops
  <2>1. screen' = screen /\ busy' = busy /\ waits' = waits
    BY <1>1 DEF WorkerStops, popup
  <2>2. ASSUME NEW j \in Jobs, AnswersForm(j) PROVE AnswersForm(j)'
    <3>1. kind'[j] = kind[j] /\ (pc'[j] = pc[j] \/ pc'[j] = "rejected")
      BY <1>1, <2>2 DEF WorkerStops, AnswersForm
    <3> QED BY <2>1, <2>2, <3>1 DEF AnswersForm
  <2> QED BY <2>1, <2>2, FormKept
<1>2. CASE ClosePopup
  BY <1>2 DEF ClosePopup, UnlockFormAnswers
<1>3. CASE Tick \/ UNCHANGED vars
  <2>1. UNCHANGED <<screen, busy, pc, kind, waits>>
    BY <1>3 DEF Tick, vars, jobs, popup
  <2> QED BY <2>1 DEF UnlockFormAnswers
<1> QED BY <1>1, <1>2, <1>3, WorkerForm, PopupForm DEF Next

\* A busy Unlock form always has an unlock under way whose answer it takes.
THEOREM FormAlwaysAnswered == Spec => []UnlockFormAnswers
<1> DEFINE Inv == TypeOK /\ UnlockFormAnswers
<1>1. Init => Inv
  BY TypeInit DEF Init, UnlockFormAnswers
<1>2. Inv /\ [Next]_vars => Inv'
  BY TypeNext, FormNext
<1>3. QED
  BY <1>1, <1>2, PTL DEF Spec

----------------------------------------------------------------------------
(* One handler at a time *)

\* What a user who waits for every answer can rely on, while the worker is not
\* stopped: the alarm is the stored deadline, or the one handler is between
\* the two calls that keep them equal; a lock that has removed the session has
\* ended every session there was.
LockIsComplete ==
    /\ stored.id # 0 => alarm = stored.lockAt \/ \E j \in Jobs : CutShort(j)
    /\ \A j \in Jobs : pc[j] = "clear" => stored.id = 0 /\ gone = 1 .. unlocks

\* LockIsComplete with what it rests on: nothing is ever left without alarm,
\* and what a write is about to set the alarm for is what it stored.
SeqInv ==
    /\ raced = FALSE
    /\ LockIsComplete
    /\ \A j \in Jobs : pc[j] = "create" => copy[j] = stored

\* The one handler moves to an await SeqInv does not speak of.
LEMMA MoveSeq ==
    ASSUME TypeOK, SeqInv, \A i, k \in Jobs : i = k, NEW j \in Jobs, NEW p, NEW s, Goto(j, p, s), ~CutShort(j),
           p \notin {"create", "clear"}, UNCHANGED <<stored, alarm, raced>>
    PROVE  SeqInv'
<1>1. \A i \in Jobs : i = j
  OBVIOUS
<1>2. \A i \in Jobs : pc'[i] = p
  BY <1>1, GotoJobs
<1>3. stored'.id # 0 => alarm' = stored'.lockAt
  BY <1>1 DEF SeqInv, LockIsComplete
<1>4. LockIsComplete'
  BY <1>2, <1>3 DEF LockIsComplete
<1>5. \A i \in Jobs : pc'[i] # "create"
  BY <1>2
<1>6. raced' = FALSE
  BY Zenon DEF SeqInv
<1> QED BY Zenon, <1>4, <1>5, <1>6 DEF SeqInv

\* Every step keeps it while the worker is not stopped.
LEMMA SeqNext ==
    ASSUME TypeOK, GoneInv, SeqInv, ~MayStop, \A i, k \in Jobs : i = k, [Next]_vars
    PROVE  SeqInv'
<1>k. kind \in [Jobs -> Kinds]
  BY TypeParts DEF JobType
<1>r. raced = FALSE
  BY Zenon DEF SeqInv
<1>q. ASSUME raced' = FALSE, LockIsComplete', \A i \in Jobs : pc'[i] = "create" => copy'[i] = stored'
      PROVE  SeqInv'
  BY Zenon, <1>q DEF SeqInv
<1>2. ASSUME NEW j \in Jobs, WorkerStep(j) PROVE SeqInv'
  <2>j. \A i \in Jobs : i = j
    OBVIOUS
  <2>1. CASE ReadStored(j) \/ CheckLocked(j) \/ CheckUnlocked(j)
    <3>1. ~CutShort(j) /\ UNCHANGED <<stored, alarm, raced>>
      BY <2>1 DEF ReadStored, CheckLocked, CheckUnlocked, CutShort, store, history
    <3>2. \E p \in {"check", "locked", "remove", "ok", "set"} : \E s : Goto(j, p, s)
      BY <2>1 DEF ReadStored, CheckLocked, CheckUnlocked, Answer
    <3> QED BY <3>1, <3>2, MoveSeq
  <2>2. CASE Login(j) \/ CallServer(j)
    <3>1. ~CutShort(j) /\ UNCHANGED <<stored, alarm, raced>>
      BY <2>2 DEF Login, CallServer, CutShort, store, history
    <3>2. \E p \in {"set", "twoFactor", "error", "ok"} : \E s : Goto(j, p, s)
      BY <2>2 DEF Login, CallServer, Answer
    <3> QED BY <3>1, <3>2, MoveSeq
  <2>3. CASE SetStored(j)
    <3>1. Goto(j, "create", copy[j]) /\ stored' = copy[j] /\ raced' = raced
      BY <2>3 DEF SetStored, history
    <3>2. pc'[j] = "create" /\ copy'[j] = stored'
      BY <3>1, GotoJobs
    <3>3. CutShort(j)'
      BY <3>2 DEF CutShort
    <3>4. LockIsComplete'
      BY <2>j, <3>2, <3>3 DEF LockIsComplete
    <3> QED BY <1>q, <1>r, <2>j, <3>1, <3>2, <3>4
  <2>4. CASE CreateAlarm(j)
    <3>1. pc[j] = "create" /\ alarm' = copy[j].lockAt /\ UNCHANGED <<stored, raced>>
          /\ (Goto(j, "ok", NoSession) \/ Goto(j, "call", NoSession))
      BY <2>4 DEF CreateAlarm, Answer, history
    <3>2. alarm' = stored'.lockAt
      BY <3>1 DEF SeqInv
    <3>3. \A i \in Jobs : pc'[i] \in {"ok", "call"}
      BY <2>j, <3>1, GotoJobs
    <3>4. LockIsComplete' /\ \A i \in Jobs : pc'[i] # "create"
      BY <3>2, <3>3 DEF LockIsComplete
    <3> QED BY <1>q, <1>r, <3>1, <3>4
  <2>5. CASE RemoveStored(j)
    <3>1. /\ pc[j] = "remove" /\ stored' = NoSession /\ gone' = gone \cup ((1 .. unlocks) \ Held)
          /\ Goto(j, "clear", NoSession) /\ UNCHANGED <<unlocks, raced>>
      BY <2>5 DEF RemoveStored
    <3>2. Held = {}
      BY <2>j, <3>1 DEF Held
    <3>3. stored'.id = 0 /\ gone' = 1 .. unlocks'
      BY <3>1, <3>2 DEF NoSession, GoneInv
    <3>4. \A i \in Jobs : pc'[i] # "create"
      BY <2>j, <3>1, GotoJobs
    <3>5. LockIsComplete'
      BY <3>3 DEF LockIsComplete
    <3> QED BY <1>q, <1>r, <3>1, <3>4, <3>5
  <2>6. CASE ClearAlarm(j)
    <3>1. pc[j] = "clear" /\ stored' = stored
      BY <2>6 DEF ClearAlarm
    <3>2. Goto(j, "idle", NoSession) \/ Goto(j, "ok", NoSession) \/ Goto(j, "locked", NoSession)
      BY <2>6 DEF ClearAlarm, Finish, Answer
    <3>3. stored.id = 0
      BY <3>1 DEF SeqInv, LockIsComplete
    <3>4. raced' = (raced \/ stored.id # 0)
      BY Zenon, <2>6 DEF ClearAlarm
    <3>5. raced' = FALSE
      BY Zenon, <1>r, <3>3, <3>4
    <3>6. \A i \in Jobs : pc'[i] \in {"idle", "ok", "locked"}
      BY <2>j, <3>2, GotoJobs
    <3>7. LockIsComplete' /\ \A i \in Jobs : pc'[i] # "create"
      BY <3>1, <3>3, <3>6 DEF LockIsComplete
    <3> QED BY <1>q, <3>5, <3>7
  <2>7. CASE FireAlarm(j)
    <3>1. Goto(j, "remove", NoSession) /\ kind'[j] = "alarm" /\ raced' = raced
      BY <1>k, <2>7 DEF FireAlarm, history
    <3>2. pc'[j] = "remove"
      BY <3>1, GotoJobs
    <3>3. CutShort(j)'
      BY <3>1, <3>2 DEF CutShort
    <3>4. LockIsComplete' /\ \A i \in Jobs : pc'[i] # "create"
      BY <2>j, <3>2, <3>3 DEF LockIsComplete
    <3> QED BY <1>q, <1>r, <3>1, <3>4
  <2> QED BY <1>2, <2>1, <2>2, <2>3, <2>4, <2>5, <2>6, <2>7 DEF WorkerStep
<1>3. ASSUME NEW j \in Jobs, PopupStep(j) PROVE SeqInv'
  <2>1. ~CutShort(j) /\ UNCHANGED <<stored, alarm, raced>>
    BY <1>3, PopupJobs DEF CutShort, Answers
  <2>2. PICK p \in {"idle", "get", "login", "remove"} : Goto(j, p, NoSession)
    BY <1>3, PopupJobs
  <2> QED BY <2>1, <2>2, MoveSeq
<1>4. ~WorkerStops
  BY Zenon DEF WorkerStops
<1>5. CASE ClosePopup \/ Tick \/ UNCHANGED vars
  <2>1. UNCHANGED <<stored, alarm, pc, kind, copy, unlocks, gone, raced>>
    BY <1>5, OtherSteps
  <2>2. \A j \in Jobs : CutShort(j)' <=> CutShort(j)
    BY <2>1 DEF CutShort
  <2>3. LockIsComplete'
    BY <2>1, <2>2 DEF LockIsComplete, SeqInv
  <2>4. \A i \in Jobs : pc'[i] = "create" => copy'[i] = stored'
    BY <2>1 DEF SeqInv
  <2> QED BY <1>q, <1>r, <2>1, <2>3, <2>4
<1> QED BY <1>2, <1>3, <1>4, <1>5 DEF Next

\* While messages are handled one at a time and the worker is not stopped, the
\* alarm follows the stored deadline and a lock ends every session: the
\* exceptions of TimerArmed and RemovedForGood need two handlers or a stop.
THEOREM SequentialLock ==
    ASSUME ~MayStop, \A i, k \in Jobs : i = k
    PROVE  Spec => []LockIsComplete
<1> DEFINE Inv == TypeOK /\ GoneInv /\ SeqInv
<1>1. Init => Inv
  <2> SUFFICES ASSUME Init PROVE Inv
    OBVIOUS
  <2>1. TypeOK /\ GoneInv
    BY TypeInit DEF Init, GoneInv, RemovedForGood
  <2>2. LockIsComplete /\ \A j \in Jobs : pc[j] # "create"
    BY DEF Init, LockIsComplete, NoSession
  <2>3. raced = FALSE
    BY Zenon DEF Init
  <2> QED BY Zenon, <2>1, <2>2, <2>3 DEF SeqInv
<1>2. Inv /\ [Next]_vars => Inv'
  BY TypeNext, GoneNext, SeqNext
<1>3. Inv => LockIsComplete
  BY DEF SeqInv
<1>4. QED
  BY <1>1, <1>2, <1>3, PTL DEF Spec
=============================================================================
