------------------------------ MODULE Extension ------------------------------
(***************************************************************************)
(* The browser extension: the background worker that owns the unlocked     *)
(* session (entrypoints/background.ts) and the popup that talks to it      *)
(* (entrypoints/popup/App.tsx).                                            *)
(*                                                                         *)
(* Every message handler is a job; each await on browser.storage,          *)
(* browser.alarms or the server ends a step, so handlers interleave at     *)
(* exactly those points, and a handler works on the copy of the session it *)
(* read.  The worker may be stopped at any point: the jobs are gone, what  *)
(* is in storage.session and the alarm stay.                               *)
(***************************************************************************)
EXTENDS Naturals

CONSTANTS
    Jobs,        \* handlers that can run at the same time
    Idle,        \* IDLE_MS
    LastInput,   \* bound: the user does nothing after this time
    MaxUnlocks,  \* bound on successful unlocks
    MayStop      \* whether the worker may be stopped

ASSUME ExtensionAssumption ==
    /\ Idle \in Nat \ {0}
    /\ LastInput \in Nat \ {0}
    /\ MaxUnlocks \in Nat
    /\ MayStop \in BOOLEAN

VARIABLES
    now,      \* Date.now(), starts at 1
    stored,   \* storage.session "session"
    alarm,    \* the time LOCK_ALARM is set for, 0 when there is none
    \* The jobs.
    pc,       \* the await a handler is at, or its answer
    kind,     \* the message it handles
    copy,     \* its local StoredSession
    waits,    \* who waits for its answer
    \* The popup's React state.
    screen,   \* what is shown
    busy,     \* the Unlock form or the item editor waits for an answer
    \* History.
    unlocks,  \* successful unlocks so far; sessions are numbered from 1
    lastUse,  \* per session, when the user last unlocked or used it
    gone,     \* sessions removed while no handler could write them back
    raced     \* a write or a lock was cut short and left a session without alarm

store == <<stored, alarm>>
jobs == <<pc, kind, copy, waits>>
popup == <<screen, busy>>
history == <<unlocks, lastUse, gone, raced>>
vars == <<now, store, jobs, popup, history>>

----------------------------------------------------------------------------
(* Types *)

MaxTime == LastInput + Idle + 1

\* StoredSession: identifier, tokens and key are the number of the unlock
\* that produced them; 0 is no session.
NoSession == [id |-> 0, lockAt |-> 0]
Session == [id : 0 .. MaxUnlocks, lockAt : Nat]

\* The messages; save stands for addItem, updateItem and deleteItem, and
\* alarm for the onAlarm listener.
Kinds == {"getState", "unlock", "lock", "getItems", "save", "alarm"}

Answers == {"ok", "locked", "twoFactor", "error", "rejected"}
Pcs == {"idle", "get", "check", "remove", "clear", "login", "set", "create", "call"} \cup Answers

\* Who waits: the component that asked, only the popup's App because the
\* component was unmounted, or nobody because the popup was closed.
Waiting == {"live", "app", "nobody"}

Screens == {"closed", "loading", "unlock", "vault"}

TypeOK ==
    /\ now \in 1 .. MaxTime
    /\ stored \in Session
    /\ alarm \in Nat
    /\ pc \in [Jobs -> Pcs]
    /\ kind \in [Jobs -> Kinds]
    /\ copy \in [Jobs -> Session]
    /\ waits \in [Jobs -> Waiting]
    /\ screen \in Screens
    /\ busy \in BOOLEAN
    /\ unlocks \in 0 .. MaxUnlocks
    /\ lastUse \in [1 .. MaxUnlocks -> Nat]
    /\ gone \in SUBSET (1 .. MaxUnlocks)
    /\ raced \in BOOLEAN

Init ==
    /\ now = 1
    /\ stored = NoSession
    /\ alarm = 0
    /\ pc = [j \in Jobs |-> "idle"]
    /\ kind = [j \in Jobs |-> "alarm"]
    /\ copy = [j \in Jobs |-> NoSession]
    /\ waits = [j \in Jobs |-> "nobody"]
    /\ screen = "closed"
    /\ busy = FALSE
    /\ unlocks = 0
    /\ lastUse = [i \in 1 .. MaxUnlocks |-> 0]
    /\ gone = {}
    /\ raced = FALSE

----------------------------------------------------------------------------
(* The worker's handlers *)

\* Job j's next await or answer, and its copy of the session.
Goto(j, p, s) ==
    /\ pc' = [pc EXCEPT ![j] = p]
    /\ copy' = [copy EXCEPT ![j] = s]

Answer(j, a) == Goto(j, a, NoSession)

\* onMessage: the first await of the handler of message k.
Entry(k) ==
    IF k = "unlock" THEN "login" ELSE IF k = "lock" THEN "remove" ELSE "get"

\* Job j starts (or goes on) as the handler of message k for w.
Handle(j, k, w) ==
    /\ Goto(j, Entry(k), NoSession)
    /\ kind' = [kind EXCEPT ![j] = k]
    /\ waits' = [waits EXCEPT ![j] = w]

\* Job j is over.
Finish(j) ==
    /\ Goto(j, "idle", NoSession)
    /\ kind' = [kind EXCEPT ![j] = "alarm"]
    /\ waits' = [waits EXCEPT ![j] = "nobody"]

\* readStored, up to its await of storage.session.get.
ReadStored(j) ==
    /\ pc[j] = "get"
    /\ Goto(j, "check", stored)
    /\ UNCHANGED <<now, store, kind, waits, popup, history>>

\* Mutant: the deadline is left to the alarm.
ExpiredByAlarm(s) == s.lockAt = 0

\* readStored after its await: no session, or one past its deadline, which is
\* cleared first (Date.now() > s.lockAt).
Expired(s) == now > s.lockAt

CheckLocked(j) ==
    /\ pc[j] = "check"
    /\ \/ copy[j].id = 0 /\ Answer(j, "locked")
       \/ copy[j].id # 0 /\ Expired(copy[j]) /\ Goto(j, "remove", NoSession)
    /\ UNCHANGED <<now, store, kind, waits, popup, history>>

\* readStored after its await, with a session: getState reports it, the other
\* handlers touch it, which moves the deadline of the copy.
CheckUnlocked(j) ==
    /\ pc[j] = "check"
    /\ copy[j].id # 0
    /\ ~Expired(copy[j])
    /\ \/ /\ kind[j] = "getState"
          /\ Answer(j, "ok")
          /\ UNCHANGED lastUse
       \/ /\ kind[j] # "getState"
          /\ Goto(j, "set", [id |-> copy[j].id, lockAt |-> now + Idle])
          /\ lastUse' = [lastUse EXCEPT ![copy[j].id] = now]
    /\ UNCHANGED <<now, store, kind, waits, popup, unlocks, gone, raced>>

\* loginAccount in the unlock handler: it succeeds, asks for a second factor
\* or fails.
Login(j) ==
    /\ pc[j] = "login"
    /\ \/ /\ unlocks < MaxUnlocks
          /\ unlocks' = unlocks + 1
          /\ lastUse' = [lastUse EXCEPT ![unlocks + 1] = now]
          /\ Goto(j, "set", [id |-> unlocks + 1, lockAt |-> now + Idle])
       \/ /\ \E a \in {"twoFactor", "error"} : Answer(j, a)
          /\ UNCHANGED <<unlocks, lastUse>>
    /\ UNCHANGED <<now, store, kind, waits, popup, gone, raced>>

\* writeStored, first await: storage.session.set.
SetStored(j) ==
    /\ pc[j] = "set"
    /\ stored' = copy[j]
    /\ Goto(j, "create", copy[j])
    /\ UNCHANGED <<now, alarm, kind, waits, popup, history>>

\* Mutant: only an unlock sets the alarm, a touch does not move it.
CreateAlarmOnce(j) ==
    /\ pc[j] = "create"
    /\ alarm' = IF kind[j] = "unlock" THEN copy[j].lockAt ELSE alarm
    /\ Answer(j, IF kind[j] = "unlock" THEN "ok" ELSE "call")
    /\ UNCHANGED <<now, stored, kind, waits, popup, history>>

\* Mutant: the alarm is given the time that is left instead of the time.
CreateAlarmDelay(j) ==
    /\ pc[j] = "create"
    /\ alarm' = copy[j].lockAt - now
    /\ Answer(j, IF kind[j] = "unlock" THEN "ok" ELSE "call")
    /\ UNCHANGED <<now, stored, kind, waits, popup, history>>

\* writeStored, second await: alarms.create.  unlock is then finished, the
\* other handlers call the server.
CreateAlarm(j) ==
    /\ pc[j] = "create"
    /\ alarm' = copy[j].lockAt
    /\ Answer(j, IF kind[j] = "unlock" THEN "ok" ELSE "call")
    /\ UNCHANGED <<now, stored, kind, waits, popup, history>>

\* loadVault, addItem, saveItem or removeItem.
CallServer(j) ==
    /\ pc[j] = "call"
    /\ \E a \in {"ok", "error"} : Answer(j, a)
    /\ UNCHANGED <<now, store, kind, waits, popup, history>>

\* Sessions that handlers have read and may write back.
Held == {copy[i].id : i \in {i \in Jobs : pc[i] \in {"check", "set"}}}

\* Mutant: the session is marked as expired instead of removed.
RemoveExpires(j) ==
    /\ pc[j] = "remove"
    /\ stored' = [stored EXCEPT !.lockAt = 0]
    /\ gone' = gone \cup ((1 .. unlocks) \ Held)
    /\ Goto(j, "clear", NoSession)
    /\ UNCHANGED <<now, alarm, kind, waits, popup, unlocks, lastUse, raced>>

\* clearStored, first await: storage.session.remove.
RemoveStored(j) ==
    /\ pc[j] = "remove"
    /\ stored' = NoSession
    /\ gone' = gone \cup ((1 .. unlocks) \ Held)
    /\ Goto(j, "clear", NoSession)
    /\ UNCHANGED <<now, alarm, kind, waits, popup, unlocks, lastUse, raced>>

\* clearStored, second await: alarms.clear.  onAlarm is then finished, lock
\* answers, and readStored returns null.
ClearAlarm(j) ==
    /\ pc[j] = "clear"
    /\ alarm' = 0
    /\ raced' = (raced \/ stored.id # 0)
    /\ IF kind[j] = "alarm"
       THEN Finish(j)
       ELSE Answer(j, IF kind[j] = "lock" THEN "ok" ELSE "locked") /\ UNCHANGED <<kind, waits>>
    /\ UNCHANGED <<now, stored, popup, unlocks, lastUse, gone>>

\* onAlarm: the browser fires an alarm that is due, once.
FireAlarm(j) ==
    /\ pc[j] = "idle"
    /\ alarm # 0
    /\ now >= alarm
    /\ alarm' = 0
    /\ Goto(j, "remove", NoSession)
    /\ kind' = [kind EXCEPT ![j] = "alarm"]
    /\ waits' = [waits EXCEPT ![j] = "nobody"]
    /\ UNCHANGED <<now, stored, popup, history>>

Running(j) == pc[j] \notin {"idle"} \cup Answers

\* The stop hits a writeStored between its two awaits, or an onAlarm before it
\* removed the session.
CutShort(j) == pc[j] = "create" \/ (pc[j] = "remove" /\ kind[j] = "alarm")

\* The browser stops the worker: its handlers vanish, and the promises of
\* callers that still wait are rejected.
WorkerStops ==
    /\ MayStop
    /\ \E j \in Jobs : Running(j)
    /\ pc' = [j \in Jobs |-> IF ~Running(j) THEN pc[j]
                             ELSE IF waits[j] = "nobody" THEN "idle" ELSE "rejected"]
    /\ kind' = [j \in Jobs |-> IF Running(j) /\ waits[j] = "nobody" THEN "alarm" ELSE kind[j]]
    /\ copy' = [j \in Jobs |-> NoSession]
    /\ raced' = (raced \/ \E j \in Jobs : CutShort(j))
    /\ UNCHANGED <<now, store, waits, popup, unlocks, lastUse, gone>>

----------------------------------------------------------------------------
(* The popup.  A click starts the handler of the message it sends. *)

\* A click that sends message k; b is the form's next busy flag.
Send(j, k, b) ==
    /\ now <= LastInput
    /\ pc[j] = "idle"
    /\ ~busy
    /\ Handle(j, k, "live")
    /\ busy' = b
    /\ UNCHANGED <<now, store, history>>

\* App mounts and sends getState.
OpenPopup(j) ==
    /\ screen = "closed"
    /\ Send(j, "getState", FALSE)
    /\ screen' = "loading"

\* The browser closes the popup when it loses focus.
ClosePopup ==
    /\ screen # "closed"
    /\ screen' = "closed"
    /\ busy' = FALSE
    /\ waits' = [j \in Jobs |-> "nobody"]
    /\ UNCHANGED <<now, store, pc, kind, copy, history>>

\* Unlock's submit.
SubmitUnlock(j) ==
    /\ screen = "unlock"
    /\ Send(j, "unlock", TRUE)
    /\ UNCHANGED screen

\* Vault's lock.
ClickLock(j) ==
    /\ screen = "vault"
    /\ Send(j, "lock", FALSE)
    /\ UNCHANGED screen

\* Editor's save and del.  An open editor that is not saving forbids nothing
\* that its Cancel button would not allow again, so it is no state of its own.
ClickSave(j) ==
    /\ screen = "vault"
    /\ Send(j, "save", TRUE)
    /\ UNCHANGED screen

\* setLocked: the other screen mounts; the components of the old one no
\* longer take answers, the App still does.
Unmounted == [i \in Jobs |-> IF waits[i] = "live" THEN "app" ELSE waits[i]]

\* setLocked(false): Vault mounts and loads the items.
ShowVault(j) ==
    /\ screen' = "vault"
    /\ busy' = FALSE
    /\ Goto(j, "get", NoSession)
    /\ kind' = [kind EXCEPT ![j] = "getItems"]
    /\ waits' = [Unmounted EXCEPT ![j] = "live"]

\* setLocked(true): Unlock mounts with empty fields, unless it is shown already.
ShowUnlock(j) ==
    /\ screen' = "unlock"
    /\ busy' = (screen = "unlock" /\ busy)
    /\ Goto(j, "idle", NoSession)
    /\ kind' = [kind EXCEPT ![j] = "alarm"]
    /\ waits' = [(IF screen = "unlock" THEN waits ELSE Unmounted) EXCEPT ![j] = "nobody"]

\* setBusy(false) of the asking form, if it is still mounted.
FormAnswered(j) ==
    /\ busy' = (busy /\ waits[j] # "live")
    /\ UNCHANGED screen

\* The popup takes an answer.
DeliverUnlocked(j) ==
    /\ pc[j] = "ok"
    /\ kind[j] \in {"getState", "unlock"}
    /\ waits[j] # "nobody"
    /\ ShowVault(j)
    /\ UNCHANGED <<now, store, history>>

DeliverLocked(j) ==
    /\ waits[j] # "nobody"
    /\ \/ kind[j] = "getState" /\ pc[j] \in Answers \ {"ok"}
       \/ kind[j] = "lock" /\ pc[j] = "ok"
       \/ kind[j] \in {"getItems", "save"} /\ pc[j] = "locked"
    /\ ShowUnlock(j)
    /\ UNCHANGED <<now, store, history>>

\* Mutant: setBusy(false) follows the await instead of being in a finally.
DeliverFailureNoFinally(j) ==
    /\ waits[j] # "nobody"
    /\ \/ kind[j] = "unlock" /\ pc[j] \in Answers \ {"ok"}
       \/ kind[j] = "save" /\ pc[j] = "error"
    /\ IF pc[j] = "rejected" THEN UNCHANGED popup ELSE FormAnswered(j)
    /\ Finish(j)
    /\ UNCHANGED <<now, store, history>>

\* Unlock's error paths, rejection included (its try has a finally), and the
\* editor's error answer.
DeliverFailure(j) ==
    /\ waits[j] # "nobody"
    /\ \/ kind[j] = "unlock" /\ pc[j] \in Answers \ {"ok"}
       \/ kind[j] = "save" /\ pc[j] = "error"
    /\ FormAnswered(j)
    /\ Finish(j)
    /\ UNCHANGED <<now, store, history>>

\* saveEditing and deleteEditing after a success: close the editor, reload.
DeliverSaved(j) ==
    /\ waits[j] # "nobody"
    /\ kind[j] = "save"
    /\ pc[j] = "ok"
    /\ FormAnswered(j)
    /\ Handle(j, "getItems", waits[j])
    /\ UNCHANGED <<now, store, history>>

\* Answers that change nothing modelled: the item list, and rejections nobody
\* catches (the editor stays busy).  A closed popup takes no answer at all.
DeliverRest(j) ==
    /\ pc[j] \in Answers
    /\ \/ waits[j] = "nobody"
       \/ kind[j] = "getItems" /\ pc[j] # "locked"
       \/ kind[j] \in {"lock", "save"} /\ pc[j] = "rejected"
    /\ Finish(j)
    /\ UNCHANGED <<now, store, popup, history>>

----------------------------------------------------------------------------

\* Time passes.  After LastInput only once nothing is going on.
Tick ==
    /\ now < MaxTime
    /\ now < LastInput \/ \A j \in Jobs : pc[j] = "idle"
    /\ now' = now + 1
    /\ UNCHANGED <<store, jobs, popup, history>>

WorkerStep(j) ==
    \/ ReadStored(j) \/ CheckLocked(j) \/ CheckUnlocked(j) \/ Login(j) \/ SetStored(j)
    \/ CreateAlarm(j) \/ CallServer(j) \/ RemoveStored(j) \/ ClearAlarm(j) \/ FireAlarm(j)

PopupStep(j) ==
    \/ OpenPopup(j) \/ SubmitUnlock(j) \/ ClickLock(j) \/ ClickSave(j)
    \/ DeliverUnlocked(j) \/ DeliverLocked(j) \/ DeliverFailure(j) \/ DeliverSaved(j) \/ DeliverRest(j)

Next ==
    \/ \E j \in Jobs : WorkerStep(j) \/ PopupStep(j)
    \/ WorkerStops
    \/ ClosePopup
    \/ Tick

Spec == Init /\ [][Next]_vars

----------------------------------------------------------------------------
(* Properties *)

\* Locking sticks, up to handlers already under way: a session that was
\* removed (by the lock message, the alarm or an expired read) while no
\* handler had a copy to write back is never in storage, nor in a handler's
\* hands, again.
RemovedForGood ==
    /\ stored.id \notin gone
    /\ \A j \in Jobs : pc[j] \in {"check", "set"} => copy[j].id \notin gone

\* However late the alarm is, or if it was lost: no handler works with a
\* session that its user has neither unlocked nor used for IDLE_MS.
NeverUsedIdle ==
    [][\A j \in Jobs :
         pc[j] = "check" /\ (pc'[j] = "set" \/ pc'[j] = "ok")
           => now <= lastUse[copy[j].id] + Idle]_vars

\* A stored session has an alarm that will remove it, or a handler is about to
\* set or has just taken it; the exceptions are a clearStored that overlapped
\* a writeStored and a worker stopped in the middle of either.
TimerArmed ==
    stored.id # 0 /\ alarm = 0 => raced \/ \E j \in Jobs : CutShort(j)

\* The Unlock form is never left disabled: while it is busy, an unlock whose
\* answer it will take is under way.
UnlockFormAnswers ==
    screen = "unlock" /\ busy => \E j \in Jobs : kind[j] = "unlock" /\ waits[j] = "live" /\ pc[j] # "idle"
=============================================================================
