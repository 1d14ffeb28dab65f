---------------------------- MODULE DesktopProofs ----------------------------
(***************************************************************************)
(* Proofs about Desktop, for any number of items, passwords, overlapping   *)
(* operations and restarts.                                                *)
(***************************************************************************)
EXTENDS Desktop, TLAPS

----------------------------------------------------------------------------
(* Types *)

File == [st : {"absent", "broken", "good"}, c : Content]
Vault == [open : BOOLEAN, c : Content]

\* TypeOK, split by what the actions change together.
DiskType == file \in File
AppType == vault \in Vault /\ screen \in Screens
TaskType == at \in [Tasks -> Awaits] /\ kind \in [Tasks -> Kinds] /\ copy \in [Tasks -> Content]
CountType == ops \in 0 .. MaxOps
HistoryType == recents \in BOOLEAN /\ overlap \in BOOLEAN /\ keyRace \in BOOLEAN /\ late \in SUBSET Tasks /\ unnoted \in BOOLEAN

\* The parts make up TypeOK.
LEMMA TypeParts == TypeOK <=> DiskType /\ AppType /\ TaskType /\ CountType /\ HistoryType
  BY Zenon DEF TypeOK, DiskType, AppType, TaskType, CountType, HistoryType, File, Vault

\* The content of a file nobody has written is some content.
LEMMA AnyContentType == AnyContent \in Content
  BY DesktopAssumption DEF AnyContent, Content

\* Starting an operation keeps the types.
LEMMA StartType ==
    ASSUME TypeOK, NEW t \in Tasks, NEW k \in Kinds, NEW c \in Content, NEW a \in Awaits, Start(t, k, c, a)
    PROVE  TypeOK'
<1>t. DiskType /\ AppType /\ TaskType /\ CountType /\ HistoryType
  BY TypeParts
<1>1. TaskType'
  BY <1>t DEF Start, TaskType
<1>2. DiskType' /\ AppType'
  BY <1>t DEF Start, disk, DiskType, AppType
<1>3. CountType'
  BY <1>t, DesktopAssumption DEF Start, CountType
<1>4. HistoryType'
  BY Zenon, <1>t DEF Start, disk, HistoryType
<1> QED BY <1>1, <1>2, <1>3, <1>4, TypeParts
        DEF TypeOK, DiskType, AppType, TaskType, CountType, HistoryType, File, Vault

\* So does the start of each of the four operations.
LEMMA InputType ==
    ASSUME TypeOK, NEW t \in Tasks, Commit(t) \/ Rekey(t) \/ CreateVault(t) \/ OpenVault(t)
    PROVE  \E k \in Kinds, c \in Content, a \in Awaits : Start(t, k, c, a)
<1>t. vault.c \in Content
  BY TypeParts DEF AppType, Vault
<1>1. CASE Commit(t)
  <2>1. PICK i \in Ids :
          \/ Start(t, "commit", [vault.c EXCEPT !.items = @ \cup {i}], "write")
          \/ Start(t, "commit", [vault.c EXCEPT !.items = @ \ {i}], "write")
    BY <1>1 DEF Commit
  <2>2. [vault.c EXCEPT !.items = @ \cup {i}] \in Content /\ [vault.c EXCEPT !.items = @ \ {i}] \in Content
    BY <1>t DEF Content
  <2> QED BY <2>1, <2>2 DEF Kinds, Awaits
<1>2. CASE Rekey(t)
  <2>1. \A p \in Passwords : [vault.c EXCEPT !.pw = p] \in Content
    BY <1>t DEF Content
  <2> QED BY <1>2, <2>1 DEF Rekey, Kinds, Awaits
<1>3. CASE CreateVault(t) \/ OpenVault(t)
  <2>1. \A p \in Passwords : [pw |-> p, items |-> {}] \in Content
    BY DEF Content
  <2> QED BY <1>3, <2>1 DEF CreateVault, OpenVault, Kinds, Awaits
<1> QED BY <1>1, <1>2, <1>3

\* Every step keeps the types.
LEMMA TypeNext == TypeOK /\ [Next]_vars => TypeOK'
<1> SUFFICES ASSUME TypeOK, [Next]_vars PROVE TypeOK'
  OBVIOUS
<1>t. DiskType /\ AppType /\ TaskType /\ CountType /\ HistoryType
  BY TypeParts
<1>a. AnyContent \in Content
  BY AnyContentType
<1>q. DiskType' /\ AppType' /\ TaskType' /\ CountType' /\ HistoryType' => TypeOK'
  BY Zenon DEF TypeOK, DiskType, AppType, TaskType, CountType, HistoryType, File, Vault
<1>1. ASSUME NEW t \in Tasks, Commit(t) \/ Rekey(t) \/ CreateVault(t) \/ OpenVault(t) PROVE TypeOK'
  BY <1>1, InputType, StartType
<1>c. \A t \in Tasks : copy[t] \in Content
  BY <1>t DEF TaskType
<1>2. ASSUME NEW t \in Tasks, TaskStep(t) PROVE TypeOK'
  <2>1. CASE WriteFile(t) \/ WriteFails(t)
    <3>1. DiskType' /\ AppType'
      BY <1>t, <1>c, <2>1 DEF WriteFile, WriteFails, DiskType, AppType, File
    <3>2. TaskType' /\ CountType'
      BY <1>t, <2>1 DEF WriteFile, WriteFails, Step, TaskType, CountType, Awaits
    <3>3. HistoryType'
      BY Zenon, <1>t, <2>1 DEF WriteFile, WriteFails, Step, HistoryType
    <3> QED BY <1>q, <3>1, <3>2, <3>3
  <2>2. CASE ReadFile(t)
    <3>0. file.c \in Content
      BY <1>t DEF DiskType, File
    <3>1. DiskType' /\ AppType'
      BY <1>t, <2>2 DEF ReadFile, disk, DiskType, AppType
    <3>2. TaskType' /\ CountType'
      BY <1>t, <2>2, <3>0 DEF ReadFile, Step, TaskType, CountType, Awaits
    <3>3. HistoryType'
      BY Zenon, <1>t, <2>2 DEF ReadFile, Step, disk, history, HistoryType
    <3> QED BY <1>q, <3>1, <3>2, <3>3
  <2>3. CASE RememberRecent(t)
    <3>1. DiskType' /\ AppType'
      BY <1>t, <2>3 DEF RememberRecent, DiskType, AppType
    <3>2. TaskType' /\ CountType'
      BY <1>t, <2>3 DEF RememberRecent, Step, TaskType, CountType, Awaits
    <3>3. HistoryType'
      BY Zenon, <1>t, <2>3 DEF RememberRecent, Step, HistoryType
    <3> QED BY <1>q, <3>1, <3>2, <3>3
  <2>4. CASE Apply(t)
    <3>1. DiskType' /\ AppType'
      BY <1>t, <1>c, <2>4 DEF Apply, disk, DiskType, AppType, Vault
    <3>2. TaskType' /\ CountType'
      BY <1>t, <2>4 DEF Apply, Step, TaskType, CountType, Awaits
    <3>3. HistoryType'
      BY Zenon, <1>t, <2>4 DEF Apply, Step, disk, HistoryType
    <3> QED BY <1>q, <3>1, <3>2, <3>3
  <2> QED BY <1>2, <2>1, <2>2, <2>3, <2>4 DEF TaskStep
<1>3. CASE Boot \/ Navigate \/ ClearRecents
  <2>1. DiskType' /\ AppType'
    BY <1>t, <1>3 DEF Boot, Navigate, ClearRecents, disk, DiskType, AppType, Screens
  <2>2. TaskType' /\ CountType'
    BY <1>t, <1>3 DEF Boot, Navigate, ClearRecents, tasks, TaskType, CountType
  <2>3. recents' \in BOOLEAN
    <3>1. CASE Boot \/ Navigate
      BY Zenon, <1>t, <3>1 DEF Boot, Navigate, disk, HistoryType
    <3>2. CASE ClearRecents
      BY Zenon, <3>2 DEF ClearRecents
    <3> QED BY <1>3, <3>1, <3>2
  <2>4. UNCHANGED <<overlap, keyRace, late, unnoted>>
    BY <1>3 DEF Boot, Navigate, ClearRecents, history
  <2>5. HistoryType'
    BY Zenon, <1>t, <2>3, <2>4 DEF HistoryType
  <2> QED BY <1>q, <2>1, <2>2, <2>5
<1>4. CASE Lock \/ Quit
  <2>1. DiskType' /\ AppType'
    <3>1. file' = file \/ file' = [file EXCEPT !.st = "broken"]
      BY <1>4 DEF Lock, Quit, disk
    <3>2. vault' = [open |-> FALSE, c |-> AnyContent] /\ screen' \in {"unlock", "boot"}
      BY <1>4 DEF Lock, Quit
    <3>3. vault' \in Vault
      BY <1>a, <3>2 DEF Vault
    <3> QED BY <1>t, <3>1, <3>2, <3>3 DEF DiskType, AppType, Screens, File
  <2>2. TaskType' /\ CountType'
    BY <1>t, <1>4 DEF Lock, Quit, tasks, TaskType, CountType, Awaits
  <2>3. late' \in SUBSET Tasks
    BY <1>4 DEF Lock, Quit, Busy
  <2>4. HistoryType'
    BY Zenon, <1>t, <1>4, <2>3 DEF Lock, Quit, disk, HistoryType
  <2> QED BY <1>q, <2>1, <2>2, <2>4
<1>5. CASE UNCHANGED vars
  <2>1. DiskType' /\ AppType' /\ TaskType' /\ CountType'
    BY <1>t, <1>5 DEF vars, disk, tasks, DiskType, AppType, TaskType, CountType
  <2>2. HistoryType'
    BY Zenon, <1>t, <1>5 DEF vars, disk, history, HistoryType
  <2> QED BY <1>q, <2>1, <2>2
<1> QED BY <1>1, <1>2, <1>3, <1>4, <1>5 DEF Next

\* The initial state has the types.
LEMMA TypeInit == Init => TypeOK
<1> SUFFICES ASSUME Init PROVE TypeOK
  OBVIOUS
<1>1. DiskType /\ AppType /\ TaskType
  BY AnyContentType DEF Init, DiskType, AppType, TaskType, File, Vault, Screens, Awaits, Kinds
<1>2. CountType
  BY DesktopAssumption DEF Init, CountType
<1>3. HistoryType
  BY Zenon DEF Init, HistoryType
<1> QED BY <1>1, <1>2, <1>3, TypeParts

\* File, vault and tasks of Desktop always have their types.
THEOREM TypeCorrect == Spec => []TypeOK
  BY TypeInit, TypeNext, PTL DEF Spec

----------------------------------------------------------------------------
(* What is in flight *)

\* The awaits that an operation has.
Shape ==
    \A t \in Busy :
      /\ kind[t] = "open" => at[t] \in {"read", "recent", "apply"}
      /\ kind[t] \in {"commit", "rekey"} => at[t] \in {"write", "apply"}
      /\ kind[t] = "create" => at[t] \in {"write", "recent", "apply"}

\* While the vault is closed, commits and rekeys in flight are older than the
\* last lock.
LateOK == ~vault.open => \A t \in Busy : kind[t] \in {"commit", "rekey"} => t \in late

\* The tasks after the start of an operation.
LEMMA StartTasks ==
    ASSUME TypeOK, NEW t \in Tasks, NEW k, NEW c, NEW a, Start(t, k, c, a), a # "idle"
    PROVE  /\ t \notin Busy /\ Busy' = Busy \cup {t}
           /\ at'[t] = a /\ kind'[t] = k /\ copy'[t] = c
           /\ \A u \in Tasks \ {t} : at'[u] = at[u] /\ kind'[u] = kind[u] /\ copy'[u] = copy[u]
           /\ UNCHANGED <<file, vault>>
           /\ late' = late \ {t}
<1>1. /\ at[t] = "idle"
      /\ at'[t] = a /\ kind'[t] = k /\ copy'[t] = c
      /\ \A u \in Tasks \ {t} : at'[u] = at[u] /\ kind'[u] = kind[u] /\ copy'[u] = copy[u]
      /\ UNCHANGED <<file, vault>> /\ late' = late \ {t}
  BY TypeParts DEF Start, TaskType, disk
<1>2. t \notin Busy /\ Busy' = Busy \cup {t}
  BY <1>1 DEF Busy
<1> QED BY <1>1, <1>2

\* The tasks after an await.
LEMMA StepTasks ==
    ASSUME TypeOK, NEW t \in Busy, NEW a, Step(t, a)
    PROVE  /\ Busy' = IF a = "idle" THEN Busy \ {t} ELSE Busy
           /\ at'[t] = a
           /\ \A u \in Tasks \ {t} : at'[u] = at[u]
           /\ UNCHANGED <<kind, copy, overlap, keyRace, late>>
<1>1. /\ at'[t] = a /\ t \in Tasks
      /\ \A u \in Tasks \ {t} : at'[u] = at[u]
      /\ UNCHANGED <<kind, copy, overlap, keyRace, late>>
  BY TypeParts DEF Step, TaskType, Busy
<1>2. Busy' = IF a = "idle" THEN Busy \ {t} ELSE Busy
  BY <1>1 DEF Busy
<1> QED BY <1>1, <1>2

\* The steps that are neither a start nor an await: they leave the tasks alone
\* or end them all, and leave the vault alone or close it.
LEMMA OtherSteps ==
    ASSUME TypeOK, Boot \/ Navigate \/ ClearRecents \/ Lock \/ Quit \/ UNCHANGED vars
    PROVE  /\ UNCHANGED <<overlap, keyRace>>
           /\ \/ UNCHANGED <<file, vault, late, at, kind, copy>> /\ Busy' = Busy
              \/ UNCHANGED <<file, at, kind, copy>> /\ ~vault'.open /\ late' = Busy /\ Busy' = Busy
              \/ ~vault'.open /\ Busy' = {}
<1>1. CASE Boot \/ Navigate \/ ClearRecents \/ UNCHANGED vars
  BY <1>1 DEF Boot, Navigate, ClearRecents, vars, disk, tasks, history, Busy
<1>2. CASE Lock
  BY <1>2 DEF Lock, disk, tasks, Busy
<1>3. CASE Quit
  BY <1>3 DEF Quit, Busy
<1> QED BY <1>1, <1>2, <1>3

\* An operation has the awaits of its kind.
LEMMA ShapeNext ==
    ASSUME TypeOK, Shape, [Next]_vars
    PROVE  Shape'
<1>b. Busy \subseteq Tasks /\ \A t \in Tasks : at[t] # "idle" => t \in Busy
  BY DEF Busy
<1>1. ASSUME NEW t \in Tasks, Commit(t) \/ Rekey(t) PROVE Shape'
  <2>1. PICK k, c : k \in {"commit", "rekey"} /\ Start(t, k, c, "write")
    <3>1. Commit(t) => \E c : Start(t, "commit", c, "write")
      BY DEF Commit
    <3>2. Rekey(t) => \E c : Start(t, "rekey", c, "write")
      BY DEF Rekey
    <3> QED BY <1>1, <3>1, <3>2
  <2> QED BY <2>1, <1>b, StartTasks DEF Shape
<1>2. ASSUME NEW t \in Tasks, CreateVault(t) PROVE Shape'
  <2>1. PICK c : Start(t, "create", c, "write")
    BY <1>2 DEF CreateVault
  <2> QED BY <2>1, <1>b, StartTasks DEF Shape
<1>3. ASSUME NEW t \in Tasks, OpenVault(t) PROVE Shape'
  <2>1. PICK c : Start(t, "open", c, "read")
    BY <1>3 DEF OpenVault
  <2> QED BY <2>1, <1>b, StartTasks DEF Shape
<1>4. ASSUME NEW t \in Tasks, WriteFile(t) PROVE Shape'
  <2>1. t \in Busy /\ at[t] = "write" /\ Step(t, IF kind[t] = "create" THEN "recent" ELSE "apply")
    BY <1>4 DEF WriteFile, Busy
  <2> QED BY <2>1, <1>b, StepTasks DEF Shape
<1>5. ASSUME NEW t \in Tasks, WriteFails(t) \/ Apply(t) PROVE Shape'
  <2>1. t \in Busy /\ Step(t, "idle")
    BY <1>5 DEF WriteFails, Apply, Busy
  <2> QED BY <2>1, <1>b, StepTasks DEF Shape
<1>6. ASSUME NEW t \in Tasks, ReadFile(t) PROVE Shape'
  <2>1. t \in Busy /\ at[t] = "read"
    BY <1>6 DEF ReadFile, Busy
  <2>2. CASE Step(t, "idle")
    BY <2>1, <2>2, <1>b, StepTasks DEF Shape
  <2>3. CASE at' = [at EXCEPT ![t] = "recent"] /\ UNCHANGED kind
    BY <2>1, <2>3, <1>b, TypeParts DEF Shape, Busy, TaskType
  <2> QED BY <1>6, <2>2, <2>3 DEF ReadFile
<1>7. ASSUME NEW t \in Tasks, RememberRecent(t) PROVE Shape'
  <2>1. t \in Busy /\ at[t] = "recent" /\ (Step(t, "apply") \/ Step(t, "idle"))
    BY <1>7 DEF RememberRecent, Busy
  <2> QED BY <2>1, <1>b, StepTasks DEF Shape
<1>8. ASSUME Boot \/ Navigate \/ ClearRecents \/ Lock \/ Quit \/ UNCHANGED vars PROVE Shape'
  BY <1>8, OtherSteps DEF Shape
<1> QED BY <1>1, <1>2, <1>3, <1>4, <1>5, <1>6, <1>7, <1>8 DEF Next, TaskStep

\* Commits and rekeys start in an open vault only, and the lock remembers them.
LEMMA LateNext ==
    ASSUME TypeOK, LateOK, [Next]_vars
    PROVE  LateOK'
<1>b. Busy \subseteq Tasks
  BY DEF Busy
<1>1. ASSUME NEW t \in Tasks, Commit(t) \/ Rekey(t) PROVE LateOK'
  <2>1. vault.open /\ UNCHANGED vault
    BY <1>1 DEF Commit, Rekey, Start
  <2> QED BY <2>1 DEF LateOK
<1>2. ASSUME NEW t \in Tasks, CreateVault(t) \/ OpenVault(t) PROVE LateOK'
  <2>1. CASE CreateVault(t)
    <3>1. PICK c : Start(t, "create", c, "write")
      BY <2>1 DEF CreateVault
    <3> QED BY <3>1, <1>b, StartTasks DEF LateOK
  <2>2. CASE OpenVault(t)
    <3>1. PICK c : Start(t, "open", c, "read")
      BY <2>2 DEF OpenVault
    <3> QED BY <3>1, <1>b, StartTasks DEF LateOK
  <2> QED BY <1>2, <2>1, <2>2
<1>3. ASSUME NEW t \in Tasks, WriteFile(t) \/ WriteFails(t) \/ ReadFile(t) \/ RememberRecent(t) PROVE LateOK'
  <2>1. at[t] # "idle" /\ UNCHANGED <<vault, late, kind>> /\ \E a : at' = [at EXCEPT ![t] = a]
    BY <1>3 DEF WriteFile, WriteFails, ReadFile, RememberRecent, Step, history
  <2>2. Busy' \subseteq Busy
    BY <2>1, TypeParts DEF Busy, TaskType
  <2> QED BY <2>1, <2>2 DEF LateOK
<1>4. ASSUME NEW t \in Tasks, Apply(t) PROVE LateOK'
  BY <1>4 DEF Apply, LateOK
<1>5. ASSUME Boot \/ Navigate \/ ClearRecents \/ Lock \/ Quit \/ UNCHANGED vars PROVE LateOK'
  BY <1>5, OtherSteps DEF LateOK
<1> QED BY <1>1, <1>2, <1>3, <1>4, <1>5 DEF Next, TaskStep

\* A locked vault opens again only by openExistingVault or createNewVault, or
\* by a commit or rekey that was in flight when it was locked.
THEOREM LockedStaysLocked == Spec => StaysLocked
<1> DEFINE Inv == TypeOK /\ LateOK
<1> DEFINE Opens == ~vault.open /\ vault'.open
         => \E t \in Tasks : at[t] = "apply" /\ (kind[t] \in {"open", "create"} \/ t \in late)
<1>1. Init => Inv
  BY TypeInit DEF Init, LateOK, Busy
<1>2. Inv /\ [Next]_vars => Inv'
  BY TypeNext, LateNext
<1>3. Inv /\ [Next]_vars => [Opens]_vars
  <2> SUFFICES ASSUME Inv, [Next]_vars, ~vault.open, vault'.open
               PROVE  \E t \in Tasks : at[t] = "apply" /\ (kind[t] \in {"open", "create"} \/ t \in late)
    OBVIOUS
  <2>1. \A t \in Tasks : kind[t] \in Kinds
    BY TypeParts DEF TaskType
  <2>2. PICK t \in Tasks : Apply(t)
    <3>1. Boot \/ Navigate \/ ClearRecents \/ Lock \/ Quit \/ UNCHANGED vars => ~vault'.open
      BY OtherSteps
    <3>2. ASSUME NEW t \in Tasks, Commit(t) \/ Rekey(t) \/ CreateVault(t) \/ OpenVault(t) PROVE UNCHANGED vault
      BY <3>2 DEF Commit, Rekey, CreateVault, OpenVault, Start
    <3>3. ASSUME NEW t \in Tasks, TaskStep(t) PROVE UNCHANGED vault \/ Apply(t)
      BY <3>3 DEF TaskStep, WriteFile, WriteFails, ReadFile, RememberRecent
    <3> QED BY <3>1, <3>2, <3>3 DEF Next
  <2> QED BY <2>1, <2>2 DEF Apply, LateOK, Busy, Kinds
<1>4. QED
  BY <1>1, <1>2, <1>3, PTL DEF Spec, StaysLocked

----------------------------------------------------------------------------
(* The password.  As long as no operation overlaps a rekey or a creation,  *)
(* such a one is alone in flight, and everything else that is in flight or *)
(* open has the password of the file.                                      *)

\* The history says whether the start of an operation overlaps others.
LEMMA StartHistory ==
    ASSUME NEW t \in Tasks, NEW k, NEW c, NEW a, Start(t, k, c, a)
    PROVE  /\ ~overlap' => ~overlap /\ Busy = {}
           /\ ~keyRace' => ~keyRace /\ Rekeying = {} /\ (k \in {"rekey", "create"} => Busy = {})
  BY Zenon DEF Start

KeyInv ==
    ~keyRace =>
      /\ \A t \in Rekeying : Busy = {t}
      /\ Rekeying = {} /\ vault.open => file.c.pw = vault.c.pw
      /\ \A t \in Busy : kind[t] = "commit" \/ at[t] \in {"recent", "apply"} => copy[t].pw = file.c.pw
      /\ \A t \in Rekeying : at[t] = "write" /\ vault.open => file.c.pw = vault.c.pw
      /\ \A t \in Rekeying : kind[t] = "create" => ~vault.open

\* Every step keeps it.
LEMMA KeyNext ==
    ASSUME TypeOK, Shape, KeyInv, [Next]_vars
    PROVE  KeyInv'
<1>b. Busy \subseteq Tasks /\ Rekeying = {t \in Busy : kind[t] \in {"rekey", "create"}}
      /\ Rekeying' = {t \in Busy' : kind'[t] \in {"rekey", "create"}}
  BY DEF Busy, Rekeying
<1>k. \A t \in Tasks : kind[t] \in {"commit", "rekey", "create", "open"}
  BY TypeParts DEF TaskType, Kinds
<1>1. ASSUME NEW t \in Tasks, Commit(t) PROVE KeyInv'
  <2>1. PICK c : Start(t, "commit", c, "write") /\ c.pw = vault.c.pw /\ vault.open
    <3>1. vault.c \in Content
      BY TypeParts DEF AppType, Vault
    <3>2. \A i \in Ids : [vault.c EXCEPT !.items = @ \cup {i}].pw = vault.c.pw /\ [vault.c EXCEPT !.items = @ \ {i}].pw = vault.c.pw
      BY <3>1 DEF Content
    <3> QED BY <1>1, <3>2 DEF Commit
  <2>2. SUFFICES ASSUME ~keyRace' PROVE KeyInv'
    BY DEF KeyInv
  <2>3. ~keyRace /\ Rekeying = {}
    BY <2>1, <2>2, StartHistory
  <2>4. c.pw = file.c.pw
    BY <2>1, <2>3 DEF KeyInv
  <2>5. /\ Busy' = Busy \cup {t} /\ t \notin Busy
        /\ at'[t] = "write" /\ kind'[t] = "commit" /\ copy'[t] = c
        /\ \A u \in Tasks \ {t} : at'[u] = at[u] /\ kind'[u] = kind[u] /\ copy'[u] = copy[u]
        /\ UNCHANGED <<file, vault>>
    BY <2>1, StartTasks
  <2>6. Rekeying' = {}
    BY <1>b, <2>3, <2>5
  <2>7. file.c.pw = vault.c.pw
    BY <2>1, <2>4
  <2>8. \A u \in Busy' : kind'[u] = "commit" \/ at'[u] \in {"recent", "apply"} => copy'[u].pw = file'.c.pw
    BY <1>b, <2>3, <2>4, <2>5 DEF KeyInv
  <2> QED BY <2>5, <2>6, <2>7, <2>8 DEF KeyInv
<1>2. ASSUME NEW t \in Tasks, Rekey(t) PROVE KeyInv'
  <2>1. PICK c : Start(t, "rekey", c, "write")
    BY <1>2 DEF Rekey
  <2>2. SUFFICES ASSUME ~keyRace' PROVE KeyInv'
    BY DEF KeyInv
  <2>3. ~keyRace /\ Rekeying = {} /\ Busy = {}
    BY <2>1, <2>2, StartHistory
  <2> QED BY <1>b, <2>1, <2>3, StartTasks DEF KeyInv
<1>3. ASSUME NEW t \in Tasks, CreateVault(t) PROVE KeyInv'
  <2>1. PICK c : Start(t, "create", c, "write") /\ ~vault.open
    BY <1>3 DEF CreateVault
  <2>2. SUFFICES ASSUME ~keyRace' PROVE KeyInv'
    BY DEF KeyInv
  <2>3. ~keyRace /\ Rekeying = {} /\ Busy = {}
    BY <2>1, <2>2, StartHistory
  <2> QED BY <1>b, <2>1, <2>3, StartTasks DEF KeyInv
<1>4. ASSUME NEW t \in Tasks, OpenVault(t) PROVE KeyInv'
  <2>1. PICK c : Start(t, "open", c, "read")
    BY <1>4 DEF OpenVault
  <2>2. SUFFICES ASSUME ~keyRace' PROVE KeyInv'
    BY DEF KeyInv
  <2>3. ~keyRace /\ Rekeying = {}
    BY <2>1, <2>2, StartHistory
  <2> QED BY <1>b, <2>1, <2>3, StartTasks DEF KeyInv
<1>5. ASSUME NEW t \in Tasks, WriteFile(t) PROVE KeyInv'
  <2>1. /\ t \in Busy /\ at[t] = "write" /\ file'.c = copy[t] /\ UNCHANGED vault
        /\ Step(t, IF kind[t] = "create" THEN "recent" ELSE "apply")
    BY <1>5 DEF WriteFile, Busy
  <2>2. /\ Busy' = Busy /\ at'[t] \in {"recent", "apply"} /\ UNCHANGED <<kind, copy, keyRace>>
        /\ \A u \in Tasks \ {t} : at'[u] = at[u]
    BY <2>1, StepTasks
  <2>3. CASE kind[t] = "commit"
    BY <1>b, <2>1, <2>2, <2>3 DEF KeyInv
  <2>4. CASE kind[t] \in {"rekey", "create"}
    BY <1>b, <2>1, <2>2, <2>4 DEF KeyInv
  <2> QED BY <1>k, <2>1, <2>3, <2>4 DEF Shape
<1>6. ASSUME NEW t \in Tasks, WriteFails(t) PROVE KeyInv'
  <2>1. t \in Busy /\ at[t] = "write" /\ file'.c = file.c /\ UNCHANGED vault /\ Step(t, "idle")
    BY <1>6, TypeParts DEF WriteFails, Busy, DiskType, File
  <2>2. /\ Busy' = Busy \ {t} /\ UNCHANGED <<kind, copy, keyRace>>
        /\ \A u \in Tasks \ {t} : at'[u] = at[u]
    BY <2>1, StepTasks
  <2> QED BY <1>b, <2>1, <2>2 DEF KeyInv
<1>7. ASSUME NEW t \in Tasks, ReadFile(t) PROVE KeyInv'
  <2>1. t \in Busy /\ at[t] = "read" /\ kind[t] = "open" /\ UNCHANGED <<file, vault>>
    BY <1>k, <1>7 DEF ReadFile, Busy, Shape, disk
  <2>2. CASE Step(t, "idle")
    <3>1. /\ Busy' = Busy \ {t} /\ UNCHANGED <<kind, copy, keyRace>>
          /\ \A u \in Tasks \ {t} : at'[u] = at[u]
      BY <2>1, <2>2, StepTasks
    <3> QED BY <1>b, <2>1, <3>1 DEF KeyInv
  <2>3. CASE at' = [at EXCEPT ![t] = "recent"] /\ copy' = [copy EXCEPT ![t] = file.c] /\ UNCHANGED <<kind, history>>
    <3>1. /\ at'[t] = "recent" /\ copy'[t] = file.c /\ UNCHANGED <<kind, keyRace>>
          /\ \A u \in Tasks \ {t} : at'[u] = at[u] /\ copy'[u] = copy[u]
      BY <2>3, TypeParts DEF TaskType, history
    <3>2. Busy' = Busy
      BY <2>1, <3>1 DEF Busy
    <3> QED BY <1>b, <2>1, <3>1, <3>2 DEF KeyInv
  <2> QED BY <1>7, <2>2, <2>3 DEF ReadFile
<1>8. ASSUME NEW t \in Tasks, RememberRecent(t) PROVE KeyInv'
  <2>1. t \in Busy /\ at[t] = "recent" /\ kind[t] \in {"open", "create"} /\ UNCHANGED <<file, vault>>
    BY <1>k, <1>8 DEF RememberRecent, Busy, Shape
  <2>2. CASE Step(t, "idle")
    <3>1. /\ Busy' = Busy \ {t} /\ UNCHANGED <<kind, copy, keyRace>>
          /\ \A u \in Tasks \ {t} : at'[u] = at[u]
      BY <2>1, <2>2, StepTasks
    <3> QED BY <1>b, <2>1, <3>1 DEF KeyInv
  <2>3. CASE Step(t, "apply")
    <3>1. /\ Busy' = Busy /\ UNCHANGED <<kind, copy, keyRace>> /\ at'[t] = "apply"
          /\ \A u \in Tasks \ {t} : at'[u] = at[u]
      BY <2>1, <2>3, StepTasks
    <3> QED BY <1>b, <2>1, <3>1 DEF KeyInv
  <2> QED BY <1>8, <2>2, <2>3 DEF RememberRecent
<1>9. ASSUME NEW t \in Tasks, Apply(t) PROVE KeyInv'
  <2>1. t \in Busy /\ at[t] = "apply" /\ UNCHANGED file /\ vault'.c = copy[t] /\ Step(t, "idle")
    BY <1>9 DEF Apply, Busy, disk
  <2>2. /\ Busy' = Busy \ {t} /\ UNCHANGED <<kind, copy, keyRace>>
        /\ \A u \in Tasks \ {t} : at'[u] = at[u]
    BY <2>1, StepTasks
  <2>3. ~keyRace => copy[t].pw = file.c.pw /\ Rekeying' = {}
    BY <1>b, <2>1, <2>2 DEF KeyInv
  <2> QED BY <1>b, <2>1, <2>2, <2>3 DEF KeyInv
<1>10. ASSUME Boot \/ Navigate \/ ClearRecents \/ Lock \/ Quit \/ UNCHANGED vars PROVE KeyInv'
  BY <1>b, <1>10, OtherSteps DEF KeyInv
<1> QED BY <1>1, <1>2, <1>3, <1>4, <1>5, <1>6, <1>7, <1>8, <1>9, <1>10 DEF Next, TaskStep

\* Overlapping commits never bring back another password, as long as none of
\* them overlaps a rekey or the creation of a vault.
THEOREM PasswordStaysSettled == Spec => []PasswordSettled
<1> DEFINE Inv == TypeOK /\ Shape /\ KeyInv
<1>1. Init => Inv
  BY TypeInit DEF Init, Shape, KeyInv, Busy, Rekeying
<1>2. Inv /\ [Next]_vars => Inv'
  BY TypeNext, ShapeNext, KeyNext
<1>3. Inv => PasswordSettled
  BY DEF KeyInv, PasswordSettled
<1>4. QED
  BY <1>1, <1>2, <1>3, PTL DEF Spec

----------------------------------------------------------------------------
(* Memory and file.  As long as operations do not overlap, the file has    *)
(* what the one in flight has written or read, or else what is in memory.  *)

FileIs(c) == file.st = "broken" \/ file = [st |-> "good", c |-> c]

\* Nothing in flight has replaced what memory shows.
Untouched == \A t \in Busy : at[t] \in {"write", "read"} \/ kind[t] = "open"

OneInv ==
    ~overlap =>
      /\ \A t \in Busy : Busy = {t}
      /\ \A t \in Busy : at[t] \in {"recent", "apply"} => FileIs(copy[t])
      /\ vault.open /\ Untouched => FileIs(vault.c)
      /\ \A t \in Busy : kind[t] = "create" => ~vault.open

\* Every step keeps it.
LEMMA OneNext ==
    ASSUME TypeOK, Shape, OneInv, [Next]_vars
    PROVE  OneInv'
<1>b. Busy \subseteq Tasks
  BY DEF Busy
<1>k. \A t \in Tasks : kind[t] \in {"commit", "rekey", "create", "open"}
  BY TypeParts DEF TaskType, Kinds
<1>1. ASSUME NEW t \in Tasks, NEW k, NEW c, NEW a \in {"write", "read"}, Start(t, k, c, a), k = "create" => ~vault.open
      PROVE  OneInv'
  <2>1. SUFFICES ASSUME ~overlap' PROVE OneInv'
    BY DEF OneInv
  <2>2. ~overlap /\ Busy = {}
    BY <1>1, <2>1, StartHistory
  <2>3. Busy' = {t} /\ at'[t] = a /\ kind'[t] = k /\ UNCHANGED <<file, vault>>
    BY <1>1, <2>2, StartTasks
  <2>4. vault.open => FileIs(vault.c)
    BY <2>2 DEF OneInv, Untouched
  <2> QED BY <1>1, <2>3, <2>4 DEF OneInv, FileIs
<1>2. ASSUME NEW t \in Tasks, Commit(t) \/ Rekey(t) \/ CreateVault(t) \/ OpenVault(t) PROVE OneInv'
  <2>1. CASE Commit(t) \/ Rekey(t)
    BY <1>1, <2>1 DEF Commit, Rekey
  <2>2. CASE CreateVault(t)
    BY <1>1, <2>2 DEF CreateVault
  <2>3. CASE OpenVault(t)
    BY <1>1, <2>3 DEF OpenVault
  <2> QED BY <1>2, <2>1, <2>2, <2>3
<1>3. ASSUME NEW t \in Tasks, WriteFile(t) PROVE OneInv'
  <2>1. /\ t \in Busy /\ at[t] = "write" /\ file' = [st |-> "good", c |-> copy[t]] /\ UNCHANGED vault
        /\ Step(t, IF kind[t] = "create" THEN "recent" ELSE "apply")
    BY <1>3 DEF WriteFile, Busy
  <2>2. Busy' = Busy /\ at'[t] \in {"recent", "apply"} /\ UNCHANGED <<kind, copy, overlap>>
    BY <2>1, StepTasks
  <2>3. kind[t] # "open"
    BY <2>1 DEF Shape
  <2> QED BY <2>1, <2>2, <2>3 DEF OneInv, Untouched, FileIs
<1>4. ASSUME NEW t \in Tasks, WriteFails(t) PROVE OneInv'
  <2>1. /\ t \in Busy /\ at[t] = "write" /\ UNCHANGED vault /\ Step(t, "idle")
        /\ file' = file \/ file'.st = "broken"
    BY <1>4, TypeParts DEF WriteFails, Busy, DiskType, File
  <2>2. Busy' = Busy \ {t} /\ UNCHANGED overlap
    BY <2>1, StepTasks
  <2>3. ~overlap => Busy = {t} /\ (vault.open => FileIs(vault.c))
    BY <2>1 DEF OneInv, Untouched
  <2> QED BY <2>1, <2>2, <2>3 DEF OneInv, FileIs
<1>5. ASSUME NEW t \in Tasks, ReadFile(t) PROVE OneInv'
  <2>1. t \in Busy /\ at[t] = "read" /\ kind[t] = "open" /\ UNCHANGED <<file, vault>>
    BY <1>k, <1>5 DEF ReadFile, Busy, Shape, disk
  <2>2. ~overlap => Busy = {t} /\ (vault.open => FileIs(vault.c))
    BY <2>1 DEF OneInv, Untouched
  <2>3. CASE Step(t, "idle")
    <3>1. Busy' = Busy \ {t} /\ UNCHANGED overlap
      BY <2>1, <2>3, StepTasks
    <3> QED BY <2>1, <2>2, <3>1 DEF OneInv, FileIs
  <2>4. CASE /\ at' = [at EXCEPT ![t] = "recent"] /\ copy' = [copy EXCEPT ![t] = file.c]
             /\ UNCHANGED <<kind, history>> /\ file.st = "good"
    <3>1. at'[t] = "recent" /\ copy'[t] = file.c /\ UNCHANGED <<kind, overlap>> /\ file.st = "good"
      BY <2>4, TypeParts DEF TaskType, history
    <3>2. Busy' = Busy
      BY <2>1, <2>4, TypeParts DEF TaskType, Busy
    <3>3. file = [st |-> "good", c |-> file.c]
      BY <3>1, TypeParts DEF DiskType, File
    <3> QED BY <2>1, <2>2, <3>1, <3>2, <3>3 DEF OneInv, FileIs
  <2> QED BY <1>5, <2>3, <2>4 DEF ReadFile
<1>6. ASSUME NEW t \in Tasks, RememberRecent(t) PROVE OneInv'
  <2>1. t \in Busy /\ at[t] = "recent" /\ kind[t] \in {"open", "create"} /\ UNCHANGED <<file, vault>>
    BY <1>k, <1>6 DEF RememberRecent, Busy, Shape
  <2>2. ~overlap => Busy = {t} /\ (vault.open => FileIs(vault.c)) /\ FileIs(copy[t])
    BY <2>1 DEF OneInv, Untouched
  <2>3. CASE Step(t, "idle")
    <3>1. Busy' = Busy \ {t} /\ UNCHANGED overlap
      BY <2>1, <2>3, StepTasks
    <3> QED BY <2>1, <2>2, <3>1 DEF OneInv, FileIs
  <2>4. CASE Step(t, "apply")
    <3>1. Busy' = Busy /\ UNCHANGED <<kind, copy, overlap>> /\ at'[t] = "apply"
      BY <2>1, <2>4, StepTasks
    <3> QED BY <2>1, <2>2, <3>1 DEF OneInv, FileIs
  <2> QED BY <1>6, <2>3, <2>4 DEF RememberRecent
<1>7. ASSUME NEW t \in Tasks, Apply(t) PROVE OneInv'
  <2>1. t \in Busy /\ at[t] = "apply" /\ UNCHANGED file /\ vault'.c = copy[t] /\ Step(t, "idle")
    BY <1>7 DEF Apply, Busy, disk
  <2>2. Busy' = Busy \ {t} /\ UNCHANGED overlap
    BY <2>1, StepTasks
  <2>3. ~overlap => Busy = {t} /\ FileIs(copy[t])
    BY <2>1 DEF OneInv
  <2> QED BY <2>1, <2>2, <2>3 DEF OneInv, FileIs
<1>8. ASSUME Boot \/ Navigate \/ ClearRecents \/ Lock \/ Quit \/ UNCHANGED vars PROVE OneInv'
  BY <1>8, OtherSteps DEF OneInv, FileIs, Untouched
<1> QED BY <1>2, <1>3, <1>4, <1>5, <1>6, <1>7, <1>8 DEF Next, TaskStep

\* Without overlapping operations, what the user sees once nothing is in
\* flight is what is on disk, whatever failed, was locked or was restarted,
\* unless a write was cut.
THEOREM MemoryAlwaysMatchesFile == Spec => []MemoryMatchesFile
<1> DEFINE Inv == TypeOK /\ Shape /\ OneInv
<1>1. Init => Inv
  BY TypeInit DEF Init, Shape, OneInv, Busy
<1>2. Inv /\ [Next]_vars => Inv'
  BY TypeNext, ShapeNext, OneNext
<1>3. Inv => MemoryMatchesFile
  BY DEF OneInv, MemoryMatchesFile, Untouched, FileIs
<1>4. QED
  BY <1>1, <1>2, <1>3, PTL DEF Spec

----------------------------------------------------------------------------
(* One operation at a time.  What the theorems above except comes from     *)
(* operations that overlap only.                                           *)

\* Memory and file agree whenever nothing is in flight, and on the password
\* whenever no rekey or creation is.
FileIsWhatIsShown ==
    /\ Busy = {} /\ vault.open => FileIs(vault.c)
    /\ Rekeying = {} /\ vault.open => file.c.pw = vault.c.pw

\* Where one operation ends before the next one starts, none overlaps.
LEMMA NextAlone ==
    ASSUME \A t, u \in Tasks : t = u, TypeOK, ~overlap, ~keyRace, [Next]_vars
    PROVE  ~overlap' /\ ~keyRace'
<1>1. ASSUME NEW t \in Tasks, NEW k, NEW c, NEW a, Start(t, k, c, a) PROVE ~overlap' /\ ~keyRace'
  <2>1. Busy = {} /\ Rekeying = {}
    BY <1>1 DEF Start, Busy, Rekeying
  <2> QED BY <1>1, <2>1, Zenon DEF Start
<1>2. ASSUME NEW t \in Tasks, Commit(t) \/ Rekey(t) \/ CreateVault(t) \/ OpenVault(t) PROVE ~overlap' /\ ~keyRace'
  BY <1>1, <1>2, InputType
<1>3. ASSUME NEW t \in Tasks, TaskStep(t) PROVE ~overlap' /\ ~keyRace'
  BY <1>3 DEF TaskStep, WriteFile, WriteFails, ReadFile, RememberRecent, Apply, Step, history
<1>4. ASSUME Boot \/ Navigate \/ ClearRecents \/ Lock \/ Quit \/ UNCHANGED vars PROVE ~overlap' /\ ~keyRace'
  BY <1>4, OtherSteps
<1> QED BY <1>2, <1>3, <1>4 DEF Next

\* With one operation at a time the app never shows what is not on disk and
\* never shows a password that does not open the file, whatever fails and
\* wherever it is locked or quit; only a write that was cut spoils the file.
THEOREM SequentialDesktop ==
    ASSUME \A t, u \in Tasks : t = u
    PROVE  Spec => []FileIsWhatIsShown
<1> DEFINE Alone == ~overlap /\ ~keyRace
<1>1. Init => Alone
  BY DEF Init
<1>2. TypeOK /\ Alone /\ [Next]_vars => Alone'
  BY NextAlone
<1>3. MemoryMatchesFile /\ PasswordSettled /\ Alone => FileIsWhatIsShown
  BY DEF MemoryMatchesFile, PasswordSettled, FileIsWhatIsShown, FileIs
<1>4. QED
  BY <1>1, <1>2, <1>3, TypeCorrect, MemoryAlwaysMatchesFile, PasswordStaysSettled, PTL DEF Spec

\* The file is never half written.
Unbroken == file.st # "broken"

\* Without failed writes and crashes no interleaving of operations, locks and
\* navigation breaks the file.
THEOREM OnlyCutWritesBreak ==
    ASSUME ~MayFail, ~MayQuit
    PROVE  Spec => []Unbroken
<1>1. Init => Unbroken
  BY DEF Init, Unbroken
<1>2. Unbroken /\ [Next]_vars => Unbroken'
  BY DEF Unbroken, Next, vars, disk, Commit, Rekey, CreateVault, OpenVault, Start, TaskStep, WriteFile, WriteFails,
         ReadFile, RememberRecent, Apply, Boot, Navigate, ClearRecents, Lock, Quit
<1>3. QED
  BY <1>1, <1>2, PTL DEF Spec

----------------------------------------------------------------------------
(* The safety half of RightPasswordOpens.                                  *)

\* An openExistingVault that has read the file goes on with what it read: no
\* commit, lock, navigation or other open turns it away.  It ends by opening
\* the vault with that content, or because the recents list could not be
\* written, or because the app was quit.
OpenStands ==
    [][\A t \in Tasks :
          kind[t] = "open" /\ at[t] \in {"recent", "apply"} =>
              \/ at'[t] \in {"recent", "apply"} /\ kind'[t] = "open" /\ copy'[t] = copy[t]
              \/ vault' = [open |-> TRUE, c |-> copy[t]]
              \/ unnoted'
              \/ screen' = "boot"]_vars

\* The right password is not forgotten on the way.
THEOREM OpenStandsHolds == Spec => OpenStands
<1> DEFINE A(t) == kind[t] = "open" /\ at[t] \in {"recent", "apply"} =>
              \/ at'[t] \in {"recent", "apply"} /\ kind'[t] = "open" /\ copy'[t] = copy[t]
              \/ vault' = [open |-> TRUE, c |-> copy[t]]
              \/ unnoted'
              \/ screen' = "boot"
<1>1. ASSUME TypeOK, Next, NEW t \in Tasks, kind[t] = "open", at[t] \in {"recent", "apply"} PROVE A(t)
  <2>t. at \in [Tasks -> Awaits] /\ kind \in [Tasks -> Kinds] /\ copy \in [Tasks -> Content]
    BY <1>1, TypeParts DEF TaskType
  <2>1. ASSUME UNCHANGED <<at, kind, copy>> PROVE A(t)
    BY <1>1, <2>1
  <2>2. ASSUME NEW u \in Tasks, Commit(u) \/ Rekey(u) \/ CreateVault(u) \/ OpenVault(u) PROVE A(t)
    <3>1. PICK k, c, a : Start(u, k, c, a)
      BY <1>1, <2>2, InputType
    <3>2. u # t
      BY <1>1, <3>1 DEF Start
    <3> QED BY <1>1, <2>t, <3>1, <3>2 DEF Start
  <2>3. ASSUME NEW u \in Tasks, u # t, TaskStep(u) PROVE A(t)
    BY <1>1, <2>t, <2>3 DEF TaskStep, WriteFile, WriteFails, ReadFile, RememberRecent, Apply, Step
  <2>4. ASSUME TaskStep(t) PROVE A(t)
    <3>1. RememberRecent(t) \/ Apply(t)
      BY <1>1, <2>4 DEF TaskStep, WriteFile, WriteFails, ReadFile
    <3>2. CASE RememberRecent(t)
      BY <1>1, <2>t, <3>2 DEF RememberRecent, Step
    <3>3. CASE Apply(t)
      BY <3>3 DEF Apply
    <3> QED BY <3>1, <3>2, <3>3
  <2>5. CASE Boot \/ Navigate \/ ClearRecents \/ Lock
    BY <2>1, <2>5 DEF Boot, Navigate, ClearRecents, Lock, tasks
  <2>6. CASE Quit
    BY <2>6 DEF Quit
  <2> QED BY <1>1, <2>2, <2>3, <2>4, <2>5, <2>6 DEF Next
<1>2. TypeOK /\ [Next]_vars => [\A t \in Tasks : A(t)]_vars
  BY <1>1
<1>3. QED
  BY <1>2, TypeCorrect, PTL DEF Spec, OpenStands
=============================================================================
