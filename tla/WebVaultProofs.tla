--------------------------- MODULE WebVaultProofs ---------------------------
(***************************************************************************)
(* Proofs about WebVault, for any number of operations in flight, items    *)
(* and contents, with failing requests and another device.                 *)
(***************************************************************************)
EXTENDS WebVault, TLAPS

----------------------------------------------------------------------------
(* Types *)

\* TypeOK, split by what the actions change together.
ServerType == server \in [Ids -> Item] /\ deleted \subseteq Ids /\ want \in [Ids -> Item]
ScreenType ==
    /\ items \in [Ids -> Item]
    /\ selected \subseteq Ids
    /\ box \in Notes
    /\ editor \in Editor
    /\ mine \subseteq Tasks
Stages == {"idle", "send", "sync", "apply", "timer", "lost"}
TaskType ==
    /\ at \in [Tasks -> Stages]
    /\ op \in [Tasks -> Kinds]
    /\ item \in [Tasks -> [id : Ids, it : Item]]
    /\ list \in [Tasks -> [Ids -> Item]]
    /\ left \in [Tasks -> 0 .. MaxImport]
CountType == remotes \in 0 .. MaxRemote /\ ops \in 0 .. MaxOps
FlagType == mounted \in BOOLEAN /\ loading \in BOOLEAN /\ muddled \in BOOLEAN /\ stale \in BOOLEAN /\ raced \in BOOLEAN

\* The parts make up TypeOK.
LEMMA TypeParts == TypeOK <=> ServerType /\ ScreenType /\ TaskType /\ CountType /\ FlagType
  BY Zenon DEF TypeOK, ServerType, ScreenType, TaskType, Stages, CountType, FlagType

\* The constant operators have their types.
LEMMA Elements ==
    /\ SomeNotes \in Notes /\ SomeId \in Ids
    /\ NoItem \in Item /\ Imported \in Item
    /\ NoItems \in [Ids -> Item]
    /\ Blank \in [id : Ids, it : Item]
    /\ NoEditor \in Editor
    /\ MaxOps \in Nat /\ MaxRemote \in Nat /\ MaxImport \in Nat
<1>1. SomeNotes \in Notes /\ SomeId \in Ids
  BY WebVaultAssumption DEF SomeNotes, SomeId
<1>2. NoItem \in Item /\ Imported \in Item
  BY <1>1 DEF NoItem, Imported, Item
<1> QED BY <1>1, <1>2, WebVaultAssumption DEF NoItems, Blank, NoEditor, Editor

\* Items with one field changed are items.
LEMMA Fields ==
    ASSUME NEW x \in Item
    PROVE  /\ \A n \in Notes : [x EXCEPT !.notes = n] \in Item
           /\ [x EXCEPT !.star = ~@] \in Item
           /\ \A n \in Notes, s \in BOOLEAN : [there |-> TRUE, notes |-> n, star |-> s] \in Item
  BY DEF Item

\* A task that starts has its types.
LEMMA BeginType ==
    ASSUME TaskType, CountType, NEW t \in Tasks, NEW o \in Kinds, NEW x \in [id : Ids, it : Item], NEW n \in 0 .. MaxImport,
           Begin(t, o, x, n), UNCHANGED remotes
    PROVE  TaskType' /\ CountType'
<1>1. TaskType'
  BY DEF Begin, TaskType, Stages
<1>2. CountType'
  BY Elements DEF Begin, CountType
<1> QED BY <1>1, <1>2

\* A task that goes on or ends keeps its types.
LEMMA StepType ==
    ASSUME TaskType, NEW t \in Tasks, NEW a \in Stages, Step(t, a)
    PROVE  TaskType'
<1>1. CASE a = "idle"
  <2>1. "load" \in Kinds /\ 0 \in 0 .. MaxImport
    BY Elements DEF Kinds
  <2> QED BY <1>1, <2>1, Elements DEF Step, TaskType, Stages
<1>2. CASE a # "idle"
  BY <1>2 DEF Step, TaskType, Stages
<1> QED BY <1>1, <1>2

\* The parts make up TypeOK after a step, too.
LEMMA TypeQ == ServerType' /\ ScreenType' /\ TaskType' /\ CountType' /\ FlagType' => TypeOK'
  BY Zenon DEF TypeOK, ServerType, ScreenType, TaskType, Stages, CountType, FlagType

\* Clicks that start an operation keep the types.
LEMMA InputType ==
    ASSUME TypeOK, NEW t \in Tasks, Input(t)
    PROVE  TypeOK'
<1>t. ServerType /\ ScreenType /\ TaskType /\ CountType /\ FlagType
  BY TypeParts
<1>k. Kinds = {"load", "save", "add", "notes", "star", "delete", "import"} /\ 0 \in 0 .. MaxImport
  BY Elements DEF Kinds
<1>i. \A i \in Ids : items[i] \in Item /\ want[i] \in Item
  BY <1>t DEF ScreenType, ServerType
<1>e. editor.id \in Ids
  BY <1>t DEF ScreenType, Editor
<1>1. ASSUME NEW i \in Ids, NEW n \in Notes, SaveNotes(t, i, n) PROVE TypeOK'
  <2>1. [id |-> i, it |-> [items[i] EXCEPT !.notes = n]] \in [id : Ids, it : Item]
    BY <1>i, Fields
  <2>2. TaskType' /\ CountType'
    BY <1>t, <1>k, <1>1, <2>1, BeginType DEF SaveNotes
  <2>3. [want EXCEPT ![i].notes = n] \in [Ids -> Item]
    BY <1>t, <1>i DEF ServerType, Item
  <2>4. ServerType'
    BY <1>t, <1>1, <2>3 DEF SaveNotes, ServerType
  <2>5. ScreenType'
    BY <1>t, <1>1 DEF SaveNotes, ScreenType
  <2>6. FlagType'
    BY Zenon, <1>t, <1>1 DEF SaveNotes, FlagType
  <2> QED BY <2>2, <2>4, <2>5, <2>6, TypeQ
<1>2. ASSUME NEW i \in Ids, ToggleFavorite(t, i) PROVE TypeOK'
  <2>1. [id |-> i, it |-> [items[i] EXCEPT !.star = ~@]] \in [id : Ids, it : Item]
    BY <1>i, Fields
  <2>2. TaskType' /\ CountType'
    BY <1>t, <1>k, <1>2, <2>1, BeginType DEF ToggleFavorite, Click
  <2>3. [want EXCEPT ![i].star = ~items[i].star] \in [Ids -> Item]
    BY <1>t, <1>i DEF ServerType, Item
  <2>4. ServerType'
    BY <1>t, <1>2, <2>3 DEF ToggleFavorite, Click, ServerType
  <2>5. ScreenType'
    BY <1>t, <1>2 DEF ToggleFavorite, screen, ScreenType
  <2>6. FlagType'
    BY Zenon, <1>t, <1>2 DEF ToggleFavorite, Click, screen, FlagType
  <2> QED BY <2>2, <2>4, <2>5, <2>6, TypeQ
<1>3. ASSUME NEW i \in Ids, HandleDelete(t, i) PROVE TypeOK'
  <2>1. [id |-> i, it |-> NoItem] \in [id : Ids, it : Item]
    BY Elements
  <2>2. TaskType' /\ CountType'
    BY <1>t, <1>k, <1>3, <2>1, BeginType DEF HandleDelete, Click
  <2>4. ServerType'
    BY <1>t, <1>3, Elements DEF HandleDelete, Click, ServerType
  <2>5. ScreenType'
    BY <1>t, <1>3 DEF HandleDelete, screen, ScreenType
  <2>6. FlagType'
    BY Zenon, <1>t, <1>3 DEF HandleDelete, Click, screen, FlagType
  <2> QED BY <2>2, <2>4, <2>5, <2>6, TypeQ
<1>4. ASSUME NEW n \in Notes, NEW s \in BOOLEAN, EditorSave(t, n, s) PROVE TypeOK'
  <2>1. [id |-> editor.id, it |-> [there |-> TRUE, notes |-> n, star |-> s]] \in [id : Ids, it : Item]
    BY <1>e, Fields, Elements
  <2>2. \E o \in Kinds : Click(t, o, editor.id, [there |-> TRUE, notes |-> n, star |-> s])
    BY <1>k, <1>4 DEF EditorSave
  <2>3. TaskType' /\ CountType'
    BY <1>t, <1>k, <2>1, <2>2, BeginType DEF Click
  <2>4. Meant(n, s) \in [Ids -> Item]
    <3>1. ASSUME NEW x \in Item
          PROVE  [there |-> x.there, notes |-> IF n = editor.base.notes THEN x.notes ELSE n,
                  star |-> IF s = editor.base.star THEN x.star ELSE s] \in Item
      BY DEF Item
    <3> QED BY <1>t, <1>i, <1>e, <3>1 DEF Meant, ServerType
  <2>5. ServerType'
    BY <1>t, <1>4, <2>2, <2>4 DEF EditorSave, Click, ServerType
  <2>6. ScreenType'
    BY <1>t, <1>4 DEF EditorSave, ScreenType
  <2>7. FlagType'
    BY Zenon, <1>t, <1>4 DEF EditorSave, Click, FlagType
  <2> QED BY <2>3, <2>5, <2>6, <2>7, TypeQ
<1>5. CASE RunImport(t)
  <2>1. TaskType' /\ CountType'
    <3>1. PICK n \in 1 .. MaxImport : Begin(t, "import", Blank, n)
      BY <1>5 DEF RunImport
    <3>2. n \in 0 .. MaxImport /\ UNCHANGED remotes
      BY <1>5, Elements DEF RunImport
    <3> QED BY <1>t, <1>k, <3>1, <3>2, BeginType, Elements
  <2>2. ServerType' /\ ScreenType'
    BY <1>t, <1>5 DEF RunImport, ServerType, ScreenType, screen
  <2>3. FlagType'
    BY Zenon, <1>t, <1>5 DEF RunImport, screen, FlagType
  <2> QED BY <2>1, <2>2, <2>3, TypeQ
<1>6. CASE Unlock(t)
  <2>1. TaskType' /\ CountType' /\ ServerType' /\ ScreenType'
    BY <1>t, <1>6 DEF Unlock, TaskType, Stages, CountType, ServerType, ScreenType
  <2>2. FlagType'
    BY Zenon, <1>t, <1>6 DEF Unlock, FlagType
  <2> QED BY <2>1, <2>2, TypeQ
<1> QED BY <1>1, <1>2, <1>3, <1>4, <1>5, <1>6 DEF Input

\* The requests' effects on the server keep its types.
LEMMA RequestType ==
    ASSUME ServerType
    PROVE  /\ \A i \in Ids, x \in Item : UpdateCipher(i, x) /\ UNCHANGED <<deleted, want>> => ServerType'
           /\ \A i \in Ids : DeleteCipher(i) /\ UNCHANGED want => ServerType'
           /\ \A x \in Item : CreateCipher(x) /\ UNCHANGED deleted => ServerType'
<1>1. ASSUME NEW i \in Ids, NEW x \in Item, UpdateCipher(i, x), UNCHANGED <<deleted, want>> PROVE ServerType'
  BY <1>1 DEF UpdateCipher, ServerType
<1>2. ASSUME NEW i \in Ids, DeleteCipher(i), UNCHANGED want PROVE ServerType'
  BY <1>2, Elements DEF DeleteCipher, ServerType
<1>3. ASSUME NEW x \in Item, CreateCipher(x), UNCHANGED deleted PROVE ServerType'
  BY <1>3 DEF CreateCipher, Fresh, ServerType
<1> QED BY <1>1, <1>2, <1>3

\* Answers keep the types.
LEMMA AnswerType ==
    ASSUME TypeOK, NEW t \in Tasks, Answer(t)
    PROVE  TypeOK'
<1>t. ServerType /\ ScreenType /\ TaskType /\ CountType /\ FlagType
  BY TypeParts
<1>s. {"idle", "sync", "apply", "timer", "lost"} \subseteq Stages /\ AfterReload(t) \in Stages
  BY DEF Stages, AfterReload
<1>i. item[t].id \in Ids /\ item[t].it \in Item /\ list[t] \in [Ids -> Item] /\ left[t] \in 0 .. MaxImport
  BY <1>t DEF TaskType
<1>1. CASE SaveAccepted(t)
  <2>1. ServerType'
    BY <1>t, <1>i, <1>1, RequestType DEF SaveAccepted
  <2>2. TaskType'
    BY <1>t, <1>s, <1>1, StepType DEF SaveAccepted, ThenReload
  <2>3. ScreenType' /\ CountType'
    BY <1>t, <1>1 DEF SaveAccepted, ScreenType, CountType
  <2>4. FlagType'
    BY Zenon, <1>t, <1>1 DEF SaveAccepted, ThenReload, FlagType
  <2> QED BY <2>1, <2>2, <2>3, <2>4, TypeQ
<1>2. CASE AddAccepted(t)
  <2>1. ServerType'
    BY <1>t, <1>i, <1>2, RequestType DEF AddAccepted
  <2>2. TaskType'
    BY <1>t, <1>s, <1>2, StepType DEF AddAccepted, ThenReload
  <2>3. ScreenType' /\ CountType'
    BY <1>t, <1>2 DEF AddAccepted, ScreenType, CountType
  <2>4. FlagType'
    BY Zenon, <1>t, <1>2 DEF AddAccepted, ThenReload, FlagType
  <2> QED BY <2>1, <2>2, <2>3, <2>4, TypeQ
<1>3. CASE DeleteAccepted(t)
  <2>1. ServerType'
    BY <1>t, <1>i, <1>3, RequestType DEF DeleteAccepted
  <2>2. TaskType'
    BY <1>t, <1>s, <1>3, StepType DEF DeleteAccepted, ThenReload
  <2>3. ScreenType' /\ CountType'
    BY <1>t, <1>3 DEF DeleteAccepted, ScreenType, CountType
  <2>4. FlagType'
    BY Zenon, <1>t, <1>3 DEF DeleteAccepted, ThenReload, FlagType
  <2> QED BY <2>1, <2>2, <2>3, <2>4, TypeQ
<1>4. CASE ImportItem(t)
  <2>1. ServerType'
    <3>1. (CreateCipher(Imported) \/ UNCHANGED <<server, want>>) /\ UNCHANGED deleted
      BY <1>4 DEF ImportItem
    <3>2. CASE UNCHANGED <<server, want, deleted>>
      BY <1>t, <3>2 DEF ServerType
    <3> QED BY <1>t, <3>1, <3>2, RequestType, Elements
  <2>2. TaskType'
    <3>1. CASE left[t] > 0 /\ left' = [left EXCEPT ![t] = @ - 1] /\ UNCHANGED <<at, op, item, list>>
      BY <1>t, <1>i, <3>1, Elements DEF TaskType
    <3>2. CASE ThenReload(t)
      BY <1>t, <1>s, <3>2, StepType DEF ThenReload
    <3> QED BY <1>4, <3>1, <3>2 DEF ImportItem
  <2>3. ScreenType' /\ CountType'
    BY <1>t, <1>4 DEF ImportItem, ScreenType, CountType
  <2>4. FlagType'
    BY Zenon, <1>t, <1>4 DEF ImportItem, ThenReload, FlagType
  <2> QED BY <2>1, <2>2, <2>3, <2>4, TypeQ
<1>5. CASE RequestFails(t)
  <2>1. ServerType'
    BY <1>t, <1>i, <1>5 DEF RequestFails, ServerType
  <2>2. TaskType'
    BY <1>t, <1>s, <1>5, StepType DEF RequestFails
  <2>3. ScreenType' /\ CountType'
    BY <1>t, <1>5 DEF RequestFails, ScreenType, CountType
  <2>4. FlagType'
    BY Zenon, <1>t, <1>5 DEF RequestFails, FlagType
  <2> QED BY <2>1, <2>2, <2>3, <2>4, TypeQ
<1>6. CASE Sync(t)
  <2>1. ServerType' /\ TaskType' /\ ScreenType' /\ CountType'
    BY <1>t, <1>6 DEF Sync, ServerType, TaskType, Stages, ScreenType, CountType, screen
  <2>2. FlagType'
    BY Zenon, <1>t, <1>6 DEF Sync, screen, FlagType
  <2> QED BY <2>1, <2>2, TypeQ
<1>7. CASE Apply(t)
  <2>1. ServerType' /\ CountType'
    BY <1>t, <1>7 DEF Apply, ServerType, CountType
  <2>2. TaskType'
    BY <1>t, <1>s, <1>7, StepType DEF Apply
  <2>3. box' \in Notes
    <3>1. CASE selected = {}
      BY <1>t, <1>7, <3>1 DEF Apply, ScreenType
    <3>2. CASE selected # {}
      <4>1. (CHOOSE i \in selected : TRUE) \in Ids
        BY <1>t, <3>2 DEF ScreenType
      <4>2. list[t][CHOOSE i \in selected : TRUE].notes \in Notes
        BY <1>i, <4>1 DEF Item
      <4> QED BY <1>t, <1>7, <4>2 DEF Apply, ScreenType
    <3> QED BY <3>1, <3>2
  <2>4. ScreenType'
    BY <1>t, <1>i, <1>7, <2>3 DEF Apply, ScreenType
  <2>5. FlagType'
    BY Zenon, <1>t, <1>7 DEF Apply, FlagType
  <2> QED BY <2>1, <2>2, <2>4, <2>5, TypeQ
<1>8. CASE ReloadFails(t)
  <2>1. ServerType' /\ ScreenType' /\ CountType'
    BY <1>t, <1>8 DEF ReloadFails, ServerType, ScreenType, CountType
  <2>2. TaskType'
    BY <1>t, <1>s, <1>8, StepType DEF ReloadFails
  <2>3. FlagType'
    BY Zenon, <1>t, <1>8 DEF ReloadFails, FlagType
  <2> QED BY <2>1, <2>2, <2>3, TypeQ
<1>9. CASE CloseEditor(t)
  <2>1. ServerType' /\ ScreenType' /\ CountType'
    BY <1>t, <1>9, Elements DEF CloseEditor, ServerType, ScreenType, CountType
  <2>2. TaskType'
    BY <1>t, <1>s, <1>9, StepType DEF CloseEditor
  <2>3. FlagType'
    BY Zenon, <1>t, <1>9 DEF CloseEditor, FlagType
  <2> QED BY <2>1, <2>2, <2>3, TypeQ
<1>10. CASE LostRequest(t)
  <2>1. ServerType'
    <3>1. \/ UpdateCipher(item[t].id, item[t].it) /\ UNCHANGED <<deleted, want>>
          \/ CreateCipher(item[t].it) /\ UNCHANGED deleted
          \/ CreateCipher(Imported) /\ UNCHANGED deleted
          \/ DeleteCipher(item[t].id) /\ UNCHANGED want
          \/ UNCHANGED <<server, deleted, want>>
      BY <1>10 DEF LostRequest, TakesEffect
    <3>2. CASE UNCHANGED <<server, want, deleted>>
      BY <1>t, <3>2 DEF ServerType
    <3> QED BY <1>t, <1>i, <3>1, <3>2, RequestType, Elements
  <2>2. TaskType'
    <3>1. CASE left[t] > 1 /\ left' = [left EXCEPT ![t] = @ - 1] /\ UNCHANGED <<at, op, item, list>>
      BY <1>t, <1>i, <3>1, Elements DEF TaskType
    <3>2. CASE Step(t, "idle")
      BY <1>t, <1>s, <3>2, StepType
    <3> QED BY <1>10, <3>1, <3>2 DEF LostRequest
  <2>3. ScreenType' /\ CountType'
    BY <1>t, <1>10 DEF LostRequest, ScreenType, CountType, screen
  <2>4. FlagType'
    BY Zenon, <1>t, <1>10 DEF LostRequest, screen, FlagType
  <2> QED BY <2>1, <2>2, <2>3, <2>4, TypeQ
<1>11. CASE AnswerLost(t)
  <2>1. ServerType'
    <3>1. \/ UpdateCipher(item[t].id, item[t].it) /\ UNCHANGED <<deleted, want>>
          \/ CreateCipher(item[t].it) /\ UNCHANGED deleted
          \/ DeleteCipher(item[t].id) /\ UNCHANGED want
      BY <1>11 DEF AnswerLost, TakesEffect
    <3> QED BY <1>t, <1>i, <3>1, RequestType
  <2>2. TaskType'
    BY <1>t, <1>s, <1>11, StepType DEF AnswerLost
  <2>3. ScreenType' /\ CountType'
    BY <1>t, <1>11 DEF AnswerLost, ScreenType, CountType
  <2>4. FlagType'
    BY Zenon, <1>t, <1>11 DEF AnswerLost, FlagType
  <2> QED BY <2>1, <2>2, <2>3, <2>4, TypeQ
<1>12. CASE RequestStrays(t)
  <2>1. ServerType' /\ ScreenType' /\ CountType'
    BY <1>t, <1>12 DEF RequestStrays, ServerType, ScreenType, CountType
  <2>2. TaskType'
    BY <1>t, <1>s, <1>12, StepType DEF RequestStrays
  <2>3. FlagType'
    BY Zenon, <1>t, <1>12 DEF RequestStrays, FlagType
  <2> QED BY <2>1, <2>2, <2>3, TypeQ
<1> QED BY <1>1, <1>2, <1>3, <1>4, <1>5, <1>6, <1>7, <1>8, <1>9, <1>10, <1>11, <1>12 DEF Answer

\* Every step keeps the types.
LEMMA TypeNext == TypeOK /\ [Next]_vars => TypeOK'
<1> SUFFICES ASSUME TypeOK, [Next]_vars PROVE TypeOK'
  OBVIOUS
<1>t. ServerType /\ ScreenType /\ TaskType /\ CountType /\ FlagType
  BY TypeParts
<1>1. ASSUME NEW i \in Ids, Select(i) \/ SameNotes(i) PROVE TypeOK'
  <2>1. items[i].notes \in Notes
    BY <1>t DEF ScreenType, Item
  <2>2. ServerType' /\ TaskType' /\ CountType'
    BY <1>t, <1>1 DEF Select, SameNotes, ServerType, TaskType, CountType, tasks
  <2>3. ScreenType'
    BY <1>t, <1>1, <2>1 DEF Select, SameNotes, ScreenType
  <2>4. FlagType'
    BY Zenon, <1>t, <1>1 DEF Select, SameNotes, FlagType
  <2> QED BY <2>2, <2>3, <2>4, TypeQ
<1>2. CASE Deselect \/ CancelEditor
  <2>1. ServerType' /\ TaskType' /\ CountType'
    BY <1>t, <1>2 DEF Deselect, CancelEditor, ServerType, TaskType, CountType, tasks
  <2>2. ScreenType'
    BY <1>t, <1>2, Elements DEF Deselect, CancelEditor, ScreenType
  <2>3. FlagType'
    BY Zenon, <1>t, <1>2 DEF Deselect, CancelEditor, FlagType
  <2> QED BY <2>1, <2>2, <2>3, TypeQ
<1>3. CASE OpenEditor
  <2>1. ServerType' /\ TaskType' /\ CountType'
    BY <1>t, <1>3 DEF OpenEditor, ServerType, TaskType, CountType, tasks
  <2>2. \A i \in Ids : items[i] \in Item
    BY <1>t DEF ScreenType
  <2>3. editor' \in Editor
    BY <1>3, <2>2, Elements DEF OpenEditor, Editor
  <2>4. ScreenType'
    BY <1>t, <1>3, <2>3 DEF OpenEditor, ScreenType
  <2>5. FlagType'
    BY Zenon, <1>t, <1>3 DEF OpenEditor, FlagType
  <2> QED BY <2>1, <2>4, <2>5, TypeQ
<1>4. CASE Lock
  <2>1. ServerType' /\ CountType'
    BY <1>t, <1>4 DEF Lock, ServerType, CountType
  <2>2. ScreenType'
    BY <1>t, <1>4, Elements DEF Lock, ScreenType
  <2>3. TaskType'
    BY <1>t, <1>4, Elements DEF Lock, TaskType, Stages, Kinds
  <2>4. FlagType'
    BY Zenon, <1>t, <1>4 DEF Lock, FlagType
  <2> QED BY <2>1, <2>2, <2>3, <2>4, TypeQ
<1>5. CASE Remote
  <2>1. ServerType'
    <3>1. PICK i \in Ids : \/ UpdateCipher(i, [server[i] EXCEPT !.star = ~@]) /\ UNCHANGED deleted
                           \/ DeleteCipher(i)
      BY <1>5 DEF Remote
    <3>2. [server[i] EXCEPT !.star = ~@] \in Item /\ UNCHANGED want
      BY <1>t, <1>5, Fields DEF ServerType, Remote
    <3> QED BY <1>t, <3>1, <3>2, RequestType
  <2>2. ScreenType' /\ TaskType'
    BY <1>t, <1>5 DEF Remote, ScreenType, TaskType, screen, tasks
  <2>3. CountType'
    BY <1>t, <1>5, Elements DEF Remote, CountType
  <2>4. FlagType'
    BY Zenon, <1>t, <1>5 DEF Remote, screen, FlagType
  <2> QED BY <2>1, <2>2, <2>3, <2>4, TypeQ
<1>6. CASE UNCHANGED vars
  <2>1. ServerType' /\ ScreenType' /\ TaskType' /\ CountType'
    BY <1>t, <1>6 DEF vars, screen, tasks, ServerType, ScreenType, TaskType, CountType
  <2>2. FlagType'
    BY Zenon, <1>t, <1>6 DEF vars, screen, FlagType
  <2> QED BY <2>1, <2>2, TypeQ
<1>7. ASSUME NEW t \in Tasks, NEW u \in Tasks, ImportStrays(t, u) PROVE TypeOK'
  <2>1. ServerType' /\ ScreenType' /\ CountType'
    BY <1>t, <1>7 DEF ImportStrays, screen, ServerType, ScreenType, CountType
  <2>2. "lost" \in Stages /\ "add" \in Kinds /\ Imported \in Item
    BY Elements DEF Stages, Kinds
  <2>3. left[t] - 1 \in 0 .. MaxImport
    BY <1>t, <1>7, Elements DEF ImportStrays, TaskType
  <2>4. TaskType'
    BY <1>t, <1>7, <2>2, <2>3 DEF ImportStrays, TaskType
  <2>5. FlagType'
    BY Zenon, <1>t, <1>7 DEF ImportStrays, screen, FlagType
  <2> QED BY <2>1, <2>4, <2>5, TypeQ
<1> QED BY <1>1, <1>2, <1>3, <1>4, <1>5, <1>6, <1>7, InputType, AnswerType DEF Next

\* The initial states have the types.
LEMMA TypeInit == Init => TypeOK
<1> SUFFICES ASSUME Init PROVE TypeOK
  OBVIOUS
<1>1. ServerType /\ ScreenType
  BY Elements DEF Init, ServerType, ScreenType
<1>2. TaskType /\ CountType
  BY Elements DEF Init, TaskType, CountType, Stages, Kinds
<1>3. FlagType
  BY Zenon DEF Init, FlagType
<1> QED BY <1>1, <1>2, <1>3, TypeParts

\* Server, screen and operations in flight always have their types: every
\* write carries a whole item.
THEOREM TypeCorrect == Spec => []TypeOK
  BY TypeInit, TypeNext, PTL DEF Spec

----------------------------------------------------------------------------
(* What steps do to tasks and to the server *)

\* The task that starts, and the others.
LEMMA BeginTask ==
    ASSUME TypeOK, NEW t \in Tasks, NEW o, NEW x, NEW n, Begin(t, o, x, n)
    PROVE  /\ at[t] = "idle" /\ at'[t] = "send" /\ op'[t] = o /\ item'[t] = x
           /\ \A u \in Tasks \ {t} : at'[u] = at[u] /\ op'[u] = op[u] /\ item'[u] = item[u]
           /\ list' = list
  BY TypeParts DEF Begin, TaskType

\* The task that goes on or ends, and the others.
LEMMA StepTask ==
    ASSUME TypeOK, NEW t \in Tasks, NEW a, Step(t, a)
    PROVE  /\ at'[t] = a
           /\ a # "idle" => op'[t] = op[t] /\ item'[t] = item[t]
           /\ \A u \in Tasks \ {t} : at'[u] = at[u] /\ op'[u] = op[u] /\ item'[u] = item[u] /\ list'[u] = list[u]
<1>t. TaskType
  BY TypeParts
<1>1. CASE a = "idle"
  BY <1>t, <1>1 DEF Step, TaskType
<1>2. CASE a # "idle"
  BY <1>t, <1>2 DEF Step, TaskType
<1> QED BY <1>1, <1>2

\* A click starts one task and leaves server, list and history alone.
LEMMA InputTask ==
    ASSUME TypeOK, NEW t \in Tasks, Input(t), ~Unlock(t)
    PROVE  /\ mounted
           /\ \E o \in Kinds : \E x, n : Begin(t, o, x, n)
           /\ UNCHANGED <<server, deleted, mounted, items, loading, stale, raced>>
<1>1. ASSUME NEW i \in Ids, NEW n \in Notes, SaveNotes(t, i, n) PROVE mounted /\ \E o \in Kinds : \E x, m : Begin(t, o, x, m)
  BY <1>1 DEF SaveNotes, Clickable, Kinds
<1>2. ASSUME NEW i \in Ids, ToggleFavorite(t, i) PROVE mounted /\ \E o \in Kinds : \E x, m : Begin(t, o, x, m)
  BY <1>2 DEF ToggleFavorite, Click, Clickable, Kinds
<1>3. ASSUME NEW i \in Ids, HandleDelete(t, i) PROVE mounted /\ \E o \in Kinds : \E x, m : Begin(t, o, x, m)
  BY <1>3 DEF HandleDelete, Click, Clickable, Kinds
<1>4. ASSUME NEW n \in Notes, NEW s \in BOOLEAN, EditorSave(t, n, s) PROVE mounted /\ \E o \in Kinds : \E x, m : Begin(t, o, x, m)
  BY <1>4 DEF EditorSave, Click, Kinds
<1>5. ASSUME RunImport(t) PROVE mounted /\ \E o \in Kinds : \E x, m : Begin(t, o, x, m)
  BY <1>5 DEF RunImport, Clickable, Kinds
<1>6. UNCHANGED <<server, deleted, mounted, items, loading, stale, raced>>
  BY DEF Input, SaveNotes, ToggleFavorite, HandleDelete, EditorSave, RunImport, Click, screen
<1> QED BY <1>1, <1>2, <1>3, <1>4, <1>5, <1>6 DEF Input

\* Steps of the detail pane and the editor that start nothing.
LEMMA LocalSteps ==
    ASSUME (\E i \in Ids : Select(i) \/ SameNotes(i)) \/ Deselect \/ OpenEditor \/ CancelEditor \/ UNCHANGED vars
    PROVE  UNCHANGED <<server, deleted, mounted, items, loading, stale, raced, at, op, item, list>>
  BY DEF Select, SameNotes, Deselect, OpenEditor, CancelEditor, vars, screen, tasks

\* Every step leaves the server alone or is one request.
LEMMA ServerSteps ==
    ASSUME TypeOK, [Next]_vars
    PROVE  \/ UNCHANGED <<server, deleted>>
           \/ \E i \in Ids : (\E x : UpdateCipher(i, x)) /\ UNCHANGED deleted
           \/ (\E x \in Item : CreateCipher(x)) /\ UNCHANGED deleted
           \/ \E i \in Ids : DeleteCipher(i)
<1>1. ASSUME NEW t \in Tasks, Answer(t)
      PROVE  \/ UNCHANGED <<server, deleted>>
             \/ \E i \in Ids : (\E x : UpdateCipher(i, x)) /\ UNCHANGED deleted
             \/ (\E x \in Item : CreateCipher(x)) /\ UNCHANGED deleted
             \/ \E i \in Ids : DeleteCipher(i)
  <2>i. item[t].id \in Ids /\ item[t].it \in Item /\ Imported \in Item
    BY TypeParts, Elements DEF TaskType
  <2>1. CASE SaveAccepted(t)
    BY <2>i, <2>1 DEF SaveAccepted
  <2>2. CASE AddAccepted(t)
    BY <2>i, <2>2 DEF AddAccepted
  <2>3. CASE DeleteAccepted(t)
    BY <2>i, <2>3 DEF DeleteAccepted
  <2>4. CASE ImportItem(t)
    BY <2>i, <2>4 DEF ImportItem
  <2>5. CASE LostRequest(t)
    BY <2>i, <2>5 DEF LostRequest, TakesEffect
  <2>6. CASE AnswerLost(t)
    BY <2>i, <2>6 DEF AnswerLost, TakesEffect
  <2>7. CASE RequestFails(t) \/ RequestStrays(t) \/ Sync(t) \/ Apply(t) \/ ReloadFails(t) \/ CloseEditor(t)
    BY <2>7 DEF RequestFails, RequestStrays, Sync, Apply, ReloadFails, CloseEditor
  <2> QED BY <1>1, <2>1, <2>2, <2>3, <2>4, <2>5, <2>6, <2>7 DEF Answer
<1>2. ASSUME NEW t \in Tasks, Input(t) PROVE UNCHANGED <<server, deleted>>
  <2>1. CASE Unlock(t)
    BY <2>1 DEF Unlock
  <2> QED BY <1>2, <2>1, InputTask
<1>3. CASE Remote
  BY <1>3 DEF Remote
<1>4. CASE Lock
  BY <1>4 DEF Lock
<1>5. ASSUME NEW t \in Tasks, NEW u \in Tasks, ImportStrays(t, u) PROVE UNCHANGED <<server, deleted>>
  BY <1>5 DEF ImportStrays
<1> QED BY <1>1, <1>2, <1>3, <1>4, <1>5, LocalSteps DEF Next

----------------------------------------------------------------------------
(* Deleted items stay deleted *)

\* However saves, imports, deletions, locks and another device overlap, no
\* request brings a deleted item back.
THEOREM DeletionIsForGood == Spec => []DeletedStaysDeleted
<1> DEFINE Inv == TypeOK /\ DeletedStaysDeleted
<1>1. Init => Inv
  BY TypeInit DEF Init, DeletedStaysDeleted
<1>2. Inv /\ [Next]_vars => Inv'
  <2> SUFFICES ASSUME TypeOK, DeletedStaysDeleted, [Next]_vars PROVE DeletedStaysDeleted'
    BY TypeNext
  <2>t. server \in [Ids -> Item] /\ deleted \subseteq Ids
    BY TypeParts DEF ServerType
  <2>1. CASE UNCHANGED <<server, deleted>>
    BY <2>1 DEF DeletedStaysDeleted
  <2>2. ASSUME NEW i \in Ids, NEW x, UpdateCipher(i, x), UNCHANGED deleted PROVE DeletedStaysDeleted'
    BY <2>t, <2>2 DEF UpdateCipher, DeletedStaysDeleted
  <2>3. ASSUME NEW x \in Item, CreateCipher(x), UNCHANGED deleted PROVE DeletedStaysDeleted'
    BY <2>t, <2>3 DEF CreateCipher, Fresh, DeletedStaysDeleted
  <2>4. ASSUME NEW i \in Ids, DeleteCipher(i) PROVE DeletedStaysDeleted'
    BY <2>t, <2>4 DEF DeleteCipher, DeletedStaysDeleted, NoItem
  <2> QED BY <2>1, <2>2, <2>3, <2>4, ServerSteps
<1>3. QED
  BY <1>1, <1>2, PTL DEF Spec

----------------------------------------------------------------------------
(* Loading ends *)

\* Every step keeps LoadingEnds.
LEMMA LoadingNext ==
    ASSUME TypeOK, LoadingEnds, [Next]_vars
    PROVE  LoadingEnds'
<1>s. ASSUME UNCHANGED <<loading, mounted>>, NEW t \in Tasks, at[t] \notin {"sync", "apply"},
             \A u \in Tasks \ {t} : at'[u] = at[u]
      PROVE  LoadingEnds'
  BY <1>s DEF LoadingEnds
<1>r. ASSUME NEW t \in Tasks, ThenReload(t), UNCHANGED mounted PROVE LoadingEnds'
  <2>1. at'[t] = "sync"
    BY <1>r, StepTask DEF ThenReload
  <2>2. loading' => mounted'
    BY Zenon, <1>r DEF ThenReload
  <2> QED BY <2>1, <2>2 DEF LoadingEnds
<1>f. ASSUME loading' = FALSE PROVE LoadingEnds'
  BY <1>f DEF LoadingEnds
<1>1. ASSUME NEW t \in Tasks, Answer(t) PROVE LoadingEnds'
  <2>1. CASE SaveAccepted(t) \/ AddAccepted(t) \/ DeleteAccepted(t)
    BY <1>r, <2>1 DEF SaveAccepted, AddAccepted, DeleteAccepted
  <2>2. CASE ImportItem(t)
    <3>1. CASE ThenReload(t)
      BY <1>r, <2>2, <3>1 DEF ImportItem
    <3>2. CASE UNCHANGED <<at, loading>>
      BY <1>s, <2>2, <3>2 DEF ImportItem
    <3> QED BY <2>2, <3>1, <3>2 DEF ImportItem
  <2>3. CASE RequestFails(t) \/ AnswerLost(t) \/ RequestStrays(t) \/ CloseEditor(t)
    <3>1. (Step(t, "idle") \/ Step(t, "lost")) /\ at[t] \notin {"sync", "apply"} /\ UNCHANGED <<loading, mounted>>
      BY <2>3 DEF RequestFails, AnswerLost, RequestStrays, CloseEditor
    <3> QED BY <1>s, <3>1, StepTask
  <2>4. CASE LostRequest(t)
    <3>1. at[t] \notin {"sync", "apply"} /\ UNCHANGED <<loading, mounted>> /\ (Step(t, "idle") \/ UNCHANGED at)
      BY <2>4 DEF LostRequest, screen
    <3> QED BY <1>s, <3>1, StepTask
  <2>5. CASE Sync(t)
    <3>1. at'[t] = "apply" /\ UNCHANGED <<loading, mounted>>
      BY <2>5, TypeParts DEF Sync, screen, TaskType
    <3> QED BY <3>1 DEF LoadingEnds
  <2>6. CASE Apply(t) \/ ReloadFails(t)
    BY <1>f, <2>6 DEF Apply, ReloadFails
  <2> QED BY <1>1, <2>1, <2>2, <2>3, <2>4, <2>5, <2>6 DEF Answer
<1>2. ASSUME NEW t \in Tasks, Input(t) PROVE LoadingEnds'
  <2>1. CASE Unlock(t)
    <3>1. at'[t] = "sync" /\ mounted'
      BY <2>1, TypeParts DEF Unlock, TaskType
    <3> QED BY <3>1 DEF LoadingEnds
  <2>2. CASE ~Unlock(t)
    <3>1. at[t] = "idle" /\ UNCHANGED <<loading, mounted>> /\ \A u \in Tasks \ {t} : at'[u] = at[u]
      BY <1>2, <2>2, InputTask, BeginTask
    <3> QED BY <1>s, <3>1
  <2> QED BY <2>1, <2>2
<1>3. CASE Lock
  BY <1>f, <1>3 DEF Lock
<1>4. CASE Remote
  BY <1>4 DEF Remote, screen, tasks, LoadingEnds
<1>5. CASE (\E i \in Ids : Select(i) \/ SameNotes(i)) \/ Deselect \/ OpenEditor \/ CancelEditor \/ UNCHANGED vars
  BY <1>5, LocalSteps DEF LoadingEnds
<1>6. ASSUME NEW t \in Tasks, NEW u \in Tasks, ImportStrays(t, u) PROVE LoadingEnds'
  <2>1. at[u] = "idle" /\ UNCHANGED <<loading, mounted>> /\ \A v \in Tasks \ {u} : at'[v] = at[v]
    BY <1>6, TypeParts DEF ImportStrays, screen, TaskType
  <2> QED BY <1>s, <2>1
<1> QED BY <1>1, <1>2, <1>3, <1>4, <1>5, <1>6 DEF Next

\* While the list says it is loading, a reload of this screen is under way.
THEOREM LoadingAlwaysEnds == Spec => []LoadingEnds
<1> DEFINE Inv == TypeOK /\ LoadingEnds
<1>1. Init => Inv
  BY TypeInit DEF Init, LoadingEnds
<1>2. Inv /\ [Next]_vars => Inv'
  BY TypeNext, LoadingNext
<1>3. QED
  BY <1>1, <1>2, PTL DEF Spec

----------------------------------------------------------------------------
(* The list on screen is the vault *)

\* A running import, which changes the server without asking for the list.
Importing == \E u \in Tasks : at[u] = "send" /\ op[u] = "import"

\* As long as lists do not race: the one list under way is the vault's once it
\* has been answered, and with none under way the one on screen is; an import
\* that is still adding items may have changed the vault since.
ListInv ==
    ~raced =>
      /\ \A t \in Tasks : at[t] # "lost"
      /\ ~mounted => \A t \in Tasks : at[t] = "idle"
      /\ \A t, u \in Tasks : at[t] \in {"sync", "apply"} /\ at[u] \in {"sync", "apply"} => t = u
      /\ \A t \in Tasks : at[t] = "apply" => list[t] = server \/ Importing
      /\ mounted /\ ~stale /\ (\A t \in Tasks : at[t] \notin {"sync", "apply"}) => items = server \/ Importing


\* Every step keeps it.
LEMMA ListNext ==
    ASSUME TypeOK, ListInv, [Next]_vars
    PROVE  ListInv'
<1>r. ASSUME NEW t \in Tasks, ThenReload(t), at[t] = "send", UNCHANGED mounted PROVE ListInv'
  <2>1. ASSUME ~raced' PROVE ~raced /\ \A u \in Tasks \ {t} : at[u] \notin {"sync", "apply"}
    BY Zenon, <1>r, <2>1 DEF ThenReload
  <2>2. at'[t] = "sync" /\ \A u \in Tasks \ {t} : at'[u] = at[u]
    BY <1>r, StepTask DEF ThenReload
  <2> QED BY <1>r, <2>1, <2>2 DEF ListInv
<1>1. ASSUME NEW t \in Tasks, Answer(t) PROVE ListInv'
  <2>1. CASE SaveAccepted(t) \/ AddAccepted(t) \/ DeleteAccepted(t)
    BY <1>r, <2>1 DEF SaveAccepted, AddAccepted, DeleteAccepted
  <2>2. CASE ImportItem(t)
    <3>1. CASE ThenReload(t)
      BY <1>r, <2>2, <3>1 DEF ImportItem
    <3>2. CASE UNCHANGED <<at, op, item, list, loading, raced>>
      <4>1. Importing' /\ UNCHANGED <<mounted, items, stale>>
        BY <2>2, <3>2 DEF ImportItem, Importing
      <4> QED BY <3>2, <4>1 DEF ListInv
    <3> QED BY <2>2, <3>1, <3>2 DEF ImportItem
  <2>3. CASE RequestFails(t)
    <3>1. at[t] = "send" /\ op[t] # "import" /\ Step(t, "idle") /\ UNCHANGED <<server, mounted, items, stale, raced>>
      BY <2>3 DEF RequestFails
    <3>2. at'[t] = "idle" /\ \A u \in Tasks \ {t} : at'[u] = at[u] /\ op'[u] = op[u] /\ list'[u] = list[u]
      BY <3>1, StepTask
    <3>3. Importing => Importing'
      BY <3>1, <3>2 DEF Importing
    <3> QED BY <3>1, <3>2, <3>3 DEF ListInv
  <2>4. CASE Sync(t)
    <3>1. /\ at[t] = "sync" /\ at'[t] = "apply" /\ list'[t] = server
          /\ \A u \in Tasks \ {t} : at'[u] = at[u] /\ list'[u] = list[u]
          /\ UNCHANGED <<server, mounted, items, stale, raced, op>>
      BY <2>4, TypeParts DEF Sync, screen, TaskType
    <3>2. \A u \in Tasks : (at[u] \in {"sync", "apply"} <=> at'[u] \in {"sync", "apply"}) /\ (at'[u] = "idle" <=> at[u] = "idle")
      BY <3>1
    <3>3. Importing => Importing'
      BY <3>1 DEF Importing
    <3> QED BY <3>1, <3>2, <3>3 DEF ListInv
  <2>5. CASE Apply(t)
    <3>1. at[t] = "apply" /\ items' = list[t] /\ Step(t, AfterReload(t)) /\ UNCHANGED <<server, mounted, raced>>
      BY <2>5 DEF Apply
    <3>2. /\ at'[t] \in {"idle", "timer"}
          /\ \A u \in Tasks \ {t} : at'[u] = at[u] /\ op'[u] = op[u] /\ list'[u] = list[u]
      BY <3>1, StepTask DEF AfterReload
    <3>3. Importing => Importing'
      BY <3>1, <3>2 DEF Importing
    <3> QED BY <3>1, <3>2, <3>3 DEF ListInv
  <2>6. CASE ReloadFails(t)
    <3>1. at[t] = "sync" /\ stale' /\ Step(t, AfterReload(t)) /\ UNCHANGED <<server, mounted, raced>>
      BY <2>6 DEF ReloadFails
    <3>2. /\ at'[t] \in {"idle", "timer"}
          /\ \A u \in Tasks \ {t} : at'[u] = at[u] /\ op'[u] = op[u] /\ list'[u] = list[u]
      BY <3>1, StepTask DEF AfterReload
    <3>3. Importing => Importing'
      BY <3>1, <3>2 DEF Importing
    <3> QED BY <3>1, <3>2, <3>3 DEF ListInv
  <2>7. CASE CloseEditor(t)
    <3>1. at[t] = "timer" /\ Step(t, "idle") /\ UNCHANGED <<server, mounted, items, stale, raced>>
      BY <2>7 DEF CloseEditor
    <3>2. at'[t] = "idle" /\ \A u \in Tasks \ {t} : at'[u] = at[u] /\ op'[u] = op[u] /\ list'[u] = list[u]
      BY <3>1, StepTask
    <3>3. Importing => Importing'
      BY <3>1, <3>2 DEF Importing
    <3> QED BY <3>1, <3>2, <3>3 DEF ListInv
  <2>8. CASE LostRequest(t)
    <3>1. at[t] = "lost" /\ UNCHANGED raced
      BY <2>8 DEF LostRequest
    <3> QED BY <3>1 DEF ListInv
  <2>9. CASE AnswerLost(t)
    <3>1. at[t] = "send" /\ stale' /\ Step(t, "idle") /\ UNCHANGED mounted
      BY <2>9 DEF AnswerLost
    <3>2. at'[t] = "idle" /\ \A u \in Tasks \ {t} : at'[u] = at[u]
      BY <3>1, StepTask
    <3>3. ASSUME ~raced' PROVE ~raced /\ \A u \in Tasks : at[u] # "apply"
      BY Zenon, <2>9, <3>3 DEF AnswerLost
    <3> QED BY <3>1, <3>2, <3>3 DEF ListInv
  <2>10. CASE RequestStrays(t)
    BY <2>10 DEF RequestStrays, ListInv
  <2> QED BY <1>1, <2>1, <2>2, <2>3, <2>4, <2>5, <2>6, <2>7, <2>8, <2>9, <2>10 DEF Answer
<1>2. ASSUME NEW t \in Tasks, Input(t) PROVE ListInv'
  <2>1. CASE Unlock(t)
    <3>1. ~mounted /\ mounted' /\ at'[t] = "sync" /\ UNCHANGED raced /\ \A u \in Tasks \ {t} : at'[u] = at[u]
      BY <2>1, TypeParts DEF Unlock, TaskType
    <3> QED BY <3>1 DEF ListInv
  <2>2. CASE ~Unlock(t)
    <3>1. mounted /\ UNCHANGED <<server, mounted, items, stale, raced>>
      BY <1>2, <2>2, InputTask
    <3>2. /\ at[t] = "idle" /\ at'[t] = "send" /\ UNCHANGED list
          /\ \A u \in Tasks \ {t} : at'[u] = at[u] /\ op'[u] = op[u]
      BY <1>2, <2>2, InputTask, BeginTask
    <3>3. Importing => Importing'
      BY <3>2 DEF Importing
    <3> QED BY <3>1, <3>2, <3>3 DEF ListInv
  <2> QED BY <2>1, <2>2
<1>3. CASE Lock
  <2>1. ASSUME ~raced' PROVE ~raced /\ \A t \in Tasks : at[t] # "send"
    BY Zenon, <1>3, <2>1 DEF Lock
  <2>2. \A t \in Tasks : at'[t] = IF at[t] \in {"send", "lost"} THEN "lost" ELSE "idle"
    BY <1>3 DEF Lock
  <2>3. ~mounted'
    BY <1>3 DEF Lock
  <2> QED BY <2>1, <2>2, <2>3 DEF ListInv
<1>4. CASE Remote
  BY <1>4 DEF Remote, ListInv
<1>5. CASE (\E i \in Ids : Select(i) \/ SameNotes(i)) \/ Deselect \/ OpenEditor \/ CancelEditor \/ UNCHANGED vars
  <2>1. UNCHANGED <<server, mounted, items, stale, raced, at, op, list>>
    BY <1>5, LocalSteps
  <2> QED BY <2>1 DEF ListInv, Importing
<1>6. ASSUME NEW t \in Tasks, NEW u \in Tasks, ImportStrays(t, u) PROVE ListInv'
  BY <1>6 DEF ImportStrays, ListInv
<1> QED BY <1>1, <1>2, <1>3, <1>4, <1>5, <1>6 DEF Next

\* With nothing under way the list on screen is the vault, unless lists
\* overlapped, another device or a stray request wrote, or since the last list
\* was shown a reload failed or an answer was lost.
THEOREM ListAlwaysVault == Spec => []ListIsVault
<1> DEFINE Inv == TypeOK /\ ListInv
<1>1. Init => Inv
  BY TypeInit DEF Init, ListInv
<1>2. Inv /\ [Next]_vars => Inv'
  BY TypeNext, ListNext
<1>3. Inv => ListIsVault
  <2> SUFFICES ASSUME ListInv, mounted, Busy = {}, ~stale, ~raced PROVE items = server
    BY DEF ListIsVault
  <2>1. \A t \in Tasks : at[t] \notin {"send", "sync", "apply"}
    BY DEF Busy
  <2>2. ~Importing
    BY <2>1 DEF Importing
  <2> QED BY <2>1, <2>2 DEF ListInv
<1>4. QED
  BY <1>1, <1>2, <1>3, PTL DEF Spec

----------------------------------------------------------------------------
(* Edits are kept *)

\* What the operation of task t still has to do to the server.
Pending(t) ==
    \/ /\ op[t] \in {"save", "notes", "star", "delete"}
       /\ want = [server EXCEPT ![item[t].id] = item[t].it]
       /\ op[t] = "delete" => item[t].it = NoItem
    \/ op[t] \in {"add", "import"} /\ want = server

\* As long as the user acts on an up-to-date screen: operations come one at a
\* time and take the server to what the user wants, each starts from a list
\* that is the vault, and so does an editor, until its own save has taken effect.
Alone ==
    /\ \A t \in Tasks : at[t] # "lost"
    /\ ~mounted => editor.open = "no" /\ \A t \in Tasks : at[t] = "idle"
    /\ \A t, u \in Tasks : at[t] \in {"send", "sync", "apply"} /\ at[u] \in {"send", "sync", "apply"} => t = u
Settled ==
    /\ (\A t \in Tasks : at[t] # "send") => server = want
    /\ \A t \in Tasks : at[t] = "send" => Pending(t)
ListFits ==
    /\ \A t \in Tasks : at[t] = "apply" => list[t] = server
    /\ mounted /\ ~stale /\ (\A t \in Tasks : at[t] \in {"send", "sync", "apply"} => at[t] = "send" /\ op[t] # "import")
         => items = server
EditorFits ==
    /\ \A t \in mine : at[t] # "idle" /\ op[t] \in {"save", "add"}
    /\ editor.open = "item" /\ mine = {} => \A t \in Tasks : at[t] \notin {"send", "sync", "apply"}
    /\ editor.open = "item" /\ ~stale /\ (\A t \in mine : at[t] = "send")
         => server[editor.id] = editor.base /\ editor.base.there
KeepInv == ~muddled => Alone /\ Settled /\ ListFits /\ EditorFits

\* With no operation under way, on an up-to-date screen: what an operation
\* starts from.
LEMMA Quiet ==
    ASSUME TypeOK, KeepInv, ~muddled, ~Outdated
    PROVE  /\ ~stale /\ server = want
           /\ \A t \in Tasks : at[t] \notin {"send", "sync", "apply"}
           /\ mounted => items = server
<1>1. ~stale /\ Busy = {}
  BY DEF Outdated
<1>2. \A t \in Tasks : at[t] \notin {"send", "sync", "apply"}
  BY <1>1 DEF Busy
<1> QED BY <1>1, <1>2 DEF KeepInv, Settled, ListFits

\* A click on the vault screen that leaves the server to do what the user wants.
LEMMA ClickKeeps ==
    ASSUME TypeOK, KeepInv, NEW t \in Tasks, NEW o, NEW x, NEW n, Begin(t, o, x, n),
           mounted, editor.open = "no", UNCHANGED <<server, mounted, items, stale, editor, mine>>,
           ~muddled' => ~muddled /\ ~Outdated /\ Pending(t)'
    PROVE  KeepInv'
<1> SUFFICES ASSUME ~muddled' PROVE (Alone /\ Settled /\ ListFits /\ EditorFits)'
  BY DEF KeepInv
<1>1. ~muddled /\ ~Outdated /\ Pending(t)' /\ Alone /\ EditorFits
  BY DEF KeepInv
<1>2. server = want /\ items = server /\ \A u \in Tasks : at[u] \notin {"send", "sync", "apply"}
  BY <1>1, Quiet
<1>3. /\ at[t] = "idle" /\ at'[t] = "send"
      /\ \A u \in Tasks \ {t} : at'[u] = at[u] /\ op'[u] = op[u]
      /\ list' = list
  BY BeginTask
<1>4. Alone'
  BY <1>1, <1>2, <1>3 DEF Alone
<1>5. Settled'
  <2>1. \A u \in Tasks : at'[u] = "send" => u = t
    BY <1>2, <1>3
  <2>2. ASSUME NEW u \in Tasks, at'[u] = "send" PROVE Pending(u)'
    BY <1>1, <2>1, <2>2
  <2> QED BY <1>3, <2>2 DEF Settled
<1>6. ListFits'
  BY <1>2, <1>3 DEF ListFits
<1>7. EditorFits'
  <2>1. mine \subseteq Tasks
    BY TypeParts DEF ScreenType
  <2> QED BY <1>1, <1>3, <2>1 DEF EditorFits
<1> QED BY <1>4, <1>5, <1>6, <1>7

\* The operations of the detail pane and the import.
LEMMA PaneKeeps ==
    ASSUME TypeOK, KeepInv, NEW t \in Tasks
    PROVE  /\ \A i \in Ids, n \in Notes : SaveNotes(t, i, n) => KeepInv'
           /\ \A i \in Ids : ToggleFavorite(t, i) \/ HandleDelete(t, i) => KeepInv'
           /\ RunImport(t) => KeepInv'
<1>t. server \in [Ids -> Item] /\ want \in [Ids -> Item] /\ items \in [Ids -> Item]
  BY TypeParts DEF ServerType, ScreenType
<1>1. ASSUME NEW i \in Ids, NEW n \in Notes, SaveNotes(t, i, n) PROVE KeepInv'
  <2>1. /\ mounted /\ editor.open = "no" /\ UNCHANGED <<server, mounted, items, stale, editor, mine>>
        /\ Begin(t, "notes", [id |-> i, it |-> [items[i] EXCEPT !.notes = n]], 0)
    BY <1>1 DEF SaveNotes, Clickable
  <2>2. ASSUME ~muddled' PROVE ~muddled /\ ~Outdated /\ Pending(t)'
    <3>1. ~muddled /\ ~Outdated /\ n # box
      BY Zenon, <1>1, <2>2 DEF SaveNotes
    <3>2. server = want /\ items = server
      BY <2>1, <3>1, Quiet
    <3>3. want' = [want EXCEPT ![i].notes = n]
      BY <1>1, <3>1 DEF SaveNotes
    <3>4. want' = [server EXCEPT ![i] = [items[i] EXCEPT !.notes = n]]
      BY <1>t, <3>2, <3>3
    <3>5. op'[t] = "notes" /\ item'[t] = [id |-> i, it |-> [items[i] EXCEPT !.notes = n]]
      BY <2>1, BeginTask
    <3>6. Pending(t)'
      BY <2>1, <3>4, <3>5 DEF Pending
    <3> QED BY <3>1, <3>6
  <2> QED BY <2>1, <2>2, ClickKeeps
<1>2. ASSUME NEW i \in Ids, ToggleFavorite(t, i) PROVE KeepInv'
  <2>1. /\ mounted /\ editor.open = "no" /\ UNCHANGED <<server, mounted, items, stale, editor, mine>>
        /\ Begin(t, "star", [id |-> i, it |-> [items[i] EXCEPT !.star = ~@]], 0)
    BY <1>2 DEF ToggleFavorite, Click, Clickable, screen
  <2>2. ASSUME ~muddled' PROVE ~muddled /\ ~Outdated /\ Pending(t)'
    <3>1. ~muddled /\ ~Outdated
      BY Zenon, <1>2, <2>2 DEF ToggleFavorite, Click
    <3>2. server = want /\ items = server
      BY <2>1, <3>1, Quiet
    <3>3. want' = [want EXCEPT ![i].star = ~items[i].star]
      BY <1>2 DEF ToggleFavorite
    <3>4. want' = [server EXCEPT ![i] = [items[i] EXCEPT !.star = ~@]]
      BY <1>t, <3>2, <3>3
    <3>5. op'[t] = "star" /\ item'[t] = [id |-> i, it |-> [items[i] EXCEPT !.star = ~@]]
      BY <2>1, BeginTask
    <3>6. Pending(t)'
      BY <2>1, <3>4, <3>5 DEF Pending
    <3> QED BY <3>1, <3>6
  <2> QED BY <2>1, <2>2, ClickKeeps
<1>3. ASSUME NEW i \in Ids, HandleDelete(t, i) PROVE KeepInv'
  <2>1. /\ mounted /\ editor.open = "no" /\ UNCHANGED <<server, mounted, items, stale, editor, mine>>
        /\ Begin(t, "delete", [id |-> i, it |-> NoItem], 0)
    BY <1>3 DEF HandleDelete, Click, Clickable, screen
  <2>2. ASSUME ~muddled' PROVE ~muddled /\ ~Outdated /\ Pending(t)'
    <3>1. ~muddled /\ ~Outdated
      BY Zenon, <1>3, <2>2 DEF HandleDelete, Click
    <3>2. server = want
      BY <3>1, Quiet
    <3>3. want' = [server EXCEPT ![i] = NoItem]
      BY <1>3, <3>2 DEF HandleDelete
    <3>5. op'[t] = "delete" /\ item'[t] = [id |-> i, it |-> NoItem]
      BY <2>1, BeginTask
    <3>6. Pending(t)'
      BY <2>1, <3>3, <3>5 DEF Pending
    <3> QED BY <3>1, <3>6
  <2> QED BY <2>1, <2>2, ClickKeeps
<1>4. ASSUME RunImport(t) PROVE KeepInv'
  <2>1. mounted /\ editor.open = "no" /\ UNCHANGED <<server, mounted, items, stale, editor, mine, want>>
    BY <1>4 DEF RunImport, Clickable, screen
  <2>2. PICK n \in 1 .. MaxImport : Begin(t, "import", Blank, n)
    BY <1>4 DEF RunImport
  <2>3. ASSUME ~muddled' PROVE ~muddled /\ ~Outdated /\ Pending(t)'
    <3>1. ~muddled /\ ~Outdated
      BY Zenon, <1>4, <2>3 DEF RunImport
    <3>2. Pending(t)'
      BY <2>1, <2>2, <3>1, Quiet, BeginTask DEF Pending
    <3> QED BY <3>1, <3>2
  <2> QED BY <2>1, <2>2, <2>3, ClickKeeps
<1> QED BY <1>1, <1>2, <1>3, <1>4

\* The editor's save: unchanged fields are still those the editor opened with.
LEMMA EditorKeeps ==
    ASSUME TypeOK, KeepInv, NEW t \in Tasks, NEW n \in Notes, NEW s \in BOOLEAN, EditorSave(t, n, s)
    PROVE  KeepInv'
<1> SUFFICES ASSUME ~muddled' PROVE (Alone /\ Settled /\ ListFits /\ EditorFits)'
  BY DEF KeepInv
<1>t. /\ server \in [Ids -> Item] /\ want \in [Ids -> Item] /\ editor.id \in Ids
      /\ editor.open \in {"no", "new", "item"}
  BY TypeParts DEF ServerType, ScreenType, Editor
<1>1. ~muddled /\ ~Outdated
  BY Zenon DEF EditorSave, Click
<1>2. Alone /\ EditorFits
  BY <1>1 DEF KeepInv
<1>3. mounted /\ mine = {} /\ mine' = {t} /\ editor.open # "no" /\ UNCHANGED <<server, mounted, items, stale, editor>>
  BY DEF EditorSave, Click
<1>4. server = want /\ items = server /\ \A u \in Tasks : at[u] \notin {"send", "sync", "apply"}
  BY <1>1, <1>3, Quiet
<1> DEFINE w == [there |-> TRUE, notes |-> n, star |-> s]
<1> DEFINE o == IF editor.open = "new" THEN "add" ELSE "save"
<1>5. Begin(t, o, [id |-> editor.id, it |-> w], 0)
  BY DEF EditorSave, Click
<1>6. /\ at[t] = "idle" /\ at'[t] = "send" /\ op'[t] = o /\ item'[t] = [id |-> editor.id, it |-> w]
      /\ \A u \in Tasks \ {t} : at'[u] = at[u] /\ op'[u] = op[u]
      /\ list' = list
  BY <1>5, BeginTask
<1>7. want' = Meant(n, s)
  BY DEF EditorSave
<1>8. Pending(t)'
  <2>1. CASE editor.open = "new"
    BY <1>3, <1>4, <1>6, <1>7, <2>1 DEF Pending, Meant
  <2>2. CASE editor.open = "item"
    <3>1. server[editor.id] = editor.base /\ editor.base.there
      BY <1>1, <1>2, <1>3, <2>2 DEF EditorFits, Outdated
    <3>2. want[editor.id] = editor.base /\ editor.base \in Item
      BY <1>t, <1>4, <3>1
    <3>3. editor.base.there = TRUE
      BY <3>1, <3>2 DEF Item
    <3>4. [there |-> want[editor.id].there,
           notes |-> IF n = editor.base.notes THEN want[editor.id].notes ELSE n,
           star  |-> IF s = editor.base.star THEN want[editor.id].star ELSE s] = w
      BY <3>2, <3>3
    <3>5. want' = [want EXCEPT ![editor.id] = w]
      BY <1>7, <2>2, <3>4 DEF Meant
    <3>6. want' = [server' EXCEPT ![item'[t].id] = item'[t].it]
      BY <1>3, <1>4, <1>6, <3>5
    <3> QED BY <1>6, <2>2, <3>6 DEF Pending
  <2> QED BY <1>t, <1>3, <2>1, <2>2
<1>9. Alone'
  BY <1>2, <1>3, <1>4, <1>6 DEF Alone
<1>10. Settled'
  <2>1. \A u \in Tasks : at'[u] = "send" => u = t
    BY <1>4, <1>6
  <2>2. ASSUME NEW u \in Tasks, at'[u] = "send" PROVE Pending(u)'
    BY <1>8, <2>1, <2>2
  <2> QED BY <1>6, <2>2 DEF Settled
<1>11. ListFits'
  BY <1>3, <1>4, <1>6 DEF ListFits
<1>12. EditorFits'
  BY <1>2, <1>3, <1>6 DEF EditorFits
<1> QED BY <1>9, <1>10, <1>11, <1>12

\* The operation under way is the only one, and no open editor waits to save.
LEMMA Only ==
    ASSUME TypeOK, KeepInv, ~muddled, NEW t \in Tasks, at[t] \in {"send", "sync", "apply"}
    PROVE  /\ Alone /\ EditorFits /\ mounted
           /\ mine \subseteq Tasks
           /\ \A u \in Tasks \ {t} : at[u] \notin {"send", "sync", "apply", "lost"}
           /\ editor.open = "item" => mine # {}
           /\ at[t] = "send" => Pending(t)
           /\ at[t] # "send" => server = want
<1>1. Alone /\ EditorFits /\ Settled /\ mine \subseteq Tasks
  BY TypeParts DEF KeepInv, ScreenType
<1>2. mounted /\ \A u \in Tasks \ {t} : at[u] \notin {"send", "sync", "apply", "lost"}
  BY <1>1 DEF Alone
<1> QED BY <1>1, <1>2 DEF EditorFits, Settled

\* A request that brings the server to what the user wants.
LEMMA AcceptKeeps ==
    ASSUME TypeOK, KeepInv, NEW t \in Tasks, at[t] = "send", ThenReload(t),
           UNCHANGED <<mounted, items, editor, mine, muddled, stale>>,
           ~muddled => server' = want'
    PROVE  KeepInv'
<1> SUFFICES ASSUME ~muddled' PROVE (Alone /\ Settled /\ ListFits /\ EditorFits)'
  BY DEF KeepInv
<1>1. /\ Alone /\ EditorFits /\ mounted /\ mine \subseteq Tasks
      /\ \A u \in Tasks \ {t} : at[u] \notin {"send", "sync", "apply", "lost"}
      /\ editor.open = "item" => mine # {}
  BY Only
<1>2. at'[t] = "sync" /\ op'[t] = op[t] /\ \A u \in Tasks \ {t} : at'[u] = at[u] /\ op'[u] = op[u]
  BY StepTask DEF ThenReload
<1>3. Alone'
  BY <1>1, <1>2 DEF Alone
<1>4. Settled'
  BY <1>1, <1>2 DEF Settled
<1>5. ListFits'
  BY <1>1, <1>2 DEF ListFits
<1>6. EditorFits'
  <2>1. \A u \in mine : at'[u] # "idle" /\ op'[u] \in {"save", "add"} /\ at'[u] # "send"
    BY <1>1, <1>2 DEF EditorFits
  <2> QED BY <1>1, <2>1 DEF EditorFits
<1> QED BY <1>3, <1>4, <1>5, <1>6

\* A reload that ends.
LEMMA ReloadKeeps ==
    ASSUME TypeOK, KeepInv, NEW t \in Tasks, at[t] \in {"sync", "apply"}, Step(t, AfterReload(t)),
           UNCHANGED <<server, want, mounted, editor, mine, muddled>>,
           ~muddled => stale' \/ items' = server
    PROVE  KeepInv'
<1> SUFFICES ASSUME ~muddled' PROVE (Alone /\ Settled /\ ListFits /\ EditorFits)'
  BY DEF KeepInv
<1>1. /\ Alone /\ EditorFits /\ mounted /\ mine \subseteq Tasks
      /\ \A u \in Tasks \ {t} : at[u] \notin {"send", "sync", "apply", "lost"}
      /\ editor.open = "item" => mine # {}
      /\ server = want
  BY Only
<1>2. /\ at'[t] = AfterReload(t) /\ (AfterReload(t) # "idle" => op'[t] = op[t])
      /\ \A u \in Tasks \ {t} : at'[u] = at[u] /\ op'[u] = op[u]
  BY StepTask
<1>a. /\ AfterReload(t) \in {"timer", "idle"}
      /\ op[t] \in {"save", "add"} => AfterReload(t) = "timer"
  BY DEF AfterReload
<1>3. Alone'
  BY <1>1, <1>2, <1>a DEF Alone
<1>4. Settled'
  BY <1>1, <1>2, <1>a DEF Settled
<1>5. ListFits'
  BY <1>1, <1>2, <1>a DEF ListFits
<1>6. EditorFits'
  <2>1. \A u \in mine : at'[u] # "idle" /\ op'[u] \in {"save", "add"} /\ at'[u] # "send"
    BY <1>1, <1>2, <1>a DEF EditorFits
  <2> QED BY <1>1, <2>1 DEF EditorFits
<1> QED BY <1>3, <1>4, <1>5, <1>6

\* Answers keep the invariant.
LEMMA AnswerKeeps ==
    ASSUME TypeOK, KeepInv, NEW t \in Tasks, Answer(t)
    PROVE  KeepInv'
<1>t. server \in [Ids -> Item] /\ want \in [Ids -> Item] /\ item[t].id \in Ids
  BY TypeParts DEF ServerType, TaskType
<1>1. CASE SaveAccepted(t)
  <2>1. ASSUME ~muddled PROVE server' = want'
    <3>1. Pending(t)
      BY <1>1, <2>1, Only DEF SaveAccepted
    <3> QED BY <1>1, <3>1 DEF SaveAccepted, UpdateCipher, Pending
  <2> QED BY <1>1, <2>1, AcceptKeeps DEF SaveAccepted
<1>2. CASE AddAccepted(t)
  <2>1. ASSUME ~muddled PROVE server' = want'
    <3>1. Pending(t)
      BY <1>2, <2>1, Only DEF AddAccepted
    <3> QED BY <1>2, <3>1 DEF AddAccepted, CreateCipher, Pending
  <2> QED BY <1>2, <2>1, AcceptKeeps DEF AddAccepted
<1>3. CASE DeleteAccepted(t)
  <2>1. ASSUME ~muddled PROVE server' = want'
    <3>1. Pending(t)
      BY <1>3, <2>1, Only DEF DeleteAccepted
    <3> QED BY <1>3, <3>1 DEF DeleteAccepted, DeleteCipher, Pending
  <2> QED BY <1>3, <2>1, AcceptKeeps DEF DeleteAccepted
<1>4. CASE ImportItem(t)
  <2>1. at[t] = "send" /\ op[t] = "import" /\ UNCHANGED <<mounted, items, editor, mine, muddled, stale>>
    BY <1>4 DEF ImportItem
  <2>2. ASSUME ~muddled PROVE server' = want'
    <3>1. Pending(t)
      BY <2>1, <2>2, Only
    <3>2. server = want
      BY <2>1, <3>1 DEF Pending
    <3>3. CASE CreateCipher(Imported)
      BY <3>2, <3>3 DEF CreateCipher
    <3>4. CASE UNCHANGED <<server, want>>
      BY <3>2, <3>4
    <3> QED BY <1>4, <3>3, <3>4 DEF ImportItem
  <2>3. CASE ThenReload(t)
    BY <2>1, <2>2, <2>3, AcceptKeeps
  <2>4. CASE UNCHANGED <<at, op, item, list>>
    <3> SUFFICES ASSUME ~muddled' PROVE (Alone /\ Settled /\ ListFits /\ EditorFits)'
      BY DEF KeepInv
    <3>1. /\ Alone /\ EditorFits /\ mounted /\ mine \subseteq Tasks
          /\ \A u \in Tasks \ {t} : at[u] \notin {"send", "sync", "apply", "lost"}
          /\ editor.open = "item" => mine # {}
      BY <2>1, Only
    <3>2. Alone'
      BY <2>1, <2>4, <3>1 DEF Alone
    <3>3. Settled'
      <4>1. ASSUME NEW u \in Tasks, at'[u] = "send" PROVE Pending(u)'
        BY <2>1, <2>2, <2>4, <3>1, <4>1 DEF Pending
      <4> QED BY <2>1, <2>4, <4>1 DEF Settled
    <3>4. ListFits'
      BY <2>1, <2>4, <3>1 DEF ListFits
    <3>5. EditorFits'
      <4>1. \A u \in mine : u # t /\ at[u] # "send"
        BY <2>1, <3>1 DEF EditorFits
      <4> QED BY <2>1, <2>4, <3>1, <4>1 DEF EditorFits
    <3> QED BY <3>2, <3>3, <3>4, <3>5
  <2> QED BY <1>4, <2>3, <2>4 DEF ImportItem
<1>5. CASE RequestFails(t)
  <2> SUFFICES ASSUME ~muddled' PROVE (Alone /\ Settled /\ ListFits /\ EditorFits)'
    BY DEF KeepInv
  <2>1. /\ at[t] = "send" /\ op[t] # "import" /\ Step(t, "idle") /\ mine' = mine \ {t}
        /\ UNCHANGED <<server, mounted, items, editor, muddled, stale>>
    BY <1>5 DEF RequestFails
  <2>2. /\ Alone /\ EditorFits /\ mounted /\ mine \subseteq Tasks
        /\ \A u \in Tasks \ {t} : at[u] \notin {"send", "sync", "apply", "lost"}
        /\ editor.open = "item" => mine # {}
        /\ Pending(t)
    BY <2>1, Only
  <2>3. at'[t] = "idle" /\ \A u \in Tasks \ {t} : at'[u] = at[u] /\ op'[u] = op[u]
    BY <2>1, StepTask
  <2>4. want' = server
    <3>1. CASE op[t] = "add"
      BY <1>5, <2>2, <3>1 DEF RequestFails, Pending
    <3>2. CASE op[t] # "add"
      <4>1. want = [server EXCEPT ![item[t].id] = item[t].it]
        BY <2>1, <2>2, <3>2 DEF Pending
      <4>2. want' = [want EXCEPT ![item[t].id] = server[item[t].id]]
        BY <1>5, <3>2 DEF RequestFails
      <4> QED BY <1>t, <4>1, <4>2
    <3> QED BY <3>1, <3>2
  <2>5. Alone'
    BY <2>1, <2>2, <2>3 DEF Alone
  <2>6. Settled'
    BY <2>1, <2>2, <2>3, <2>4 DEF Settled
  <2>7. ListFits'
    <3>1. ~stale => items = server
      BY <2>1, <2>2 DEF KeepInv, ListFits
    <3> QED BY <2>1, <2>2, <2>3, <3>1 DEF ListFits
  <2>8. EditorFits'
    <3>1. \A u \in Tasks : at'[u] \notin {"send", "sync", "apply"}
      BY <2>2, <2>3
    <3>2. \A u \in mine' : u \in mine /\ u # t /\ at'[u] # "idle" /\ op'[u] \in {"save", "add"}
      BY <2>1, <2>2, <2>3 DEF EditorFits
    <3>3. ASSUME editor.open = "item", ~stale, mine' = {} PROVE server[editor.id] = editor.base /\ editor.base.there
      <4>1. \A u \in mine : at[u] = "send"
        BY <2>1, <3>3
      <4> QED BY <2>2, <3>3, <4>1 DEF EditorFits
    <3>4. (\A u \in mine' : at'[u] = "send") => mine' = {}
      BY <2>2, <3>1, <3>2
    <3> QED BY <2>1, <3>1, <3>2, <3>3, <3>4 DEF EditorFits
  <2> QED BY <2>5, <2>6, <2>7, <2>8
<1>6. CASE Sync(t)
  <2> SUFFICES ASSUME ~muddled' PROVE (Alone /\ Settled /\ ListFits /\ EditorFits)'
    BY DEF KeepInv
  <2>1. /\ at[t] = "sync" /\ at'[t] = "apply" /\ list'[t] = server
        /\ \A u \in Tasks \ {t} : at'[u] = at[u] /\ list'[u] = list[u]
        /\ UNCHANGED <<server, want, mounted, items, editor, mine, muddled, stale, op, item>>
    BY <1>6, TypeParts DEF Sync, screen, TaskType
  <2>2. /\ Alone /\ EditorFits /\ mounted /\ mine \subseteq Tasks
        /\ \A u \in Tasks \ {t} : at[u] \notin {"send", "sync", "apply", "lost"}
        /\ editor.open = "item" => mine # {}
        /\ server = want
    BY <2>1, Only
  <2>3. Alone'
    BY <2>1, <2>2 DEF Alone
  <2>4. Settled'
    BY <2>1, <2>2 DEF Settled
  <2>5. ListFits'
    BY <2>1, <2>2 DEF ListFits
  <2>6. EditorFits'
    <3>1. \A u \in mine : at'[u] # "idle" /\ op'[u] \in {"save", "add"} /\ at'[u] # "send"
      BY <2>1, <2>2 DEF EditorFits
    <3> QED BY <2>1, <2>2, <3>1 DEF EditorFits
  <2> QED BY <2>3, <2>4, <2>5, <2>6
<1>7. CASE Apply(t)
  <2>1. ASSUME ~muddled PROVE items' = server
    BY <1>7, <2>1 DEF Apply, KeepInv, ListFits
  <2> QED BY <1>7, <2>1, ReloadKeeps DEF Apply
<1>8. CASE ReloadFails(t)
  BY <1>8, ReloadKeeps DEF ReloadFails
<1>9. CASE CloseEditor(t)
  <2> SUFFICES ASSUME ~muddled' PROVE (Alone /\ Settled /\ ListFits /\ EditorFits)'
    BY DEF KeepInv
  <2>1. /\ at[t] = "timer" /\ Step(t, "idle") /\ mine' = {} /\ editor'.open = "no"
        /\ UNCHANGED <<server, want, mounted, items, muddled, stale>>
    BY <1>9 DEF CloseEditor, NoEditor
  <2>2. Alone /\ Settled /\ ListFits
    BY <2>1 DEF KeepInv
  <2>3. /\ at'[t] = "idle"
        /\ \A u \in Tasks \ {t} : at'[u] = at[u] /\ op'[u] = op[u] /\ item'[u] = item[u] /\ list'[u] = list[u]
    BY <2>1, StepTask
  <2>4. Alone'
    BY <2>1, <2>2, <2>3 DEF Alone
  <2>5. Settled'
    BY <2>1, <2>2, <2>3 DEF Settled, Pending
  <2>6. ListFits'
    BY <2>1, <2>2, <2>3 DEF ListFits
  <2>7. EditorFits'
    BY <2>1 DEF EditorFits
  <2> QED BY <2>4, <2>5, <2>6, <2>7
<1>10. CASE LostRequest(t)
  <2>1. at[t] = "lost" /\ UNCHANGED muddled
    BY <1>10 DEF LostRequest
  <2> QED BY <2>1 DEF KeepInv, Alone
<1>11. CASE AnswerLost(t)
  <2> SUFFICES ASSUME ~muddled' PROVE (Alone /\ Settled /\ ListFits /\ EditorFits)'
    BY DEF KeepInv
  <2>1. /\ at[t] = "send" /\ TakesEffect(t) /\ Step(t, "idle") /\ mine' = mine \ {t} /\ stale'
        /\ UNCHANGED <<mounted, items, editor, muddled>>
    BY <1>11 DEF AnswerLost
  <2>2. /\ Alone /\ EditorFits /\ mounted /\ mine \subseteq Tasks
        /\ \A u \in Tasks \ {t} : at[u] \notin {"send", "sync", "apply", "lost"}
        /\ Pending(t)
    BY <2>1, Only
  <2>3. at'[t] = "idle" /\ \A u \in Tasks \ {t} : at'[u] = at[u] /\ op'[u] = op[u]
    BY <2>1, StepTask
  <2>4. server' = want'
    <3>1. CASE op[t] \in {"save", "notes", "star"}
      BY <2>1, <2>2, <3>1 DEF TakesEffect, UpdateCipher, Pending
    <3>2. CASE op[t] = "add"
      BY <2>1, <2>2, <3>2 DEF TakesEffect, CreateCipher, Pending
    <3>3. CASE op[t] = "delete"
      BY <2>1, <2>2, <3>3 DEF TakesEffect, DeleteCipher, Pending
    <3> QED BY <2>1, <3>1, <3>2, <3>3 DEF TakesEffect
  <2>5. Alone'
    BY <2>1, <2>2, <2>3 DEF Alone
  <2>6. Settled'
    BY <2>2, <2>3, <2>4 DEF Settled
  <2>7. ListFits'
    BY <2>1, <2>2, <2>3 DEF ListFits
  <2>8. EditorFits'
    <3>1. \A u \in Tasks : at'[u] \notin {"send", "sync", "apply"}
      BY <2>2, <2>3
    <3>2. \A u \in mine' : at'[u] # "idle" /\ op'[u] \in {"save", "add"}
      BY <2>1, <2>2, <2>3 DEF EditorFits
    <3> QED BY <2>1, <3>1, <3>2 DEF EditorFits
  <2> QED BY <2>5, <2>6, <2>7, <2>8
<1>12. CASE RequestStrays(t)
  BY <1>12 DEF RequestStrays, KeepInv
<1> QED BY <1>1, <1>2, <1>3, <1>4, <1>5, <1>6, <1>7, <1>8, <1>9, <1>10, <1>11, <1>12 DEF Answer

\* Every step keeps the invariant.
LEMMA KeepNext ==
    ASSUME TypeOK, KeepInv, [Next]_vars
    PROVE  KeepInv'
<1>1. ASSUME NEW t \in Tasks, Unlock(t) PROVE KeepInv'
  <2> SUFFICES ASSUME ~muddled' PROVE (Alone /\ Settled /\ ListFits /\ EditorFits)'
    BY DEF KeepInv
  <2>1. /\ ~mounted /\ mounted' /\ at'[t] = "sync" /\ \A u \in Tasks \ {t} : at'[u] = at[u]
        /\ UNCHANGED <<server, want, items, editor, mine, muddled, stale, op, item, list>>
    BY <1>1, TypeParts DEF Unlock, TaskType
  <2>2. /\ Alone /\ Settled /\ EditorFits /\ editor.open = "no" /\ mine \subseteq Tasks
        /\ \A u \in Tasks : at[u] = "idle"
    BY <2>1, TypeParts DEF KeepInv, Alone, ScreenType
  <2>3. Alone'
    BY <2>1, <2>2 DEF Alone
  <2>4. Settled'
    BY <2>1, <2>2 DEF Settled
  <2>5. ListFits'
    BY <2>1, <2>2 DEF ListFits
  <2>6. EditorFits'
    BY <2>1, <2>2 DEF EditorFits
  <2> QED BY <2>3, <2>4, <2>5, <2>6
<1>2. CASE Lock
  <2> SUFFICES ASSUME ~muddled' PROVE (Alone /\ Settled /\ ListFits /\ EditorFits)'
    BY DEF KeepInv
  <2>1. ~muddled /\ \A t \in Tasks : at[t] # "send"
    BY Zenon, <1>2 DEF Lock
  <2>2. /\ \A t \in Tasks : at'[t] = IF at[t] \in {"send", "lost"} THEN "lost" ELSE "idle"
        /\ ~mounted' /\ mine' = {} /\ editor'.open = "no" /\ UNCHANGED <<server, want>>
    BY <1>2 DEF Lock, NoEditor
  <2>3. Alone /\ Settled
    BY <2>1 DEF KeepInv
  <2>4. \A t \in Tasks : at'[t] = "idle"
    BY <2>1, <2>2, <2>3 DEF Alone
  <2>5. server = want
    BY <2>1, <2>3 DEF Settled
  <2> QED BY <2>2, <2>4, <2>5 DEF Alone, Settled, ListFits, EditorFits
<1>3. CASE Remote
  BY <1>3 DEF Remote, KeepInv
<1>4. CASE OpenEditor
  <2> SUFFICES ASSUME ~muddled' PROVE (Alone /\ Settled /\ ListFits /\ EditorFits)'
    BY DEF KeepInv
  <2>1. mounted /\ UNCHANGED <<server, want, mounted, items, mine, stale, at, op, item, list>>
    BY <1>4 DEF OpenEditor, Clickable, tasks
  <2>2. ~muddled
    BY Zenon, <1>4 DEF OpenEditor
  <2>3. Alone /\ Settled /\ ListFits /\ EditorFits
    BY <2>2 DEF KeepInv
  <2>4. (Alone /\ Settled /\ ListFits)'
    BY <2>1, <2>3 DEF Alone, Settled, Pending, ListFits
  <2>5. EditorFits'
    <3>1. CASE editor'.open # "item"
      BY <2>1, <2>3, <3>1 DEF EditorFits
    <3>2. CASE editor'.open = "item"
      <4>1. PICK i \in Ids : /\ Shown(i)
                             /\ editor' = [open |-> "item", id |-> i, base |-> items[i]]
                             /\ muddled' = (muddled \/ Outdated)
        BY <1>4, <3>2 DEF OpenEditor
      <4>2. ~Outdated
        BY Zenon, <4>1
      <4>3. items = server /\ \A t \in Tasks : at[t] \notin {"send", "sync", "apply"}
        BY <2>1, <2>2, <4>2, Quiet
      <4>4. server[i] = items[i] /\ items[i].there
        BY <4>1, <4>3 DEF Shown
      <4> QED BY <2>1, <2>3, <4>1, <4>3, <4>4 DEF EditorFits
    <3> QED BY <3>1, <3>2
  <2> QED BY <2>4, <2>5
<1>5. CASE CancelEditor
  <2>1. /\ mine' = {} /\ editor'.open = "no"
        /\ UNCHANGED <<server, want, mounted, items, muddled, stale, at, op, item, list>>
    BY <1>5 DEF CancelEditor, NoEditor, tasks
  <2> QED BY <2>1 DEF KeepInv, Alone, Settled, Pending, ListFits, EditorFits
<1>6. ASSUME (\E i \in Ids : Select(i) \/ SameNotes(i)) \/ Deselect \/ UNCHANGED vars PROVE KeepInv'
  <2>1. UNCHANGED <<server, want, mounted, items, editor, mine, stale, at, op, item, list>>
    BY <1>6 DEF Select, SameNotes, Deselect, vars, screen, tasks
  <2>2. muddled => muddled'
    <3>1. CASE \E i \in Ids : SameNotes(i)
      BY Zenon, <3>1 DEF SameNotes
    <3>2. CASE (\E i \in Ids : Select(i)) \/ Deselect \/ UNCHANGED vars
      BY <3>2 DEF Select, Deselect, vars
    <3> QED BY <1>6, <3>1, <3>2
  <2> QED BY <2>1, <2>2 DEF KeepInv, Alone, Settled, Pending, ListFits, EditorFits
<1>7. ASSUME NEW t \in Tasks, Input(t) PROVE KeepInv'
  BY <1>1, <1>7, PaneKeeps, EditorKeeps DEF Input
<1>8. ASSUME NEW t \in Tasks, NEW u \in Tasks, ImportStrays(t, u) PROVE KeepInv'
  BY <1>8 DEF ImportStrays, KeepInv
<1> QED BY <1>2, <1>3, <1>4, <1>5, <1>6, <1>7, <1>8, AnswerKeeps DEF Next

\* Each field of an item ends up with the last value the user gave it, as long
\* as the user acts on an up-to-date screen.
THEOREM EditsAlwaysKept == Spec => []EditsKept
<1> DEFINE Inv == TypeOK /\ KeepInv
<1>1. Init => Inv
  BY TypeInit DEF Init, KeepInv, Alone, Settled, ListFits, EditorFits, NoEditor
<1>2. Inv /\ [Next]_vars => Inv'
  BY TypeNext, KeepNext
<1>3. Inv => EditsKept
  <2> SUFFICES ASSUME KeepInv, Busy = {}, ~muddled PROVE server = want
    BY DEF EditsKept
  <2>1. \A t \in Tasks : at[t] # "send"
    BY DEF Busy
  <2> QED BY <2>1 DEF KeepInv, Settled
<1>4. QED
  BY <1>1, <1>2, <1>3, PTL DEF Spec

----------------------------------------------------------------------------
(* One field at a time *)

\* The request of task t, if it is the notes box's or the star's, carries the
\* other field as the server has it.
OneField(t) ==
    /\ op[t] = "notes" => item[t].it.star = server[item[t].id].star
    /\ op[t] = "star" => item[t].it.notes = server[item[t].id].notes
FieldsFit == ~muddled => \A t \in Tasks : at[t] = "send" => OneField(t)

\* What the comment on saveNotes promises, of a request that was made on an
\* up-to-date screen: it changes just the notes, and toggleFavorite's just the
\* star, whether its answer arrives or is lost.
JustTheField ==
    [][~muddled =>
         \A t \in Tasks : at[t] = "send" /\ at'[t] # "send" =>
           /\ op[t] = "notes" => server'[item[t].id].star = server[item[t].id].star
           /\ op[t] = "star" => server'[item[t].id].notes = server[item[t].id].notes]_vars

\* Once the user has acted on old values, that stays on record.
LEMMA MuddledStays ==
    ASSUME [Next]_vars, ~muddled'
    PROVE  ~muddled
<1>1. ASSUME NEW t \in Tasks, Answer(t) PROVE ~muddled
  <2>1. ~RequestStrays(t)
    BY DEF RequestStrays
  <2>2. muddled' = muddled
    BY <1>1, <2>1 DEF Answer, SaveAccepted, AddAccepted, DeleteAccepted, ImportItem, RequestFails, AnswerLost, Sync, Apply,
                      ReloadFails, CloseEditor, LostRequest
  <2> QED BY <2>2
<1>2. ASSUME NEW t \in Tasks, Input(t) PROVE ~muddled
  <2>1. CASE Unlock(t)
    BY <2>1 DEF Unlock
  <2>2. CASE RunImport(t)
    BY Zenon, <2>2 DEF RunImport
  <2>3. ASSUME NEW i \in Ids, ToggleFavorite(t, i) \/ HandleDelete(t, i) PROVE ~muddled
    BY Zenon, <2>3 DEF ToggleFavorite, HandleDelete, Click
  <2>4. ASSUME NEW i \in Ids, NEW n \in Notes, SaveNotes(t, i, n) PROVE ~muddled
    BY Zenon, <2>4 DEF SaveNotes
  <2>5. ASSUME NEW n \in Notes, NEW s \in BOOLEAN, EditorSave(t, n, s) PROVE ~muddled
    BY Zenon, <2>5 DEF EditorSave, Click
  <2> QED BY <1>2, <2>1, <2>2, <2>3, <2>4, <2>5 DEF Input
<1>3. ASSUME NEW i \in Ids, Select(i) \/ SameNotes(i) PROVE ~muddled
  <2>1. CASE Select(i)
    BY <2>1 DEF Select
  <2>2. CASE SameNotes(i)
    BY Zenon, <2>2 DEF SameNotes
  <2> QED BY <1>3, <2>1, <2>2
<1>4. CASE OpenEditor
  BY Zenon, <1>4 DEF OpenEditor
<1>5. CASE Lock
  BY Zenon, <1>5 DEF Lock
<1>6. CASE Deselect \/ CancelEditor \/ Remote \/ UNCHANGED vars
  BY <1>6 DEF Deselect, CancelEditor, Remote, vars
<1>7. \A t, u \in Tasks : ~ImportStrays(t, u)
  BY DEF ImportStrays
<1> QED BY <1>1, <1>2, <1>3, <1>4, <1>5, <1>6, <1>7 DEF Next

\* A request that a click starts from a list that is the vault fits.
LEMMA InputFits ==
    ASSUME TypeOK, NEW t \in Tasks, Input(t), ~Unlock(t), items = server
    PROVE  OneField(t)'
<1>t. items \in [Ids -> Item]
  BY TypeParts DEF ScreenType
<1>u. UNCHANGED <<server, items>>
  BY InputTask
<1>1. ASSUME NEW i \in Ids, ToggleFavorite(t, i) PROVE OneField(t)'
  <2>1. Begin(t, "star", [id |-> i, it |-> [items[i] EXCEPT !.star = ~@]], 0)
    BY <1>1 DEF ToggleFavorite, Click
  <2>2. op'[t] = "star" /\ item'[t].id = i /\ item'[t].it = [items[i] EXCEPT !.star = ~@]
    BY <2>1, BeginTask
  <2>3. item'[t].it.notes = items[i].notes
    BY <1>t, <2>2 DEF Item
  <2> QED BY <1>u, <2>2, <2>3 DEF OneField
<1>2. ASSUME NEW i \in Ids, NEW n \in Notes, SaveNotes(t, i, n) PROVE OneField(t)'
  <2>1. Begin(t, "notes", [id |-> i, it |-> [items[i] EXCEPT !.notes = n]], 0)
    BY <1>2 DEF SaveNotes
  <2>2. op'[t] = "notes" /\ item'[t].id = i /\ item'[t].it = [items[i] EXCEPT !.notes = n]
    BY <2>1, BeginTask
  <2>3. item'[t].it.star = items[i].star
    BY <1>t, <2>2 DEF Item
  <2> QED BY <1>u, <2>2, <2>3 DEF OneField
<1>3. ASSUME NEW o, NEW x, NEW n, Begin(t, o, x, n), o \notin {"notes", "star"} PROVE OneField(t)'
  BY <1>3, BeginTask DEF OneField
<1>4. ASSUME NEW i \in Ids, HandleDelete(t, i) PROVE OneField(t)'
  BY <1>3, <1>4 DEF HandleDelete, Click
<1>5. ASSUME NEW n \in Notes, NEW s \in BOOLEAN, EditorSave(t, n, s) PROVE OneField(t)'
  BY <1>3, <1>5 DEF EditorSave, Click
<1>6. CASE RunImport(t)
  BY <1>3, <1>6 DEF RunImport
<1> QED BY <1>1, <1>2, <1>4, <1>5, <1>6 DEF Input

\* A request that a click starts on an up-to-date screen fits.
LEMMA ClickFits ==
    ASSUME TypeOK, KeepInv, NEW t \in Tasks, Input(t), ~Unlock(t), ~muddled, ~muddled'
    PROVE  /\ \A u \in Tasks : at'[u] = "send" => u = t
           /\ OneField(t)'
<1>1. mounted /\ UNCHANGED <<server, items>>
  BY InputTask
<1>2. ~Outdated
  <2>1. CASE RunImport(t)
    BY Zenon, <2>1 DEF RunImport
  <2>2. ASSUME NEW i \in Ids, ToggleFavorite(t, i) \/ HandleDelete(t, i) PROVE ~Outdated
    BY Zenon, <2>2 DEF ToggleFavorite, HandleDelete, Click
  <2>3. ASSUME NEW i \in Ids, NEW n \in Notes, SaveNotes(t, i, n) PROVE ~Outdated
    BY Zenon, <2>3 DEF SaveNotes
  <2>4. ASSUME NEW n \in Notes, NEW s \in BOOLEAN, EditorSave(t, n, s) PROVE ~Outdated
    BY Zenon, <2>4 DEF EditorSave, Click
  <2> QED BY <2>1, <2>2, <2>3, <2>4 DEF Input
<1>3. items = server /\ \A u \in Tasks : at[u] \notin {"send", "sync", "apply"}
  BY <1>1, <1>2, Quiet
<1>4. \A u \in Tasks \ {t} : at'[u] = at[u]
  BY InputTask, BeginTask
<1>5. OneField(t)'
  BY <1>3, InputFits
<1> QED BY <1>3, <1>4, <1>5

\* Every step keeps FieldsFit: while a request is under way on an up-to-date
\* screen nothing else writes to the server.
LEMMA FieldsNext ==
    ASSUME TypeOK, KeepInv, FieldsFit, [Next]_vars
    PROVE  FieldsFit'
<1> SUFFICES ASSUME ~muddled', NEW u \in Tasks, at'[u] = "send" PROVE OneField(u)'
  BY DEF FieldsFit
<1>m. ~muddled
  BY MuddledStays
<1>s. ASSUME at[u] = "send", op'[u] = op[u], item'[u] = item[u], server' = server PROVE OneField(u)'
  <2>1. OneField(u)
    BY <1>m, <1>s DEF FieldsFit
  <2> QED BY <1>s, <2>1 DEF OneField
<1>1. ASSUME NEW t \in Tasks, Answer(t) PROVE OneField(u)'
  <2>1. CASE SaveAccepted(t) \/ AddAccepted(t) \/ DeleteAccepted(t)
    <3>1. at[t] = "send" /\ Step(t, "sync")
      BY <2>1 DEF SaveAccepted, AddAccepted, DeleteAccepted, ThenReload
    <3>2. at'[t] = "sync" /\ \A v \in Tasks \ {t} : at'[v] = at[v] /\ at[v] # "send"
      BY <1>m, <3>1, Only, StepTask
    <3> QED BY <3>2
  <2>l. CASE AnswerLost(t)
    <3>1. at[t] = "send" /\ Step(t, "idle")
      BY <2>l DEF AnswerLost
    <3>2. at'[t] = "idle" /\ \A v \in Tasks \ {t} : at'[v] = at[v] /\ at[v] # "send"
      BY <1>m, <3>1, Only, StepTask
    <3> QED BY <3>2
  <2>2. CASE ImportItem(t)
    <3>1. at[t] = "send" /\ op[t] = "import" /\ (UNCHANGED <<at, op>> \/ Step(t, "sync"))
      BY <2>2 DEF ImportItem, ThenReload
    <3>2. op'[t] = "import" /\ \A v \in Tasks \ {t} : at'[v] # "send"
      BY <1>m, <3>1, Only, StepTask
    <3> QED BY <3>2 DEF OneField
  <2>3. CASE RequestFails(t) \/ Apply(t) \/ ReloadFails(t) \/ CloseEditor(t)
    <3>1. \E a \in {"idle", "timer"} : Step(t, a)
      BY <2>3 DEF RequestFails, Apply, ReloadFails, CloseEditor, AfterReload
    <3>2. server' = server
      BY <2>3 DEF RequestFails, Apply, ReloadFails, CloseEditor
    <3>3. at'[t] # "send" /\ \A v \in Tasks \ {t} : at'[v] = at[v] /\ op'[v] = op[v] /\ item'[v] = item[v]
      BY <3>1, StepTask
    <3> QED BY <1>s, <3>2, <3>3
  <2>4. CASE Sync(t)
    <3>1. at' = [at EXCEPT ![t] = "apply"] /\ UNCHANGED <<op, item, server>>
      BY <2>4 DEF Sync
    <3>2. at[u] = "send"
      BY <3>1, TypeParts DEF TaskType
    <3> QED BY <1>s, <3>1, <3>2
  <2>5. CASE LostRequest(t)
    BY <1>m, <2>5 DEF LostRequest, KeepInv, Alone
  <2>6. ~RequestStrays(t)
    BY DEF RequestStrays
  <2> QED BY <1>1, <2>1, <2>l, <2>2, <2>3, <2>4, <2>5, <2>6 DEF Answer
<1>2. ASSUME NEW t \in Tasks, Input(t) PROVE OneField(u)'
  <2>1. CASE Unlock(t)
    <3>1. at' = [at EXCEPT ![t] = "sync"] /\ UNCHANGED <<op, item, server>>
      BY <2>1 DEF Unlock
    <3>2. at[u] = "send"
      BY <3>1, TypeParts DEF TaskType
    <3> QED BY <1>s, <3>1, <3>2
  <2>2. CASE ~Unlock(t)
    BY <1>m, <1>2, <2>2, ClickFits
  <2> QED BY <2>1, <2>2
<1>3. CASE Lock
  BY <1>3 DEF Lock
<1>4. CASE Remote
  BY <1>4 DEF Remote
<1>5. CASE (\E i \in Ids : Select(i) \/ SameNotes(i)) \/ Deselect \/ OpenEditor \/ CancelEditor \/ UNCHANGED vars
  BY <1>s, <1>5, LocalSteps
<1>6. \A t, v \in Tasks : ~ImportStrays(t, v)
  BY DEF ImportStrays
<1> QED BY <1>1, <1>2, <1>3, <1>4, <1>5, <1>6 DEF Next

\* A step that ends a request with such a field writes the item it carries, or
\* nothing: its handler learns which, or does not.
LEMMA RequestEnds ==
    ASSUME TypeOK, [Next]_vars, NEW t \in Tasks, at[t] = "send", at'[t] # "send", op[t] \in {"notes", "star"}
    PROVE  server'[item[t].id] = item[t].it \/ server' = server
<1>t. server \in [Ids -> Item] /\ item[t].id \in Ids
  BY TypeParts DEF ServerType, TaskType
<1>1. ASSUME NEW u \in Tasks, Answer(u) PROVE SaveAccepted(t) \/ AnswerLost(t) \/ RequestFails(t) \/ RequestStrays(t)
  <2>1. CASE u = t
    <3>1. ~(AddAccepted(t) \/ DeleteAccepted(t) \/ ImportItem(t) \/ Sync(t) \/ Apply(t) \/ ReloadFails(t) \/ CloseEditor(t)
            \/ LostRequest(t))
      BY DEF AddAccepted, DeleteAccepted, ImportItem, Sync, Apply, ReloadFails, CloseEditor, LostRequest
    <3> QED BY <1>1, <2>1, <3>1 DEF Answer
  <2>2. CASE u # t
    <3>1. (\E a : Step(u, a)) \/ UNCHANGED at \/ at' = [at EXCEPT ![u] = "apply"]
      BY <1>1 DEF Answer, SaveAccepted, AddAccepted, DeleteAccepted, ImportItem, RequestFails, AnswerLost, RequestStrays,
                  Sync, Apply, ReloadFails, CloseEditor, LostRequest, ThenReload
    <3>2. ASSUME NEW a, Step(u, a) PROVE at'[t] = at[t]
      BY <2>2, <3>2, StepTask
    <3>3. at' = [at EXCEPT ![u] = "apply"] => at'[t] = at[t]
      BY <2>2, TypeParts DEF TaskType
    <3> QED BY <3>1, <3>2, <3>3
  <2> QED BY <2>1, <2>2
<1>2. ASSUME NEW u \in Tasks, Input(u) PROVE FALSE
  <2>1. CASE Unlock(u)
    BY <2>1, TypeParts DEF Unlock, TaskType
  <2>2. CASE ~Unlock(u)
    <3>1. at'[u] = "send" /\ \A v \in Tasks \ {u} : at'[v] = at[v]
      BY <1>2, <2>2, InputTask, BeginTask
    <3> QED BY <3>1
  <2> QED BY <2>1, <2>2
<1>3. CASE Lock
  BY <1>3 DEF Lock
<1>4. ~Remote
  BY DEF Remote, tasks
<1>5. CASE SaveAccepted(t) \/ AnswerLost(t)
  <2>1. UpdateCipher(item[t].id, item[t].it)
    BY <1>5 DEF SaveAccepted, AnswerLost, TakesEffect
  <2> QED BY <1>t, <2>1 DEF UpdateCipher
<1>6. CASE RequestFails(t) \/ RequestStrays(t)
  BY <1>6 DEF RequestFails, RequestStrays
<1>7. ASSUME NEW u \in Tasks, NEW v \in Tasks, ImportStrays(u, v) PROVE server' = server
  BY <1>7 DEF ImportStrays
<1> QED BY <1>1, <1>2, <1>3, <1>4, <1>5, <1>6, <1>7, LocalSteps DEF Next

\* On an up-to-date screen the notes box changes just the notes and the star
\* just the star, although both write the whole item and answers may be lost.
THEOREM JustTheFieldHolds == Spec => JustTheField
<1> DEFINE Inv == TypeOK /\ KeepInv /\ FieldsFit
<1>1. Init => Inv
  BY TypeInit DEF Init, KeepInv, Alone, Settled, ListFits, EditorFits, NoEditor, FieldsFit
<1>2. Inv /\ [Next]_vars => Inv'
  BY TypeNext, KeepNext, FieldsNext
<1>3. Inv /\ [Next]_vars =>
        [~muddled =>
           \A t \in Tasks : at[t] = "send" /\ at'[t] # "send" =>
             /\ op[t] = "notes" => server'[item[t].id].star = server[item[t].id].star
             /\ op[t] = "star" => server'[item[t].id].notes = server[item[t].id].notes]_vars
  BY RequestEnds DEF FieldsFit, OneField
<1>4. QED
  BY <1>1, <1>2, <1>3, PTL DEF Spec, JustTheField

----------------------------------------------------------------------------
(* One operation at a time *)

\* With one operation at a time, no failures and no other device: outside a
\* reload or an import the list on screen is the vault, whatever the user
\* locks, unlocks, opens or cancels, and a request of the notes box or the star
\* carries the other field as the server has it.
SeqInv ==
    \A t \in Tasks :
      /\ at[t] = "lost" => ~mounted
      /\ at[t] \in {"send", "sync", "apply"} => mounted
      /\ at[t] = "apply" => list[t] = server
      /\ mounted /\ (at[t] \in {"idle", "timer"} \/ (at[t] = "send" /\ op[t] # "import")) => items = server
      /\ at[t] = "send" => OneField(t)

\* Every step keeps it.
LEMMA SeqNext ==
    ASSUME TypeOK, SeqInv, ~MayFail, MaxRemote = 0, \A t, u \in Tasks : t = u, [Next]_vars
    PROVE  SeqInv'
<1>1. ASSUME NEW t \in Tasks, Answer(t) PROVE SeqInv'
  <2>o. \A u \in Tasks : u = t
    OBVIOUS
  <2>1. CASE SaveAccepted(t) \/ AddAccepted(t) \/ DeleteAccepted(t)
    <3>1. at[t] = "send" /\ Step(t, "sync") /\ UNCHANGED mounted
      BY <2>1 DEF SaveAccepted, AddAccepted, DeleteAccepted, ThenReload
    <3>2. at'[t] = "sync"
      BY <3>1, StepTask
    <3> QED BY <2>o, <3>1, <3>2 DEF SeqInv
  <2>2. CASE ImportItem(t)
    <3>1. at[t] = "send" /\ op[t] = "import" /\ UNCHANGED mounted /\ (UNCHANGED <<at, op>> \/ Step(t, "sync"))
      BY <2>2 DEF ImportItem, ThenReload
    <3>2. at'[t] \in {"send", "sync"} /\ op'[t] = "import"
      BY <3>1, StepTask
    <3> QED BY <2>o, <3>1, <3>2 DEF SeqInv, OneField
  <2>3. CASE RequestFails(t) \/ CloseEditor(t)
    <3>1. /\ at[t] = "timer" \/ (at[t] = "send" /\ op[t] # "import")
          /\ Step(t, "idle") /\ UNCHANGED <<server, mounted, items>>
      BY <2>3 DEF RequestFails, CloseEditor
    <3>2. at'[t] = "idle"
      BY <3>1, StepTask
    <3> QED BY <2>o, <3>1, <3>2 DEF SeqInv
  <2>4. CASE Sync(t)
    <3>1. at[t] = "sync" /\ at'[t] = "apply" /\ list'[t] = server /\ UNCHANGED <<server, mounted>>
      BY <2>4, TypeParts DEF Sync, screen, TaskType
    <3> QED BY <2>o, <3>1 DEF SeqInv
  <2>5. CASE Apply(t)
    <3>1. at[t] = "apply" /\ items' = list[t] /\ Step(t, AfterReload(t)) /\ UNCHANGED <<server, mounted>>
      BY <2>5 DEF Apply
    <3>2. at'[t] \in {"idle", "timer"} /\ items' = server'
      BY <3>1, StepTask DEF AfterReload, SeqInv
    <3> QED BY <2>o, <3>1, <3>2 DEF SeqInv
  <2>6. ~(ReloadFails(t) \/ AnswerLost(t) \/ RequestStrays(t))
    BY DEF ReloadFails, AnswerLost, RequestStrays
  <2>7. CASE LostRequest(t)
    <3>1. at[t] = "lost" /\ UNCHANGED mounted /\ (Step(t, "idle") \/ UNCHANGED at)
      BY <2>7 DEF LostRequest, screen
    <3>2. at'[t] \in {"idle", "lost"} /\ ~mounted'
      BY <3>1, StepTask DEF SeqInv
    <3> QED BY <2>o, <3>2 DEF SeqInv
  <2> QED BY <1>1, <2>1, <2>2, <2>3, <2>4, <2>5, <2>6, <2>7 DEF Answer
<1>2. ASSUME NEW t \in Tasks, Input(t) PROVE SeqInv'
  <2>o. \A u \in Tasks : u = t
    OBVIOUS
  <2>1. CASE Unlock(t)
    <3>1. at'[t] = "sync" /\ mounted'
      BY <2>1, TypeParts DEF Unlock, TaskType
    <3> QED BY <2>o, <3>1 DEF SeqInv
  <2>2. CASE ~Unlock(t)
    <3>1. mounted /\ UNCHANGED <<server, items, mounted>>
      BY <1>2, <2>2, InputTask
    <3>2. at[t] = "idle" /\ at'[t] = "send"
      BY <1>2, <2>2, InputTask, BeginTask
    <3>3. items = server
      BY <3>1, <3>2 DEF SeqInv
    <3>4. OneField(t)'
      BY <1>2, <2>2, <3>3, InputFits
    <3> QED BY <2>o, <3>1, <3>2, <3>3, <3>4 DEF SeqInv
  <2> QED BY <2>1, <2>2
<1>3. CASE Lock
  <2>1. ~mounted' /\ \A t \in Tasks : at'[t] \in {"lost", "idle"}
    BY <1>3 DEF Lock
  <2> QED BY <2>1 DEF SeqInv
<1>4. ~Remote
  BY TypeParts DEF Remote, CountType
<1>5. CASE (\E i \in Ids : Select(i) \/ SameNotes(i)) \/ Deselect \/ OpenEditor \/ CancelEditor \/ UNCHANGED vars
  <2>1. UNCHANGED <<server, mounted, items, at, op, item, list>>
    BY <1>5, LocalSteps
  <2> QED BY <2>1 DEF SeqInv, OneField
<1>6. \A t, u \in Tasks : ~ImportStrays(t, u)
  BY DEF ImportStrays
<1> QED BY <1>1, <1>2, <1>3, <1>4, <1>5, <1>6 DEF Next

\* What the comment on saveNotes says is true for a user who waits for every
\* operation, has a server that answers and no second device: the run that
\* refutes JustTheNotes needs two operations at once.
THEOREM SequentialNotes ==
    ASSUME ~MayFail, MaxRemote = 0, \A t, u \in Tasks : t = u
    PROVE  Spec => JustTheNotes
<1> DEFINE Inv == TypeOK /\ SeqInv
<1>1. Init => Inv
  BY TypeInit DEF Init, SeqInv
<1>2. Inv /\ [Next]_vars => Inv'
  BY TypeNext, SeqNext
<1>3. Inv /\ [Next]_vars =>
        [\A t \in Tasks : op[t] = "notes" /\ at[t] = "send" /\ at'[t] = "sync"
           => server'[item[t].id].star = server[item[t].id].star]_vars
  BY RequestEnds DEF SeqInv, OneField
<1>4. QED
  BY <1>1, <1>2, <1>3, PTL DEF Spec, JustTheNotes
=============================================================================
