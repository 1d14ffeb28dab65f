------------------------------ MODULE WebVault ------------------------------
(***************************************************************************)
(* The vault screen of the web app (apps/web/src/VaultScreen.tsx) and the  *)
(* item operations of packages/api-client/src/session.ts behind it, for    *)
(* one account whose items another device may change too.                  *)
(*                                                                         *)
(* Every operation of the screen is a task: a request that changes the     *)
(* server, then a reload that asks for the whole list and replaces the one *)
(* on screen.  A request carries a whole item, taken from the list as it   *)
(* was rendered when the user clicked.  An item is abstracted to two       *)
(* fields that different controls edit: the notes and the star.            *)
(***************************************************************************)
EXTENDS Naturals

CONSTANTS
    Ids,        \* item ids the server hands out
    Notes,      \* contents of the notes field
    Tasks,      \* operations that can be in flight at the same time
    MaxOps,     \* bound on operations started
    MaxRemote,  \* bound on changes by another device
    MaxImport,  \* bound on items in an imported file
    MayFail     \* whether requests may fail

ASSUME WebVaultAssumption ==
    /\ Notes # {}
    /\ Ids # {}
    /\ MaxOps \in Nat
    /\ MaxRemote \in Nat
    /\ MaxImport \in Nat
    /\ MayFail \in BOOLEAN

VARIABLES
    server,    \* the ciphers of the account
    deleted,   \* ids that were deleted; ids are never handed out twice
    remotes,   \* changes by another device so far
    \* React state of the screen.
    mounted,   \* unlocked
    items,     \* the list
    loading,
    selected,  \* selectedId: at most one id
    box,       \* ItemDetail's own notes state
    editor,    \* the item the editor was opened with; new for "+ Add item"
    mine,      \* the task of the open editor's Save button, if it works
    \* Tasks.
    at, op, item, list, left, ops,
    \* History.
    want,      \* per item, the last value the user gave each field
    muddled,   \* the user acted on old values, or a stray request may write
    stale,     \* a reload failed or an answer was lost: the list may be old
    raced      \* lists overlapped, or another device or a stray request wrote

screen == <<mounted, items, loading, selected, box, editor, mine>>
tasks == <<at, op, item, list, left>>
vars == <<server, deleted, remotes, screen, tasks, ops, want, muddled, stale, raced>>

----------------------------------------------------------------------------
(* Types *)

Item == [there : BOOLEAN, notes : Notes, star : BOOLEAN]
SomeNotes == CHOOSE n \in Notes : TRUE
NoItem == [there |-> FALSE, notes |-> SomeNotes, star |-> FALSE]
\* An item with default fields, as an import or an earlier visit leaves it.
Imported == [there |-> TRUE, notes |-> SomeNotes, star |-> FALSE]
NoItems == [i \in Ids |-> NoItem]
SomeId == CHOOSE i \in Ids : TRUE
Editor == [open : {"no", "new", "item"}, id : Ids, base : Item]
NoEditor == [open |-> "no", id |-> SomeId, base |-> NoItem]

\* save and add are the editor's, notes, star and delete the detail pane's.
Kinds == {"load", "save", "add", "notes", "star", "delete", "import"}

TypeOK ==
    /\ server \in [Ids -> Item]
    /\ deleted \subseteq Ids
    /\ remotes \in 0 .. MaxRemote
    /\ mounted \in BOOLEAN
    /\ items \in [Ids -> Item]
    /\ loading \in BOOLEAN
    /\ selected \subseteq Ids
    /\ box \in Notes
    /\ editor \in Editor
    /\ mine \subseteq Tasks
    /\ at \in [Tasks -> {"idle", "send", "sync", "apply", "timer", "lost"}]
    /\ op \in [Tasks -> Kinds]
    /\ item \in [Tasks -> [id : Ids, it : Item]]
    /\ list \in [Tasks -> [Ids -> Item]]
    /\ left \in [Tasks -> 0 .. MaxImport]
    /\ ops \in 0 .. MaxOps
    /\ want \in [Ids -> Item]
    /\ muddled \in BOOLEAN
    /\ stale \in BOOLEAN
    /\ raced \in BOOLEAN

Blank == [id |-> SomeId, it |-> NoItem]

Init ==
    /\ server \in [Ids -> {NoItem, Imported}]
    /\ deleted = {}
    /\ remotes = 0
    /\ mounted = FALSE
    /\ items = NoItems
    /\ loading = FALSE
    /\ selected = {}
    /\ box = SomeNotes
    /\ editor = NoEditor
    /\ mine = {}
    /\ at = [t \in Tasks |-> "idle"]
    /\ op = [t \in Tasks |-> "load"]
    /\ item = [t \in Tasks |-> Blank]
    /\ list = [t \in Tasks |-> NoItems]
    /\ left = [t \in Tasks |-> 0]
    /\ ops = 0
    /\ want = server
    /\ muddled = FALSE
    /\ stale = FALSE
    /\ raced = FALSE

----------------------------------------------------------------------------
(* Tasks *)

Busy == {t \in Tasks : at[t] \in {"send", "sync", "apply"}}

\* What is on screen may not be what the server has.
Outdated == Busy # {} \/ stale

\* Task t starts operation o on item x, n items long.
Begin(t, o, x, n) ==
    /\ at[t] = "idle"
    /\ ops < MaxOps
    /\ ops' = ops + 1
    /\ at' = [at EXCEPT ![t] = "send"]
    /\ op' = [op EXCEPT ![t] = o]
    /\ item' = [item EXCEPT ![t] = x]
    /\ left' = [left EXCEPT ![t] = n]
    /\ UNCHANGED list

\* Task t goes on, or ends.
Step(t, a) ==
    /\ at' = [at EXCEPT ![t] = a]
    /\ IF a = "idle"
       THEN /\ op' = [op EXCEPT ![t] = "load"]
            /\ item' = [item EXCEPT ![t] = Blank]
            /\ list' = [list EXCEPT ![t] = NoItems]
            /\ left' = [left EXCEPT ![t] = 0]
       ELSE UNCHANGED <<op, item, list, left>>

\* A click on the vault screen; the editor covers it.
Clickable == mounted /\ editor.open = "no"

Shown(i) == i \in selected /\ items[i].there

\* Operation o on item i, which the user wants to become w.
Click(t, o, i, w) ==
    /\ Begin(t, o, [id |-> i, it |-> w], 0)
    /\ muddled' = (muddled \/ Outdated)
    /\ UNCHANGED <<server, deleted, remotes, stale, raced>>

----------------------------------------------------------------------------
(* The detail pane *)

\* A list row, shown while nothing loads, is clicked: ItemDetail mounts with
\* the item's notes, unless it is this item's already.
Select(i) ==
    /\ Clickable
    /\ ~loading
    /\ items[i].there
    /\ i \notin selected
    /\ selected' = {i}
    /\ box' = items[i].notes
    /\ UNCHANGED <<server, deleted, remotes, mounted, items, loading, editor, mine, tasks, ops, want, muddled, stale, raced>>

Deselect ==
    /\ Clickable
    /\ selected # {}
    /\ selected' = {}
    /\ box' = SomeNotes
    /\ UNCHANGED <<server, deleted, remotes, mounted, items, loading, editor, mine, tasks, ops, want, muddled, stale, raced>>

\* The notes box gets the focus, may be typed into, and loses it.  saveNotes
\* returns when the notes are those of the rendered item, and otherwise saves
\* that item with the notes of the box.
SaveNotes(t, i, n) ==
    /\ Clickable
    /\ Shown(i)
    /\ box' = n
    /\ n # items[i].notes
    /\ Begin(t, "notes", [id |-> i, it |-> [items[i] EXCEPT !.notes = n]], 0)
    /\ want' = IF n # box THEN [want EXCEPT ![i].notes = n] ELSE want
    /\ muddled' = (muddled \/ Outdated \/ n = box)
    /\ UNCHANGED <<server, deleted, remotes, mounted, items, loading, selected, editor, mine, stale, raced>>

SameNotes(i) ==
    /\ Clickable
    /\ Shown(i)
    /\ box' = items[i].notes
    /\ muddled' = (muddled \/ Outdated)
    /\ UNCHANGED <<server, deleted, remotes, mounted, items, loading, selected, editor, mine, tasks, ops, want, stale, raced>>

\* Mutant: only the star is sent.
ToggleSendsStar(t, i) ==
    /\ Clickable
    /\ Shown(i)
    /\ Click(t, "star", i, [there |-> TRUE, star |-> ~items[i].star])
    /\ want' = [want EXCEPT ![i].star = ~items[i].star]
    /\ UNCHANGED screen

\* toggleFavorite saves the rendered item with the other star.
ToggleFavorite(t, i) ==
    /\ Clickable
    /\ Shown(i)
    /\ Click(t, "star", i, [items[i] EXCEPT !.star = ~@])
    /\ want' = [want EXCEPT ![i].star = ~items[i].star]
    /\ UNCHANGED screen

\* handleDelete, confirmed.
HandleDelete(t, i) ==
    /\ Clickable
    /\ Shown(i)
    /\ Click(t, "delete", i, NoItem)
    /\ want' = [want EXCEPT ![i] = NoItem]
    /\ UNCHANGED screen

----------------------------------------------------------------------------
(* The editor *)

\* "+ Add item", or Edit with the item as it was rendered.
OpenEditor ==
    /\ Clickable
    /\ \/ editor' = [open |-> "new", id |-> SomeId, base |-> NoItem] /\ UNCHANGED muddled
       \/ \E i \in Ids :
            /\ Shown(i)
            /\ editor' = [open |-> "item", id |-> i, base |-> items[i]]
            /\ muddled' = (muddled \/ Outdated)
    /\ UNCHANGED <<server, deleted, remotes, mounted, items, loading, selected, box, mine, tasks, ops, want, stale, raced>>

CancelEditor ==
    /\ mounted
    /\ editor.open # "no"
    /\ editor' = NoEditor
    /\ mine' = {}
    /\ UNCHANGED <<server, deleted, remotes, mounted, items, loading, selected, box, tasks, ops, want, muddled, stale, raced>>

\* History: with notes n and star s the user means the fields that differ from
\* those the editor opened with.
Meant(n, s) ==
    IF editor.open = "new" THEN want
    ELSE [want EXCEPT ![editor.id] =
            [there |-> @.there,
             notes |-> IF n = editor.base.notes THEN @.notes ELSE n,
             star  |-> IF s = editor.base.star THEN @.star ELSE s]]

\* Mutant: the editor's form does not carry the star.
EditorDropsStar(t, n, s) ==
    /\ mounted
    /\ editor.open # "no"
    /\ mine = {}
    /\ mine' = {t}
    /\ Click(t, IF editor.open = "new" THEN "add" ELSE "save", editor.id, [there |-> TRUE, notes |-> n, star |-> FALSE])
    /\ want' = Meant(n, s)
    /\ UNCHANGED <<mounted, items, loading, selected, box, editor>>

\* Save with notes n and star s.  The button does nothing while it works.
EditorSave(t, n, s) ==
    /\ mounted
    /\ editor.open # "no"
    /\ mine = {}
    /\ mine' = {t}
    /\ Click(t, IF editor.open = "new" THEN "add" ELSE "save", editor.id, [there |-> TRUE, notes |-> n, star |-> s])
    /\ want' = Meant(n, s)
    /\ UNCHANGED <<mounted, items, loading, selected, box, editor>>

\* runImport of a parsed file: its items are added one after the other.
RunImport(t) ==
    /\ Clickable
    /\ \E n \in 1 .. MaxImport : Begin(t, "import", Blank, n)
    /\ muddled' = (muddled \/ Outdated)
    /\ UNCHANGED <<server, deleted, remotes, screen, want, stale, raced>>

----------------------------------------------------------------------------
(* Requests *)

Fresh == {i \in Ids : ~server[i].there /\ i \notin deleted}

\* createCipher with content x, under an id of the server's choosing.
CreateCipher(x) ==
    \E i \in Fresh :
      /\ server' = [server EXCEPT ![i] = x]
      /\ want' = [want EXCEPT ![i] = x]

\* Mutant: an upsert.
UpdateUpserts(i, x) == server' = [server EXCEPT ![i] = x]

\* updateCipher: the whole item, of an id that exists.
UpdateCipher(i, x) ==
    /\ server[i].there
    /\ server' = [server EXCEPT ![i] = x]

\* deleteCipher.
DeleteCipher(i) ==
    /\ server[i].there
    /\ server' = [server EXCEPT ![i] = NoItem]
    /\ deleted' = deleted \cup {i}

\* Task t asks for the list next: reload's setLoading(true).
ThenReload(t) ==
    /\ Step(t, "sync")
    /\ loading' = mounted
    /\ raced' = (raced \/ \E u \in Tasks \ {t} : at[u] \in {"sync", "apply"})

\* The request of task t succeeds.
SaveAccepted(t) ==
    /\ at[t] = "send"
    /\ op[t] \in {"save", "notes", "star"}
    /\ UpdateCipher(item[t].id, item[t].it)
    /\ ThenReload(t)
    /\ UNCHANGED <<deleted, remotes, mounted, items, selected, box, editor, mine, ops, want, muddled, stale>>

AddAccepted(t) ==
    /\ at[t] = "send"
    /\ op[t] = "add"
    /\ CreateCipher(item[t].it)
    /\ ThenReload(t)
    /\ UNCHANGED <<deleted, remotes, mounted, items, selected, box, editor, mine, ops, muddled, stale>>

\* setSelectedId(null): the closure's selectedId was the item's.
DeleteAccepted(t) ==
    /\ at[t] = "send"
    /\ op[t] = "delete"
    /\ DeleteCipher(item[t].id)
    /\ selected' = {}
    /\ ThenReload(t)
    /\ UNCHANGED <<remotes, mounted, items, box, editor, mine, ops, want, muddled, stale>>

\* One item of an import; onImported reloads after the last.
ImportItem(t) ==
    /\ at[t] = "send"
    /\ op[t] = "import"
    /\ \/ left[t] > 0
          /\ \/ CreateCipher(Imported)
             \/ (MayFail \/ Fresh = {}) /\ UNCHANGED <<server, want>>
          /\ left' = [left EXCEPT ![t] = @ - 1]
          /\ UNCHANGED <<at, op, item, list, loading, raced>>
       \/ left[t] = 0 /\ ThenReload(t) /\ UNCHANGED <<server, want>>
    /\ UNCHANGED <<deleted, remotes, mounted, items, selected, box, editor, mine, ops, muddled, stale>>

\* The request fails without effect, or finds no such item: the error is shown
\* and nothing is reloaded.
RequestFails(t) ==
    /\ at[t] = "send"
    /\ op[t] # "import"
    /\ \/ MayFail
       \/ op[t] = "add" /\ Fresh = {}
       \/ op[t] # "add" /\ ~server[item[t].id].there
    /\ Step(t, "idle")
    /\ mine' = mine \ {t}
    /\ want' = IF op[t] = "add" THEN want ELSE [want EXCEPT ![item[t].id] = server[item[t].id]]
    /\ UNCHANGED <<server, deleted, remotes, mounted, items, loading, selected, box, editor, ops, muddled, stale, raced>>

\* What a request other than an import's does, with nobody to take the answer.
TakesEffect(t) ==
    \/ op[t] \in {"save", "notes", "star"} /\ UpdateCipher(item[t].id, item[t].it) /\ UNCHANGED <<deleted, want>>
    \/ op[t] = "add" /\ CreateCipher(item[t].it) /\ UNCHANGED deleted
    \/ op[t] = "delete" /\ DeleteCipher(item[t].id) /\ UNCHANGED want

\* The request takes effect but its answer is lost: fetch rejects and the same
\* catch shows the error, reloads nothing, and keeps the editor open and the
\* deleted item selected.  A list that was answered before is old by now.
AnswerLost(t) ==
    /\ MayFail
    /\ at[t] = "send"
    /\ TakesEffect(t)
    /\ Step(t, "idle")
    /\ mine' = mine \ {t}
    /\ stale' = TRUE
    /\ raced' = (raced \/ \E u \in Tasks : at[u] = "apply")
    /\ UNCHANGED <<remotes, mounted, items, loading, selected, box, editor, ops, muddled>>

\* The connection breaks while the request is on its way: the catch runs, and
\* the request may still reach the server later.
RequestStrays(t) ==
    /\ MayFail
    /\ at[t] = "send"
    /\ op[t] # "import"
    /\ Step(t, "lost")
    /\ mine' = mine \ {t}
    /\ muddled' = TRUE
    /\ raced' = TRUE
    /\ UNCHANGED <<server, deleted, remotes, mounted, items, loading, selected, box, editor, ops, want, stale>>

\* The same for an item of an import, which counts it as failed and goes on with
\* the next: u stands for the request that is left on its way.
ImportStrays(t, u) ==
    /\ MayFail
    /\ at[t] = "send"
    /\ op[t] = "import"
    /\ left[t] > 0
    /\ at[u] = "idle"
    /\ at' = [at EXCEPT ![u] = "lost"]
    /\ op' = [op EXCEPT ![u] = "add"]
    /\ item' = [item EXCEPT ![u].it = Imported]
    /\ left' = [left EXCEPT ![t] = @ - 1]
    /\ muddled' = TRUE
    /\ raced' = TRUE
    /\ UNCHANGED <<server, deleted, remotes, screen, list, ops, want, stale>>

\* loadVault's sync is answered with the items of that moment.
Sync(t) ==
    /\ at[t] = "sync"
    /\ list' = [list EXCEPT ![t] = server]
    /\ at' = [at EXCEPT ![t] = "apply"]
    /\ UNCHANGED <<server, deleted, remotes, screen, op, item, left, ops, want, muddled, stale, raced>>

\* After reload: a saved editor shows its success, then closes.
AfterReload(t) == IF op[t] \in {"save", "add"} THEN "timer" ELSE "idle"

\* Mutant: the answer is merged into the list.
ApplyMerges(t) ==
    /\ at[t] = "apply"
    /\ items' = [i \in Ids |-> IF list[t][i].there THEN list[t][i] ELSE items[i]]
    /\ loading' = FALSE
    /\ stale' = FALSE
    /\ Step(t, AfterReload(t))
    /\ UNCHANGED <<server, deleted, remotes, mounted, selected, box, editor, mine, ops, want, muddled, raced>>

\* setItems.  A selected item that comes into the list mounts its detail pane;
\* a pane that is mounted keeps its notes.
Apply(t) ==
    /\ at[t] = "apply"
    /\ items' = list[t]
    /\ box' = IF \E i \in selected : ~items[i].there /\ list[t][i].there
              THEN list[t][CHOOSE i \in selected : TRUE].notes ELSE box
    /\ loading' = FALSE
    /\ stale' = FALSE
    /\ Step(t, AfterReload(t))
    /\ UNCHANGED <<server, deleted, remotes, mounted, selected, editor, mine, ops, want, muddled, raced>>

\* Mutant: setLoading(false) only after a success.
ReloadFailsLoading(t) ==
    /\ MayFail
    /\ at[t] = "sync"
    /\ stale' = TRUE
    /\ Step(t, AfterReload(t))
    /\ UNCHANGED <<server, deleted, remotes, mounted, items, loading, selected, box, editor, mine, ops, want, muddled, raced>>

\* reload catches its error: the old list stays.
ReloadFails(t) ==
    /\ MayFail
    /\ at[t] = "sync"
    /\ loading' = FALSE
    /\ stale' = TRUE
    /\ Step(t, AfterReload(t))
    /\ UNCHANGED <<server, deleted, remotes, mounted, items, selected, box, editor, mine, ops, want, muddled, raced>>

\* AsyncButton's timer: onSuccess closes the editor, whichever is open by then.
CloseEditor(t) ==
    /\ at[t] = "timer"
    /\ editor' = NoEditor
    /\ mine' = {}
    /\ Step(t, "idle")
    /\ UNCHANGED <<server, deleted, remotes, mounted, items, loading, selected, box, ops, want, muddled, stale, raced>>

----------------------------------------------------------------------------
(* Unlocking and locking *)

\* VaultScreen mounts and loads the vault.
Unlock(t) ==
    /\ ~mounted
    /\ at[t] = "idle"
    /\ mounted' = TRUE
    /\ loading' = TRUE
    /\ at' = [at EXCEPT ![t] = "sync"]
    /\ UNCHANGED <<server, deleted, remotes, items, selected, box, editor, mine, op, item, list, left, ops, want, muddled, stale, raced>>

\* VaultScreen unmounts.  Requests go on, but nobody takes the answers.
Lock ==
    /\ mounted
    /\ mounted' = FALSE
    /\ items' = NoItems
    /\ loading' = FALSE
    /\ selected' = {}
    /\ box' = SomeNotes
    /\ editor' = NoEditor
    /\ mine' = {}
    /\ at' = [t \in Tasks |-> IF at[t] \in {"send", "lost"} THEN "lost" ELSE "idle"]
    /\ muddled' = (muddled \/ \E t \in Tasks : at[t] = "send")
    /\ raced' = (raced \/ \E t \in Tasks : at[t] = "send")
    /\ op' = [t \in Tasks |-> IF at[t] \in {"send", "lost"} THEN op[t] ELSE "load"]
    /\ item' = [t \in Tasks |-> IF at[t] \in {"send", "lost"} THEN item[t] ELSE Blank]
    /\ list' = [t \in Tasks |-> NoItems]
    /\ stale' = FALSE
    /\ UNCHANGED <<server, deleted, remotes, left, ops, want>>

\* A request that outlives its handler takes effect or not; an import goes on
\* with the items it has left.
LostRequest(t) ==
    /\ at[t] = "lost"
    /\ \/ TakesEffect(t)
       \/ op[t] = "import" /\ left[t] > 0 /\ CreateCipher(Imported) /\ UNCHANGED deleted
       \/ UNCHANGED <<server, deleted, want>>
    /\ IF op[t] = "import" /\ left[t] > 1
       THEN left' = [left EXCEPT ![t] = @ - 1] /\ UNCHANGED <<at, op, item, list>>
       ELSE Step(t, "idle")
    /\ UNCHANGED <<remotes, screen, ops, muddled, stale, raced>>

\* Another device of the account changes or deletes an item.
Remote ==
    /\ remotes < MaxRemote
    /\ remotes' = remotes + 1
    /\ \E i \in Ids :
         \/ UpdateCipher(i, [server[i] EXCEPT !.star = ~@]) /\ UNCHANGED deleted
         \/ DeleteCipher(i)
    /\ raced' = TRUE
    /\ muddled' = TRUE
    /\ UNCHANGED <<screen, tasks, ops, want, stale>>

----------------------------------------------------------------------------

Answer(t) ==
    \/ SaveAccepted(t) \/ AddAccepted(t) \/ DeleteAccepted(t) \/ ImportItem(t) \/ RequestFails(t)
    \/ AnswerLost(t) \/ RequestStrays(t) \/ Sync(t) \/ Apply(t) \/ ReloadFails(t) \/ CloseEditor(t) \/ LostRequest(t)

Input(t) ==
    \/ Unlock(t) \/ RunImport(t)
    \/ \E i \in Ids : ToggleFavorite(t, i) \/ HandleDelete(t, i) \/ \E n \in Notes : SaveNotes(t, i, n)
    \/ \E n \in Notes, s \in BOOLEAN : EditorSave(t, n, s)

Next ==
    \/ \E t \in Tasks : Answer(t) \/ Input(t)
    \/ \E i \in Ids : Select(i) \/ SameNotes(i)
    \/ Deselect \/ OpenEditor \/ CancelEditor \/ Lock \/ Remote
    \/ \E t, u \in Tasks : ImportStrays(t, u)

Spec == Init /\ [][Next]_vars

----------------------------------------------------------------------------
(* Properties *)

\* However saves, deletions and locks overlap, a save never brings an item
\* back that was deleted.
DeletedStaysDeleted == \A i \in deleted : ~server[i].there

\* When nothing is under way the list is the vault, unless two reloads
\* overlapped, another device or a stray request wrote, or since the last list
\* was shown a reload failed or the answer to a request was lost: its error is
\* all there is then.
ListIsVault == mounted /\ Busy = {} /\ ~stale /\ ~raced => items = server

\* Although every control writes the whole item, each field ends up with the
\* last value the user gave it, as long as the user acts on an up-to-date
\* screen: one operation at a time, an editor opened after the last one ended,
\* a notes box that was typed into, and no retry on the list that a failed
\* reload or a lost answer left.
EditsKept ==
    Busy = {} /\ ~muddled => \A i \in Ids : server[i] = want[i]

\* The list never stays "Decrypting vault...": while it says so, a reload of
\* this screen is under way that will end it, on every path.
LoadingEnds == loading => mounted /\ \E t \in Tasks : at[t] \in {"sync", "apply"}

\* What the comment on saveNotes says: it persists just the notes.
JustTheNotes ==
    [][\A t \in Tasks : op[t] = "notes" /\ at[t] = "send" /\ at'[t] = "sync"
         => server'[item[t].id].star = server[item[t].id].star]_vars
=============================================================================
