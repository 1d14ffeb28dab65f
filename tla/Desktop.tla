------------------------------- MODULE Desktop -------------------------------
(***************************************************************************)
(* The offline desktop app with one vault file: storage.ts, App.tsx and    *)
(* VaultScreen.tsx over the file format of packages/crypto/src/vault.ts.   *)
(*                                                                         *)
(* Every operation is a task of three awaits at most: derive or encrypt,   *)
(* then read or write the file, then apply the result to the React state.  *)
(* A commit or a rekey works on the vault of the render whose button was   *)
(* clicked.  write_vault replaces the file in place.                       *)
(***************************************************************************)
EXTENDS Naturals

CONSTANTS
    Ids,         \* item ids
    Passwords,   \* master passwords masterPasswordIssue accepts
    Tasks,       \* operations that can be in flight at the same time
    MaxOps,      \* bound on operations started
    MayFail,     \* whether file and recents writes may fail
    MayQuit      \* whether the app may be quit or crash

ASSUME DesktopAssumption ==
    /\ Passwords # {}
    /\ MaxOps \in Nat
    /\ MayFail \in BOOLEAN
    /\ MayQuit \in BOOLEAN

VARIABLES
    file,      \* the file on disk: its condition and what it decrypts to
    vault,     \* App's vault: the in-memory DesktopVault, or closed
    screen,    \* App's screen, shown while the vault is closed
    recents,   \* whether the recents list names the file
    at,        \* the await a task is at
    kind,      \* its operation
    copy,      \* the vault content it works on
    ops,       \* operations started
    \* History.
    overlap,   \* two tasks were in flight at once
    keyRace,   \* one of them was a rekey or the creation of a vault
    late,      \* tasks in flight at the last lock
    unnoted    \* a vault was opened but the recents list could not be written

disk == <<file, recents>>
tasks == <<at, kind, copy>>
history == <<overlap, keyRace, late, unnoted>>
vars == <<disk, vault, screen, tasks, ops, history>>

----------------------------------------------------------------------------
(* Types *)

\* What a vault file holds: which password unwraps its key, and the items
\* (their content is not told apart, so an edit rewrites the same set).
Content == [pw : Passwords, items : SUBSET Ids]

Screens == {"boot", "start", "unlock", "create"}
Kinds == {"commit", "rekey", "create", "open"}
Awaits == {"idle", "write", "read", "recent", "apply"}

AnyContent == [pw |-> CHOOSE p \in Passwords : TRUE, items |-> {}]

TypeOK ==
    /\ file \in [st : {"absent", "broken", "good"}, c : Content]
    /\ vault \in [open : BOOLEAN, c : Content]
    /\ screen \in Screens
    /\ recents \in BOOLEAN
    /\ at \in [Tasks -> Awaits]
    /\ kind \in [Tasks -> Kinds]
    /\ copy \in [Tasks -> Content]
    /\ ops \in 0 .. MaxOps
    /\ overlap \in BOOLEAN
    /\ keyRace \in BOOLEAN
    /\ late \in SUBSET Tasks
    /\ unnoted \in BOOLEAN

Init ==
    /\ file = [st |-> "absent", c |-> AnyContent]
    /\ vault = [open |-> FALSE, c |-> AnyContent]
    /\ screen = "boot"
    /\ recents = FALSE
    /\ at = [t \in Tasks |-> "idle"]
    /\ kind = [t \in Tasks |-> "open"]
    /\ copy = [t \in Tasks |-> AnyContent]
    /\ ops = 0
    /\ overlap = FALSE
    /\ keyRace = FALSE
    /\ late = {}
    /\ unnoted = FALSE

----------------------------------------------------------------------------
(* Starting an operation *)

Busy == {t \in Tasks : at[t] # "idle"}
Rekeying == {t \in Busy : kind[t] \in {"rekey", "create"}}

\* Task t starts operation k on content c with await a.
Start(t, k, c, a) ==
    /\ at[t] = "idle"
    /\ ops < MaxOps
    /\ ops' = ops + 1
    /\ at' = [at EXCEPT ![t] = a]
    /\ kind' = [kind EXCEPT ![t] = k]
    /\ copy' = [copy EXCEPT ![t] = c]
    /\ overlap' = (overlap \/ Busy # {})
    /\ keyRace' = (keyRace \/ Rekeying # {} \/ (Busy # {} /\ k \in {"rekey", "create"}))
    /\ late' = late \ {t}
    /\ UNCHANGED <<disk, vault, screen, unnoted>>

\* Mutant: the vault screen can still be used once the vault is closed.
CommitWhenClosed(t) ==
    \E i \in Ids : Start(t, "commit", [vault.c EXCEPT !.items = @ \cup {i}], "write")

\* saveItem and deleteItem: commit({...vault, items}) of the render's vault.
Commit(t) ==
    /\ vault.open
    /\ \E i \in Ids :
         \/ Start(t, "commit", [vault.c EXCEPT !.items = @ \cup {i}], "write")
         \/ i \in vault.c.items /\ Start(t, "commit", [vault.c EXCEPT !.items = @ \ {i}], "write")

\* ChangePassword: rekey(props.vault, pw) re-wraps the same key.
Rekey(t) ==
    /\ vault.open
    /\ \E p \in Passwords : Start(t, "rekey", [vault.c EXCEPT !.pw = p], "write")

\* Mutant: a new vault has no list of items.
CreateWithoutItems(t) ==
    /\ ~vault.open
    /\ screen = "create"
    /\ \E p \in Passwords : Start(t, "create", [pw |-> p], "write")

\* Create's submit: createNewVault.
CreateVault(t) ==
    /\ ~vault.open
    /\ screen = "create"
    /\ \E p \in Passwords : Start(t, "create", [pw |-> p, items |-> {}], "write")

\* Unlock's submit: openExistingVault with some password.
OpenVault(t) ==
    /\ ~vault.open
    /\ screen = "unlock"
    /\ \E p \in Passwords : Start(t, "open", [pw |-> p, items |-> {}], "read")

----------------------------------------------------------------------------
(* The awaits of an operation *)

Step(t, a) ==
    /\ at' = [at EXCEPT ![t] = a]
    /\ UNCHANGED <<kind, copy, ops, overlap, keyRace, late>>

\* Mutant: the file keeps its old wrapped key.
WriteKeepsHeader(t) ==
    /\ at[t] = "write"
    /\ file' = [st |-> "good", c |-> IF file.st = "absent" THEN copy[t] ELSE [copy[t] EXCEPT !.pw = file.c.pw]]
    /\ Step(t, IF kind[t] = "create" THEN "recent" ELSE "apply")
    /\ UNCHANGED <<recents, vault, screen, unnoted>>

\* writeFile succeeds.  A new vault is remembered before it is adopted.
WriteFile(t) ==
    /\ at[t] = "write"
    /\ file' = [st |-> "good", c |-> copy[t]]
    /\ Step(t, IF kind[t] = "create" THEN "recent" ELSE "apply")
    /\ UNCHANGED <<recents, vault, screen, unnoted>>

\* Mutant: the error of a write is swallowed and its vault is shown.
WriteFailsApplies(t) ==
    /\ MayFail
    /\ at[t] = "write"
    /\ UNCHANGED file
    /\ Step(t, "apply")
    /\ UNCHANGED <<recents, vault, screen, unnoted>>

\* writeFile fails: the file could not be opened, or only part was written.
\* The operation reports the error and leaves the in-memory vault alone.
WriteFails(t) ==
    /\ MayFail
    /\ at[t] = "write"
    /\ \/ UNCHANGED file
       \/ file' = [file EXCEPT !.st = "broken"]
    /\ Step(t, "idle")
    /\ UNCHANGED <<recents, vault, screen, unnoted>>

\* openVault: a missing, malformed or differently keyed file is an error; the
\* payload is decrypted otherwise.
ReadFile(t) ==
    /\ at[t] = "read"
    /\ \/ /\ file.st = "good"
          /\ file.c.pw = copy[t].pw
          /\ at' = [at EXCEPT ![t] = "recent"]
          /\ copy' = [copy EXCEPT ![t] = file.c]
          /\ UNCHANGED <<kind, ops, history>>
       \/ /\ file.st # "good" \/ file.c.pw # copy[t].pw
          /\ Step(t, "idle")
          /\ UNCHANGED unnoted
    /\ UNCHANGED <<disk, vault, screen>>

\* Mutant: a vault that is already in the list is not adopted again.
RememberOnlyNew(t) ==
    /\ at[t] = "recent"
    /\ Step(t, IF recents THEN "idle" ELSE "apply")
    /\ recents' = TRUE
    /\ UNCHANGED <<file, vault, screen, unnoted>>

\* adopt, first await: rememberRecent.  If it throws, nobody catches it and
\* the vault is not adopted.
RememberRecent(t) ==
    /\ at[t] = "recent"
    /\ \/ /\ recents' = TRUE
          /\ Step(t, "apply")
          /\ UNCHANGED unnoted
       \/ /\ MayFail
          /\ Step(t, "idle")
          /\ unnoted' = TRUE
          /\ UNCHANGED recents
    /\ UNCHANGED <<file, vault, screen>>

\* setVault with the operation's result, whatever the state is by then.
Apply(t) ==
    /\ at[t] = "apply"
    /\ vault' = [open |-> TRUE, c |-> copy[t]]
    /\ Step(t, "idle")
    /\ UNCHANGED <<disk, screen, unnoted>>

----------------------------------------------------------------------------
(* Screens, locking and quitting *)

\* The boot effect: the unlock screen for a recent vault that still exists.
Boot ==
    /\ screen = "boot"
    /\ screen' = IF recents /\ file.st # "absent" THEN "unlock" ELSE "start"
    /\ UNCHANGED <<disk, vault, tasks, ops, history>>

\* Start's dialogs and recents list, and the Back links.
Navigate ==
    /\ ~vault.open
    /\ \/ screen = "start" /\ file.st # "absent" /\ screen' = "unlock"
       \/ screen = "start" /\ screen' = "create"
       \/ screen \in {"unlock", "create"} /\ screen' = "start"
    /\ UNCHANGED <<disk, vault, tasks, ops, history>>

\* Start's "Clear recent list".
ClearRecents ==
    /\ ~vault.open
    /\ screen = "start"
    /\ recents
    /\ recents' = FALSE
    /\ UNCHANGED <<file, vault, screen, tasks, ops, history>>

\* The Lock button and the idle timer.
Lock ==
    /\ vault.open
    /\ vault' = [open |-> FALSE, c |-> AnyContent]
    /\ screen' = "unlock"
    /\ late' = Busy
    /\ UNCHANGED <<disk, tasks, ops, overlap, keyRace, unnoted>>

\* The app is quit or crashes; a write that is under way may be cut.
Quit ==
    /\ MayQuit
    /\ \/ UNCHANGED file
       \/ /\ \E t \in Tasks : at[t] = "write"
          /\ file' = [file EXCEPT !.st = "broken"]
    /\ vault' = [open |-> FALSE, c |-> AnyContent]
    /\ screen' = "boot"
    /\ at' = [t \in Tasks |-> "idle"]
    /\ late' = {}
    /\ UNCHANGED <<recents, kind, copy, ops, overlap, keyRace, unnoted>>

TaskStep(t) == WriteFile(t) \/ WriteFails(t) \/ ReadFile(t) \/ RememberRecent(t) \/ Apply(t)

Next ==
    \/ \E t \in Tasks : Commit(t) \/ Rekey(t) \/ CreateVault(t) \/ OpenVault(t) \/ TaskStep(t)
    \/ Boot \/ Navigate \/ ClearRecents \/ Lock \/ Quit

Spec == Init /\ [][Next]_vars

\* Invoked commands and promise callbacks run; the user owes nothing.
Fairness == \A t \in Tasks : WF_vars(TaskStep(t))

FairSpec == Spec /\ Fairness

----------------------------------------------------------------------------
(* Properties *)

\* As long as operations do not overlap, what the user sees is what is on
\* disk once nothing is in flight: also after failed writes, locks in the
\* middle of an operation and restarts.  Only a write that was cut leaves a
\* file that no longer says anything.
MemoryMatchesFile ==
    ~overlap /\ Busy = {} /\ vault.open => file.st = "broken" \/ file = [st |-> "good", c |-> vault.c]

\* Overlapping commits may undo each other's items, but as long as none of
\* them overlaps a rekey or a creation, they never bring back another
\* password: the file and the open vault agree on the wrapped key.
PasswordSettled ==
    ~keyRace /\ vault.open /\ Rekeying = {} => file.c.pw = vault.c.pw

\* A locked vault opens again only by openExistingVault or createNewVault, or
\* by a commit or rekey that was in flight when it was locked.
StaysLocked ==
    [][~vault.open /\ vault'.open
         => \E t \in Tasks : at[t] = "apply" /\ (kind[t] \in {"open", "create"} \/ t \in late)]_vars

\* The right password opens the vault: an openExistingVault that read the file
\* ends with the vault open, unless the recents list could not be written or
\* the app is quit first.
RightPasswordOpens ==
    \A t \in Tasks :
      (kind[t] = "open" /\ at[t] \in {"recent", "apply"}) ~> (vault.open \/ unnoted \/ screen = "boot")
=============================================================================
