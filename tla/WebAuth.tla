------------------------------- MODULE WebAuth -------------------------------
(***************************************************************************)
(* Signing in to and locking the web and mobile app: App and AuthScreen of *)
(* apps/web/src/App.tsx, biometric.ts, and AccountPanel's sign-out and     *)
(* deletion (VaultScreen.tsx).                                             *)
(*                                                                         *)
(* Each handler is a task with a step per await.  The form and the         *)
(* biometric button have busy flags of their own, so two sign-ins can run  *)
(* at once; a task goes on when the screen that started it is gone, and    *)
(* still calls App's setters.                                              *)
(***************************************************************************)
EXTENDS Naturals

CONSTANTS
    Accounts,   \* identifiers
    Passwords,
    Tasks,      \* handlers that can run at the same time
    MaxOps,     \* bound on handlers started
    None        \* no account

ASSUME WebAuthAssumption ==
    /\ None \notin Accounts
    /\ Passwords # {}
    /\ MaxOps \in Nat

VARIABLES
    \* The server.
    password,  \* per account, the set of its current password, empty if none
    strong,    \* accounts with a second factor
    \* The device's secure store.
    stored,    \* the account and password behind the biometric check
    \* App.
    session,   \* the account of the session
    banner,    \* recovery: the generated identifier shown after signup
    listed,    \* the account whose items VaultScreen shows
    \* AuthScreen.
    mode,      \* register, login, or recover
    due,       \* twoFactor: a second factor is due
    mine,      \* tasks this AuthScreen or AccountPanel started
    \* Tasks.
    at, kind, acct, pw, dice, ops,
    \* History.
    past,      \* per account, all passwords it has had
    overlap    \* two tasks ran at the same time

device == <<stored, session, banner, listed, mode, due, mine>>
tasks == <<at, kind, acct, pw, dice>>
vars == <<password, strong, device, tasks, ops, past, overlap>>

----------------------------------------------------------------------------
(* Types *)

Account == Accounts \cup {None}
SomePassword == CHOOSE p \in Passwords : TRUE
NoCredentials == [acct |-> None, pw |-> SomePassword]
Kinds == {"register", "login", "code", "passkey", "recover", "bio", "delete", "logoutAll"}
Form == {"register", "login", "code", "passkey", "recover"}

TypeOK ==
    /\ password \in [Accounts -> SUBSET Passwords]
    /\ strong \subseteq Accounts
    /\ stored \in [acct : Account, pw : Passwords]
    /\ session \in Account
    /\ banner \in Account
    /\ listed \in Account
    /\ mode \in {"register", "login", "recover"}
    /\ due \in BOOLEAN
    /\ mine \subseteq Tasks
    /\ at \in [Tasks -> {"idle", "prompt", "request", "banner", "remember", "authed", "lock"}]
    /\ kind \in [Tasks -> Kinds]
    /\ acct \in [Tasks -> Account]
    /\ pw \in [Tasks -> Passwords]
    /\ dice \in [Tasks -> BOOLEAN]
    /\ ops \in 0 .. MaxOps
    /\ past \in [Accounts -> SUBSET Passwords]
    /\ overlap \in BOOLEAN

Init ==
    /\ password = [a \in Accounts |-> {}]
    /\ strong = {}
    /\ stored = NoCredentials
    /\ session = None
    /\ banner = None
    /\ listed = None
    /\ mode = "register"
    /\ due = FALSE
    /\ mine = {}
    /\ at = [t \in Tasks |-> "idle"]
    /\ kind = [t \in Tasks |-> "login"]
    /\ acct = [t \in Tasks |-> None]
    /\ pw = [t \in Tasks |-> SomePassword]
    /\ dice = [t \in Tasks |-> FALSE]
    /\ ops = 0
    /\ past = [a \in Accounts |-> {}]
    /\ overlap = FALSE

----------------------------------------------------------------------------
(* Starting a handler *)

Busy == {t \in Tasks : at[t] # "idle"}

\* The form's busy flag, and bioBusy.
FormBusy == \E t \in mine : kind[t] \in Form
BioBusy == \E t \in mine : kind[t] = "bio"

\* Task t starts as a handler of kind k for account a, password p.
Begin(t, k, o, a, p, g) ==
    /\ at[t] = "idle"
    /\ ops < MaxOps
    /\ ops' = ops + 1
    /\ at' = [at EXCEPT ![t] = o]
    /\ kind' = [kind EXCEPT ![t] = k]
    /\ acct' = [acct EXCEPT ![t] = a]
    /\ pw' = [pw EXCEPT ![t] = p]
    /\ dice' = [dice EXCEPT ![t] = g]
    /\ mine' = mine \cup {t}
    /\ overlap' = (overlap \/ Busy # {})
    /\ UNCHANGED <<password, strong, stored, session, banner, listed, past>>

\* submit, with what the user has typed: in register mode the identifier may
\* come from the dice, which makes one that nobody has.
Submit(t) ==
    /\ session = None
    /\ ~FormBusy
    /\ \E a \in Accounts, p \in Passwords, g \in BOOLEAN :
         /\ g => mode = "register" /\ past[a] = {}
         /\ Begin(t, IF mode = "login" /\ due THEN "code" ELSE mode, "request", a, p, g)
    /\ UNCHANGED <<mode, due>>

\* usePasskey, offered once a second factor is due.
UsePasskey(t) ==
    /\ session = None
    /\ ~FormBusy
    /\ mode = "login"
    /\ due
    /\ \E a \in Accounts, p \in Passwords : Begin(t, "passkey", "request", a, p, FALSE)
    /\ UNCHANGED <<mode, due>>

\* unlockBio, offered when credentials are stored.
UnlockBio(t) ==
    /\ session = None
    /\ ~BioBusy
    /\ mode # "recover"
    /\ ~due
    /\ stored.acct # None
    /\ Begin(t, "bio", "prompt", None, SomePassword, FALSE)
    /\ UNCHANGED <<mode, due>>

\* AccountPanel's del and signOutAll, each with a busy flag.
LeaveAccount(t) ==
    /\ session # None
    /\ \E k \in {"delete", "logoutAll"} :
         /\ \A u \in mine : kind[u] # k
         /\ Begin(t, k, "request", session, SomePassword, FALSE)
    /\ UNCHANGED <<mode, due>>

\* The account view is closed, and its busy flags with it; the handlers go on.
CloseAccount ==
    /\ session # None
    /\ mine # {}
    /\ mine' = {}
    /\ UNCHANGED <<password, strong, stored, session, banner, listed, mode, due, tasks, ops, past, overlap>>

\* The links between signing in and recovering.
RecoveryLink ==
    \/ mode = "login" /\ ~due /\ mode' = "recover"
    \/ mode = "recover" /\ mode' = "login"

\* switchMode clears the second factor; the recovery links keep it.
SwitchMode ==
    /\ session = None
    /\ \/ mode' \in {"register", "login"} /\ due' = FALSE
       \/ RecoveryLink /\ UNCHANGED due
    /\ UNCHANGED <<password, strong, stored, session, banner, listed, mine, tasks, ops, past, overlap>>

----------------------------------------------------------------------------
(* The awaits of a handler *)

Goto(t, o) ==
    /\ at' = [at EXCEPT ![t] = o]
    /\ IF o = "idle"
       THEN /\ kind' = [kind EXCEPT ![t] = "login"]
            /\ acct' = [acct EXCEPT ![t] = None]
            /\ pw' = [pw EXCEPT ![t] = SomePassword]
            /\ dice' = [dice EXCEPT ![t] = FALSE]
            /\ mine' = mine \ {t}
       ELSE UNCHANGED <<kind, acct, pw, dice, mine>>

\* unlockWithBiometric: the stored credentials, or null when the user cancels
\* or there are none.
BioPrompt(t) ==
    /\ at[t] = "prompt"
    /\ \/ /\ stored.acct # None
          /\ at' = [at EXCEPT ![t] = "request"]
          /\ acct' = [acct EXCEPT ![t] = stored.acct]
          /\ pw' = [pw EXCEPT ![t] = stored.pw]
          /\ UNCHANGED <<kind, dice, mine>>
       \/ Goto(t, "idle")
    /\ UNCHANGED <<password, strong, stored, session, banner, listed, mode, due, ops, past, overlap>>

\* registerAccount.  An identifier is registered once here; AccountKeys has
\* accounts that are deleted and created again.  The answer may be lost: then
\* the handler ends as in RequestFails.
RegisterAnswer(t) ==
    /\ at[t] = "request"
    /\ kind[t] = "register"
    /\ past[acct[t]] = {}
    /\ password' = [password EXCEPT ![acct[t]] = {pw[t]}]
    /\ past' = [past EXCEPT ![acct[t]] = @ \cup {pw[t]}]
    /\ Goto(t, "banner") \/ Goto(t, "idle")
    /\ UNCHANGED <<strong, stored, session, banner, listed, mode, due, ops, overlap>>

\* loginAccount and loginWithPasskey with the right password, and with the
\* second factor if the account has one.
LoginAnswer(t) ==
    /\ at[t] = "request"
    /\ pw[t] \in password[acct[t]]
    /\ kind[t] \in (IF acct[t] \in strong THEN {"code", "passkey"} ELSE {"login", "code", "bio"})
    /\ Goto(t, IF kind[t] = "bio" THEN "authed" ELSE "remember")
    /\ UNCHANGED <<password, strong, stored, session, banner, listed, mode, due, ops, past, overlap>>

\* TwoFactorRequiredError: the form, if it is still there, asks for the second
\* factor.
TwoFactorAnswer(t) ==
    /\ at[t] = "request"
    /\ kind[t] \in {"login", "bio"}
    /\ acct[t] \in strong
    /\ pw[t] \in password[acct[t]]
    /\ due' = (due \/ t \in mine)
    /\ mode' = IF t \in mine /\ kind[t] = "bio" /\ mode = "register" THEN "login" ELSE mode
    /\ Goto(t, "idle")
    /\ UNCHANGED <<password, strong, stored, session, banner, listed, ops, past, overlap>>

\* recoverAccount with the right code: the password is replaced, even if the
\* answer is lost.
RecoverAnswer(t) ==
    /\ at[t] = "request"
    /\ kind[t] = "recover"
    /\ password[acct[t]] # {}
    /\ password' = [password EXCEPT ![acct[t]] = {pw[t]}]
    /\ past' = [past EXCEPT ![acct[t]] = @ \cup {pw[t]}]
    /\ Goto(t, "remember") \/ Goto(t, "idle")
    /\ UNCHANGED <<strong, stored, session, banner, listed, mode, due, ops, overlap>>

\* deleteAccount or signOutEverywhere succeeds; if the answer is lost, the
\* vault stays open.
LeaveAnswer(t) ==
    /\ at[t] = "request"
    /\ kind[t] \in {"delete", "logoutAll"}
    /\ password[acct[t]] # {}
    /\ password' = [password EXCEPT ![acct[t]] = IF kind[t] = "delete" THEN {} ELSE @]
    /\ strong' = IF kind[t] = "delete" THEN strong \ {acct[t]} ELSE strong
    /\ Goto(t, "lock") \/ Goto(t, "idle")
    /\ UNCHANGED <<stored, session, banner, listed, mode, due, ops, past, overlap>>

\* Mutant: the credentials are stored before the server has accepted them.
RequestFailsRemembered(t) ==
    /\ at[t] = "request"
    /\ stored' = [acct |-> acct[t], pw |-> pw[t]]
    /\ Goto(t, "idle")
    /\ UNCHANGED <<password, strong, session, banner, listed, mode, due, ops, past, overlap>>

\* Mutant: busy is cleared after a success only.
RequestFailsBusy(t) ==
    /\ at[t] = "request"
    /\ at' = [at EXCEPT ![t] = "idle"]
    /\ UNCHANGED <<password, strong, device, kind, acct, pw, dice, ops, past, overlap>>

\* A request fails; the handler's finally clears the busy flag.
RequestFails(t) ==
    /\ at[t] = "request"
    /\ Goto(t, "idle")
    /\ UNCHANGED <<password, strong, stored, session, banner, listed, mode, due, ops, past, overlap>>

\* After registerAccount: props.onRecovery with the generated identifier, or
\* null.
ShowBanner(t) ==
    /\ at[t] = "banner"
    /\ banner' = IF dice[t] THEN acct[t] ELSE None
    /\ Goto(t, "remember")
    /\ UNCHANGED <<password, strong, stored, session, listed, mode, due, ops, past, overlap>>

\* Mutant: only the identifier is stored.
RememberIdentifier(t) ==
    /\ at[t] = "remember"
    /\ stored' = [acct |-> acct[t]]
    /\ Goto(t, "authed")
    /\ UNCHANGED <<password, strong, session, banner, listed, mode, due, ops, past, overlap>>

\* afterAuth: enableBiometric when asked for, as far as the device can.
Remember(t) ==
    /\ at[t] = "remember"
    /\ \/ stored' = [acct |-> acct[t], pw |-> pw[t]]
       \/ UNCHANGED stored
    /\ Goto(t, "authed")
    /\ UNCHANGED <<password, strong, session, banner, listed, mode, due, ops, past, overlap>>

\* onAuthed.  VaultScreen mounts and loads the account's items, unless it is
\* mounted already: then only its session changes.  AuthScreen is gone.
OnAuthed(t) ==
    /\ at[t] = "authed"
    /\ session' = acct[t]
    /\ listed' = IF session = None THEN acct[t] ELSE listed
    /\ at' = [at EXCEPT ![t] = "idle"]
    /\ kind' = [kind EXCEPT ![t] = "login"]
    /\ acct' = [acct EXCEPT ![t] = None]
    /\ pw' = [pw EXCEPT ![t] = SomePassword]
    /\ dice' = [dice EXCEPT ![t] = FALSE]
    /\ mine' = IF session = None THEN {} ELSE mine \ {t}
    /\ mode' = "register"
    /\ due' = FALSE
    /\ UNCHANGED <<password, strong, stored, banner, ops, past, overlap>>

----------------------------------------------------------------------------
(* The vault side *)

\* Mutant: the identifier of the last signup stays.
LockedKeepsBanner ==
    /\ session' = None
    /\ listed' = None
    /\ UNCHANGED banner

\* onLock.
Locked ==
    /\ session' = None
    /\ banner' = None
    /\ listed' = None

\* The Lock button and the idle timer; a new AuthScreen is mounted.
Lock ==
    /\ session # None
    /\ Locked
    /\ mine' = {}
    /\ UNCHANGED <<password, strong, stored, mode, due, tasks, ops, past, overlap>>

\* onDeleted after a deletion or a sign-out, which is App's onLock.
OnDeleted(t) ==
    /\ at[t] = "lock"
    /\ Locked
    /\ at' = [at EXCEPT ![t] = "idle"]
    /\ kind' = [kind EXCEPT ![t] = "login"]
    /\ acct' = [acct EXCEPT ![t] = None]
    /\ mine' = IF session = None THEN mine \ {t} ELSE {}
    /\ UNCHANGED <<password, strong, stored, mode, due, pw, dice, ops, past, overlap>>

\* "I've saved it".
DismissBanner ==
    /\ session # None
    /\ banner # None
    /\ banner' = None
    /\ UNCHANGED <<password, strong, stored, session, listed, mode, due, mine, tasks, ops, past, overlap>>

\* Two-factor is turned on or off for the session's account.
ToggleTwoFactor ==
    /\ session # None
    /\ password[session] # {}
    /\ strong' = IF session \in strong THEN strong \ {session} ELSE strong \cup {session}
    /\ UNCHANGED <<password, device, tasks, ops, past, overlap>>

\* disableBiometric.
DisableBiometric ==
    /\ session # None
    /\ stored.acct # None
    /\ stored' = NoCredentials
    /\ UNCHANGED <<password, strong, session, banner, listed, mode, due, mine, tasks, ops, past, overlap>>

----------------------------------------------------------------------------

Proceed(t) ==
    \/ BioPrompt(t) \/ RegisterAnswer(t) \/ LoginAnswer(t) \/ TwoFactorAnswer(t) \/ RecoverAnswer(t)
    \/ LeaveAnswer(t) \/ RequestFails(t) \/ ShowBanner(t) \/ Remember(t) \/ OnAuthed(t) \/ OnDeleted(t)

Input(t) == Submit(t) \/ UsePasskey(t) \/ UnlockBio(t) \/ LeaveAccount(t)

Next ==
    \/ \E t \in Tasks : Proceed(t) \/ Input(t)
    \/ SwitchMode \/ CloseAccount \/ Lock \/ DismissBanner \/ ToggleTwoFactor \/ DisableBiometric

Spec == Init /\ [][Next]_vars

\* Requests and prompts end, one way or another; the user owes nothing.
FairSpec == Spec /\ \A t \in Tasks : WF_vars(Proceed(t))

----------------------------------------------------------------------------
(* Properties *)

\* What the vault screen shows belongs to the session it works with: the items
\* and, after signup, the identifier to save.  VaultScreen loads the items
\* only when it mounts, so this needs sign-ins that do not overlap.
VaultIsSessions ==
    ~overlap /\ session # None => listed = session /\ banner \in {session, None}

\* The secure store never holds a password its account did not have: a
\* mistyped one, one that was never registered or another account's.
StoredWasAccepted == stored.acct # None => stored.pw \in past[stored.acct]

\* The form is never disabled for good.
FormAnswers == FormBusy ~> ~FormBusy
=============================================================================
