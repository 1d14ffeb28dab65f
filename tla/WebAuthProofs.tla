---------------------------- MODULE WebAuthProofs ----------------------------
(***************************************************************************)
(* Proofs about WebAuth, for any number of accounts, passwords and         *)
(* overlapping handlers.                                                   *)
(***************************************************************************)
EXTENDS WebAuth, TLAPS

----------------------------------------------------------------------------
(* Types *)

Awaits == {"idle", "prompt", "request", "banner", "remember", "authed", "lock"}

\* TypeOK, split by what the actions change together.
ServerType ==
    /\ password \in [Accounts -> SUBSET Passwords]
    /\ strong \subseteq Accounts
    /\ past \in [Accounts -> SUBSET Passwords]
StoredType == stored \in [acct : Account, pw : Passwords]
AppType == session \in Account /\ banner \in Account /\ listed \in Account
FormType == mode \in {"register", "login", "recover"} /\ mine \subseteq Tasks
TaskType ==
    /\ at \in [Tasks -> Awaits]
    /\ kind \in [Tasks -> Kinds]
    /\ acct \in [Tasks -> Account]
    /\ pw \in [Tasks -> Passwords]
CountType == ops \in 0 .. MaxOps
FlagType == due \in BOOLEAN /\ dice \in [Tasks -> BOOLEAN] /\ overlap \in BOOLEAN

\* The parts make up TypeOK.
LEMMA TypeParts ==
    TypeOK <=> ServerType /\ StoredType /\ AppType /\ FormType /\ TaskType /\ CountType /\ FlagType
  BY Zenon DEF TypeOK, ServerType, StoredType, AppType, FormType, TaskType, CountType, FlagType, Awaits

\* The defaults of the locals.
LEMMA Defaults == SomePassword \in Passwords /\ None \in Account /\ NoCredentials \in [acct : Account, pw : Passwords]
  BY WebAuthAssumption DEF SomePassword, Account, NoCredentials

\* Ending a handler, or moving it on, keeps the types of its locals.
LEMMA GotoType ==
    ASSUME TypeOK, NEW t \in Tasks, NEW o \in Awaits, Goto(t, o)
    PROVE  TaskType' /\ mine' \subseteq Tasks /\ dice' \in [Tasks -> BOOLEAN]
<1>t. TaskType /\ mine \subseteq Tasks /\ dice \in [Tasks -> BOOLEAN]
  BY TypeParts DEF FormType, FlagType
<1>1. CASE o = "idle"
  <2>1. at' = [at EXCEPT ![t] = o] /\ kind' = [kind EXCEPT ![t] = "login"] /\ "login" \in Kinds
    BY <1>1 DEF Goto, Kinds
  <2>2. acct' = [acct EXCEPT ![t] = None] /\ pw' = [pw EXCEPT ![t] = SomePassword] /\ mine' = mine \ {t}
    BY <1>1 DEF Goto
  <2>3. dice' = [dice EXCEPT ![t] = FALSE]
    BY <1>1 DEF Goto
  <2>4. TaskType' /\ mine' \subseteq Tasks
    BY <1>t, <2>1, <2>2, Defaults DEF TaskType
  <2>5. dice' \in [Tasks -> BOOLEAN]
    BY <1>t, <2>3
  <2> QED BY <2>4, <2>5
<1>2. CASE o # "idle"
  <2>1. at' = [at EXCEPT ![t] = o] /\ UNCHANGED <<kind, acct, pw, dice, mine>>
    BY <1>2 DEF Goto
  <2> QED BY <1>t, <2>1 DEF TaskType
<1> QED BY <1>1, <1>2

\* The start of a handler keeps the types.
LEMMA BeginType ==
    ASSUME TypeOK, NEW t \in Tasks, NEW k \in Kinds, NEW o \in Awaits, NEW a \in Account, NEW p \in Passwords,
           NEW g \in BOOLEAN, Begin(t, k, o, a, p, g), UNCHANGED <<mode, due>>
    PROVE  TypeOK'
<1>t. ServerType /\ StoredType /\ AppType /\ FormType /\ TaskType /\ CountType /\ FlagType
  BY TypeParts
<1>1. ServerType' /\ StoredType' /\ AppType'
  BY <1>t DEF Begin, ServerType, StoredType, AppType
<1>2. FormType' /\ TaskType'
  BY <1>t DEF Begin, FormType, TaskType
<1>3. CountType'
  BY <1>t, WebAuthAssumption DEF Begin, CountType
<1>4. dice' \in [Tasks -> BOOLEAN]
  BY <1>t DEF Begin, FlagType
<1>5. FlagType'
  BY Zenon, <1>t, <1>4 DEF Begin, FlagType
<1> QED BY Zenon, <1>1, <1>2, <1>3, <1>5
        DEF TypeOK, ServerType, StoredType, AppType, FormType, TaskType, CountType, FlagType, Awaits

\* Every step keeps the types.
LEMMA TypeNext == TypeOK /\ [Next]_vars => TypeOK'
<1> SUFFICES ASSUME TypeOK, [Next]_vars PROVE TypeOK'
  OBVIOUS
<1>t. ServerType /\ StoredType /\ AppType /\ FormType /\ TaskType /\ CountType /\ FlagType
  BY TypeParts
<1>q. ServerType' /\ StoredType' /\ AppType' /\ FormType' /\ TaskType' /\ CountType' /\ FlagType' => TypeOK'
  BY Zenon DEF TypeOK, ServerType, StoredType, AppType, FormType, TaskType, CountType, FlagType, Awaits
<1>o. {"idle", "prompt", "request", "banner", "remember", "authed", "lock"} \subseteq Awaits
  BY DEF Awaits
<1>a. Accounts \subseteq Account
  BY DEF Account
<1>1. ASSUME NEW t \in Tasks, Input(t) PROVE TypeOK'
  <2>1. CASE Submit(t)
    <3>1. (IF mode = "login" /\ due THEN "code" ELSE mode) \in Kinds
      BY <1>t DEF FormType, Kinds
    <3>2. PICK a \in Accounts, p \in Passwords, g \in BOOLEAN :
            Begin(t, IF mode = "login" /\ due THEN "code" ELSE mode, "request", a, p, g)
      BY <2>1 DEF Submit
    <3> QED BY <1>o, <1>a, <2>1, <3>1, <3>2, BeginType DEF Submit
  <2>2. CASE UsePasskey(t)
    <3>1. PICK a \in Accounts, p \in Passwords : Begin(t, "passkey", "request", a, p, FALSE)
      BY <2>2 DEF UsePasskey
    <3> QED BY <1>o, <1>a, <2>2, <3>1, BeginType DEF UsePasskey, Kinds
  <2>3. CASE UnlockBio(t)
    <3>1. Begin(t, "bio", "prompt", None, SomePassword, FALSE)
      BY <2>3 DEF UnlockBio
    <3> QED BY <1>o, <2>3, <3>1, BeginType, Defaults DEF UnlockBio, Kinds
  <2>4. CASE LeaveAccount(t)
    <3>1. PICK k \in {"delete", "logoutAll"} : Begin(t, k, "request", session, SomePassword, FALSE)
      BY <2>4 DEF LeaveAccount
    <3>2. session \in Account /\ k \in Kinds
      BY <1>t DEF AppType, Kinds
    <3> QED BY <1>o, <2>4, <3>1, <3>2, BeginType, Defaults DEF LeaveAccount
  <2> QED BY <1>1, <2>1, <2>2, <2>3, <2>4 DEF Input
<1>2. ASSUME NEW t \in Tasks, NEW o \in Awaits, Goto(t, o), ServerType', StoredType', AppType',
             mode' \in {"register", "login", "recover"}, due' \in BOOLEAN, UNCHANGED <<ops, overlap>>
      PROVE  TypeOK'
  <2>1. TaskType' /\ mine' \subseteq Tasks /\ dice' \in [Tasks -> BOOLEAN]
    BY <1>2, GotoType
  <2>2. CountType'
    BY <1>t, <1>2 DEF CountType
  <2>3. FlagType'
    BY Zenon, <1>t, <1>2, <2>1 DEF FlagType
  <2> QED BY <1>q, <1>2, <2>1, <2>2, <2>3 DEF FormType
<1>f. mode \in {"register", "login", "recover"} /\ due \in BOOLEAN
  BY <1>t DEF FormType, FlagType
<1>3. ASSUME NEW t \in Tasks, Proceed(t) PROVE TypeOK'
  <2>p. pw[t] \in Passwords /\ acct[t] \in Account
    BY <1>t DEF TaskType
  <2>1. CASE BioPrompt(t)
    <3>1. CASE Goto(t, "idle")
      BY <1>t, <1>o, <1>f, <1>2, <2>1, <3>1 DEF BioPrompt, ServerType, StoredType, AppType
    <3>2. CASE /\ at' = [at EXCEPT ![t] = "request"] /\ acct' = [acct EXCEPT ![t] = stored.acct]
               /\ pw' = [pw EXCEPT ![t] = stored.pw] /\ UNCHANGED <<kind, dice, mine>>
      <4>1. TaskType'
        BY <1>t, <1>o, <3>2 DEF TaskType, StoredType
      <4>2. ServerType' /\ StoredType' /\ AppType' /\ FormType' /\ CountType'
        BY <1>t, <2>1, <3>2 DEF BioPrompt, ServerType, StoredType, AppType, FormType, CountType
      <4>3. FlagType'
        BY Zenon, <1>t, <2>1, <3>2 DEF BioPrompt, FlagType
      <4> QED BY <1>q, <4>1, <4>2, <4>3
    <3> QED BY <2>1, <3>1, <3>2 DEF BioPrompt
  <2>2. CASE RegisterAnswer(t) \/ RecoverAnswer(t)
    <3>1. ServerType'
      BY <1>t, <2>2, <2>p DEF RegisterAnswer, RecoverAnswer, ServerType
    <3>2. StoredType' /\ AppType'
      BY <1>t, <2>2 DEF RegisterAnswer, RecoverAnswer, StoredType, AppType
    <3> QED BY <1>o, <1>f, <1>2, <2>2, <3>1, <3>2 DEF RegisterAnswer, RecoverAnswer
  <2>3. CASE LoginAnswer(t) \/ RequestFails(t)
    <3>1. ServerType' /\ StoredType' /\ AppType'
      BY <1>t, <2>3 DEF LoginAnswer, RequestFails, ServerType, StoredType, AppType
    <3> QED BY <1>o, <1>f, <1>2, <2>3, <3>1 DEF LoginAnswer, RequestFails
  <2>4. CASE TwoFactorAnswer(t)
    <3>1. ServerType' /\ StoredType' /\ AppType'
      BY <1>t, <2>4 DEF TwoFactorAnswer, ServerType, StoredType, AppType
    <3>2. mode' \in {"register", "login", "recover"}
      BY <1>f, <2>4 DEF TwoFactorAnswer
    <3>3. due' \in BOOLEAN
      BY Zenon, <2>4 DEF TwoFactorAnswer
    <3> QED BY <1>o, <1>2, <2>4, <3>1, <3>2, <3>3 DEF TwoFactorAnswer
  <2>5. CASE LeaveAnswer(t)
    <3>1. ServerType'
      <4>1. password' = password \/ password' = [password EXCEPT ![acct[t]] = {}]
            \/ password' = [password EXCEPT ![acct[t]] = password[acct[t]]]
        BY <2>5 DEF LeaveAnswer
      <4>2. strong' \subseteq Accounts /\ UNCHANGED past
        BY <1>t, <2>5 DEF LeaveAnswer, ServerType
      <4> QED BY <1>t, <4>1, <4>2 DEF ServerType
    <3>2. StoredType' /\ AppType'
      BY <1>t, <2>5 DEF LeaveAnswer, StoredType, AppType
    <3> QED BY <1>o, <1>f, <1>2, <2>5, <3>1, <3>2 DEF LeaveAnswer
  <2>6. CASE ShowBanner(t)
    <3>1. ServerType' /\ StoredType' /\ AppType'
      BY <1>t, <2>6, <2>p, Defaults DEF ShowBanner, ServerType, StoredType, AppType
    <3> QED BY <1>o, <1>f, <1>2, <2>6, <3>1 DEF ShowBanner
  <2>7. CASE Remember(t)
    <3>1. ServerType' /\ StoredType' /\ AppType'
      BY <1>t, <2>7, <2>p DEF Remember, ServerType, StoredType, AppType
    <3> QED BY <1>o, <1>f, <1>2, <2>7, <3>1 DEF Remember
  <2>8. CASE OnAuthed(t)
    <3>1. ServerType' /\ StoredType' /\ AppType' /\ CountType'
      BY <1>t, <2>8, <2>p DEF OnAuthed, ServerType, StoredType, AppType, CountType
    <3>2. FormType'
      BY <1>t, <2>8 DEF OnAuthed, FormType
    <3>3. TaskType'
      BY <1>t, <1>o, <2>8, Defaults DEF OnAuthed, TaskType, Kinds
    <3>4. dice' \in [Tasks -> BOOLEAN]
      BY <1>t, <2>8 DEF OnAuthed, FlagType
    <3>5. FlagType'
      BY Zenon, <1>t, <2>8, <3>4 DEF OnAuthed, FlagType
    <3> QED BY <1>q, <3>1, <3>2, <3>3, <3>5
  <2>9. CASE OnDeleted(t)
    <3>1. ServerType' /\ StoredType' /\ AppType' /\ CountType'
      BY <1>t, <2>9, Defaults DEF OnDeleted, Locked, ServerType, StoredType, AppType, CountType
    <3>2. FormType'
      BY <1>t, <2>9 DEF OnDeleted, FormType
    <3>3. TaskType'
      BY <1>t, <1>o, <2>9, Defaults DEF OnDeleted, TaskType, Kinds
    <3>4. FlagType'
      BY Zenon, <1>t, <2>9 DEF OnDeleted, FlagType
    <3> QED BY <1>q, <3>1, <3>2, <3>3, <3>4
  <2> QED BY <1>3, <2>1, <2>2, <2>3, <2>4, <2>5, <2>6, <2>7, <2>8, <2>9 DEF Proceed
<1>4. CASE SwitchMode
  <2>1. ServerType' /\ StoredType' /\ AppType' /\ TaskType' /\ CountType'
    BY <1>t, <1>4 DEF SwitchMode, RecoveryLink, tasks, ServerType, StoredType, AppType, TaskType, CountType
  <2>2. FormType'
    BY <1>t, <1>4 DEF SwitchMode, RecoveryLink, FormType
  <2>3. due' \in BOOLEAN
    BY Zenon, <1>f, <1>4 DEF SwitchMode, RecoveryLink
  <2>4. FlagType'
    BY Zenon, <1>t, <1>4, <2>3 DEF SwitchMode, RecoveryLink, tasks, FlagType
  <2> QED BY <1>q, <2>1, <2>2, <2>4
<1>5. CASE Lock \/ CloseAccount \/ DismissBanner \/ ToggleTwoFactor \/ DisableBiometric \/ UNCHANGED vars
  <2>1. ServerType'
    BY <1>t, <1>5, WebAuthAssumption DEF Lock, CloseAccount, DismissBanner, ToggleTwoFactor, DisableBiometric, vars, ServerType, AppType, Account
  <2>2. StoredType' /\ AppType' /\ FormType' /\ TaskType' /\ CountType'
    BY <1>t, <1>5, Defaults DEF Lock, CloseAccount, DismissBanner, ToggleTwoFactor, DisableBiometric, vars, tasks, device, Locked, StoredType,
       AppType, FormType, TaskType, CountType
  <2>3. UNCHANGED <<due, dice, overlap>>
    BY <1>5 DEF Lock, CloseAccount, DismissBanner, ToggleTwoFactor, DisableBiometric, vars, tasks, device
  <2>4. FlagType'
    BY Zenon, <1>t, <2>3 DEF FlagType
  <2> QED BY <1>q, <2>1, <2>2, <2>4
<1> QED BY <1>1, <1>3, <1>4, <1>5 DEF Next

\* The initial state has the types.
LEMMA TypeInit == Init => TypeOK
<1> SUFFICES ASSUME Init PROVE TypeOK
  OBVIOUS
<1>1. ServerType /\ StoredType /\ AppType /\ FormType
  BY Defaults DEF Init, ServerType, StoredType, AppType, FormType
<1>2. TaskType /\ CountType
  BY Defaults, WebAuthAssumption DEF Init, TaskType, CountType, Awaits, Kinds
<1>3. dice \in [Tasks -> BOOLEAN]
  BY DEF Init
<1>4. FlagType
  BY Zenon, <1>3 DEF Init, FlagType
<1> QED BY <1>1, <1>2, <1>4, TypeParts

\* The device's, the screens' and the handlers' state always has its type.
THEOREM TypeCorrect == Spec => []TypeOK
  BY TypeInit, TypeNext, PTL DEF Spec

----------------------------------------------------------------------------
(* The secure store *)

\* A handler past its prompt has an account.
HasAccount == \A t \in Tasks : at[t] \notin {"idle", "prompt"} => acct[t] \in Accounts

\* A handler that may store its password had it accepted.
AcceptedOK ==
    /\ \A a \in Accounts : password[a] \subseteq past[a]
    /\ \A t \in Tasks : at[t] \in {"banner", "remember"} => pw[t] \in past[acct[t]]
    /\ StoredWasAccepted

\* The handler that moves on, and the others.
LEMMA GotoTasks ==
    ASSUME TypeOK, NEW t \in Tasks, NEW o, Goto(t, o)
    PROVE  /\ at'[t] = o
           /\ o # "idle" => acct'[t] = acct[t] /\ pw'[t] = pw[t] /\ kind'[t] = kind[t]
           /\ \A u \in Tasks \ {t} : at'[u] = at[u] /\ acct'[u] = acct[u] /\ pw'[u] = pw[u] /\ kind'[u] = kind[u]
<1>t. TaskType
  BY TypeParts
<1>1. CASE o = "idle"
  BY <1>t, <1>1 DEF Goto, TaskType
<1>2. CASE o # "idle"
  BY <1>t, <1>2 DEF Goto, TaskType
<1> QED BY <1>1, <1>2

\* The handler that starts, and the others.
LEMMA BeginTasks ==
    ASSUME TypeOK, NEW t \in Tasks, NEW k, NEW o, NEW a, NEW p, NEW g, Begin(t, k, o, a, p, g)
    PROVE  /\ at'[t] = o /\ acct'[t] = a /\ pw'[t] = p /\ kind'[t] = k
           /\ \A u \in Tasks \ {t} : at'[u] = at[u] /\ acct'[u] = acct[u] /\ pw'[u] = pw[u] /\ kind'[u] = kind[u]
           /\ UNCHANGED <<password, past, stored, session, banner, listed>>
  BY TypeParts DEF Begin, TaskType

\* What a step of the user makes of a handler and of the device.
LEMMA InputTasks ==
    ASSUME TypeOK, NEW t \in Tasks, Input(t)
    PROVE  \E k, o, a, p, g :
             /\ Begin(t, k, o, a, p, g)
             /\ (o = "prompt" /\ k = "bio") \/ (o = "request" /\ a \in Accounts)
             /\ k \in {"delete", "logoutAll"} \/ session = None
<1>1. session # None => session \in Accounts
  BY TypeParts DEF AppType, Account
<1>2. CASE Submit(t)
  <2>1. PICK a \in Accounts, p \in Passwords, g \in BOOLEAN :
          Begin(t, IF mode = "login" /\ due THEN "code" ELSE mode, "request", a, p, g)
    BY <1>2 DEF Submit
  <2> QED BY <1>2, <2>1 DEF Submit
<1>3. CASE UsePasskey(t)
  BY <1>3 DEF UsePasskey
<1>4. CASE UnlockBio(t)
  <2>1. Begin(t, "bio", "prompt", None, SomePassword, FALSE) /\ session = None
    BY <1>4 DEF UnlockBio
  <2> QED BY <2>1
<1>5. CASE LeaveAccount(t)
  <2>1. PICK k \in {"delete", "logoutAll"} : Begin(t, k, "request", session, SomePassword, FALSE)
    BY <1>5 DEF LeaveAccount
  <2>2. session \in Accounts
    BY <1>1, <1>5 DEF LeaveAccount
  <2> QED BY <2>1, <2>2
<1> QED BY <1>2, <1>3, <1>4, <1>5 DEF Input

\* The steps that leave every handler alone.
LEMMA OtherSteps ==
    ASSUME SwitchMode \/ Lock \/ CloseAccount \/ DismissBanner \/ ToggleTwoFactor \/ DisableBiometric \/ UNCHANGED vars
    PROVE  /\ UNCHANGED <<at, kind, acct, pw, dice, password, past, overlap>>
           /\ stored' = stored \/ stored' = NoCredentials
           /\ \/ UNCHANGED <<session, listed>> /\ (banner' = banner \/ banner' = None)
              \/ session' = None /\ banner' = None /\ listed' = None
  BY DEF SwitchMode, RecoveryLink, Lock, CloseAccount, DismissBanner, ToggleTwoFactor, DisableBiometric, Locked, vars, tasks, device

\* A handler past its prompt has an account.
LEMMA HasAccountNext ==
    ASSUME TypeOK, HasAccount, [Next]_vars
    PROVE  HasAccount'
<1>1. ASSUME NEW t \in Tasks, NEW o, Goto(t, o), o = "idle" \/ at[t] \notin {"idle", "prompt"} PROVE HasAccount'
  BY <1>1, GotoTasks DEF HasAccount
<1>2. ASSUME NEW t \in Tasks, Proceed(t) PROVE HasAccount'
  <2>1. CASE BioPrompt(t)
    <3>1. CASE at' = [at EXCEPT ![t] = "request"] /\ acct' = [acct EXCEPT ![t] = stored.acct] /\ stored.acct # None
      <4>1. stored.acct \in Accounts
        BY <3>1, TypeParts DEF StoredType, Account
      <4> QED BY <3>1, <4>1, TypeParts DEF TaskType, HasAccount
    <3> QED BY <1>1, <2>1, <3>1 DEF BioPrompt
  <2>2. CASE \/ RegisterAnswer(t) \/ LoginAnswer(t) \/ TwoFactorAnswer(t) \/ RecoverAnswer(t) \/ LeaveAnswer(t)
             \/ RequestFails(t) \/ ShowBanner(t) \/ Remember(t)
    BY <1>1, <2>2 DEF RegisterAnswer, LoginAnswer, TwoFactorAnswer, RecoverAnswer, LeaveAnswer, RequestFails, ShowBanner, Remember
  <2>3. CASE OnAuthed(t) \/ OnDeleted(t)
    <3>1. at' = [at EXCEPT ![t] = "idle"] /\ acct' = [acct EXCEPT ![t] = None]
      BY <2>3 DEF OnAuthed, OnDeleted
    <3> QED BY <3>1, TypeParts DEF TaskType, HasAccount
  <2> QED BY <1>2, <2>1, <2>2, <2>3 DEF Proceed
<1>3. ASSUME NEW t \in Tasks, Input(t) PROVE HasAccount'
  <2>1. PICK k, o, a, p, g : Begin(t, k, o, a, p, g) /\ (o = "prompt" \/ a \in Accounts)
    BY <1>3, InputTasks
  <2> QED BY <2>1, BeginTasks DEF HasAccount
<1>4. ASSUME SwitchMode \/ Lock \/ CloseAccount \/ DismissBanner \/ ToggleTwoFactor \/ DisableBiometric \/ UNCHANGED vars PROVE HasAccount'
  BY <1>4, OtherSteps DEF HasAccount
<1> QED BY <1>2, <1>3, <1>4 DEF Next

\* What is stored, or about to be, was a password of its account.
LEMMA AcceptedNext ==
    ASSUME TypeOK, HasAccount, AcceptedOK, [Next]_vars
    PROVE  AcceptedOK'
<1>t. /\ past \in [Accounts -> SUBSET Passwords] /\ password \in [Accounts -> SUBSET Passwords]
      /\ stored.acct # None => stored.acct \in Accounts
  BY TypeParts DEF ServerType, StoredType, Account
<1>1. ASSUME NEW t \in Tasks, Proceed(t) PROVE AcceptedOK'
  <2>1. CASE BioPrompt(t)
    <3>1. UNCHANGED <<password, past, stored>> /\ \E o \in {"request", "idle"} : at' = [at EXCEPT ![t] = o]
      BY <2>1 DEF BioPrompt, Goto
    <3>2. \A u \in Tasks : at'[u] \in {"banner", "remember"} => u # t /\ at'[u] = at[u] /\ pw'[u] = pw[u] /\ acct'[u] = acct[u]
      BY <2>1, <3>1, GotoTasks, TypeParts DEF BioPrompt, TaskType
    <3> QED BY <3>1, <3>2 DEF AcceptedOK, StoredWasAccepted
  <2>2. CASE RegisterAnswer(t) \/ RecoverAnswer(t)
    <3>1. PICK o \in {"banner", "remember", "idle"} :
            /\ Goto(t, o) /\ acct[t] \in Accounts /\ UNCHANGED stored
            /\ password' = [password EXCEPT ![acct[t]] = {pw[t]}]
            /\ past' = [past EXCEPT ![acct[t]] = @ \cup {pw[t]}]
      BY <2>2 DEF RegisterAnswer, RecoverAnswer, HasAccount
    <3>2. /\ \A a \in Accounts : past[a] \subseteq past'[a]
          /\ pw[t] \in past'[acct[t]]
          /\ \A a \in Accounts : password'[a] \subseteq password[a] \cup past'[a]
      BY <1>t, <3>1
    <3>3. \A u \in Tasks : at'[u] \in {"banner", "remember"} =>
            /\ pw'[u] = pw[u] /\ acct'[u] = acct[u]
            /\ u = t \/ at[u] \in {"banner", "remember"}
      BY <3>1, GotoTasks
    <3>4. \A u \in Tasks : at'[u] \in {"banner", "remember"} => pw'[u] \in past'[acct'[u]]
      BY <3>2, <3>3 DEF AcceptedOK, HasAccount
    <3>5. StoredWasAccepted'
      BY <1>t, <3>1, <3>2 DEF AcceptedOK, StoredWasAccepted
    <3>6. \A a \in Accounts : password'[a] \subseteq past'[a]
      BY <3>2 DEF AcceptedOK
    <3> QED BY <3>4, <3>5, <3>6 DEF AcceptedOK
  <2>3. CASE LoginAnswer(t)
    <3>1. PICK o \in {"authed", "remember"} : Goto(t, o) /\ UNCHANGED <<password, past, stored>>
      BY <2>3 DEF LoginAnswer
    <3>2. pw[t] \in past[acct[t]]
      BY <2>3 DEF LoginAnswer, HasAccount, AcceptedOK
    <3> QED BY <3>1, <3>2, GotoTasks DEF AcceptedOK, StoredWasAccepted
  <2>4. CASE TwoFactorAnswer(t) \/ RequestFails(t)
    <3>1. Goto(t, "idle") /\ UNCHANGED <<password, past, stored>>
      BY <2>4 DEF TwoFactorAnswer, RequestFails
    <3> QED BY <3>1, GotoTasks DEF AcceptedOK, StoredWasAccepted
  <2>5. CASE LeaveAnswer(t)
    <3>1. (Goto(t, "lock") \/ Goto(t, "idle")) /\ UNCHANGED <<past, stored>> /\ acct[t] \in Accounts
      BY <2>5 DEF LeaveAnswer, HasAccount
    <3>2. \A a \in Accounts : password'[a] \subseteq password[a]
      BY <1>t, <2>5, <3>1 DEF LeaveAnswer
    <3> QED BY <3>1, <3>2, GotoTasks DEF AcceptedOK, StoredWasAccepted
  <2>6. CASE ShowBanner(t)
    <3>1. Goto(t, "remember") /\ UNCHANGED <<password, past, stored>> /\ at[t] = "banner"
      BY <2>6 DEF ShowBanner
    <3> QED BY <3>1, GotoTasks DEF AcceptedOK, StoredWasAccepted
  <2>7. CASE Remember(t)
    <3>1. Goto(t, "authed") /\ UNCHANGED <<password, past>> /\ at[t] = "remember"
      BY <2>7 DEF Remember
    <3>2. StoredWasAccepted'
      BY <2>7, <3>1 DEF Remember, AcceptedOK, StoredWasAccepted
    <3> QED BY <3>1, <3>2, GotoTasks DEF AcceptedOK
  <2>8. CASE OnAuthed(t) \/ OnDeleted(t)
    <3>1. at' = [at EXCEPT ![t] = "idle"] /\ acct' = [acct EXCEPT ![t] = None] /\ UNCHANGED <<password, past, stored>>
          /\ (pw' = [pw EXCEPT ![t] = SomePassword] \/ pw' = pw)
      BY <2>8 DEF OnAuthed, OnDeleted
    <3>2. \A u \in Tasks : at'[u] \in {"banner", "remember"} => at'[u] = at[u] /\ pw'[u] = pw[u] /\ acct'[u] = acct[u]
      BY <3>1, TypeParts DEF TaskType
    <3> QED BY <3>1, <3>2 DEF AcceptedOK, StoredWasAccepted
  <2> QED BY <1>1, <2>1, <2>2, <2>3, <2>4, <2>5, <2>6, <2>7, <2>8 DEF Proceed
<1>2. ASSUME NEW t \in Tasks, Input(t) PROVE AcceptedOK'
  <2>1. PICK k, o, a, p, g : Begin(t, k, o, a, p, g) /\ o \in {"prompt", "request"}
    BY <1>2, InputTasks
  <2> QED BY <2>1, BeginTasks DEF AcceptedOK, StoredWasAccepted
<1>3. ASSUME SwitchMode \/ Lock \/ CloseAccount \/ DismissBanner \/ ToggleTwoFactor \/ DisableBiometric \/ UNCHANGED vars PROVE AcceptedOK'
  BY <1>3, OtherSteps DEF AcceptedOK, StoredWasAccepted, NoCredentials
<1> QED BY <1>1, <1>2, <1>3 DEF Next

\* The secure store never holds a password that its account did not have, also
\* when sign-ins, recoveries and deletions overlap.
THEOREM StoredAlwaysAccepted == Spec => []StoredWasAccepted
<1> DEFINE Inv == TypeOK /\ HasAccount /\ AcceptedOK
<1>1. Init => Inv
  BY TypeInit DEF Init, HasAccount, AcceptedOK, StoredWasAccepted, NoCredentials
<1>2. Inv /\ [Next]_vars => Inv'
  BY TypeNext, HasAccountNext, AcceptedNext
<1>3. Inv => StoredWasAccepted
  BY DEF AcceptedOK
<1>4. QED
  BY <1>1, <1>2, <1>3, PTL DEF Spec

----------------------------------------------------------------------------
(* Sign-ins that do not overlap.  The one in flight is alone, and a signup *)
(* shows its own identifier before it has a session.                       *)

Leaving == {"delete", "logoutAll"}

AloneInv ==
    ~overlap =>
      /\ \A t \in Busy : Busy = {t}
      /\ \A t \in Busy : kind[t] \notin Leaving => session = None
      /\ \A t \in Busy : at[t] \in {"banner", "remember", "authed"} => kind[t] \notin Leaving
      /\ session = None => banner = None \/ \E t \in Busy : at[t] \in {"remember", "authed"} /\ banner = acct[t]
      /\ VaultIsSessions

\* A handler that is alone goes on, or ends.
LEMMA AloneGoes ==
    ASSUME TypeOK, AloneInv, NEW t \in Tasks, NEW o, at[t] # "idle", Goto(t, o), UNCHANGED <<session, listed, overlap>>,
           banner' = banner \/ (banner' \in {None, acct[t]} /\ o = "remember" /\ session = None),
           o \in {"banner", "remember", "authed"} => kind[t] \notin Leaving,
           banner' = banner => o \in {"remember", "authed"} \/ at[t] \in {"prompt", "request"}
    PROVE  AloneInv'
<1>1. SUFFICES ASSUME ~overlap PROVE AloneInv'
  BY DEF AloneInv
<1>2. t \in Busy /\ Busy = {t}
  BY <1>1 DEF AloneInv, Busy
<1>3. /\ at'[t] = o
      /\ o # "idle" => acct'[t] = acct[t] /\ kind'[t] = kind[t]
      /\ \A u \in Tasks \ {t} : at'[u] = at[u]
  BY GotoTasks
<1>4. Busy' \subseteq {t} /\ (o # "idle" => Busy' = {t}) /\ (o = "idle" => Busy' = {})
  BY <1>2, <1>3 DEF Busy
<1>5. /\ kind[t] \notin Leaving => session = None
      /\ session = None => banner = None \/ (at[t] \in {"remember", "authed"} /\ banner = acct[t])
      /\ session # None => listed = session /\ banner \in {session, None}
  BY <1>1, <1>2 DEF AloneInv, VaultIsSessions
<1>6. /\ \A u \in Busy' : Busy' = {u}
      /\ \A u \in Busy' : kind'[u] \notin Leaving => session' = None
      /\ \A u \in Busy' : at'[u] \in {"banner", "remember", "authed"} => kind'[u] \notin Leaving
  BY <1>3, <1>4, <1>5
<1>7. session' = None => banner' = None \/ \E u \in Busy' : at'[u] \in {"remember", "authed"} /\ banner' = acct'[u]
  BY <1>3, <1>4, <1>5
<1>8. VaultIsSessions'
  BY <1>5 DEF VaultIsSessions
<1> QED BY <1>6, <1>7, <1>8 DEF AloneInv

\* Every step keeps it.
LEMMA AloneNext ==
    ASSUME TypeOK, HasAccount, AloneInv, [Next]_vars
    PROVE  AloneInv'
<1>1. ASSUME NEW t \in Tasks, Input(t) PROVE AloneInv'
  <2>1. PICK k, o, a, p, g : /\ Begin(t, k, o, a, p, g) /\ o \in {"prompt", "request"}
                             /\ k \in Leaving \/ session = None
    BY <1>1, InputTasks DEF Leaving
  <2>2. SUFFICES ASSUME ~overlap' PROVE AloneInv'
    BY DEF AloneInv
  <2>3. ~overlap /\ Busy = {}
    BY Zenon, <2>1, <2>2 DEF Begin
  <2>4. /\ at'[t] = o /\ kind'[t] = k /\ UNCHANGED <<session, banner, listed>>
        /\ \A u \in Tasks \ {t} : at'[u] = at[u]
    BY <2>1, BeginTasks
  <2>5. Busy' = {t}
    BY <2>1, <2>3, <2>4 DEF Busy
  <2>6. (session = None => banner = None) /\ (session # None => listed = session /\ banner \in {session, None})
    BY <2>3 DEF AloneInv, VaultIsSessions
  <2> QED BY <2>1, <2>4, <2>5, <2>6 DEF AloneInv, VaultIsSessions
<1>2. ASSUME NEW t \in Tasks, Proceed(t) PROVE AloneInv'
  <2>1. CASE BioPrompt(t)
    <3>1. CASE Goto(t, "idle")
      BY <2>1, <3>1, AloneGoes DEF BioPrompt
    <3>2. CASE at' = [at EXCEPT ![t] = "request"] /\ acct' = [acct EXCEPT ![t] = stored.acct] /\ UNCHANGED kind
      <4>1. SUFFICES ASSUME ~overlap PROVE AloneInv'
        BY <2>1 DEF AloneInv, BioPrompt
      <4>2. Busy = {t} /\ at[t] = "prompt" /\ UNCHANGED <<session, banner, listed, overlap>>
        BY <2>1, <4>1 DEF AloneInv, Busy, BioPrompt
      <4>3. Busy' = {t} /\ at'[t] = "request"
        BY <3>2, <4>2, TypeParts DEF Busy, TaskType
      <4> QED BY <3>2, <4>1, <4>2, <4>3 DEF AloneInv, VaultIsSessions
    <3> QED BY <2>1, <3>1, <3>2 DEF BioPrompt
  <2>2. CASE RegisterAnswer(t) \/ RecoverAnswer(t) \/ LoginAnswer(t)
    <3>1. PICK o \in {"banner", "remember", "authed", "idle"} : Goto(t, o)
      BY <2>2 DEF RegisterAnswer, RecoverAnswer, LoginAnswer
    <3>2. at[t] = "request" /\ kind[t] \notin Leaving /\ UNCHANGED <<session, banner, listed, overlap>>
      BY <2>2 DEF RegisterAnswer, RecoverAnswer, LoginAnswer, Leaving
    <3> QED BY <3>1, <3>2, AloneGoes
  <2>3. CASE TwoFactorAnswer(t) \/ RequestFails(t) \/ LeaveAnswer(t)
    <3>1. PICK o \in {"idle", "lock"} : Goto(t, o)
      BY <2>3 DEF TwoFactorAnswer, RequestFails, LeaveAnswer
    <3>2. at[t] = "request" /\ UNCHANGED <<session, banner, listed, overlap>>
      BY <2>3 DEF TwoFactorAnswer, RequestFails, LeaveAnswer
    <3> QED BY <3>1, <3>2, AloneGoes
  <2>4. CASE ShowBanner(t)
    <3>1. /\ at[t] = "banner" /\ Goto(t, "remember") /\ UNCHANGED <<session, listed, overlap>>
          /\ banner' \in {None, acct[t]}
      BY <2>4 DEF ShowBanner
    <3>2. SUFFICES ASSUME ~overlap PROVE AloneInv'
      BY <3>1 DEF AloneInv
    <3>3. kind[t] \notin Leaving /\ session = None
      BY <3>1, <3>2 DEF AloneInv, Busy
    <3> QED BY <3>1, <3>3, AloneGoes
  <2>5. CASE Remember(t)
    <3>1. at[t] = "remember" /\ Goto(t, "authed") /\ UNCHANGED <<session, listed, overlap, banner>>
      BY <2>5 DEF Remember
    <3>2. SUFFICES ASSUME ~overlap PROVE AloneInv'
      BY <3>1 DEF AloneInv
    <3>3. kind[t] \notin Leaving
      BY <3>1, <3>2 DEF AloneInv, Busy
    <3> QED BY <3>1, <3>3, AloneGoes
  <2>6. CASE OnAuthed(t)
    <3>1. /\ at[t] = "authed" /\ at' = [at EXCEPT ![t] = "idle"] /\ session' = acct[t]
          /\ session = None => listed' = acct[t]
          /\ UNCHANGED <<banner, overlap>>
      BY <2>6 DEF OnAuthed
    <3>2. SUFFICES ASSUME ~overlap PROVE AloneInv'
      BY <3>1 DEF AloneInv
    <3>3. t \in Busy /\ Busy = {t} /\ acct[t] # None
      BY <3>1, <3>2, WebAuthAssumption DEF AloneInv, Busy, HasAccount
    <3>4. session = None /\ banner \in {None, acct[t]}
      BY <3>1, <3>2, <3>3 DEF AloneInv
    <3>5. Busy' = {}
      BY <3>1, <3>3, TypeParts DEF Busy, TaskType
    <3> QED BY <3>1, <3>3, <3>4, <3>5 DEF AloneInv, VaultIsSessions
  <2>7. CASE OnDeleted(t)
    <3>1. at[t] = "lock" /\ at' = [at EXCEPT ![t] = "idle"] /\ session' = None /\ banner' = None /\ UNCHANGED overlap
      BY <2>7 DEF OnDeleted, Locked
    <3>2. SUFFICES ASSUME ~overlap PROVE AloneInv'
      BY <3>1 DEF AloneInv
    <3>3. Busy' = {}
      BY <3>1, <3>2, TypeParts DEF AloneInv, Busy, TaskType
    <3> QED BY <3>1, <3>3 DEF AloneInv, VaultIsSessions
  <2> QED BY <1>2, <2>1, <2>2, <2>3, <2>4, <2>5, <2>6, <2>7 DEF Proceed
<1>3. ASSUME SwitchMode \/ Lock \/ CloseAccount \/ DismissBanner \/ ToggleTwoFactor \/ DisableBiometric \/ UNCHANGED vars PROVE AloneInv'
  <2>1. /\ UNCHANGED <<at, kind, acct, overlap>> /\ Busy' = Busy
        /\ \/ UNCHANGED <<session, listed>> /\ (banner' = banner \/ banner' = None)
           \/ session' = None /\ banner' = None
    BY <1>3, OtherSteps DEF Busy
  <2> QED BY <2>1 DEF AloneInv, VaultIsSessions
<1> QED BY <1>1, <1>2, <1>3 DEF Next

\* What the vault screen shows belongs to its session, as long as handlers do
\* not overlap.
THEOREM VaultAlwaysSessions == Spec => []VaultIsSessions
<1> DEFINE Inv == TypeOK /\ HasAccount /\ AloneInv
<1>1. Init => Inv
  BY TypeInit DEF Init, HasAccount, AloneInv, VaultIsSessions, Busy
<1>2. Inv /\ [Next]_vars => Inv'
  BY TypeNext, HasAccountNext, AloneNext
<1>3. Inv => VaultIsSessions
  BY DEF AloneInv, VaultIsSessions
<1>4. QED
  BY <1>1, <1>2, <1>3, PTL DEF Spec

----------------------------------------------------------------------------
(* One handler at a time *)

\* The vault screen shows the items of its session and, after signup, its own
\* identifier.
ShowsItsSession == session # None => listed = session /\ banner \in {session, None}

\* A screen mixes two accounts only when handlers overlap: where each
\* sign-in, recovery or deletion ends before the next one begins, locks in
\* the middle of it included, the vault screen shows its session.
THEOREM SequentialScreen ==
    ASSUME \A t, u \in Tasks : t = u
    PROVE  Spec => []ShowsItsSession
<1>1. Init => ~overlap
  BY DEF Init
<1>2. TypeOK /\ ~overlap /\ [Next]_vars => ~overlap'
  <2> SUFFICES ASSUME TypeOK, ~overlap, [Next]_vars PROVE ~overlap'
    OBVIOUS
  <2>1. ASSUME NEW t \in Tasks, Input(t) PROVE ~overlap'
    <3>1. PICK k, o, a, p, g : Begin(t, k, o, a, p, g)
      BY <2>1, InputTasks
    <3>2. Busy = {}
      BY <3>1 DEF Begin, Busy
    <3> QED BY <3>1, <3>2, Zenon DEF Begin
  <2>2. ASSUME NEW t \in Tasks, Proceed(t) PROVE ~overlap'
    BY <2>2 DEF Proceed, BioPrompt, RegisterAnswer, LoginAnswer, TwoFactorAnswer, RecoverAnswer, LeaveAnswer,
                RequestFails, ShowBanner, Remember, OnAuthed, OnDeleted
  <2>3. ASSUME SwitchMode \/ Lock \/ CloseAccount \/ DismissBanner \/ ToggleTwoFactor \/ DisableBiometric \/ UNCHANGED vars PROVE ~overlap'
    BY <2>3, OtherSteps
  <2> QED BY <2>1, <2>2, <2>3 DEF Next
<1>3. VaultIsSessions /\ ~overlap => ShowsItsSession
  BY DEF VaultIsSessions, ShowsItsSession
<1>4. QED
  BY <1>1, <1>2, <1>3, TypeCorrect, VaultAlwaysSessions, PTL DEF Spec

----------------------------------------------------------------------------
(* Busy flags.  A screen's flag is set by a handler that is still running, *)
(* so that the flag is cleared when that one ends; and it keeps a second   *)
(* handler of its kind away for as long.                                   *)

\* The handlers that share a busy flag.
SameFlag(j, k) == j = k \/ (j \in Form /\ k \in Form)

\* No flag outlives its handler, and none covers two handlers.
FlagsAreLive ==
    /\ mine \subseteq Busy
    /\ \A t, u \in mine : SameFlag(kind[t], kind[u]) => t = u

\* The handler that begins is the only one behind its flag.
LEMMA InputFlags ==
    ASSUME TypeOK, FlagsAreLive, NEW t \in Tasks, Input(t)
    PROVE  FlagsAreLive'
<1>1. PICK k, o, a, p, g : /\ Begin(t, k, o, a, p, g) /\ o # "idle"
                           /\ \A u \in mine : ~SameFlag(kind[u], k)
  <2>m. mode \in {"register", "login", "recover"} /\ \A u \in mine : kind[u] \in Kinds
    BY TypeParts DEF FormType, TaskType
  <2>1. CASE Submit(t)
    <3> DEFINE k == IF mode = "login" /\ due THEN "code" ELSE mode
    <3>1. PICK a \in Accounts, p \in Passwords, g \in BOOLEAN : Begin(t, k, "request", a, p, g)
      BY <2>1 DEF Submit
    <3>2. k \in Form
      BY <2>m DEF Form
    <3>3. \A u \in mine : kind[u] \notin Form
      BY <2>1 DEF Submit, FormBusy
    <3>4. \A u \in mine : ~SameFlag(kind[u], k)
      BY <3>2, <3>3 DEF SameFlag
    <3> QED BY <3>1, <3>4
  <2>2. CASE UsePasskey(t)
    <3>1. PICK a \in Accounts, p \in Passwords : Begin(t, "passkey", "request", a, p, FALSE)
      BY <2>2 DEF UsePasskey
    <3>2. \A u \in mine : ~SameFlag(kind[u], "passkey")
      BY <2>2 DEF UsePasskey, FormBusy, SameFlag, Form
    <3> QED BY <3>1, <3>2
  <2>3. CASE UnlockBio(t)
    <3>1. Begin(t, "bio", "prompt", None, SomePassword, FALSE)
      BY <2>3 DEF UnlockBio
    <3>2. \A u \in mine : ~SameFlag(kind[u], "bio")
      BY <2>3 DEF UnlockBio, BioBusy, SameFlag, Form
    <3> QED BY <3>1, <3>2
  <2>4. CASE LeaveAccount(t)
    <3>1. PICK k \in {"delete", "logoutAll"} : /\ \A u \in mine : kind[u] # k
                                              /\ Begin(t, k, "request", session, SomePassword, FALSE)
      BY <2>4 DEF LeaveAccount
    <3>2. \A u \in mine : ~SameFlag(kind[u], k)
      BY <3>1 DEF SameFlag, Form
    <3> QED BY <3>1, <3>2
  <2> QED BY <2>1, <2>2, <2>3, <2>4 DEF Input
<1>2. /\ at'[t] = o /\ kind'[t] = k
      /\ \A u \in Tasks \ {t} : at'[u] = at[u] /\ kind'[u] = kind[u]
      /\ mine' = mine \cup {t} /\ at[t] = "idle"
  BY <1>1, BeginTasks DEF Begin
<1>3. t \notin mine /\ mine \subseteq Tasks
  BY <1>2 DEF FlagsAreLive, Busy
<1>4. mine' \subseteq Busy'
  BY <1>1, <1>2, <1>3 DEF FlagsAreLive, Busy
<1>5. \A u, v \in mine' : SameFlag(kind'[u], kind'[v]) => u = v
  BY <1>1, <1>2, <1>3 DEF FlagsAreLive, SameFlag
<1> QED BY <1>4, <1>5 DEF FlagsAreLive, SameFlag

\* A handler that ends leaves its screen; the others keep what they are.
LEMMA ProceedFlags ==
    ASSUME TypeOK, FlagsAreLive, NEW t \in Tasks, Proceed(t)
    PROVE  FlagsAreLive'
<1>0. mine \subseteq Tasks /\ at[t] # "idle"
  BY DEF FlagsAreLive, Busy, Proceed, BioPrompt, RegisterAnswer, LoginAnswer, TwoFactorAnswer, RecoverAnswer,
         LeaveAnswer, RequestFails, ShowBanner, Remember, OnAuthed, OnDeleted
<1>1. SUFFICES ASSUME NEW o, at' = [at EXCEPT ![t] = o],
                      mine' \subseteq mine, o = "idle" => t \notin mine',
                      \A u \in mine' : kind'[u] = kind[u]
               PROVE  FlagsAreLive'
  <2>1. CASE BioPrompt(t)
    <3>1. CASE at' = [at EXCEPT ![t] = "request"] /\ UNCHANGED <<kind, mine>>
      BY <1>1, <3>1
    <3>2. CASE Goto(t, "idle")
      BY <1>0, <1>1, <3>2, GotoTasks DEF Goto
    <3> QED BY <2>1, <3>1, <3>2 DEF BioPrompt
  <2>2. ASSUME NEW o, Goto(t, o) PROVE FlagsAreLive'
    <3>1. at' = [at EXCEPT ![t] = o] /\ mine' \subseteq mine /\ (o = "idle" => t \notin mine')
      BY <2>2 DEF Goto
    <3>2. \A u \in mine' : kind'[u] = kind[u]
      BY <1>0, <2>2, <3>1, GotoTasks
    <3> QED BY <1>1, <3>1, <3>2
  <2>3. CASE OnAuthed(t) \/ OnDeleted(t)
    <3>1. /\ at' = [at EXCEPT ![t] = "idle"] /\ kind' = [kind EXCEPT ![t] = "login"]
          /\ mine' \subseteq mine \ {t}
      BY <2>3 DEF OnAuthed, OnDeleted
    <3>2. \A u \in mine' : kind'[u] = kind[u]
      BY <1>0, <3>1, TypeParts DEF TaskType
    <3> QED BY <1>1, <3>1, <3>2
  <2> QED BY <2>1, <2>2, <2>3
          DEF Proceed, RegisterAnswer, LoginAnswer, TwoFactorAnswer, RecoverAnswer, LeaveAnswer, RequestFails,
              ShowBanner, Remember
<1>2. \A u \in Tasks : at'[u] = IF u = t THEN o ELSE at[u]
  BY <1>1, TypeParts DEF TaskType
<1>3. mine' \subseteq Busy'
  BY <1>0, <1>1, <1>2 DEF FlagsAreLive, Busy
<1>4. \A u, v \in mine' : SameFlag(kind'[u], kind'[v]) => u = v
  BY <1>1 DEF FlagsAreLive, SameFlag
<1> QED BY <1>3, <1>4 DEF FlagsAreLive, SameFlag

\* A screen's form and its biometric button each run one handler at a time,
\* and a flag that is set has a handler in flight that will clear it: the
\* safety half of FormAnswers.
THEOREM FlagsAlwaysLive == Spec => []FlagsAreLive
<1>1. Init => FlagsAreLive
  BY DEF Init, FlagsAreLive
<1>2. TypeOK /\ FlagsAreLive /\ [Next]_vars => FlagsAreLive'
  <2> SUFFICES ASSUME TypeOK, FlagsAreLive, [Next]_vars PROVE FlagsAreLive'
    OBVIOUS
  <2>1. CASE SwitchMode \/ Lock \/ CloseAccount \/ DismissBanner \/ ToggleTwoFactor \/ DisableBiometric \/ UNCHANGED vars
    <3>1. UNCHANGED <<at, kind>> /\ mine' \subseteq mine
      BY <2>1 DEF SwitchMode, RecoveryLink, Lock, CloseAccount, DismissBanner, ToggleTwoFactor, DisableBiometric, vars, tasks, device
    <3> QED BY <3>1 DEF FlagsAreLive, Busy, SameFlag
  <2> QED BY <2>1, InputFlags, ProceedFlags DEF Next
<1>3. QED
  BY <1>1, <1>2, TypeCorrect, PTL DEF Spec

----------------------------------------------------------------------------
(* Whose vault it is *)

Known(a) == a # None => past[a] # {}

\* A handler that the server has let in is one of an account.
LetInOK == \A t \in Tasks : at[t] \in {"banner", "remember", "authed"} => past[acct[t]] # {}

\* The session, the items and the identifier on the screen are those of
\* accounts that were registered.
OnlyKnownAccounts == Known(session) /\ Known(listed) /\ Known(banner)

\* Every step keeps both.
LEMMA KnownNext ==
    ASSUME TypeOK, HasAccount, AcceptedOK, LetInOK, OnlyKnownAccounts, [Next]_vars
    PROVE  LetInOK' /\ OnlyKnownAccounts'
<1>t. /\ past \in [Accounts -> SUBSET Passwords]
      /\ \A a \in Account : a # None => a \in Accounts
      /\ session \in Account /\ listed \in Account /\ banner \in Account
  BY TypeParts DEF ServerType, AppType, Account
<1>n. Known(None) /\ Known(None)'
  BY DEF Known
<1>1. ASSUME NEW t \in Tasks, NEW o, Goto(t, o), at[t] \notin {"idle", "prompt"} \/ o = "idle",
             \A a \in Accounts : past[a] \subseteq past'[a],
             o \in {"banner", "remember", "authed"} => past'[acct[t]] # {}
      PROVE  LetInOK'
  BY <1>1, GotoTasks DEF LetInOK, HasAccount
<1>2. ASSUME UNCHANGED <<session, listed, banner>>, \A a \in Accounts : past[a] \subseteq past'[a]
      PROVE  OnlyKnownAccounts'
  BY <1>t, <1>2 DEF OnlyKnownAccounts, Known
<1>3. ASSUME NEW t \in Tasks, Proceed(t) PROVE LetInOK' /\ OnlyKnownAccounts'
  <2>1. CASE BioPrompt(t)
    <3>1. UNCHANGED <<past, session, listed, banner>>
      BY <2>1 DEF BioPrompt
    <3>2. \A u \in Tasks : at'[u] \in {"banner", "remember", "authed"} => at'[u] = at[u] /\ acct'[u] = acct[u]
      <4>1. CASE Goto(t, "idle")
        BY <4>1, GotoTasks
      <4>2. CASE at' = [at EXCEPT ![t] = "request"] /\ acct' = [acct EXCEPT ![t] = stored.acct]
        BY <4>2, TypeParts DEF TaskType
      <4> QED BY <2>1, <4>1, <4>2 DEF BioPrompt
    <3> QED BY <1>2, <3>1, <3>2 DEF LetInOK
  <2>2. CASE RegisterAnswer(t) \/ RecoverAnswer(t)
    <3>1. PICK o : /\ Goto(t, o) /\ acct[t] \in Accounts /\ at[t] = "request"
                   /\ past' = [past EXCEPT ![acct[t]] = @ \cup {pw[t]}]
                   /\ UNCHANGED <<session, listed, banner>>
      BY <2>2 DEF RegisterAnswer, RecoverAnswer, HasAccount
    <3>2. (\A a \in Accounts : past[a] \subseteq past'[a]) /\ past'[acct[t]] # {}
      BY <1>t, <3>1
    <3> QED BY <1>1, <1>2, <3>1, <3>2
  <2>3. CASE LoginAnswer(t)
    <3>1. PICK o : Goto(t, o) /\ at[t] = "request" /\ UNCHANGED <<past, session, listed, banner>>
      BY <2>3 DEF LoginAnswer
    <3>2. past[acct[t]] # {}
      BY <2>3, <3>1 DEF LoginAnswer, HasAccount, AcceptedOK
    <3> QED BY <1>1, <1>2, <3>1, <3>2
  <2>4. CASE TwoFactorAnswer(t) \/ RequestFails(t) \/ LeaveAnswer(t)
    <3>1. PICK o \in {"idle", "lock"} : Goto(t, o) /\ at[t] = "request" /\ UNCHANGED <<past, session, listed, banner>>
      BY <2>4 DEF TwoFactorAnswer, RequestFails, LeaveAnswer
    <3> QED BY <1>1, <1>2, <3>1
  <2>5. CASE ShowBanner(t)
    <3>1. /\ Goto(t, "remember") /\ at[t] = "banner" /\ UNCHANGED <<past, session, listed>>
          /\ banner' \in {acct[t], None}
      BY <2>5 DEF ShowBanner
    <3>2. past[acct[t]] # {}
      BY <3>1 DEF LetInOK
    <3>3. LetInOK'
      BY <1>1, <3>1, <3>2
    <3>4. OnlyKnownAccounts'
      BY <1>t, <3>1, <3>2 DEF OnlyKnownAccounts, Known
    <3> QED BY <3>3, <3>4
  <2>6. CASE Remember(t)
    <3>1. Goto(t, "authed") /\ at[t] = "remember" /\ UNCHANGED <<past, session, listed, banner>>
      BY <2>6 DEF Remember
    <3>2. past[acct[t]] # {}
      BY <3>1 DEF LetInOK
    <3> QED BY <1>1, <1>2, <3>1, <3>2
  <2>7. CASE OnAuthed(t) \/ OnDeleted(t)
    <3>1. /\ at' = [at EXCEPT ![t] = "idle"] /\ acct' = [acct EXCEPT ![t] = None] /\ UNCHANGED past
          /\ \/ /\ at[t] = "authed" /\ session' = acct[t] /\ listed' \in {acct[t], listed} /\ UNCHANGED banner
             \/ session' = None /\ listed' = None /\ banner' = None
      BY <2>7 DEF OnAuthed, OnDeleted, Locked
    <3>2. LetInOK'
      BY <3>1, TypeParts DEF LetInOK, TaskType
    <3>3. at[t] = "authed" => past[acct[t]] # {}
      BY DEF LetInOK
    <3>4. OnlyKnownAccounts'
      BY <1>t, <3>1, <3>3 DEF OnlyKnownAccounts, Known
    <3> QED BY <3>2, <3>4
  <2> QED BY <1>3, <2>1, <2>2, <2>3, <2>4, <2>5, <2>6, <2>7 DEF Proceed
<1>4. ASSUME NEW t \in Tasks, Input(t) PROVE LetInOK' /\ OnlyKnownAccounts'
  <2>1. PICK k, o, a, p, g : Begin(t, k, o, a, p, g) /\ o \in {"prompt", "request"}
    BY <1>4, InputTasks
  <2> QED BY <1>2, <2>1, BeginTasks DEF LetInOK
<1>5. ASSUME SwitchMode \/ Lock \/ CloseAccount \/ DismissBanner \/ ToggleTwoFactor \/ DisableBiometric \/ UNCHANGED vars
      PROVE  LetInOK' /\ OnlyKnownAccounts'
  BY <1>5, OtherSteps DEF LetInOK, OnlyKnownAccounts, Known
<1> QED BY <1>3, <1>4, <1>5 DEF Next

\* However sign-ins, biometric unlocks and recoveries overlap, the app opens
\* no vault for an identifier the server has not accepted.
THEOREM AlwaysKnownAccounts == Spec => []OnlyKnownAccounts
<1> DEFINE Inv == TypeOK /\ HasAccount /\ AcceptedOK /\ LetInOK /\ OnlyKnownAccounts
<1>1. Init => Inv
  BY TypeInit DEF Init, HasAccount, AcceptedOK, StoredWasAccepted, NoCredentials, LetInOK, OnlyKnownAccounts, Known
<1>2. Inv /\ [Next]_vars => Inv'
  BY TypeNext, HasAccountNext, AcceptedNext, KnownNext
<1>3. QED
  BY <1>1, <1>2, PTL DEF Spec
=============================================================================
