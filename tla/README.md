# passwd: verification project

TLA+ models of passwd, an end-to-end encrypted password manager: a Go server
(`src/backend`), TypeScript clients (web, browser extension, desktop shell in
Tauri, mobile wrapper; `src/clients`) and a static site. The server never sees
plaintext: it keeps accounts, wrapped keys, encrypted items and sessions.

Three modules cover the server's authentication core, one the key hierarchy
that clients and server maintain together, and four the clients: the browser
extension, the desktop app, and the web app's sign-in and vault screens. All
are checked with TLC on small instances, and all their safety properties are
proved with TLAPS for every value of the constants. `PROJECT.json` lists
components, runs, mutants, the map from definitions to source lines, findings,
hazards and theorems.

## Inventory

### Server (`src/backend/internal`)

Every request runs in its own goroutine. Handlers call the `Store` (SQLite,
PostgreSQL or an in-memory implementation); one call is one statement or one
transaction, but no handler holds a lock or a transaction from one call to the
next. The rate limiter, the lockout tracker and the WebAuthn challenges live in
memory, behind a mutex each, and are lost in a restart.

| Component | State | Operations | What makes it correct |
|---|---|---|---|
| Sessions (`handlers_auth.go`, `handlers_sessions.go`, `auth/token.go`) | `refresh_tokens` rows (owner, expiry, used); stateless access tokens held by clients | login, refresh with rotation, list, logout-all, reuse detection, revocation by recovery and deletion | a rotated token is not rotated again; a revocation leaves no session behind; nothing revoked comes back; nobody's session ends without cause; detected reuse ends the family |
| Lockout (`middleware.go`) | per identifier: failure count, locked-till | `locked`, `recordFailure`, `reset`, called by password login, passkey login (begin, finish) and recovery | few wrong credentials are checked per lock; a lock lifts |
| TOTP (`handlers_2fa.go`, `auth/totp.go`) | `totp_secret`, `totp_enabled`, `totp_last_counter` | setup, enable, disable, code check at login | an unconfirmed secret is never required; a code is good once; the replay baseline cannot shut the user out |
| Passkeys (`handlers_webauthn.go`) | credentials with signature counter; challenges with expiry | register begin/finish, login begin/finish, list, delete | a challenge is used once and in time; counters do not go back; an enrolled passkey is enforced |
| Recovery (`handlers_recovery.go`) | recovery verifier and wrapped keys in `users` | prelogin, complete (rotate password, revoke, new session) | afterwards only the new password opens the vault, and no old session survives |
| Accounts (`handlers_auth.go`) | `users` rows | prelogin, register, delete (one transaction over all tables) | one account per identifier; nothing of a deleted account is left |
| Vault and sharing (`handlers_vault.go`, `handlers_sharing.go`) | `ciphers`, `shares` | create, list, update, delete; share, list, revoke | rows are only seen and changed by their owner (or the share's parties) |
| Audit log (`handlers_audit.go`) | `audit_events` | best-effort insert, list | read by no decision |
| Rate limiter (`middleware.go`) | per client: window start, count | `allow` | at most the limit per window, two limits across a boundary |
| Stores (`storage/*.go`) | all tables | the `Store` interface | the back ends agree |

### Clients (`src/clients`)

JavaScript runs one callback at a time, so the places where handlers interleave
are their `await`s, and what a handler read before one may be old after it.

| Component | State | Operations | What makes it correct |
|---|---|---|---|
| Key hierarchy (`packages/crypto`) and client session (`packages/api-client`) | user key, key pair, item keys, each wrapped by the next; the `Session` with the user key in memory | register, login, recovery enrolment and completion, items, sharing | whatever the server accepts as a credential opens the key the items are under; nothing is silently skipped |
| Browser extension (`background.ts`, `popup/App.tsx`) | session in `storage.session`, auto-lock alarm, captured login; the popup's screen | unlock, lock, items, alarm; open and close the popup | a lock holds; a session is not used past its idle time although the worker may be stopped; the popup does not hang |
| Desktop app (`storage.ts`, `App.tsx`, `VaultScreen.tsx`, `lib.rs`) | vault file, recents list, vault in memory | create, open, save, delete, change password, lock | screen and file agree; an old password does not come back; a lock holds |
| Web app: vault screen (`VaultScreen.tsx`, `ImportExport.tsx`) | list, selection, notes box, editor | add, edit, notes, star, delete, import, reload, lock | the list is the vault; edits are kept; deleted items stay deleted |
| Web and mobile app: sign-in (`App.tsx`, `biometric.ts`) | session, form mode, banner, credentials in the device's secure store | sign up, sign in, second factor, passkey, recovery, biometric unlock, lock, delete, sign out everywhere | what is shown is the session's; only accepted credentials are stored; the form always comes back |
| Pure algorithms (`portable.ts`, `health.ts`, `totp.ts`, `password.ts`, `backup.ts`) | none | parse, format, score | round trips and edge cases |

### Interactions

`handleLogin` runs through three components: it asks the lockout, checks the
password and the second factor, and issues tokens; the lockout learns the
outcome. Passkey login and recovery use the same lockout and the same
`issueTokens`. Recovery and account deletion revoke sessions. Everything behind
`requireAuth` trusts an access token until it expires, without looking at the
account's row.

`api-client/session.ts` is what joins clients and server: each of its functions
is a sequence of requests with key operations in between, and any answer may be
lost. The web app and the extension call it; the desktop app has no server and
uses `packages/crypto` only.

### What is hard

* Read-check-write over several store calls: refresh (read, test used, mark,
  issue), TOTP login (read the counter, compare, store), TOTP setup and enable
  (read the row, store all of its TOTP columns), recovery (verify, then rotate).
* Requests in flight across a revocation, a deletion or a change of the secret,
  and an identifier that is deleted and registered again.
* Errors that are ignored: the mark, the purge, the revocation after recovery;
  items and shares that do not decrypt and are skipped.
* A restart between two store calls, a worker stopped between two awaits, a
  write of the vault file that is cut.
* A limit that attempts already past its check can exceed (the lockout).
* Boundaries of clocks: token expiry, TOTP periods, lock, idle and rate windows.
* React closures: a save carries the whole item, or the whole vault, of the
  render in which the user clicked; answers arrive after the screen is gone.
* Forms that must be given back on every path.

Each of these is listed in `PROJECT.json` under hazards, at its line.

## Modules

### Sessions

State: `account` (users rows), `tok` (the immutable columns of every token ever
minted, in order), `rows` and `used` (the table), `now`, and one record per
request slot, `req[r]`, with the handler's program counter and the values it
has read. The actions follow the store calls:

| Code | Actions |
|---|---|
| `handleLogin`, `handleWebAuthnLoginFinish` with good credentials | `Login`, `IssueTokens` |
| `handleRefresh` | `RefreshLookup`, then `RefreshPurge` (expired), `RefreshReuse` (used), or `RefreshMark`, `IssueTokens` |
| `handleRecoveryComplete` | `RecoveryLookup`, `RecoveryRotate`, `RecoveryRevoke`, `IssueTokens` |
| `handleLogoutAll` | `LogoutAllAccept` (`requireAuth`), `LogoutAll` |
| `handleDeleteAccount` | `DeleteAccountAccept`, `DeleteAccount` (one transaction) |
| `handleListSessions` | the operator `ListRefreshTokensForUser` |
| process | `Crash`, `Tick` |

Every store call has a second disjunct in which it fails; whether the handler
then stops or goes on is what the code does (the mark, the purge, the reuse
revocation and recovery's revocation go on). `epoch`, `revoked`, `lostMarks`
and the token fields `root` and `straddled` are history: no action reads them.
`straddled` says that a revocation hit the user between the reading and the
writing of the request that minted the token, or one of its ancestors. It is
the exact price of having no transaction, so the properties can say that
revocation is complete *except* there.

`SessionLedger` is what all this promises, without requests, epochs and
handlers: a ledger in which a token is entered fresh, exchanged only once it is
retired (or its retirement was lost, where the store may fail), and struck out
by a revocation of its whole user or by its expiry. `Ledger` in
`SessionsProofs` is the mapping: the entries are `tok`, the fresh tokens
`rows \ used`, the retired ones `used`, and `lostMarks` the lost
retirements.

### Lockout

One account: `fails`, `left` (time until `lockedTill`), `pc` of each attempt.
`Check` is `locked()`, the `Verify...` actions are the credential check with
its three kinds of outcome, then `RecordFailure` or `Reset`. `guesses` is
history: wrong credentials checked since the account was last open.

### TOTP

One account: the TOTP columns `row`, the clock in TOTP periods, and per request
its copy of the row and the code it was sent. `LoginLookup`, `LoginVerify`,
`LoginConsume` are handleLogin's path from a right password on;
`SetupLookup`/`SetupWrite`, `EnableLookup`/`ConfirmVerify`/`EnableWrite` and
`DisableLookup`/`ConfirmVerify`/`DisableWrite` are the enrolment handlers. A
code is the pair of its secret and its period. History: `confirmed` secrets,
`consumed` codes, `again` (a code was accepted twice), `overlap` and `rebased`
(the two circumstances under which that can happen).

### AccountKeys and AccountVault

One identifier, seen from several devices and from the server's rows. Keys are
symbolic: registration number n makes user key n, key pair n and account id n,
and a wrapped key is a record of the key it is under and what it holds, so
unwrapping is a comparison. State: the `users` row (`userId`, `verifier`,
`wrapped`, `recVerifier`, `recovery`, `keypair`), `ciphers`, `shares`, and per
device the `Session` and the operation in progress with its locals.

| Code | Actions |
|---|---|
| `registerAccount`, `handleRegister`, the login that follows | `Register`, `RegisterServer`, `SignInServer` |
| `loginAccount`, `loginWithPasskey`, `handleLogin` | `Login`, `LoginServer`; lock and sign-out are `SignOut` |
| `enableRecovery`, `disableRecovery` | `EnableRecovery`, `DisableRecovery`, `EnableServer` |
| `recoverAccount`, `handleRecoveryChallenge`, `handleRecoveryComplete` | `Recover`, `Challenge`, `CompleteVerify`, `CompleteRotate` (two store calls) |
| `addItem`, `saveItem`, `removeItem`, `loadVault` | `AddItem`, `SaveItem`, `RemoveItem`, `AddServer`, `PutServer`; the operator `LoadVault` |
| `shareItem`, `listSharedWithMe`, `deleteShare` | `ShareLookup`, `ShareServer`; `ListSharedWithMe`; `RemoveShare` |
| `deleteAccount`, `Store.DeleteAccount` | `DeleteAccount`, `DeleteServer` |

`Fails` is every refusal and every error before a request takes effect; an
answer that is lost after it took effect is the second disjunct of `SignIn`,
and of what `CompleteRotate` and `DeleteServer` do to the session.
History: `crossed` (a registration's login was answered by an account created
by someone else under the same identifier and password in between, so that the
session has a key that is not the account's) and `lateShare` (the recipient's
account was replaced between the sender's two requests).

`AccountVault` says what an account promises, without any key: items behind a
password, a recovery code that can replace the password and changes nothing
else, erasure that leaves nothing, a new account that starts empty. `AccountKeys`
implements it: `KeepsPromises` is its specification under the mapping in which
an item is there when the key that the accepted password unwraps opens it
(`Plain`), and the devices `granted` a reset are those between `CompleteVerify`
and `CompleteRotate`. `Void` ends the promise after a `crossed` registration.

### Extension

The worker's `stored` session with its deadline, the `alarm`, and one job per
message handler. Each await of `readStored` (`ReadStored`, `CheckLocked`,
`CheckUnlocked`), `writeStored` (`SetStored`, `CreateAlarm`), `clearStored`
(`RemoveStored`, `ClearAlarm`), of `loginAccount` (`Login`) and of the server
calls (`CallServer`) is a step. `FireAlarm` is `onAlarm`; `WorkerStops` is the
browser stopping the worker, which loses the jobs, keeps storage and alarm, and
rejects the promises of whoever waits. The popup has its screen and the busy
flag of the form shown; `Deliver...` are its continuations after an answer.
The messages that write an item, `addItem`, `updateItem` and `deleteItem`, are
one kind, `save`: they take the same awaits. History: `lastUse`, `gone`
(sessions removed while nobody held a copy), `raced` (a clear overlapped a
write, or the worker was stopped in the middle of either).

### Desktop

One vault `file` (absent, good, or broken by a cut write), the `vault` in
memory, the `screen`, whether `recents` names the file, and one task per
operation with the content it works on. `Commit` (save, delete), `Rekey`,
`CreateVault` and `OpenVault` start a task from the render's vault;
`WriteFile`/`WriteFails`, `ReadFile`, `RememberRecent` and `Apply` are its
awaits. `Boot`, `Navigate`, `ClearRecents`, `Lock` and `Quit` are the rest of
`App.tsx`. History: `overlap`, `keyRace` (the overlap involved a rekey or a
creation), `late` (tasks in flight at the last lock), `unnoted`.

### WebVault

The `server`'s items, the React state of `VaultScreen` (`items`, `loading`,
`selected`, the notes `box` of `ItemDetail`, the `editor`), and one task per
operation: a request, then a reload. An item has two fields that different
controls edit, notes and star; every request carries the whole item.

| Code | Actions |
|---|---|
| `reload` | `ThenReload` (its start), `Sync`, `Apply`, `ReloadFails` |
| `ItemDetail`, `saveNotes`, `toggleFavorite`, `handleDelete` | `Select`, `Deselect`, `SaveNotes`, `SameNotes`, `ToggleFavorite`, `HandleDelete` |
| `ItemEditor`, `handleSave`, `AsyncButton` | `OpenEditor`, `EditorSave`, `CancelEditor`, `CloseEditor` (the success timer) |
| `runImport` | `RunImport`, `ImportItem`, `ImportStrays` |
| a request that is answered | `SaveAccepted`, `AddAccepted`, `DeleteAccepted` |
| a request whose `fetch` rejects | `RequestFails` (no effect), `AnswerLost` (it took effect), `RequestStrays` (it may still arrive) |
| mount and unmount | `Unlock`, `Lock` |
| a request nobody waits for any more | `LostRequest` |
| another device | `Remote` |

A `fetch` that rejects says nothing of the server: the request was not served,
or it was and its answer was lost, or it is still on its way. The `catch` of
every handler is the same for all three: it shows the error, reloads nothing,
and leaves the editor open and the deleted item selected. The three actions
differ in the server's items and in the history.

History: `want` (the last value the user gave each field); `stale` (since the
last list was shown a reload failed or an answer was lost, so the list may be
old); `muddled` (the user acted while something was under way or on a `stale`
list, or a stray request may still write); `raced` (lists overlapped, or another
device or a stray request wrote).

### WebAuth

The accounts' passwords and second factors, the secure store, App's session,
banner and the account whose items are listed, the form's mode and second-factor
flag, and one task per handler. `Submit`, `UsePasskey`, `UnlockBio` and
`LeaveAccount` start one; `BioPrompt`, the `...Answer` actions, `RequestFails`,
`ShowBanner`, `Remember` (the secure store), `OnAuthed` and `OnDeleted` are its
steps. A task goes on when its screen is gone: `mine` are those whose screen is
still there, whose busy flags disable the form; `CloseAccount` closes the
account view, whose flags are new when it is opened again. A registration, a
recovery or a deletion may take effect and lose its answer. History: `past`
passwords, `overlap`.

### MC and proof modules

The `MC...` modules add the symmetry of request slots, devices, jobs or tasks
to the runs without liveness properties. `SessionsProofs`, `LockoutProofs`,
`TOTPProofs`, `AccountKeysProofs`, `ExtensionProofs`, `DesktopProofs`,
`WebVaultProofs` and `WebAuthProofs` hold the theorems. The operators marked
*Mutant* are plausible bugs in the definition they stand before; no action uses
them. Each property of a passing run fails when the mutant named for it in
`PROJECT.json` takes the definition's place.

## Runs

| Run | Instance | Checks |
|---|---|---|
| `sessions` | 1 user, 2 requests at a time, 3 tokens, 3 instants, any store call may fail, restarts at any point | `TypeOK`, `RotationLineage`, `RevocationComplete`, `AccessLapses`, `ListMatchesRefresh`, `NoResurrection`, `RowsLeaveForCause` |
| `sessions_forks` | 1 user, 2 requests, 4 tokens, no failures, fair handlers | `ForksBounded`, `ReuseEndsFamily` |
| `lockout` | 3 attempts at a time, limit 5 as deployed, lock of 2 ticks, fair clock and handlers | `TypeOK`, `GuessesPerLock`, `LockLifts` |
| `totp` | 2 requests, 2 secrets, 2 periods, failing store calls, restarts | `TypeOK`, `EnabledMeansConfirmed`, `BaselineNotAhead`, `SingleUseSequential` |
| `account_keys` | 2 devices, 1 item id, 2 contents, 2 passwords, 2 registrations, 2 recovery codes, lost answers | `TypeOK`, `CredentialsOpenVault`, `NothingSkipped`, `SharesOpen`, `KeepsPromises` (the refinement) |
| `extension` | 2 handlers at a time, 2 unlocks, input up to time 3, idle time 1, the worker may be stopped | `TypeOK`, `RemovedForGood`, `TimerArmed`, `NeverUsedIdle`, `UnlockFormAnswers` |
| `desktop` | 2 operations at a time, 3 in all, 2 items, 2 passwords, failing and cut writes, quits, fair commands | `TypeOK`, `MemoryMatchesFile`, `PasswordSettled`, `StaysLocked`, `RightPasswordOpens` |
| `webvault` | 2 operations at a time, 2 in all, 2 items, 1 change by another device, failing, lost and stray requests | `TypeOK`, `DeletedStaysDeleted`, `ListIsVault`, `EditsKept`, `LoadingEnds` |
| `webauth` | 2 handlers at a time, 3 in all, 2 accounts, 2 passwords, fair requests | `TypeOK`, `VaultIsSessions`, `StoredWasAccepted`, `FormAnswers` |
| `sessions_fork` | violation | `SingleSuccessor`: two refreshes of one token at the same time both rotate it |
| `totp_race` | violation | `SingleUse`: overlapping logins accept one code twice |
| `webvault_notes` | violation | `JustTheNotes`: saving the notes writes back an older star |

The violation runs each state what a comment of the code says; the finding in
`PROJECT.json` quotes it. The passing properties state what the code guarantees
instead: they carry the exception (`lostMarks`, `straddled`, `overlap`,
`rebased`, `crossed`, `lateShare`, `raced`, `keyRace`, `late`, `muddled`) as
narrowly as it could be drawn. Behaviours the models have inside these
exceptions, and that a reader of the code may want to know of:

* a refresh in flight across a logout everywhere stores a renewed session, and
  a login or refresh in flight across an account deletion leaves a token row
  without an account (`straddled`);
* enabling an enabled TOTP again resets the replay baseline (`rebased`), and a
  setup that read the row before an enable turns TOTP off again;
* a desktop save in flight across a lock opens the vault again (`late`), and a
  save that overlaps a change of password can bring the old one back
  (`keyRace`);
* an unlock or an item operation of the extension in flight across a lock
  stores the session again;
* of two reloads of the web app that overlap the older list may stay (`raced`),
  and a save from values that were not up to date, a lost answer's included,
  writes old fields back (`muddled`);
* a form sign-in and a biometric one that overlap leave the items of one
  account on screen with the session of the other (`overlap`).

A hazard of `PROJECT.json` that lies inside such an exception names no property
on that account: its note says that the model has it, which exception it is and,
where there is one, which theorem shows that the exception is no wider.

Bounds. Every race named under the hazards is between one actor's read and
another's write, so two requests, devices, handlers or tasks in flight show it;
more than two are covered by the proofs, which are for any set of them. Three
tokens give a login, its rotation and a rotation of that or a fork; four, in
`sessions_forks`, are what a third fork with two slots would need. With three
instants and a refresh TTL of one, a token is fresh, in its last instant and
expired within one behaviour. `MaxRevokes` stops logouts and recoveries from
beginning once the user has been revoked that often (2): a second revocation
while a request straddles the first is included. In `TOTP` the clock starts
late enough that a baseline of 0 is older than every code in the window, as it
is in reality. The session runs have one user; that one user's steps cannot
touch another's rows is proved: `RowsLeaveForCause` holds for any set of users.

In `account_keys` two registrations give an identifier that is deleted and
taken again, which is what requests of the old account then meet, and two codes
give a re-enrolment under a recovery in flight. In `extension` the user acts up
to `LastInput` and the clock runs on until an alarm set at that time is overdue;
two unlocks are a session and the one after its lock. `desktop` and `webauth`
count operations, not steps: three are a vault created, changed and changed
again, or an account made, a sign-in and one that overlaps it. In `webvault`
the vault starts with any subset of the items in it, so two operations are two
edits, or an edit and a deletion, that overlap, or an edit after one whose answer
was lost.

Deadlock is checked in `lockout`, `totp` and `totp_race`. Elsewhere the system
may stop, since users and clients may stop acting and operations are bounded.

Fairness. `sessions_forks` assumes weak fairness of the steps of a started
handler: the Go scheduler runs every goroutine, and these steps are always
enabled. It says nothing of clients or the clock, and excludes store errors and
restarts, with which a handler may never finish its revocation. `lockout` adds
weak fairness of the clock. `desktop` assumes that an invoked command returns
and its promise callbacks run (weak fairness of `TaskStep` per task), `webauth`
that requests and biometric prompts end in some way, since `fetch` settles and
the prompt can be cancelled (weak fairness of `Proceed` per task). Neither asks
anything of the user. No run with a liveness property uses symmetry.

## Proofs

All theorems are for any sets of request slots (finite, where they are
counted), users, devices, handlers, tasks, items and passwords, and for any
TTLs and bounds, under the named assumption of each module (the constants have
their types, the limit and the lock period are positive, TOTP periods begin
after 0, there is a password and an item id). Every invariant and action
property of the passing runs is a theorem. Beyond those the proofs answer three
questions that no run asks.

*What happens when nothing overlaps?* The properties carry exceptions for
overlapping requests, handlers or tasks, and three violation runs show what
comments of the code claim to be false when there is overlap. A theorem per
module shows that with one of them at a time the exceptions are empty and the
claims true: `SequentialRotation` (`SingleSuccessor`), `SequentialRevocation`,
`LimitExactAlone`, `SequentialSingleUse` (`SingleUse`), `OneDeviceAlwaysOpens`,
`SequentialDesktop`, `SequentialScreen`, `SequentialLock`, `SequentialNotes`
(`JustTheNotes`). Their hypotheses name everything that has to be excluded: one
element in the set of slots, devices, handlers or tasks, and where it matters no
failing store or server, no stopped worker, no other device. What is not named
is still there: restarts, lost answers, locks in the middle of an operation,
quits, cut writes.

*What of the liveness properties?* Fairness is out of the prover's reach, but
what each liveness property needs besides fairness is not. `ReuseStands` and
`OpenStands` say that the handler that owes the answer is turned away by no step
of anybody else and ends where it should; `FlagsAreLive` that a busy flag always
has exactly one handler that will clear it; `LockIsBounded` is the ranking
behind `LockLifts`: `LockWaits`, what is left of the lock and a whole period for
each attempt let in before it, never grows during a lock and falls with every
tick, so a lock lasts at most `LockFor * (1 + |Reqs|)` ticks.

*What does a component promise?* `LedgerImplemented` and `ImplementsVault` are
the refinements.

`SessionsProofs`: `TypeOK`, `RotationLineage`, `RevocationComplete` and
`AccessLapses` as invariants; `NoResurrection` and `RowsLeaveForCause` as
action properties. None of the invariants is inductive alone. `IInv` adds
what the handlers hold between their steps: a request in flight belongs to
a user and presents a minted token (`RequestsSound`); a refresh that has passed
its mark presents a token that has no row, is marked, or lost its mark
(`MarkedBeforeIssue`, what `RotationLineage` needs when the successor appears);
a request that has seen no revocation since its lookup will mint into the
current epoch (`FreshView`, for `RevocationComplete`); and access tokens were
minted no later than now, revocations happened in the past (`TokensSound`,
`RevokedInPast`, for `AccessLapses`). The action properties follow from a lemma
on what each action does to the rows (`StepRows`). `ListMatchesRefresh`
needs no more than `TypeOK`. `ForksBounded` is a count: the successors of a
token and the requests that still hold it (past their lookup, before their
issue) are together at most the slots there are (`ForkInv`). A lookup adds a
holder only while the token is fresh, which by `RotationLineage` means it has
no successor yet; an issue turns a holder into a successor; nothing else adds
either. `LedgerStep` maps every action to a step of `SessionLedger` or a stutter
from `IInv`; `MarkedBeforeIssue` is what lets an issue enter its token.
`SequentialRotation` is `ForksBounded` with one slot and no lost mark
(`NoneLost`). `SequentialRevocation` needs `OwnView`: the one handler has seen
every revocation of its user, and no token is straddled.

`LockoutProofs`: `TypeOK` and `GuessesPerLock`. The invariant counts attempts:
while the account is open the guesses made are covered by recorded failures and
attempts that still have to record theirs; while it is locked, guesses and
attempts still being verified together fit the budget. Lemmas on the
cardinality of the sets of attempts carry the steps, those of `LockIsBounded`
included.

`TOTPProofs`: `TypeOK`, `EnabledMeansConfirmed`, `BaselineNotAhead` and
`SingleUseSequential`. The invariant says what a request past its check knows
(an enable's secret is confirmed, a login's code is newer than its copy of the
baseline and at most one period ahead), that without overlap the only login in
flight has a copy equal to the stored baseline (`LoginsAlone`), and that without
overlap and reset the baseline covers every consumed code (`BaselineCovers`).
Three lemmas treat the kinds of step there are: a slot moves, the columns are
stored, a code is consumed. `BaselineAdvances` follows from the same invariant:
a consume lowers the baseline only with a copy that is no longer the stored one.

`AccountKeysProofs`: `TypeOK`, `CredentialsOpenVault`, `NothingSkipped`,
`SharesOpen`, and the refinement. `KeysInv` says that, unless registrations
crossed, every key is the account's own: in the row (`RowOK`), in sessions
(`SessOK`), in operations that are about to write (`OpOK`), in ciphers
(`CipherOK`) and, unless a share was late, in shares (`ShareOK`). `CodeOK` is
what makes recovery safe although the code is verified and the password rotated
in separate calls: a code determines the key that was wrapped under it, so
whoever passed the challenge with a code holds the key the row has under that
code. For the refinement `FreshOK` is added: the id of a registration in flight
occurs nowhere yet, so a new account inherits no item and no accepted recovery.
`SimStart`, `SimServe` and `SimNext` show that each action is a step of
`AccountVault` or a stutter; `ImplementsVault` is the conclusion. `FreshOK` also
gives `NewAccountsAreNew`: an account registered under an identifier shares its
id with no session, operation or item of an earlier one. `OneDeviceAlwaysOpens`
adds `OwnSignIn`: the sign-in after a registration of the only device finds the
account it made.

`ExtensionProofs`: `GoneInv` adds to `RemovedForGood` that only sessions there
have been are gone, so that a new unlock is not among them; `ArmedInv` adds to
`TimerArmed` that what a handler is about to write has a deadline; `UseInv`,
for `NeverUsedIdle`, says that every deadline in storage or in a handler's copy
is at most the idle time after the session's last use, which never goes back.
`UnlockFormAnswers` is inductive with the types. `SequentialLock` is by
`SeqInv`: nothing is ever left without alarm, what a write is about to set the
alarm for is what it stored, and after the removal no session there was is left.

`DesktopProofs`: `StaysLocked` from the awaits each kind of operation can be at
(`Shape`) and from `LateOK`: while the vault is closed every commit or rekey in
flight was there at the lock. `PasswordSettled` from `KeyInv`: without a key
race a rekey or a creation is alone in flight, and everything else carries the
file's password. `MemoryMatchesFile` from `OneInv`: a single task in flight has
in hand what it wrote or read, and has not touched the file before that.
`OnlyCutWritesBreak` shows that the one condition left, a file that cannot be
read, comes from failed writes and crashes alone.

`WebVaultProofs`: `DeletedStaysDeleted` and `LoadingEnds` are inductive with the
types. `ListIsVault` needs `ListInv`: at most one list is under way, and an
answered list is the vault unless an import is still adding to it. `EditsKept`
needs `KeepInv`: an unmuddled user has one operation under way (`Alone`), what
is wanted is what the server has with that operation's change applied
(`Settled`), and the list and the open editor show what the server has unless
they are `stale` (`ListFits`, `EditorFits`): a lost answer keeps `Settled`, since
what was wanted did happen, and gives up only what is shown. On top of it
`FieldsFit` says that a request of the notes box or the star carries the other
field as the server has it. With what the end of a request does to the server
(`RequestEnds`) that is `JustTheField`, the true part of what `JustTheNotes`
claims, for any number of tasks, whether the answer arrives or is lost. `SequentialNotes` does without `muddled`: with one task `SeqInv` keeps
the list equal to the vault outside reloads and imports, whatever the user
locks, opens or cancels.

`WebAuthProofs`: `StoredWasAccepted` from `AcceptedOK`, a handler past its
answer has a password its account had; this holds for overlapping handlers too.
`VaultIsSessions` from `AloneInv`: without overlap a sign-in under way means
that no session is there, and a banner without a session is that of the
registration under way. `OnlyKnownAccounts` holds with overlap as well: a
handler that was let in is one of a registered account (`LetInOK`).

Only model-checked: the liveness properties `ReuseEndsFamily`, `LockLifts`,
`RightPasswordOpens` and `FormAnswers` themselves, since fairness and `ENABLED`
are out of the prover's reach; their safety halves are proved as said above.

## Not modelled

* Cryptography: Argon2id, HMAC, AES-GCM, RSA-OAEP envelopes, JWT signatures
  and random values are checks that succeed or fail and values that never
  collide. Six-digit codes that agree by chance are not modelled.
* The WebAuthn ceremonies: challenge store, attestation, assertion, signature
  counter and handleLogin's passkey count. Their outcome is the go-webauthn
  library's and the authenticator's; `Sessions`, `Lockout` and `WebAuth` have a
  passkey login that succeeds or fails.
* The rate limiter: any request may be refused in every model, which is all the
  limiter can do to the rest; its own window is not counted.
* The audit log: best-effort inserts that no decision reads.
* The extension's captured login and its content script: one value that the
  session handlers do not touch, and form detection in a page.
* Pure algorithms (import and export formats, health report, client-side TOTP,
  password scoring, backup): functions of strings without state or order of
  events, covered by the repository's unit tests.
* The choice among several desktop vault files; the second `Store` back ends
  beyond the statements `Sessions`, `TOTP` and `AccountKeys` use.
* Account deletion in `Lockout` and `TOTP` (their rows vanish with the account).
* Audit, logging, response bodies, routing, configuration, rendering, the mobile
  wrapper and the site: no state of their own, or no logic.
