----------------------------- MODULE AccountKeys -----------------------------
(***************************************************************************)
(* The key hierarchy of one identifier: what packages/crypto derives and   *)
(* wraps (account.ts, sharing.ts), what packages/api-client/src/session.ts *)
(* sends and keeps, and the rows the server stores for it.                 *)
(*                                                                         *)
(* Keys are symbolic.  Registration bundle n makes user key n and key pair *)
(* n, and the account created from it has id n.  An EncString is a record  *)
(* of the key it is encrypted by and its plaintext; decrypting with any    *)
(* other key throws.  The password hash and the recovery auth hash are as  *)
(* distinct as what they are derived from.                                 *)
(*                                                                         *)
(* Each device runs one operation at a time, with a step per request; the  *)
(* answer to a request may be lost.                                        *)
(***************************************************************************)
EXTENDS Naturals

CONSTANTS
    Devices,
    Ids,         \* cipher ids the server hands out
    Values,      \* item contents
    Passwords,   \* master passwords
    MaxBundles,  \* bound on registrations tried
    MaxCodes     \* bound on recovery codes generated

ASSUME KeysAssumption ==
    /\ Ids # {}
    /\ 0 \notin Values
    /\ Passwords # {}
    /\ MaxBundles \in Nat
    /\ MaxCodes \in Nat

VARIABLES
    \* The users row of the identifier.
    userId,       \* 0 when there is none
    verifier,     \* of the master password
    wrapped,      \* protectedUserKey
    recVerifier,  \* of the recovery code, 0 for none
    recovery,     \* recoveryProtectedUserKey
    keypair,      \* publicKey and protectedPrivateKey
    \* Other rows.
    ciphers,      \* the vault items
    shares,       \* what others have shared with this identifier
    \* The devices: the Session and the operation in progress with its locals.
    sess, at, pw, code, key, acct, item,
    lookup,       \* the key pair that another user's shareItem looked up
    \* History.
    bundles,      \* registrations tried
    codes,        \* recovery codes generated
    crossed,      \* a registration signed in to an account it did not create
    lateShare     \* a share was sealed for an account that was then replaced

row == <<userId, verifier, wrapped, recVerifier, recovery, keypair>>
locals == <<pw, code, key, acct, item>>
client == <<sess, at, locals>>
vars == <<row, ciphers, shares, client, lookup, bundles, codes, crossed, lateShare>>

----------------------------------------------------------------------------
(* Types *)

Bundle == 0 .. MaxBundles
Code == 0 .. MaxCodes

\* encryptItemKeyed: the item key wrapped by user key `by`, the content by it.
Cipher == [owner : Bundle, by : Bundle, val : Values \cup {0}]
NoCipher == [owner |-> 0, by |-> 0, val |-> 0]

\* Session: account of the access token, user key, key that opens its private
\* key, and the pair that one belongs to.
Session == [acct : Bundle, key : Bundle, privBy : Bundle, pair : Bundle]
NoSession == [acct |-> 0, key |-> 0, privBy |-> 0, pair |-> 0]

\* wrapUserKey: user key k under the stretched master key of password p.
WrapUserKey(p, k) == [by |-> p, key |-> k]

\* wrapUserKeyWithRecovery: user key k under the key of recovery code c.
WrapWithRecovery(c, k) == [by |-> c, key |-> k]
NoRecovery == [by |-> 0, key |-> 0]

\* generateUserKeypair: the pair made with user key k, which wraps its private
\* half.
Keypair(k) == [by |-> k, pair |-> k]
NoKeypair == [by |-> 0, pair |-> 0]

NoItem == [id |-> CHOOSE i \in Ids : TRUE, val |-> 0]
SomePassword == CHOOSE p \in Passwords : TRUE

Ops == {"idle", "register", "signin", "login", "enable", "disable", "challenge",
        "complete", "rotate", "add", "update", "remove", "delete"}

TypeOK ==
    /\ userId \in Bundle
    /\ verifier \in Passwords
    /\ wrapped \in [by : Passwords, key : Bundle]
    /\ recVerifier \in Code
    /\ recovery \in [by : Code, key : Bundle]
    /\ keypair \in [by : Bundle, pair : Bundle]
    /\ ciphers \in [Ids -> Cipher]
    /\ shares \subseteq [to : Bundle, pair : Bundle]
    /\ sess \in [Devices -> Session]
    /\ at \in [Devices -> Ops]
    /\ pw \in [Devices -> Passwords]
    /\ code \in [Devices -> Code]
    /\ key \in [Devices -> Bundle]
    /\ acct \in [Devices -> Bundle]
    /\ item \in [Devices -> [id : Ids, val : Values \cup {0}]]
    /\ lookup \in Bundle
    /\ bundles \in Bundle
    /\ codes \in Code
    /\ crossed \in BOOLEAN
    /\ lateShare \in BOOLEAN

Init ==
    /\ userId = 0
    /\ verifier = SomePassword
    /\ wrapped = [by |-> SomePassword, key |-> 0]
    /\ recVerifier = 0
    /\ recovery = NoRecovery
    /\ keypair = NoKeypair
    /\ ciphers = [i \in Ids |-> NoCipher]
    /\ shares = {}
    /\ sess = [d \in Devices |-> NoSession]
    /\ at = [d \in Devices |-> "idle"]
    /\ pw = [d \in Devices |-> SomePassword]
    /\ code = [d \in Devices |-> 0]
    /\ key = [d \in Devices |-> 0]
    /\ acct = [d \in Devices |-> 0]
    /\ item = [d \in Devices |-> NoItem]
    /\ lookup = 0
    /\ bundles = 0
    /\ codes = 0
    /\ crossed = FALSE
    /\ lateShare = FALSE

----------------------------------------------------------------------------
(* An operation's locals *)

SignedIn(d) == sess[d].acct # 0

\* Device d's operation goes on to request o with password p, code c, user key
\* k, account a and item x in hand.
Goto(d, o, p, c, k, a, x) ==
    /\ at' = [at EXCEPT ![d] = o]
    /\ pw' = [pw EXCEPT ![d] = p]
    /\ code' = [code EXCEPT ![d] = c]
    /\ key' = [key EXCEPT ![d] = k]
    /\ acct' = [acct EXCEPT ![d] = a]
    /\ item' = [item EXCEPT ![d] = x]

\* The operation ends.
Done(d) == Goto(d, "idle", SomePassword, 0, 0, 0, NoItem)

\* An operation of a signed-in device starts with the token and key of its
\* session.
Use(d, o, c, x) ==
    /\ at[d] = "idle"
    /\ SignedIn(d)
    /\ Goto(d, o, SomePassword, c, sess[d].key, sess[d].acct, x)
    /\ UNCHANGED <<row, ciphers, shares, sess, lookup, bundles, crossed, lateShare>>

\* One that signs in starts from what the user typed.
Type(d, o, p, c, k) ==
    /\ at[d] = "idle"
    /\ ~SignedIn(d)
    /\ Goto(d, o, p, c, k, 0, NoItem)
    /\ UNCHANGED <<row, ciphers, shares, sess, lookup, codes, crossed, lateShare>>

\* The operation ends with session s, or with an error when its answer is lost.
SignIn(d, s) ==
    /\ Done(d)
    /\ \/ sess' = [sess EXCEPT ![d] = s]
       \/ UNCHANGED sess

----------------------------------------------------------------------------
(* registerAccount, loginAccount *)

\* buildRegistration: a new user key wrapped under the password.
Register(d) ==
    /\ bundles < MaxBundles
    /\ bundles' = bundles + 1
    /\ \E p \in Passwords : Type(d, "register", p, 0, bundles + 1)

\* handleRegister; a taken identifier is a conflict.
RegisterServer(d) ==
    /\ at[d] = "register"
    /\ \/ /\ userId = 0
          /\ userId' = key[d]
          /\ verifier' = pw[d]
          /\ wrapped' = WrapUserKey(pw[d], key[d])
          /\ recVerifier' = 0
          /\ recovery' = NoRecovery
          /\ keypair' = Keypair(key[d])
          /\ Goto(d, "signin", pw[d], 0, key[d], 0, NoItem)
       \/ userId # 0 /\ Done(d) /\ UNCHANGED row
    /\ UNCHANGED <<ciphers, shares, sess, lookup, bundles, codes, crossed, lateShare>>

\* The login that follows; the session keeps the bundle's own keys.
SignInServer(d) ==
    /\ at[d] = "signin"
    /\ \/ /\ userId # 0
          /\ verifier = pw[d]
          /\ SignIn(d, [acct |-> userId, key |-> key[d], privBy |-> key[d], pair |-> key[d]])
          /\ crossed' = (crossed \/ userId # key[d])
       \/ (userId = 0 \/ verifier # pw[d]) /\ Done(d) /\ UNCHANGED <<sess, crossed>>
    /\ UNCHANGED <<row, ciphers, shares, lookup, bundles, codes, lateShare>>

\* loginAccount and loginWithPasskey up to the server's check.
Login(d) ==
    \E p \in Passwords : Type(d, "login", p, 0, 0) /\ UNCHANGED bundles

\* Mutant: the session is left without the private key.
LoginWithoutPair(d) ==
    /\ at[d] = "login"
    /\ IF userId # 0 /\ verifier = pw[d] /\ wrapped.by = pw[d]
       THEN SignIn(d, [acct |-> userId, key |-> wrapped.key, privBy |-> keypair.by, pair |-> 0])
       ELSE Done(d) /\ UNCHANGED sess
    /\ UNCHANGED <<row, ciphers, shares, lookup, bundles, codes, crossed, lateShare>>

\* The server compares the hash and answers with the wrapped keys, which the
\* client unwraps with the same password.  A missing second factor is a lost
\* answer here.
LoginServer(d) ==
    /\ at[d] = "login"
    /\ IF userId # 0 /\ verifier = pw[d] /\ wrapped.by = pw[d]
       THEN SignIn(d, [acct |-> userId, key |-> wrapped.key, privBy |-> keypair.by, pair |-> keypair.pair])
       ELSE Done(d) /\ UNCHANGED sess
    /\ UNCHANGED <<row, ciphers, shares, lookup, bundles, codes, crossed, lateShare>>

\* lock or signOut: the session is dropped, a request in flight is not.
SignOut(d) ==
    /\ SignedIn(d)
    /\ sess' = [sess EXCEPT ![d] = NoSession]
    /\ UNCHANGED <<row, ciphers, shares, at, locals, lookup, bundles, codes, crossed, lateShare>>

----------------------------------------------------------------------------
(* Recovery *)

\* enrollRecovery: a new code and the session's user key wrapped under it.
EnableRecovery(d) ==
    /\ codes < MaxCodes
    /\ codes' = codes + 1
    /\ Use(d, "enable", codes + 1, NoItem)

DisableRecovery(d) == Use(d, "disable", 0, NoItem) /\ UNCHANGED codes

\* SetUserRecovery and ClearUserRecovery: one statement, on the row of the
\* token's account only.
EnableServer(d) ==
    /\ at[d] \in {"enable", "disable"}
    /\ IF userId = acct[d]
       THEN /\ recVerifier' = code[d]
            /\ recovery' = IF at[d] = "enable" THEN WrapWithRecovery(code[d], key[d]) ELSE NoRecovery
       ELSE UNCHANGED <<recVerifier, recovery>>
    /\ Done(d)
    /\ UNCHANGED <<userId, verifier, wrapped, keypair, ciphers, shares, sess, lookup, bundles, codes, crossed, lateShare>>

\* recoverAccount with a code the user was once shown and a new password.
Recover(d) ==
    /\ \E c \in 1 .. codes, p \in Passwords : Type(d, "challenge", p, c, 0)
    /\ UNCHANGED bundles

\* Mutant: the new password wraps a new user key instead of the recovered one.
ChallengeNewKey(d) ==
    /\ at[d] = "challenge"
    /\ IF recVerifier # 0 /\ recovery.by = code[d]
       THEN Goto(d, "complete", pw[d], code[d], 0, 0, NoItem)
       ELSE Done(d)
    /\ UNCHANGED <<row, ciphers, shares, sess, lookup, bundles, codes, crossed, lateShare>>

\* recoveryChallenge, then completeRecovery: without recovery the answer is a
\* decoy, which no code opens.
Challenge(d) ==
    /\ at[d] = "challenge"
    /\ IF recVerifier # 0 /\ recovery.by = code[d]
       THEN Goto(d, "complete", pw[d], code[d], recovery.key, 0, NoItem)
       ELSE Done(d)
    /\ UNCHANGED <<row, ciphers, shares, sess, lookup, bundles, codes, crossed, lateShare>>

\* handleRecoveryComplete: the code's verifier is checked on the row read...
CompleteVerify(d) ==
    /\ at[d] = "complete"
    /\ IF userId # 0 /\ recVerifier # 0 /\ recVerifier = code[d]
       THEN Goto(d, "rotate", pw[d], code[d], key[d], userId, NoItem)
       ELSE Done(d)
    /\ UNCHANGED <<row, ciphers, shares, sess, lookup, bundles, codes, crossed, lateShare>>

\* Mutant: the verifier is rotated and the wrapped key is not.
RotateVerifierOnly(d) ==
    /\ at[d] = "rotate"
    /\ IF userId = acct[d]
       THEN /\ verifier' = pw[d]
            /\ SignIn(d, [acct |-> userId, key |-> key[d], privBy |-> keypair.by, pair |-> keypair.pair])
       ELSE Done(d) /\ UNCHANGED <<verifier, sess>>
    /\ UNCHANGED <<userId, wrapped, recVerifier, recovery, keypair, ciphers, shares, lookup, bundles, codes, crossed, lateShare>>

\* Mutant: the update names the identifier, whoever has it by now.
RotateByIdentifier(d) ==
    /\ at[d] = "rotate"
    /\ verifier' = pw[d]
    /\ wrapped' = WrapUserKey(pw[d], key[d])
    /\ SignIn(d, [acct |-> userId, key |-> key[d], privBy |-> keypair.by, pair |-> keypair.pair])
    /\ UNCHANGED <<userId, recVerifier, recovery, keypair, ciphers, shares, lookup, bundles, codes, crossed, lateShare>>

\* ... and the row of that id is updated by RotateMasterPassword.  The device is
\* signed in, unless the answer is lost.
CompleteRotate(d) ==
    /\ at[d] = "rotate"
    /\ IF userId = acct[d]
       THEN /\ verifier' = pw[d]
            /\ wrapped' = WrapUserKey(pw[d], key[d])
            /\ \/ SignIn(d, [acct |-> userId, key |-> key[d], privBy |-> keypair.by, pair |-> keypair.pair])
               \/ Done(d) /\ UNCHANGED sess
       ELSE Done(d) /\ UNCHANGED <<verifier, wrapped, sess>>
    /\ UNCHANGED <<userId, recVerifier, recovery, keypair, ciphers, shares, lookup, bundles, codes, crossed, lateShare>>

----------------------------------------------------------------------------
(* Items *)

\* addItem, saveItem and removeItem encrypt under the session's user key.
AddItem(d) ==
    /\ \E v \in Values : Use(d, "add", 0, [NoItem EXCEPT !.val = v])
    /\ UNCHANGED codes

SaveItem(d) ==
    /\ \E i \in Ids, v \in Values :
         ciphers[i].owner = sess[d].acct /\ Use(d, "update", 0, [id |-> i, val |-> v])
    /\ UNCHANGED codes

RemoveItem(d) ==
    /\ \E i \in Ids :
         ciphers[i].owner = sess[d].acct /\ Use(d, "remove", 0, [id |-> i, val |-> 0])
    /\ UNCHANGED codes

\* Mutant: the wrapped item key is not sent.
SealedWithoutKey(d) == [owner |-> acct[d], val |-> item[d].val]

\* The ciphers row that device d's operation stores.
Sealed(d) == [owner |-> acct[d], by |-> key[d], val |-> item[d].val]

\* CreateCipher checks nothing but the token.
AddServer(d) ==
    /\ at[d] = "add"
    /\ \E i \in Ids :
         /\ ciphers[i].owner = 0
         /\ ciphers' = [ciphers EXCEPT ![i] = Sealed(d)]
    /\ Done(d)
    /\ UNCHANGED <<row, shares, sess, lookup, bundles, codes, crossed, lateShare>>

\* UpdateCipher and DeleteCipher: a row of the same owner, or not found.
PutServer(d) ==
    /\ at[d] \in {"update", "remove"}
    /\ LET i == item[d].id
       IN  IF ciphers[i].owner = acct[d]
           THEN ciphers' = [ciphers EXCEPT ![i] = IF at[d] = "update" THEN Sealed(d) ELSE NoCipher]
           ELSE UNCHANGED ciphers
    /\ Done(d)
    /\ UNCHANGED <<row, shares, sess, lookup, bundles, codes, crossed, lateShare>>

\* decryptItemKeyed with the user key of session s.
OpensItem(s, c) == c.by = s.key

OwnItems(s) == {i \in Ids : ciphers[i].owner = s.acct}

\* loadVault: the items of the account that decrypt; the others are skipped.
LoadVault(s) == {i \in OwnItems(s) : OpensItem(s, ciphers[i])}

----------------------------------------------------------------------------
(* Account deletion and sharing *)

DeleteAccount(d) == Use(d, "delete", 0, NoItem) /\ UNCHANGED codes

\* Store.DeleteAccount: the user and all rows that name it, in one transaction.
\* The device leaves its session when it learns of it.
DeleteServer(d) ==
    /\ at[d] = "delete"
    /\ IF userId = acct[d]
       THEN /\ userId' = 0
            /\ recVerifier' = 0
            /\ recovery' = NoRecovery
            /\ keypair' = NoKeypair
            /\ ciphers' = [i \in Ids |-> IF ciphers[i].owner = acct[d] THEN NoCipher ELSE ciphers[i]]
            /\ shares' = {s \in shares : s.to # acct[d]}
            /\ sess' \in {[sess EXCEPT ![d] = NoSession], sess}
       ELSE UNCHANGED <<userId, recVerifier, recovery, keypair, ciphers, shares, sess>>
    /\ Done(d)
    /\ UNCHANGED <<verifier, wrapped, lookup, bundles, codes, crossed, lateShare>>

\* Another user's shareItem: lookupPublicKey ...
ShareLookup ==
    /\ userId # 0
    /\ lookup = 0
    /\ lookup' = keypair.pair
    /\ UNCHANGED <<row, ciphers, shares, client, bundles, codes, crossed, lateShare>>

\* ... then the envelope is sealed for that key and stored for whoever has the
\* identifier now, or refused when nobody has.
ShareServer ==
    /\ lookup # 0
    /\ IF userId # 0
       THEN /\ shares' = shares \cup {[to |-> userId, pair |-> lookup]}
            /\ lateShare' = (lateShare \/ lookup # keypair.pair)
       ELSE UNCHANGED <<shares, lateShare>>
    /\ lookup' = 0
    /\ UNCHANGED <<row, ciphers, client, bundles, codes, crossed>>

\* openShare: the user key opens the private key, and that one the share.
OpensShare(s, x) == s.privBy = s.key /\ x.pair = s.pair

OwnShares(s) == {x \in shares : x.to = s.acct}

\* listSharedWithMe: the shares that open; the others are skipped.
ListSharedWithMe(s) == {x \in OwnShares(s) : OpensShare(s, x)}

\* deleteShare by the recipient.
RemoveShare(d) ==
    /\ SignedIn(d)
    /\ \E s \in shares : s.to = sess[d].acct /\ shares' = shares \ {s}
    /\ UNCHANGED <<row, ciphers, client, lookup, bundles, codes, crossed, lateShare>>

\* A request that is refused, or fails before it takes effect (rate limit,
\* lockout, store error, network), ends its operation.
Fails(d) ==
    /\ at[d] # "idle"
    /\ Done(d)
    /\ UNCHANGED <<row, ciphers, shares, sess, lookup, bundles, codes, crossed, lateShare>>

----------------------------------------------------------------------------

Start(d) ==
    \/ Register(d) \/ Login(d) \/ SignOut(d) \/ EnableRecovery(d) \/ DisableRecovery(d)
    \/ Recover(d) \/ AddItem(d) \/ SaveItem(d) \/ RemoveItem(d) \/ DeleteAccount(d) \/ RemoveShare(d)

Serve(d) ==
    \/ RegisterServer(d) \/ SignInServer(d) \/ LoginServer(d) \/ EnableServer(d) \/ Challenge(d)
    \/ CompleteVerify(d) \/ CompleteRotate(d) \/ AddServer(d) \/ PutServer(d) \/ DeleteServer(d)
    \/ Fails(d)

Next ==
    \/ \E d \in Devices : Start(d) \/ Serve(d)
    \/ ShareLookup
    \/ ShareServer

Spec == Init /\ [][Next]_vars

----------------------------------------------------------------------------
(* Properties *)

\* Whatever credential the server accepts, the key it guards is the one the
\* account was created with: password and recovery code each unwrap it, also
\* after overlapping recoveries, enrolments and deletions.
CredentialsOpenVault ==
    userId # 0 /\ ~crossed =>
      /\ wrapped = [by |-> verifier, key |-> userId]
      /\ recVerifier # 0 => recovery = [by |-> recVerifier, key |-> userId]

\* No signed-in device ever meets an item of its account that it would skip.
NothingSkipped ==
    ~crossed => \A d \in Devices : SignedIn(d) => LoadVault(sess[d]) = OwnItems(sess[d])

\* Every share opens with the private key of every signed-in device of its
\* recipient, except one whose recipient's account was replaced between the
\* sender's two requests.
SharesOpen ==
    ~crossed /\ ~lateShare =>
      \A d \in Devices : SignedIn(d) => ListSharedWithMe(sess[d]) = OwnShares(sess[d])

\* The account keeps the promises of AccountVault: its items are those that
\* the user key opens which the accepted password unwraps.
OpenedBy == IF wrapped.by = verifier THEN wrapped.key ELSE 0

Plain(i) == IF userId # 0 /\ ciphers[i].owner = userId /\ ciphers[i].by = OpenedBy THEN ciphers[i].val ELSE 0

Plains == [i \in Ids |-> Plain(i)]

\* The recoveries whose code was accepted for the account there is.
Accepted == {d \in Devices : at[d] = "rotate" /\ userId # 0 /\ acct[d] = userId}

Sound == ~crossed

Abstract == INSTANCE AccountVault WITH
    owner <- userId,
    password <- verifier,
    code <- recVerifier,
    plain <- Plains,
    granted <- Accepted,
    sound <- Sound

KeepsPromises == Abstract!Spec
=============================================================================
