------------------------- MODULE AccountKeysProofs -------------------------
(***************************************************************************)
(* Proofs about AccountKeys, for any number of devices, items, passwords,  *)
(* registrations and recovery codes.                                       *)
(***************************************************************************)
EXTENDS AccountKeys, TLAPS

----------------------------------------------------------------------------
(* Types *)

Item == [id : Ids, val : Values \cup {0}]

\* TypeOK, split by what the actions change together.
RowType ==
    /\ userId \in Bundle
    /\ verifier \in Passwords
    /\ wrapped \in [by : Passwords, key : Bundle]
    /\ recVerifier \in Code
    /\ recovery \in [by : Code, key : Bundle]
    /\ keypair \in [by : Bundle, pair : Bundle]

LocalsType ==
    /\ at \in [Devices -> Ops]
    /\ pw \in [Devices -> Passwords]
    /\ code \in [Devices -> Code]
    /\ key \in [Devices -> Bundle]
    /\ acct \in [Devices -> Bundle]
    /\ item \in [Devices -> Item]

CountType ==
    /\ lookup \in Bundle
    /\ bundles \in Bundle
    /\ codes \in Code
    /\ crossed \in BOOLEAN
    /\ lateShare \in BOOLEAN

CiphersType == ciphers \in [Ids -> Cipher]
SharesType == shares \subseteq [to : Bundle, pair : Bundle]
SessType == sess \in [Devices -> Session]

\* The parts make up TypeOK.
LEMMA TypeParts ==
    TypeOK <=> RowType /\ LocalsType /\ CountType /\ CiphersType /\ SharesType /\ SessType
  BY Zenon DEF TypeOK, RowType, LocalsType, CountType, CiphersType, SharesType, SessType, Item

\* What the defaults of the locals are.
LEMMA Defaults ==
    /\ SomePassword \in Passwords
    /\ NoItem \in Item
    /\ 0 \in Bundle
    /\ 0 \in Code
  BY KeysAssumption DEF SomePassword, NoItem, Item, Bundle, Code

\* The initial state has the types.
LEMMA TypeInit == Init => TypeOK
<1> SUFFICES ASSUME Init PROVE TypeOK
  OBVIOUS
<1>1. RowType
  BY Defaults DEF Init, RowType, NoRecovery, NoKeypair
<1>2. LocalsType
  BY Defaults DEF Init, LocalsType, Ops
<1>3. CountType
  BY Defaults DEF Init, CountType
<1>4. CiphersType /\ SharesType /\ SessType
  BY Defaults DEF Init, CiphersType, SharesType, SessType, Cipher, NoCipher, Session, NoSession
<1> QED BY <1>1, <1>2, <1>3, <1>4, TypeParts

\* Goto and Done keep the types of the locals.
LEMMA GotoType ==
    ASSUME LocalsType, NEW d \in Devices, NEW o \in Ops, NEW p \in Passwords, NEW c \in Code,
           NEW k \in Bundle, NEW a \in Bundle, NEW x \in Item, Goto(d, o, p, c, k, a, x)
    PROVE  LocalsType'
  BY DEF LocalsType, Goto

\* The end of an operation keeps the types of the locals.
LEMMA DoneType ==
    ASSUME LocalsType, NEW d \in Devices, Done(d)
    PROVE  LocalsType'
  BY GotoType, Defaults DEF Done, Ops

\* What a device holds has the types.
LEMMA LocalType ==
    ASSUME TypeOK, NEW d \in Devices
    PROVE  /\ at[d] \in Ops
           /\ pw[d] \in Passwords
           /\ code[d] \in Code
           /\ key[d] \in Bundle
           /\ acct[d] \in Bundle
           /\ item[d] \in Item
           /\ sess[d] \in Session
           /\ sess[d].acct \in Bundle
           /\ sess[d].key \in Bundle
  BY TypeParts DEF LocalsType, SessType, Session

\* SignIn keeps the types.
LEMMA SignInType ==
    ASSUME TypeOK, NEW d \in Devices, NEW s \in Session, SignIn(d, s)
    PROVE  LocalsType' /\ SessType'
  BY DoneType, TypeParts DEF SignIn, SessType

\* Starting an operation keeps the types of everything but the counters.
LEMMA StartType ==
    ASSUME TypeOK, NEW d \in Devices,
           \/ \E o \in Ops, p \in Passwords, c \in Code, k \in Bundle : Type(d, o, p, c, k)
           \/ \E o \in Ops, c \in Code, x \in Item : Use(d, o, c, x)
    PROVE  RowType' /\ LocalsType' /\ CiphersType' /\ SharesType' /\ SessType'
           /\ lookup' \in Bundle /\ crossed' \in BOOLEAN /\ lateShare' \in BOOLEAN
<1>1. LocalsType'
  BY GotoType, LocalType, Defaults, TypeParts DEF Type, Use
<1>2. RowType' /\ CiphersType' /\ SharesType' /\ SessType'
      /\ lookup' \in Bundle /\ crossed' \in BOOLEAN /\ lateShare' \in BOOLEAN
  BY TypeParts DEF Type, Use, row, RowType, CiphersType, SharesType, SessType, CountType
<1> QED BY <1>1, <1>2

\* The start of every operation and every request keep the types.
LEMMA TypeNext == TypeOK /\ [Next]_vars => TypeOK'
<1> SUFFICES ASSUME TypeOK, [Next]_vars PROVE TypeOK'
  OBVIOUS
<1>t. RowType /\ LocalsType /\ CountType /\ CiphersType /\ SharesType /\ SessType
  BY TypeParts
<1> SUFFICES RowType' /\ LocalsType' /\ CountType' /\ CiphersType' /\ SharesType' /\ SessType'
  BY TypeParts DEF TypeOK, RowType, LocalsType, CountType, CiphersType, SharesType, SessType, Item
<1>1. CASE \E d \in Devices : Start(d)
  <2> PICK d \in Devices : Start(d)
    BY <1>1
  <2>1. CASE Register(d)
    <3>1. \E p \in Passwords : Type(d, "register", p, 0, bundles + 1)
      BY <2>1 DEF Register
    <3>2. bundles + 1 \in Bundle /\ "register" \in Ops
      BY <1>t, <2>1, KeysAssumption DEF Register, CountType, Bundle, Ops
    <3>3. codes' = codes /\ bundles' = bundles + 1
      BY <2>1, <3>1 DEF Register, Type
    <3> QED BY <1>t, <3>1, <3>2, <3>3, StartType, Defaults DEF CountType
  <2>2. CASE Login(d)
    <3>1. \E p \in Passwords : Type(d, "login", p, 0, 0)
      BY <2>2 DEF Login
    <3>2. "login" \in Ops /\ codes' = codes /\ bundles' = bundles
      BY <2>2, <3>1 DEF Login, Type, Ops
    <3> QED BY <1>t, <3>1, <3>2, StartType, Defaults DEF CountType
  <2>3. CASE SignOut(d)
    <3>1. SessType'
      BY <1>t, <2>3, Defaults DEF SignOut, SessType, NoSession, Session
    <3>2. RowType' /\ LocalsType' /\ CountType' /\ CiphersType' /\ SharesType'
      BY <1>t, <2>3 DEF SignOut, row, locals, RowType, LocalsType, CountType, CiphersType, SharesType
    <3> QED BY <3>1, <3>2
  <2>4. CASE EnableRecovery(d)
    <3>1. Use(d, "enable", codes + 1, NoItem) /\ codes' = codes + 1
      BY <2>4 DEF EnableRecovery
    <3>2. codes + 1 \in Code /\ "enable" \in Ops /\ bundles' = bundles
      BY <1>t, <2>4, <3>1, KeysAssumption DEF EnableRecovery, Use, CountType, Code, Ops
    <3> QED BY <1>t, <3>1, <3>2, StartType, Defaults DEF CountType
  <2>5. CASE DisableRecovery(d) \/ DeleteAccount(d)
    <3>1. \E o \in Ops : Use(d, o, 0, NoItem) /\ codes' = codes
      BY <2>5 DEF DisableRecovery, DeleteAccount, Ops
    <3>2. bundles' = bundles
      BY <3>1 DEF Use
    <3> QED BY <1>t, <3>1, <3>2, StartType, Defaults DEF CountType
  <2>6. CASE Recover(d)
    <3>1. \E c \in 1 .. codes, p \in Passwords : Type(d, "challenge", p, c, 0)
      BY <2>6 DEF Recover
    <3>2. \A c \in 1 .. codes : c \in Code
      BY <1>t, KeysAssumption DEF CountType, Code
    <3>3. "challenge" \in Ops /\ codes' = codes /\ bundles' = bundles
      BY <2>6, <3>1 DEF Recover, Type, Ops
    <3> QED BY <1>t, <3>1, <3>2, <3>3, StartType, Defaults DEF CountType
  <2>7. CASE AddItem(d)
    <3>1. \E v \in Values : Use(d, "add", 0, [NoItem EXCEPT !.val = v]) /\ codes' = codes
      BY <2>7 DEF AddItem
    <3>2. \A v \in Values : [NoItem EXCEPT !.val = v] \in Item
      BY Defaults DEF Item
    <3>3. "add" \in Ops /\ bundles' = bundles
      BY <3>1 DEF Use, Ops
    <3> QED BY <1>t, <3>1, <3>2, <3>3, StartType, Defaults DEF CountType
  <2>8. CASE SaveItem(d) \/ RemoveItem(d)
    <3>1. \E i \in Ids, v \in Values \cup {0}, o \in Ops : Use(d, o, 0, [id |-> i, val |-> v]) /\ codes' = codes
      BY <2>8 DEF SaveItem, RemoveItem, Ops
    <3>2. \A i \in Ids, v \in Values \cup {0} : [id |-> i, val |-> v] \in Item
      BY DEF Item
    <3>3. bundles' = bundles
      BY <3>1 DEF Use
    <3> QED BY <1>t, <3>1, <3>2, <3>3, StartType, Defaults DEF CountType
  <2>9. CASE RemoveShare(d)
    BY <1>t, <2>9 DEF RemoveShare, row, client, locals, RowType, LocalsType, CountType, CiphersType, SharesType, SessType
  <2> QED BY <2>1, <2>2, <2>3, <2>4, <2>5, <2>6, <2>7, <2>8, <2>9 DEF Start
<1>2. CASE \E d \in Devices : Serve(d)
  <2> PICK d \in Devices : Serve(d)
    BY <1>2
  <2>l. /\ pw[d] \in Passwords
        /\ code[d] \in Code
        /\ key[d] \in Bundle
        /\ acct[d] \in Bundle
        /\ item[d] \in Item
    BY LocalType
  <2>o. {"idle", "signin", "complete", "rotate"} \subseteq Ops
    BY DEF Ops
  <2>1. CASE RegisterServer(d)
    <3>1. LocalsType'
      BY <1>t, <2>1, <2>l, <2>o, GotoType, DoneType, Defaults DEF RegisterServer
    <3>2. RowType'
      BY <1>t, <2>1, <2>l, Defaults DEF RegisterServer, RowType, row, WrapUserKey, NoRecovery, Keypair
    <3>3. CountType' /\ CiphersType' /\ SharesType' /\ SessType'
      BY <1>t, <2>1 DEF RegisterServer, CountType, CiphersType, SharesType, SessType
    <3> QED BY <3>1, <3>2, <3>3
  <2>2. CASE SignInServer(d)
    <3>1. LocalsType' /\ SessType'
      <4>1. [acct |-> userId, key |-> key[d], privBy |-> key[d], pair |-> key[d]] \in Session
        BY <1>t, <2>l DEF RowType, Session
      <4> QED BY <1>t, <2>2, <4>1, SignInType, DoneType DEF SignInServer, SessType
    <3>2. RowType' /\ CiphersType' /\ SharesType'
      BY <1>t, <2>2 DEF SignInServer, row, RowType, CiphersType, SharesType
    <3>3. CountType'
      BY <1>t, <2>2 DEF SignInServer, CountType
    <3> QED BY <3>1, <3>2, <3>3
  <2>3. CASE LoginServer(d)
    <3>1. LocalsType' /\ SessType'
      <4>1. [acct |-> userId, key |-> wrapped.key, privBy |-> keypair.by, pair |-> keypair.pair] \in Session
        BY <1>t DEF RowType, Session
      <4> QED BY <1>t, <2>3, <4>1, SignInType, DoneType DEF LoginServer, SessType
    <3>2. RowType' /\ CountType' /\ CiphersType' /\ SharesType'
      BY <1>t, <2>3 DEF LoginServer, row, RowType, CountType, CiphersType, SharesType
    <3> QED BY <3>1, <3>2
  <2>4. CASE EnableServer(d)
    <3>1. LocalsType'
      BY <1>t, <2>4, DoneType DEF EnableServer
    <3>2. RowType'
      BY <1>t, <2>4, <2>l, Defaults DEF EnableServer, RowType, WrapWithRecovery, NoRecovery
    <3>3. CountType' /\ CiphersType' /\ SharesType' /\ SessType'
      BY <1>t, <2>4 DEF EnableServer, CountType, CiphersType, SharesType, SessType
    <3> QED BY <3>1, <3>2, <3>3
  <2>5. CASE Challenge(d) \/ CompleteVerify(d) \/ Fails(d)
    <3>1. recovery.key \in Bundle /\ userId \in Bundle
      BY <1>t DEF RowType
    <3>2. LocalsType'
      BY <1>t, <2>5, <2>l, <2>o, <3>1, GotoType, DoneType, Defaults DEF Challenge, CompleteVerify, Fails
    <3>3. RowType' /\ CountType' /\ CiphersType' /\ SharesType' /\ SessType'
      BY <1>t, <2>5 DEF Challenge, CompleteVerify, Fails, row, RowType, CountType, CiphersType, SharesType, SessType
    <3> QED BY <3>2, <3>3
  <2>6. CASE CompleteRotate(d)
    <3>1. LocalsType' /\ SessType'
      <4>1. [acct |-> userId, key |-> key[d], privBy |-> keypair.by, pair |-> keypair.pair] \in Session
        BY <1>t, <2>l DEF RowType, Session
      <4> QED BY <1>t, <2>6, <4>1, SignInType, DoneType DEF CompleteRotate, SessType
    <3>2. RowType'
      BY <1>t, <2>6, <2>l DEF CompleteRotate, RowType, WrapUserKey
    <3>3. CountType' /\ CiphersType' /\ SharesType'
      BY <1>t, <2>6 DEF CompleteRotate, CountType, CiphersType, SharesType
    <3> QED BY <3>1, <3>2, <3>3
  <2>7. CASE AddServer(d) \/ PutServer(d)
    <3>1. LocalsType'
      BY <1>t, <2>7, DoneType DEF AddServer, PutServer
    <3>2. CiphersType'
      <4>1. Sealed(d) \in Cipher /\ NoCipher \in Cipher
        BY <2>l, Defaults DEF Sealed, NoCipher, Cipher, Item
      <4> QED BY <1>t, <2>7, <4>1 DEF AddServer, PutServer, CiphersType
    <3>3. RowType' /\ CountType' /\ SharesType' /\ SessType'
      BY <1>t, <2>7 DEF AddServer, PutServer, row, RowType, CountType, SharesType, SessType
    <3> QED BY <3>1, <3>2, <3>3
  <2>8. CASE DeleteServer(d)
    <3>1. LocalsType'
      BY <1>t, <2>8, DoneType DEF DeleteServer
    <3>2. RowType'
      BY <1>t, <2>8, Defaults DEF DeleteServer, RowType, NoRecovery, NoKeypair
    <3>3. CiphersType'
      <4>1. NoCipher \in Cipher
        BY Defaults DEF NoCipher, Cipher
      <4> QED BY <1>t, <2>8, <4>1 DEF DeleteServer, CiphersType
    <3>4. SharesType' /\ SessType'
      BY <1>t, <2>8, Defaults DEF DeleteServer, SharesType, SessType, NoSession, Session
    <3>5. CountType'
      BY <1>t, <2>8 DEF DeleteServer, CountType
    <3> QED BY <3>1, <3>2, <3>3, <3>4, <3>5
  <2> QED BY <2>1, <2>2, <2>3, <2>4, <2>5, <2>6, <2>7, <2>8 DEF Serve
<1>3. CASE ShareLookup
  BY <1>t, <1>3 DEF ShareLookup, row, client, locals, RowType, LocalsType, CountType, CiphersType, SharesType, SessType
<1>4. CASE ShareServer
  <2>1. userId \in Bundle /\ lookup \in Bundle /\ lateShare \in BOOLEAN
    BY <1>t DEF RowType, CountType
  <2>2. SharesType'
    BY <1>t, <1>4, <2>1 DEF ShareServer, SharesType
  <2>3. CountType'
    BY <1>t, <1>4, <2>1, Defaults DEF ShareServer, CountType
  <2>4. RowType' /\ LocalsType' /\ CiphersType' /\ SessType'
    BY <1>t, <1>4 DEF ShareServer, row, client, locals, RowType, LocalsType, CiphersType, SessType
  <2> QED BY <2>2, <2>3, <2>4
<1>5. CASE UNCHANGED vars
  BY <1>t, <1>5 DEF vars, row, client, locals, RowType, LocalsType, CountType, CiphersType, SharesType, SessType
<1> QED BY <1>1, <1>2, <1>3, <1>4, <1>5 DEF Next

\* Every row, session and local of AccountKeys has its type, whatever the
\* number of devices, items, passwords, registrations and codes.
THEOREM TypeCorrect == Spec => []TypeOK
  BY TypeInit, TypeNext, PTL DEF Spec

----------------------------------------------------------------------------
(* The inductive invariant.  CodeOK always holds; the others as long as no *)
(* registration was answered by an account that it did not create.         *)

\* The row wraps one user key, the account's own, in every way it is wrapped.
RowOK ==
    /\ userId # 0 =>
         /\ wrapped = WrapUserKey(verifier, userId)
         /\ keypair = Keypair(userId)
         /\ recVerifier # 0 => recovery = WrapWithRecovery(recVerifier, userId)
    /\ userId = 0 => recVerifier = 0

\* A session holds the keys of its account.
SessOK ==
    \A d \in Devices : SignedIn(d) =>
        /\ sess[d].key = sess[d].acct
        /\ sess[d].privBy = sess[d].acct
        /\ sess[d].pair = sess[d].acct

\* So does an operation in flight that writes under an account.
Writing == {"enable", "disable", "rotate", "add", "update", "remove", "delete"}
OpOK == \A d \in Devices : at[d] \in Writing => acct[d] # 0 /\ key[d] = acct[d]

CipherOK == \A i \in Ids : ciphers[i].by = ciphers[i].owner
ShareOK == \A x \in shares : x.pair = x.to

\* A recovery code stands for one user key, wherever it is: on its way to the
\* server, in the row, or on its way back.
Coded == {"enable", "complete"}
CodeOK ==
    /\ recovery.by <= codes
    /\ \A d \in Devices :
         /\ code[d] <= codes
         /\ at[d] = "disable" => code[d] = 0
         /\ at[d] \in Coded /\ recVerifier # 0 /\ recovery.by = code[d] => recovery.key = key[d]
         /\ \A e \in Devices :
              at[d] \in Coded /\ at[e] \in Coded /\ code[d] = code[e] => key[d] = key[e]

KeysOK == RowOK /\ SessOK /\ OpOK /\ CipherOK

KeysInv ==
    /\ TypeOK
    /\ CodeOK
    /\ ~crossed => KeysOK
    /\ ~crossed /\ ~lateShare => ShareOK

\* Nothing is wrapped in the initial state.
LEMMA KeysInit == Init => KeysInv
<1> SUFFICES ASSUME Init PROVE KeysInv
  OBVIOUS
<1>1. TypeOK
  BY TypeInit
<1>2. CodeOK
  BY DEF Init, CodeOK, Coded, NoRecovery
<1>3. KeysOK /\ ShareOK
  BY DEF Init, KeysOK, RowOK, SessOK, SignedIn, NoSession, OpOK, Writing, CipherOK, NoCipher, ShareOK
<1> QED BY <1>1, <1>2, <1>3 DEF KeysInv

\* What a device that moves on to operation o has in hand afterwards.
LEMMA GotoLocals ==
    ASSUME TypeOK, NEW d \in Devices, NEW o, NEW p, NEW c, NEW k, NEW a, NEW x, Goto(d, o, p, c, k, a, x)
    PROVE  /\ at'[d] = o /\ code'[d] = c /\ key'[d] = k /\ acct'[d] = a /\ pw'[d] = p
           /\ \A e \in Devices \ {d} :
                /\ at'[e] = at[e] /\ code'[e] = code[e] /\ key'[e] = key[e]
                /\ acct'[e] = acct[e] /\ pw'[e] = pw[e]
  BY TypeParts DEF Goto, LocalsType

\* CodeOK survives a step that leaves the row's recovery and every device but
\* d alone, when what d has in hand is consistent with the others and the row.
LEMMA CodeKept ==
    ASSUME TypeOK, CodeOK, NEW d \in Devices,
           NEW o, NEW p, NEW c \in Code, NEW k, NEW a, NEW x, Goto(d, o, p, c, k, a, x),
           codes' \in Nat, codes <= codes', c <= codes',
           o = "disable" => c = 0,
           recovery' = recovery, recVerifier' = recVerifier \/ recVerifier' = 0,
           o \in Coded => /\ recVerifier # 0 /\ recovery.by = c => recovery.key = k
                          /\ \A e \in Devices : at[e] \in Coded /\ code[e] = c => key[e] = k
    PROVE  CodeOK'
<1>0. /\ codes \in Nat /\ recovery.by \in Nat /\ c \in Nat
      /\ \A e \in Devices : code[e] \in Nat
  BY TypeParts, KeysAssumption DEF CountType, RowType, LocalsType, Code
<1>1. /\ at'[d] = o /\ code'[d] = c /\ key'[d] = k
      /\ \A e \in Devices \ {d} : at'[e] = at[e] /\ code'[e] = code[e] /\ key'[e] = key[e]
  BY GotoLocals
<1>2. recovery'.by <= codes'
  BY <1>0 DEF CodeOK
<1>3. ASSUME NEW e \in Devices
      PROVE  /\ code'[e] <= codes'
             /\ at'[e] = "disable" => code'[e] = 0
             /\ at'[e] \in Coded /\ recVerifier' # 0 /\ recovery'.by = code'[e] => recovery'.key = key'[e]
  BY <1>0, <1>1 DEF CodeOK
<1>4. ASSUME NEW e \in Devices, NEW f \in Devices,
             at'[e] \in Coded, at'[f] \in Coded, code'[e] = code'[f]
      PROVE  key'[e] = key'[f]
  BY <1>1, <1>4 DEF CodeOK
<1> QED BY <1>2, <1>3, <1>4 DEF CodeOK

\* A code stands for one user key.
LEMMA CodeNext ==
    ASSUME TypeOK, CodeOK, [Next]_vars
    PROVE  CodeOK'
<1>n. codes \in Nat /\ codes \in Code /\ 0 \in Code /\ \A d \in Devices : code[d] \in Code /\ code[d] \in Nat
  BY TypeParts, KeysAssumption DEF CountType, LocalsType, Code
<1>0. ~("idle" \in Coded) /\ ~("signin" \in Coded) /\ ~("rotate" \in Coded) /\ ~("challenge" \in Coded)
      /\ "idle" # "disable" /\ "signin" # "disable" /\ "rotate" # "disable" /\ "challenge" # "disable"
  BY DEF Coded
<1>d. ASSUME NEW d \in Devices, Done(d), codes' = codes, recovery' = recovery,
             recVerifier' = recVerifier \/ recVerifier' = 0
      PROVE  CodeOK'
  <2>1. Goto(d, "idle", SomePassword, 0, 0, 0, NoItem)
    BY <1>d DEF Done
  <2> QED BY <1>n, <1>0, <1>d, <2>1, CodeKept
<1>1. ASSUME NEW d \in Devices, Start(d) PROVE CodeOK'
  <2>1. CASE Register(d) \/ Login(d) \/ Recover(d)
    <3>1. PICK o, p, c, k : o \in {"register", "login", "challenge"} /\ c \in 0 .. codes /\ Type(d, o, p, c, k)
      BY <2>1, <1>n DEF Register, Login, Recover
    <3>2. Goto(d, o, p, c, k, 0, NoItem) /\ codes' = codes /\ recovery' = recovery /\ recVerifier' = recVerifier
      BY <3>1 DEF Type, row
    <3>3. c \in Code /\ c <= codes /\ o \notin Coded /\ o # "disable"
      BY <1>n, <3>1, KeysAssumption DEF Code, Coded
    <3> QED BY <1>n, <3>2, <3>3, CodeKept
  <2>2. CASE EnableRecovery(d)
    <3>1. /\ Goto(d, "enable", SomePassword, codes + 1, sess[d].key, sess[d].acct, NoItem)
          /\ codes' = codes + 1 /\ recovery' = recovery /\ recVerifier' = recVerifier
          /\ codes + 1 \in Code
      BY <2>2, <1>n, KeysAssumption DEF EnableRecovery, Use, row, Code
    <3>2. recovery.by # codes + 1 /\ \A e \in Devices : code[e] # codes + 1
      <4>1. recovery.by \in Nat
        BY TypeParts, KeysAssumption DEF RowType, Code
      <4> QED BY <4>1, <1>n DEF CodeOK
    <3> QED BY <1>n, <3>1, <3>2, CodeKept
  <2>3. CASE \E o \in {"disable", "add", "update", "remove", "delete"} : \E x : Use(d, o, 0, x) /\ codes' = codes
    <3>1. PICK o, x : o \in {"disable", "add", "update", "remove", "delete"} /\ Use(d, o, 0, x) /\ codes' = codes
      BY <2>3
    <3>2. Goto(d, o, SomePassword, 0, sess[d].key, sess[d].acct, x) /\ recovery' = recovery /\ recVerifier' = recVerifier
      BY <3>1 DEF Use, row
    <3>3. o \notin Coded
      BY <3>1 DEF Coded
    <3> QED BY <1>n, <3>1, <3>2, <3>3, CodeKept
  <2>4. CASE SignOut(d) \/ RemoveShare(d)
    BY <2>4 DEF SignOut, RemoveShare, row, client, locals, CodeOK
  <2>5. DisableRecovery(d) \/ AddItem(d) \/ SaveItem(d) \/ RemoveItem(d) \/ DeleteAccount(d)
        => \E o \in {"disable", "add", "update", "remove", "delete"} : \E x : Use(d, o, 0, x) /\ codes' = codes
    BY DEF DisableRecovery, AddItem, SaveItem, RemoveItem, DeleteAccount
  <2> QED BY <1>1, <2>1, <2>2, <2>3, <2>4, <2>5 DEF Start
<1>2. ASSUME NEW d \in Devices, Serve(d) PROVE CodeOK'
  <2>1. CASE RegisterServer(d)
    <3>1. CASE Done(d) /\ UNCHANGED row
      BY <1>d, <2>1, <3>1 DEF RegisterServer, row
    <3>2. CASE Goto(d, "signin", pw[d], 0, key[d], 0, NoItem) /\ recVerifier' = 0 /\ recovery' = NoRecovery
      <4>1. /\ at'[d] = "signin" /\ code'[d] = 0
            /\ \A e \in Devices \ {d} : at'[e] = at[e] /\ code'[e] = code[e] /\ key'[e] = key[e]
        BY <3>2, GotoLocals
      <4> QED BY <1>n, <1>0, <2>1, <3>2, <4>1 DEF RegisterServer, CodeOK, NoRecovery
    <3> QED BY <2>1, <3>1, <3>2 DEF RegisterServer
  <2>2. CASE SignInServer(d) \/ LoginServer(d) \/ CompleteRotate(d) \/ AddServer(d) \/ PutServer(d) \/ Fails(d)
    <3>1. Done(d) /\ codes' = codes /\ recovery' = recovery /\ recVerifier' = recVerifier
      BY <2>2 DEF SignInServer, LoginServer, CompleteRotate, AddServer, PutServer, Fails, SignIn, row
    <3> QED BY <1>d, <3>1
  <2>3. CASE EnableServer(d)
    <3>1. Done(d) /\ codes' = codes
      BY <2>3 DEF EnableServer
    <3>2. CASE userId # acct[d]
      BY <1>d, <2>3, <3>1, <3>2 DEF EnableServer
    <3>3. CASE userId = acct[d]
      <4>1. /\ recVerifier' = code[d]
            /\ at[d] = "enable" => recovery' = [by |-> code[d], key |-> key[d]]
            /\ at[d] = "disable" => recovery' = [by |-> 0, key |-> 0]
            /\ at[d] \in {"enable", "disable"}
        BY <2>3, <3>3 DEF EnableServer, WrapWithRecovery, NoRecovery
      <4>2. /\ at'[d] = "idle" /\ code'[d] = 0
            /\ \A e \in Devices \ {d} : at'[e] = at[e] /\ code'[e] = code[e] /\ key'[e] = key[e]
        BY <3>1, GotoLocals DEF Done
      <4>3. CASE at[d] = "enable"
        BY <1>n, <1>0, <3>1, <4>1, <4>2, <4>3 DEF CodeOK, Coded
      <4>4. CASE at[d] = "disable"
        BY <1>n, <1>0, <3>1, <4>1, <4>2, <4>4 DEF CodeOK
      <4> QED BY <4>1, <4>3, <4>4
    <3> QED BY <3>2, <3>3
  <2>4. CASE Challenge(d)
    <3>1. codes' = codes /\ recovery' = recovery /\ recVerifier' = recVerifier
      BY <2>4 DEF Challenge, row
    <3>2. CASE Goto(d, "complete", pw[d], code[d], recovery.key, 0, NoItem) /\ recVerifier # 0 /\ recovery.by = code[d]
      <4>1. \A e \in Devices : at[e] \in Coded /\ code[e] = code[d] => key[e] = recovery.key
        BY <3>2 DEF CodeOK
      <4>2. code[d] <= codes
        BY DEF CodeOK
      <4> QED BY <1>n, <3>1, <3>2, <4>1, <4>2, CodeKept
    <3> QED BY <1>d, <2>4, <3>1, <3>2 DEF Challenge
  <2>5. CASE CompleteVerify(d)
    <3>1. codes' = codes /\ recovery' = recovery /\ recVerifier' = recVerifier
      BY <2>5 DEF CompleteVerify, row
    <3>2. CASE Goto(d, "rotate", pw[d], code[d], key[d], userId, NoItem)
      <4>1. code[d] <= codes
        BY DEF CodeOK
      <4> QED BY <1>n, <1>0, <3>1, <3>2, <4>1, CodeKept
    <3> QED BY <1>d, <2>5, <3>1, <3>2 DEF CompleteVerify
  <2>6. CASE DeleteServer(d)
    <3>1. Done(d) /\ codes' = codes
      BY <2>6 DEF DeleteServer
    <3>2. CASE userId # acct[d]
      BY <1>d, <2>6, <3>1, <3>2 DEF DeleteServer
    <3>3. CASE userId = acct[d]
      <4>1. recVerifier' = 0 /\ recovery' = [by |-> 0, key |-> 0]
        BY <2>6, <3>3 DEF DeleteServer, NoRecovery
      <4>2. /\ at'[d] = "idle" /\ code'[d] = 0
            /\ \A e \in Devices \ {d} : at'[e] = at[e] /\ code'[e] = code[e] /\ key'[e] = key[e]
        BY <3>1, GotoLocals DEF Done
      <4> QED BY <1>n, <1>0, <3>1, <4>1, <4>2 DEF CodeOK
    <3> QED BY <3>2, <3>3
  <2> QED BY <1>2, <2>1, <2>2, <2>3, <2>4, <2>5, <2>6 DEF Serve
<1>3. ASSUME ShareLookup \/ ShareServer \/ UNCHANGED vars PROVE CodeOK'
  BY <1>3 DEF ShareLookup, ShareServer, vars, row, client, locals, CodeOK
<1> QED BY <1>1, <1>2, <1>3 DEF Next
\* The row keeps wrapping the account's own key.
LEMMA RowNext ==
    ASSUME TypeOK, CodeOK, KeysOK, [Next]_vars, ~crossed'
    PROVE  RowOK'
<1>1. CASE UNCHANGED row
  BY <1>1 DEF row, RowOK, KeysOK
<1>2. ASSUME NEW d \in Devices, RegisterServer(d) PROVE RowOK'
  BY <1>1, <1>2 DEF RegisterServer, RowOK
<1>3. ASSUME NEW d \in Devices, EnableServer(d) PROVE RowOK'
  <2>1. at[d] \in Writing /\ UNCHANGED <<userId, verifier, wrapped, keypair>>
    BY <1>3 DEF EnableServer, Writing
  <2>2. acct[d] # 0 /\ key[d] = acct[d]
    BY <2>1 DEF KeysOK, OpOK
  <2>3. CASE userId # acct[d]
    BY <1>3, <2>1, <2>3 DEF EnableServer, KeysOK, RowOK
  <2>4. CASE userId = acct[d] /\ at[d] = "enable"
    BY <1>3, <2>1, <2>2, <2>4 DEF EnableServer, KeysOK, RowOK, WrapWithRecovery
  <2>5. CASE userId = acct[d] /\ at[d] = "disable"
    BY <1>3, <2>1, <2>2, <2>5 DEF EnableServer, KeysOK, RowOK, CodeOK
  <2> QED BY <1>3, <2>3, <2>4, <2>5 DEF EnableServer
<1>4. ASSUME NEW d \in Devices, CompleteRotate(d) PROVE RowOK'
  <2>1. at[d] \in Writing /\ UNCHANGED <<userId, recVerifier, recovery, keypair>>
    BY <1>4 DEF CompleteRotate, Writing
  <2>2. acct[d] # 0 /\ key[d] = acct[d]
    BY <2>1 DEF KeysOK, OpOK
  <2> QED BY <1>4, <2>1, <2>2 DEF CompleteRotate, KeysOK, RowOK
<1>5. ASSUME NEW d \in Devices, DeleteServer(d) PROVE RowOK'
  BY <1>5 DEF DeleteServer, KeysOK, RowOK
<1>6. [Next]_vars => \/ UNCHANGED row
                     \/ \E d \in Devices : RegisterServer(d) \/ EnableServer(d) \/ CompleteRotate(d) \/ DeleteServer(d)
  <2>1. ASSUME NEW d \in Devices, Start(d) PROVE UNCHANGED row
    BY <2>1 DEF Start, Register, Login, SignOut, EnableRecovery, DisableRecovery, Recover, AddItem, SaveItem,
                RemoveItem, DeleteAccount, RemoveShare, Type, Use
  <2>2. ASSUME NEW d \in Devices, Serve(d)
        PROVE  UNCHANGED row \/ RegisterServer(d) \/ EnableServer(d) \/ CompleteRotate(d) \/ DeleteServer(d)
    BY <2>2 DEF Serve, SignInServer, LoginServer, Challenge, CompleteVerify, AddServer, PutServer, Fails
  <2>3. ShareLookup \/ ShareServer \/ UNCHANGED vars => UNCHANGED row
    BY DEF ShareLookup, ShareServer, vars
  <2> QED BY <2>1, <2>2, <2>3 DEF Next
<1> QED BY <1>1, <1>2, <1>3, <1>4, <1>5, <1>6

\* Whoever signs in holds the keys of the account signed in to.
LEMMA SessNext ==
    ASSUME TypeOK, CodeOK, KeysOK, [Next]_vars, ~crossed'
    PROVE  SessOK'
<1>t. sess \in [Devices -> Session]
  BY TypeParts DEF SessType
<1>1. ASSUME NEW d \in Devices, NEW s, SignIn(d, s),
             s.acct # 0 => s.key = s.acct /\ s.privBy = s.acct /\ s.pair = s.acct
      PROVE  SessOK'
  BY <1>t, <1>1 DEF SignIn, SessOK, KeysOK, SignedIn
<1>2. ASSUME UNCHANGED sess PROVE SessOK'
  BY <1>2 DEF SessOK, KeysOK, SignedIn
<1>3. ASSUME NEW d \in Devices, sess' = [sess EXCEPT ![d] = NoSession] PROVE SessOK'
  BY <1>t, <1>3 DEF SessOK, KeysOK, SignedIn, NoSession
<1>4. ASSUME NEW d \in Devices, SignInServer(d) PROVE SessOK'
  <2>1. CASE UNCHANGED sess
    BY <1>2, <2>1
  <2>2. CASE /\ SignIn(d, [acct |-> userId, key |-> key[d], privBy |-> key[d], pair |-> key[d]])
             /\ crossed' = (crossed \/ userId # key[d])
    <3>1. userId = key[d]
      BY <2>2
    <3> DEFINE s == [acct |-> userId, key |-> key[d], privBy |-> key[d], pair |-> key[d]]
    <3>2. s.acct = userId /\ s.key = key[d] /\ s.privBy = key[d] /\ s.pair = key[d] /\ SignIn(d, s)
      BY <2>2
    <3> HIDE DEF s
    <3> QED BY <1>1, <3>1, <3>2
  <2> QED BY <1>4, <2>1, <2>2 DEF SignInServer
<1>5. ASSUME NEW d \in Devices, LoginServer(d) PROVE SessOK'
  <2>1. CASE UNCHANGED sess
    BY <1>2, <2>1
  <2> DEFINE s == [acct |-> userId, key |-> wrapped.key, privBy |-> keypair.by, pair |-> keypair.pair]
  <2>2. CASE userId # 0 /\ SignIn(d, s)
    <3>1. wrapped.key = userId /\ keypair.by = userId /\ keypair.pair = userId
      BY <2>2 DEF KeysOK, RowOK, WrapUserKey, Keypair
    <3>2. s.acct = userId /\ s.key = wrapped.key /\ s.privBy = keypair.by /\ s.pair = keypair.pair /\ SignIn(d, s)
      BY <2>2
    <3> HIDE DEF s
    <3> QED BY <1>1, <3>1, <3>2
  <2> QED BY <1>5, <2>1, <2>2 DEF LoginServer
<1>6. ASSUME NEW d \in Devices, CompleteRotate(d) PROVE SessOK'
  <2>1. CASE UNCHANGED sess
    BY <1>2, <2>1
  <2> DEFINE s == [acct |-> userId, key |-> key[d], privBy |-> keypair.by, pair |-> keypair.pair]
  <2>2. CASE userId = acct[d] /\ SignIn(d, s)
    <3>0. acct[d] # 0 /\ key[d] = acct[d]
      BY <1>6 DEF CompleteRotate, KeysOK, OpOK, Writing
    <3>1. key[d] = userId /\ keypair.by = userId /\ keypair.pair = userId
      BY <2>2, <3>0 DEF KeysOK, RowOK, Keypair
    <3>2. s.acct = userId /\ s.key = key[d] /\ s.privBy = keypair.by /\ s.pair = keypair.pair /\ SignIn(d, s)
      BY <2>2
    <3> HIDE DEF s
    <3> QED BY <1>1, <3>1, <3>2
  <2> QED BY <1>6, <2>1, <2>2 DEF CompleteRotate
<1>7. [Next]_vars =>
        \/ UNCHANGED sess
        \/ \E d \in Devices : \/ SignInServer(d) \/ LoginServer(d) \/ CompleteRotate(d)
                              \/ sess' = [sess EXCEPT ![d] = NoSession]
  <2>1. ASSUME NEW d \in Devices, Start(d) PROVE UNCHANGED sess \/ sess' = [sess EXCEPT ![d] = NoSession]
    BY <2>1 DEF Start, Register, Login, SignOut, EnableRecovery, DisableRecovery, Recover, AddItem, SaveItem,
                RemoveItem, DeleteAccount, RemoveShare, Type, Use, client
  <2>2. ASSUME NEW d \in Devices, Serve(d)
        PROVE  \/ UNCHANGED sess \/ SignInServer(d) \/ LoginServer(d) \/ CompleteRotate(d)
               \/ sess' = [sess EXCEPT ![d] = NoSession]
    BY <2>2 DEF Serve, RegisterServer, EnableServer, Challenge, CompleteVerify, AddServer, PutServer, DeleteServer, Fails
  <2>3. ShareLookup \/ ShareServer \/ UNCHANGED vars => UNCHANGED sess
    BY DEF ShareLookup, ShareServer, vars, client
  <2> QED BY <2>1, <2>2, <2>3 DEF Next
<1> QED BY <1>2, <1>3, <1>4, <1>5, <1>6, <1>7

\* What writes under an account was started with its keys, or recovered them
\* from a code that the row still has.
LEMMA OpNext ==
    ASSUME TypeOK, CodeOK, KeysOK, [Next]_vars
    PROVE  OpOK'
<1>1. ASSUME NEW d \in Devices, NEW o, NEW p, NEW c, NEW k, NEW a, NEW x, Goto(d, o, p, c, k, a, x),
             o \in Writing => a # 0 /\ k = a
      PROVE  OpOK'
  BY <1>1, GotoLocals DEF OpOK, KeysOK
<1>0. \A o \in {"idle", "register", "login", "challenge", "signin", "complete"} : o \notin Writing
  BY DEF Writing
<1>2. ASSUME NEW d \in Devices, Done(d) PROVE OpOK'
  <2>1. Goto(d, "idle", SomePassword, 0, 0, 0, NoItem)
    BY <1>2 DEF Done
  <2> QED BY <1>0, <1>1, <2>1
<1>3. ASSUME NEW d \in Devices, Start(d) PROVE OpOK'
  <2>1. CASE \E o \in {"register", "login", "challenge"} : \E p, c, k : Type(d, o, p, c, k)
    <3>1. PICK o, p, c, k : o \in {"register", "login", "challenge"} /\ Goto(d, o, p, c, k, 0, NoItem)
      BY <2>1 DEF Type
    <3>2. o \notin Writing
      BY <1>0, <3>1
    <3> QED BY <1>1, <3>1, <3>2
  <2>2. CASE \E o, c, x : Use(d, o, c, x)
    <3>1. PICK o, c, x : Use(d, o, c, x)
      BY <2>2
    <3>2. Goto(d, o, SomePassword, c, sess[d].key, sess[d].acct, x) /\ SignedIn(d)
      BY <3>1 DEF Use
    <3>3. sess[d].acct # 0 /\ sess[d].key = sess[d].acct
      BY <3>2 DEF KeysOK, SessOK, SignedIn
    <3> QED BY <1>1, <3>2, <3>3
  <2>3. CASE SignOut(d) \/ RemoveShare(d)
    BY <2>3 DEF SignOut, RemoveShare, client, locals, OpOK, KeysOK
  <2>4. Register(d) \/ Login(d) \/ Recover(d) => \E o \in {"register", "login", "challenge"} : \E p, c, k : Type(d, o, p, c, k)
    BY DEF Register, Login, Recover
  <2>5. EnableRecovery(d) \/ DisableRecovery(d) \/ AddItem(d) \/ SaveItem(d) \/ RemoveItem(d) \/ DeleteAccount(d)
        => \E o, c, x : Use(d, o, c, x)
    BY DEF EnableRecovery, DisableRecovery, AddItem, SaveItem, RemoveItem, DeleteAccount
  <2> QED BY <1>3, <2>1, <2>2, <2>3, <2>4, <2>5 DEF Start
<1>4. ASSUME NEW d \in Devices, Serve(d) PROVE OpOK'
  <2>1. CASE RegisterServer(d)
    BY <1>0, <1>1, <1>2, <2>1 DEF RegisterServer
  <2>2. CASE Challenge(d)
    BY <1>0, <1>1, <1>2, <2>2 DEF Challenge
  <2>3. CASE CompleteVerify(d)
    <3>1. CASE /\ userId # 0 /\ recVerifier # 0 /\ recVerifier = code[d]
               /\ Goto(d, "rotate", pw[d], code[d], key[d], userId, NoItem)
      <4>1. recovery = WrapWithRecovery(recVerifier, userId)
        BY <3>1 DEF KeysOK, RowOK
      <4>2. recovery.by = code[d] /\ recovery.key = userId /\ at[d] \in Coded
        BY <2>3, <3>1, <4>1 DEF WrapWithRecovery, CompleteVerify, Coded
      <4>3. key[d] = userId
        BY <3>1, <4>2 DEF CodeOK
      <4> QED BY <1>1, <3>1, <4>3
    <3> QED BY <1>2, <2>3, <3>1 DEF CompleteVerify
  <2>4. CASE \/ SignInServer(d) \/ LoginServer(d) \/ EnableServer(d) \/ CompleteRotate(d) \/ AddServer(d)
             \/ PutServer(d) \/ DeleteServer(d) \/ Fails(d)
    BY <1>2, <2>4 DEF SignInServer, LoginServer, EnableServer, CompleteRotate, AddServer, PutServer, DeleteServer,
                      Fails, SignIn
  <2> QED BY <1>4, <2>1, <2>2, <2>3, <2>4 DEF Serve
<1>5. ShareLookup \/ ShareServer \/ UNCHANGED vars => OpOK'
  BY DEF ShareLookup, ShareServer, vars, client, locals, OpOK, KeysOK
<1> QED BY <1>3, <1>4, <1>5 DEF Next

\* Every item is sealed with the key of the account it is stored under.
LEMMA CipherNext ==
    ASSUME TypeOK, KeysOK, [Next]_vars
    PROVE  CipherOK'
<1>t. ciphers \in [Ids -> Cipher]
  BY TypeParts DEF CiphersType
<1>1. ASSUME NEW d \in Devices, NEW i \in Ids, NEW c, ciphers' = [ciphers EXCEPT ![i] = c], c.by = c.owner
      PROVE  CipherOK'
  BY <1>t, <1>1 DEF CipherOK, KeysOK
<1>2. ASSUME NEW d \in Devices, at[d] \in Writing PROVE Sealed(d).by = Sealed(d).owner
  BY <1>2 DEF KeysOK, OpOK, Sealed
<1>3. ASSUME NEW d \in Devices, AddServer(d) PROVE CipherOK'
  BY <1>1, <1>2, <1>3 DEF AddServer, Writing
<1>4. ASSUME NEW d \in Devices, PutServer(d) PROVE CipherOK'
  <2>1. item[d].id \in Ids
    BY LocalType DEF Item
  <2>2. NoCipher.by = NoCipher.owner
    BY DEF NoCipher
  <2>3. CASE UNCHANGED ciphers
    BY <2>3 DEF CipherOK, KeysOK
  <2> QED BY <1>1, <1>2, <1>4, <2>1, <2>2, <2>3 DEF PutServer, Writing
<1>5. ASSUME NEW d \in Devices, DeleteServer(d) PROVE CipherOK'
  BY <1>5 DEF DeleteServer, CipherOK, KeysOK, NoCipher
<1>6. [Next]_vars => \/ UNCHANGED ciphers
                     \/ \E d \in Devices : AddServer(d) \/ PutServer(d) \/ DeleteServer(d)
  <2>1. ASSUME NEW d \in Devices, Start(d) PROVE UNCHANGED ciphers
    BY <2>1 DEF Start, Register, Login, SignOut, EnableRecovery, DisableRecovery, Recover, AddItem, SaveItem,
                RemoveItem, DeleteAccount, RemoveShare, Type, Use
  <2>2. ASSUME NEW d \in Devices, Serve(d) PROVE UNCHANGED ciphers \/ AddServer(d) \/ PutServer(d) \/ DeleteServer(d)
    BY <2>2 DEF Serve, RegisterServer, SignInServer, LoginServer, EnableServer, Challenge, CompleteVerify, CompleteRotate, Fails
  <2>3. ShareLookup \/ ShareServer \/ UNCHANGED vars => UNCHANGED ciphers
    BY DEF ShareLookup, ShareServer, vars
  <2> QED BY <2>1, <2>2, <2>3 DEF Next
<1>7. UNCHANGED ciphers => CipherOK'
  BY DEF CipherOK, KeysOK
<1> QED BY <1>3, <1>4, <1>5, <1>6, <1>7

\* Every share is sealed for the key pair of the account it is stored for.
LEMMA ShareNext ==
    ASSUME TypeOK, KeysOK, ShareOK, [Next]_vars, ~lateShare'
    PROVE  ShareOK'
<1>1. CASE shares' \subseteq shares
  BY <1>1 DEF ShareOK
<1>2. CASE ShareServer
  <2>1. CASE userId # 0
    <3>1. lookup = keypair.pair
      BY Zenon, <1>2, <2>1 DEF ShareServer
    <3>2. lookup = userId
      BY <2>1, <3>1 DEF KeysOK, RowOK, Keypair
    <3> QED BY <1>2, <2>1, <3>2 DEF ShareServer, ShareOK
  <2> QED BY <1>1, <1>2, <2>1 DEF ShareServer
<1>3. [Next]_vars => shares' \subseteq shares \/ ShareServer
  <2>1. ASSUME NEW d \in Devices, Start(d) PROVE shares' \subseteq shares
    BY <2>1 DEF Start, Register, Login, SignOut, EnableRecovery, DisableRecovery, Recover, AddItem, SaveItem,
                RemoveItem, DeleteAccount, RemoveShare, Type, Use
  <2>2. ASSUME NEW d \in Devices, Serve(d) PROVE shares' \subseteq shares
    BY <2>2 DEF Serve, RegisterServer, SignInServer, LoginServer, EnableServer, Challenge, CompleteVerify,
                CompleteRotate, AddServer, PutServer, DeleteServer, Fails
  <2>3. ShareLookup \/ UNCHANGED vars => shares' \subseteq shares
    BY DEF ShareLookup, vars
  <2> QED BY <2>1, <2>2, <2>3 DEF Next
<1> QED BY <1>1, <1>2, <1>3

\* History is not forgotten.
LEMMA HistoryNext ==
    ASSUME TypeOK, [Next]_vars
    PROVE  (crossed => crossed') /\ (lateShare => lateShare')
<1>1. ASSUME NEW d \in Devices, Start(d) PROVE UNCHANGED <<crossed, lateShare>>
  BY <1>1 DEF Start, Register, Login, SignOut, EnableRecovery, DisableRecovery, Recover, AddItem, SaveItem,
              RemoveItem, DeleteAccount, RemoveShare, Type, Use
<1>2. ASSUME NEW d \in Devices, Serve(d) PROVE (crossed' = crossed \/ SignInServer(d)) /\ lateShare' = lateShare
  BY <1>2 DEF Serve, RegisterServer, SignInServer, LoginServer, EnableServer, Challenge, CompleteVerify,
              CompleteRotate, AddServer, PutServer, DeleteServer, Fails
<1>3. ASSUME NEW d \in Devices, SignInServer(d) PROVE crossed => crossed'
  BY Zenon, <1>3 DEF SignInServer
<1>4. ShareServer => (lateShare => lateShare') /\ UNCHANGED crossed
  BY Zenon DEF ShareServer
<1>5. ShareLookup \/ UNCHANGED vars => UNCHANGED <<crossed, lateShare>>
  BY DEF ShareLookup, vars
<1> QED BY <1>1, <1>2, <1>3, <1>4, <1>5 DEF Next

\* The invariant is inductive.
LEMMA KeysNext == KeysInv /\ [Next]_vars => KeysInv'
<1> SUFFICES ASSUME KeysInv, [Next]_vars PROVE KeysInv'
  OBVIOUS
<1>1. TypeOK' /\ CodeOK'
  BY TypeNext, CodeNext DEF KeysInv
<1>2. ~crossed' => KeysOK'
  BY RowNext, SessNext, OpNext, CipherNext, HistoryNext DEF KeysInv, KeysOK
<1>3. ~crossed' /\ ~lateShare' => ShareOK'
  BY ShareNext, HistoryNext DEF KeysInv
<1> QED BY <1>1, <1>2, <1>3 DEF KeysInv

\* The invariant holds in every reachable state.
LEMMA KeysAlways == Spec => []KeysInv
  BY KeysInit, KeysNext, PTL DEF Spec

\* Whatever password or recovery code the server accepts, the key it guards is
\* the one the account was created with, also after overlapping recoveries,
\* enrolments and deletions: CredentialsOpenVault, for any constants.
THEOREM AcceptedCredentialsOpen == Spec => []CredentialsOpenVault
<1>1. KeysInv => CredentialsOpenVault
  BY DEF KeysInv, KeysOK, RowOK, CredentialsOpenVault, WrapUserKey, WrapWithRecovery
<1> QED BY <1>1, KeysAlways, PTL

\* loadVault skips no item of the account on any signed-in device.
THEOREM VaultLoadsWhole == Spec => []NothingSkipped
<1>1. KeysInv => NothingSkipped
  BY DEF KeysInv, KeysOK, SessOK, CipherOK, NothingSkipped, LoadVault, OwnItems, OpensItem, SignedIn
<1> QED BY <1>1, KeysAlways, PTL

\* listSharedWithMe skips no share, unless the recipient's account was
\* replaced between the sender's two requests.
THEOREM SharesOpenForRecipient == Spec => []SharesOpen
<1>1. KeysInv => SharesOpen
  BY DEF KeysInv, KeysOK, SessOK, ShareOK, SharesOpen, ListSharedWithMe, OwnShares, OpensShare, SignedIn
<1> QED BY <1>1, KeysAlways, PTL

----------------------------------------------------------------------------
(* AccountKeys implements AccountVault.  A new account must not inherit    *)
(* anything, so the id of a registration in flight is not in use yet.      *)

Used(n) ==
    \/ n = userId
    \/ \E d \in Devices : n = acct[d] \/ n = sess[d].acct
    \/ \E i \in Ids : n = ciphers[i].owner

FreshOK ==
    /\ \A n \in Bundle : Used(n) => n <= bundles
    /\ \A d \in Devices : at[d] = "register" =>
         /\ key[d] # 0
         /\ key[d] <= bundles
         /\ ~Used(key[d])
         /\ \A e \in Devices \ {d} : at[e] = "register" => key[e] # key[d]

\* A step brings no id into use but the one of a registration that succeeds.
LEMMA UsedNext ==
    ASSUME TypeOK, [Next]_vars, NEW n, Used(n)'
    PROVE  Used(n) \/ n = 0 \/ \E d \in Devices : RegisterServer(d) /\ n = key[d]
<1>l. at \in [Devices -> Ops] /\ acct \in [Devices -> Bundle] /\ sess \in [Devices -> Session]
      /\ ciphers \in [Ids -> Cipher]
  BY TypeParts DEF LocalsType, SessType, CiphersType
<1>1. ASSUME NEW i \in Ids, n = ciphers'[i].owner PROVE Used(n) \/ n = 0
  <2>1. CASE UNCHANGED ciphers
    BY <1>1, <2>1 DEF Used
  <2>2. ASSUME NEW d \in Devices, AddServer(d) PROVE Used(n) \/ n = 0
    BY <1>l, <1>1, <2>2 DEF AddServer, Sealed, Used
  <2>3. ASSUME NEW d \in Devices, PutServer(d) PROVE Used(n) \/ n = 0
    BY <1>l, <1>1, <2>3 DEF PutServer, Sealed, NoCipher, Used
  <2>4. ASSUME NEW d \in Devices, DeleteServer(d) PROVE Used(n) \/ n = 0
    BY <1>l, <1>1, <2>1, <2>4 DEF DeleteServer, NoCipher, Used
  <2>5. UNCHANGED ciphers \/ \E d \in Devices : AddServer(d) \/ PutServer(d) \/ DeleteServer(d)
    BY DEF Next, Start, Serve, Register, Login, SignOut, EnableRecovery, DisableRecovery, Recover, AddItem, SaveItem,
           RemoveItem, DeleteAccount, RemoveShare, Type, Use, RegisterServer, SignInServer, LoginServer, EnableServer,
           Challenge, CompleteVerify, CompleteRotate, Fails, ShareLookup, ShareServer, vars
  <2> QED BY <2>1, <2>2, <2>3, <2>4, <2>5
<1>2. ASSUME NEW e \in Devices, n = sess'[e].acct PROVE Used(n) \/ n = 0
  <2>1. CASE UNCHANGED sess
    BY <1>2, <2>1 DEF Used
  <2>2. ASSUME NEW d \in Devices, sess' = [sess EXCEPT ![d] = NoSession] PROVE Used(n) \/ n = 0
    BY <1>l, <1>2, <2>2 DEF NoSession, Used
  <2>3. ASSUME NEW d \in Devices, NEW s, SignIn(d, s), s.acct = userId PROVE Used(n) \/ n = 0
    BY <1>l, <1>2, <2>3 DEF SignIn, Used
  <2>4. ASSUME NEW d \in Devices, SignInServer(d) PROVE Used(n) \/ n = 0
    BY <2>1, <2>3, <2>4 DEF SignInServer
  <2>5. ASSUME NEW d \in Devices, LoginServer(d) PROVE Used(n) \/ n = 0
    BY <2>1, <2>3, <2>5 DEF LoginServer
  <2>6. ASSUME NEW d \in Devices, CompleteRotate(d) PROVE Used(n) \/ n = 0
    BY <2>1, <2>3, <2>6 DEF CompleteRotate
  <2>7. \/ UNCHANGED sess
        \/ \E d \in Devices : \/ SignInServer(d) \/ LoginServer(d) \/ CompleteRotate(d)
                              \/ sess' = [sess EXCEPT ![d] = NoSession]
    BY DEF Next, Start, Serve, Register, Login, SignOut, EnableRecovery, DisableRecovery, Recover, AddItem, SaveItem,
           RemoveItem, DeleteAccount, RemoveShare, Type, Use, RegisterServer, EnableServer,
           Challenge, CompleteVerify, AddServer, PutServer, DeleteServer, Fails, ShareLookup, ShareServer, vars, client
  <2> QED BY <2>1, <2>2, <2>4, <2>5, <2>6, <2>7
<1>3. ASSUME NEW e \in Devices, n = acct'[e] PROVE Used(n) \/ n = 0
  <2>1. CASE UNCHANGED acct
    BY <1>3, <2>1 DEF Used
  <2>2. ASSUME NEW d \in Devices, NEW a, acct' = [acct EXCEPT ![d] = a], a = 0 \/ a = userId \/ a = sess[d].acct
        PROVE  Used(n) \/ n = 0
    BY <1>l, <1>3, <2>2 DEF Used
  <2>3. \/ UNCHANGED acct
        \/ \E d \in Devices : \E a : acct' = [acct EXCEPT ![d] = a] /\ (a = 0 \/ a = userId \/ a = sess[d].acct)
    <3>1. ASSUME NEW d \in Devices, Start(d)
          PROVE  \/ UNCHANGED acct
                 \/ \E a : acct' = [acct EXCEPT ![d] = a] /\ (a = 0 \/ a = userId \/ a = sess[d].acct)
      BY <3>1 DEF Start, Register, Login, SignOut, EnableRecovery, DisableRecovery, Recover, AddItem, SaveItem,
                  RemoveItem, DeleteAccount, RemoveShare, Type, Use, Goto, client, locals
    <3>2. ASSUME NEW d \in Devices, Serve(d)
          PROVE  \E a : acct' = [acct EXCEPT ![d] = a] /\ (a = 0 \/ a = userId)
      BY <3>2 DEF Serve, RegisterServer, SignInServer, LoginServer, EnableServer, Challenge, CompleteVerify,
                  CompleteRotate, AddServer, PutServer, DeleteServer, Fails, SignIn, Done, Goto
    <3>3. ShareLookup \/ ShareServer \/ UNCHANGED vars => UNCHANGED acct
      BY DEF ShareLookup, ShareServer, vars, client, locals
    <3> QED BY <3>1, <3>2, <3>3 DEF Next
  <2> QED BY <2>1, <2>2, <2>3
<1>4. ASSUME n = userId'
      PROVE  Used(n) \/ n = 0 \/ \E d \in Devices : RegisterServer(d) /\ n = key[d]
  <2>1. ASSUME NEW d \in Devices, Start(d) PROVE UNCHANGED userId
    BY <2>1 DEF Start, Register, Login, SignOut, EnableRecovery, DisableRecovery, Recover, AddItem, SaveItem,
                RemoveItem, DeleteAccount, RemoveShare, Type, Use, row
  <2>2. ASSUME NEW d \in Devices, Serve(d) PROVE UNCHANGED userId \/ userId' = 0 \/ (RegisterServer(d) /\ userId' = key[d])
    BY <2>2 DEF Serve, RegisterServer, SignInServer, LoginServer, EnableServer, Challenge, CompleteVerify,
                CompleteRotate, AddServer, PutServer, DeleteServer, Fails, row
  <2>3. ShareLookup \/ ShareServer \/ UNCHANGED vars => UNCHANGED userId
    BY DEF ShareLookup, ShareServer, vars, row
  <2> QED BY <1>4, <2>1, <2>2, <2>3 DEF Next, Used
<1> QED BY <1>1, <1>2, <1>3, <1>4 DEF Used

\* A device is registering afterwards only if it was before, with the same
\* key and without being served, or if its registration has just started.
LEMMA RegisteringNext ==
    ASSUME TypeOK, [Next]_vars, NEW d \in Devices, at'[d] = "register"
    PROVE  \/ at[d] = "register" /\ key'[d] = key[d] /\ ~RegisterServer(d)
           \/ Register(d) /\ key'[d] = bundles + 1
<1>l. at \in [Devices -> Ops] /\ key \in [Devices -> Bundle]
  BY TypeParts DEF LocalsType
<1>1. CASE Serve(d)
  BY <1>l, <1>1 DEF Serve, RegisterServer, SignInServer, LoginServer, EnableServer, Challenge, CompleteVerify,
                    CompleteRotate, AddServer, PutServer, DeleteServer, Fails, SignIn, Done, Goto
<1>2. CASE Start(d)
  <2>1. CASE Register(d)
    BY <1>l, <2>1 DEF Register, Type, Goto
  <2>2. CASE SignOut(d) \/ RemoveShare(d)
    BY <1>l, <2>2 DEF SignOut, RemoveShare, client, locals, RegisterServer, Goto, Done
  <2>3. CASE \E o \in Ops \ {"register"} : at' = [at EXCEPT ![d] = o]
    BY <1>l, <2>3
  <2>4. CASE \/ Login(d) \/ EnableRecovery(d) \/ DisableRecovery(d) \/ Recover(d) \/ AddItem(d) \/ SaveItem(d)
             \/ RemoveItem(d) \/ DeleteAccount(d)
    BY <2>3, <2>4 DEF Login, EnableRecovery, DisableRecovery, Recover, AddItem, SaveItem, RemoveItem, DeleteAccount,
                      Type, Use, Goto, Ops
  <2> QED BY <1>2, <2>1, <2>2, <2>4 DEF Start
<1>3. ASSUME ~Serve(d), at'[d] = at[d], key'[d] = key[d]
      PROVE  at[d] = "register" /\ key'[d] = key[d] /\ ~RegisterServer(d)
  BY <1>3 DEF Serve
<1>4. ASSUME NEW e \in Devices \ {d}, Start(e) PROVE at'[d] = at[d] /\ key'[d] = key[d]
  BY <1>l, <1>4 DEF Start, Register, Login, SignOut, EnableRecovery, DisableRecovery, Recover, AddItem, SaveItem,
                    RemoveItem, DeleteAccount, RemoveShare, Type, Use, Goto, client, locals
<1>5. ASSUME NEW e \in Devices \ {d}, Serve(e) PROVE at'[d] = at[d] /\ key'[d] = key[d]
  BY <1>l, <1>5 DEF Serve, RegisterServer, SignInServer, LoginServer, EnableServer, Challenge, CompleteVerify,
                    CompleteRotate, AddServer, PutServer, DeleteServer, Fails, SignIn, Done, Goto
<1>6. ShareLookup \/ ShareServer \/ UNCHANGED vars => at'[d] = at[d] /\ key'[d] = key[d]
  BY DEF ShareLookup, ShareServer, vars, client, locals
<1> QED BY <1>1, <1>2, <1>3, <1>4, <1>5, <1>6 DEF Next

\* The counter of registrations only grows, by one with a new registration.
LEMMA BundlesNext ==
    ASSUME TypeOK, [Next]_vars
    PROVE  /\ bundles' \in Nat /\ bundles \in Nat /\ bundles <= bundles'
           /\ \A d \in Devices : Register(d) => bundles' = bundles + 1
           /\ \A d, e \in Devices : Register(d) /\ Register(e) => d = e
<1>l. bundles \in Nat /\ at \in [Devices -> Ops]
  BY TypeParts, KeysAssumption DEF CountType, LocalsType, Bundle
<1>1. bundles' = bundles \/ \E d \in Devices : Register(d)
  BY DEF Next, Start, Serve, Login, SignOut, EnableRecovery, DisableRecovery, Recover, AddItem, SaveItem,
         RemoveItem, DeleteAccount, RemoveShare, Use, RegisterServer, SignInServer, LoginServer, EnableServer,
         Challenge, CompleteVerify, CompleteRotate, AddServer, PutServer, DeleteServer, Fails, ShareLookup, ShareServer,
         vars
<1>2. \A d \in Devices : Register(d) => bundles' = bundles + 1
  BY DEF Register
<1>3. ASSUME NEW d \in Devices, NEW e \in Devices, Register(d), Register(e) PROVE d = e
  <2>1. /\ at[d] = "idle" /\ at' = [at EXCEPT ![d] = "register"]
        /\ at[e] = "idle" /\ at' = [at EXCEPT ![e] = "register"]
    BY <1>3 DEF Register, Type, Goto
  <2> QED BY <1>l, <2>1
<1> QED BY <1>l, <1>1, <1>2, <1>3

\* The id of a registration in flight is not in use.
LEMMA FreshNext ==
    ASSUME TypeOK, TypeOK', FreshOK, [Next]_vars
    PROVE  FreshOK'
<1>l. /\ \A n \in Bundle : n \in Nat
      /\ \A d \in Devices : key[d] \in Bundle
  BY TypeParts, KeysAssumption DEF LocalsType, Bundle
<1>b. bundles' \in Nat /\ bundles \in Nat /\ bundles <= bundles'
  BY BundlesNext
<1>1. ASSUME NEW n \in Bundle, Used(n)' PROVE n <= bundles'
  <2>1. Used(n) \/ n = 0 \/ \E d \in Devices : RegisterServer(d) /\ n = key[d]
    BY <1>1, UsedNext
  <2> QED BY <1>l, <1>b, <2>1 DEF FreshOK, RegisterServer
<1>2. ASSUME NEW d \in Devices, at'[d] = "register"
      PROVE  /\ key'[d] # 0
             /\ key'[d] <= bundles'
             /\ ~Used(key[d])'
             /\ \A e \in Devices \ {d} : at'[e] = "register" => key'[e] # key'[d]
  <2>1. CASE at[d] = "register" /\ key'[d] = key[d] /\ ~RegisterServer(d)
    <3>1. key[d] # 0 /\ key[d] <= bundles /\ ~Used(key[d])
      BY <2>1 DEF FreshOK
    <3>2. ~Used(key[d])'
      <4>1. SUFFICES ASSUME Used(key[d])' PROVE FALSE
        OBVIOUS
      <4> PICK n : n = key[d]
        OBVIOUS
      <4>2. Used(n)'
        BY <2>1, <4>1 DEF Used
      <4>3. PICK e \in Devices : RegisterServer(e) /\ key[e] = key[d]
        BY <3>1, <4>2, UsedNext
      <4>4. e # d /\ at[e] = "register"
        BY <2>1, <4>3 DEF RegisterServer
      <4> QED BY <2>1, <4>3, <4>4 DEF FreshOK
    <3>3. ASSUME NEW e \in Devices \ {d}, at'[e] = "register" PROVE key'[e] # key[d]
      BY <1>l, <1>b, <2>1, <3>1, <3>3, RegisteringNext DEF FreshOK
    <3> QED BY <1>l, <1>b, <2>1, <3>1, <3>2, <3>3
  <2>2. CASE Register(d) /\ key'[d] = bundles + 1
    <3>1. bundles' = bundles + 1
      BY <2>2, BundlesNext
    <3>2. ~Used(key[d])'
      <4>1. SUFFICES ASSUME Used(key[d])' PROVE FALSE
        OBVIOUS
      <4> PICK n : n = bundles + 1
        OBVIOUS
      <4>2. Used(n)'
        BY <2>2, <4>1 DEF Used
      <4>3. bundles + 1 \in Bundle
        BY <1>b, <3>1, TypeParts, KeysAssumption, <2>2 DEF Register, Bundle
      <4>4. Used(n) \/ n = 0 \/ \E e \in Devices : RegisterServer(e) /\ n = key[e]
        BY <4>2, UsedNext
      <4>5. ~Used(n)
        BY <1>b, <4>3 DEF FreshOK
      <4>6. \A e \in Devices : RegisterServer(e) => key[e] <= bundles
        BY DEF FreshOK, RegisterServer
      <4> QED BY <1>b, <4>4, <4>5, <4>6
    <3>3. ASSUME NEW e \in Devices \ {d}, at'[e] = "register" PROVE key'[e] # bundles + 1
      <4>1. ~Register(e)
        BY <2>2, BundlesNext
      <4>2. at[e] = "register" /\ key'[e] = key[e]
        BY <3>3, <4>1, RegisteringNext
      <4> QED BY <1>l, <1>b, <4>2 DEF FreshOK
    <3> QED BY <1>b, <2>2, <3>1, <3>2, <3>3
  <2> QED BY <1>2, <2>1, <2>2, RegisteringNext
<1> QED BY <1>1, <1>2 DEF FreshOK

\* What the refinement needs of every reachable state.
RefineInv == KeysInv /\ FreshOK

\* Nothing is in use or in flight in the initial state.
LEMMA RefineInit == Init => RefineInv
<1> SUFFICES ASSUME Init PROVE FreshOK
  BY KeysInit DEF RefineInv
<1> QED BY KeysAssumption DEF Init, FreshOK, Used, NoSession, NoCipher, Bundle

\* Both halves are inductive together.
LEMMA RefineNext == RefineInv /\ [Next]_vars => RefineInv'
  BY KeysNext, FreshNext DEF RefineInv, KeysInv

\* What the password opens, when every key is the account's own.
View == [i \in Ids |-> IF userId # 0 /\ ciphers[i].owner = userId THEN ciphers[i].val ELSE 0]

\* The items of the account are what its password opens.
LEMMA PlainsAre == KeysOK => Plains = View
<1> SUFFICES ASSUME KeysOK, NEW i \in Ids
             PROVE  Plain(i) = IF userId # 0 /\ ciphers[i].owner = userId THEN ciphers[i].val ELSE 0
  BY DEF Plains, View
<1>1. userId # 0 => OpenedBy = userId
  BY DEF KeysOK, RowOK, WrapUserKey, OpenedBy
<1>2. ciphers[i].by = ciphers[i].owner
  BY DEF KeysOK, CipherOK
<1> QED BY <1>1, <1>2 DEF Plain

\* A device that moves on, to anything but the update of a recovery, is no
\* longer among the accepted ones; the others stay.
LEMMA AcceptedKept ==
    ASSUME TypeOK, NEW d \in Devices, NEW o, NEW p, NEW c, NEW k, NEW a, NEW x, Goto(d, o, p, c, k, a, x),
           o # "rotate", UNCHANGED userId
    PROVE  Accepted' = Accepted \ {d}
<1>1. /\ at'[d] = o
      /\ \A e \in Devices \ {d} : at'[e] = at[e] /\ acct'[e] = acct[e]
  BY GotoLocals
<1> QED BY <1>1 DEF Accepted

\* A step that changes nothing of the abstract state.
Stutter == UNCHANGED <<userId, verifier, recVerifier, View, Accepted>>

\* The start of an operation, and a request of another user, is no step of the
\* abstract account.
LEMMA SimStart ==
    ASSUME TypeOK, (\E d \in Devices : Start(d)) \/ ShareLookup \/ ShareServer \/ UNCHANGED vars
    PROVE  Stutter
<1>1. CASE \E d \in Devices : Start(d)
  <2> PICK d \in Devices : Start(d)
    BY <1>1
  <2>1. UNCHANGED row /\ UNCHANGED ciphers
    BY DEF Start, Register, Login, SignOut, EnableRecovery, DisableRecovery, Recover, AddItem, SaveItem,
           RemoveItem, DeleteAccount, RemoveShare, Type, Use
  <2>2. CASE UNCHANGED <<at, acct>>
    BY <2>1, <2>2 DEF Stutter, row, View, Accepted
  <2>3. CASE \E o \in Ops \ {"rotate"} : \E p, c, k, a, x : at[d] = "idle" /\ Goto(d, o, p, c, k, a, x)
    <3>1. Accepted' = Accepted \ {d} /\ d \notin Accepted
      BY <2>1, <2>3, AcceptedKept DEF row, Accepted
    <3> QED BY <2>1, <3>1 DEF Stutter, row, View
  <2>4. SignOut(d) \/ RemoveShare(d) => UNCHANGED <<at, acct>>
    BY DEF SignOut, RemoveShare, client, locals
  <2>5. Register(d) \/ Login(d) \/ Recover(d)
        => \E o \in Ops \ {"rotate"} : \E p, c, k, a, x : at[d] = "idle" /\ Goto(d, o, p, c, k, a, x)
    BY DEF Register, Login, Recover, Type, Ops
  <2>6. EnableRecovery(d) \/ DisableRecovery(d) \/ AddItem(d) \/ SaveItem(d) \/ RemoveItem(d) \/ DeleteAccount(d)
        => \E o \in Ops \ {"rotate"} : \E p, c, k, a, x : at[d] = "idle" /\ Goto(d, o, p, c, k, a, x)
    BY DEF EnableRecovery, DisableRecovery, AddItem, SaveItem, RemoveItem, DeleteAccount, Use, Ops
  <2> QED BY <2>2, <2>3, <2>4, <2>5, <2>6 DEF Start
<1>2. CASE ShareLookup \/ ShareServer \/ UNCHANGED vars
  BY <1>2 DEF ShareLookup, ShareServer, vars, client, locals, row, Stutter, View, Accepted
<1> QED BY <1>1, <1>2

\* Every request is a step of the abstract account, or none.
LEMMA SimServe ==
    ASSUME TypeOK, KeysOK, FreshOK, NEW d \in Devices, Serve(d),
           Plains = View, Plains' = View', Sound' = Sound
    PROVE  Stutter \/ Abstract!Next
<1>t. /\ ciphers \in [Ids -> Cipher]
      /\ at \in [Devices -> Ops] /\ acct \in [Devices -> Bundle] /\ pw \in [Devices -> Passwords]
      /\ item[d] \in Item
  BY TypeParts, LocalType DEF CiphersType, LocalsType
<1>d. ASSUME Done(d), UNCHANGED userId PROVE Accepted' = Accepted \ {d}
  <2>1. Goto(d, "idle", SomePassword, 0, 0, 0, NoItem)
    BY <1>d DEF Done
  <2> QED BY <1>d, <2>1, AcceptedKept
<1>s. ASSUME Accepted' = Accepted \ {d}, at[d] # "rotate", UNCHANGED <<userId, verifier, recVerifier, View>>
      PROVE  Stutter
  BY <1>s DEF Stutter, Accepted
<1>v. UNCHANGED <<userId, ciphers>> => UNCHANGED View
  BY DEF View
<1>1. CASE RegisterServer(d)
  <2>1. CASE Done(d) /\ UNCHANGED row
    BY <1>d, <1>s, <1>v, <1>1, <2>1 DEF RegisterServer, row
  <2>2. CASE userId = 0 /\ userId' = key[d] /\ verifier' = pw[d] /\ recVerifier' = 0
    <3>1. key[d] # 0 /\ ~Used(key[d])
      BY <1>1 DEF RegisterServer, FreshOK
    <3>2. View' = [i \in Ids |-> 0]
      BY <1>1, <2>2, <3>1 DEF RegisterServer, View, Used
    <3>3. Accepted' = {}
      <4>1. acct' = acct \/ acct' = [acct EXCEPT ![d] = 0]
        BY <1>1 DEF RegisterServer, Goto, Done
      <4> QED BY <1>t, <2>2, <3>1, <4>1 DEF Accepted, Used
    <3>4. Abstract!Create
      BY <1>t, <2>2, <3>1, <3>2, <3>3 DEF Abstract!Create, Abstract!Empty
    <3> QED BY <3>4 DEF Abstract!Next
  <2> QED BY <1>1, <2>1, <2>2 DEF RegisterServer
<1>2. CASE SignInServer(d) \/ LoginServer(d)
  <2>1. Done(d) /\ UNCHANGED row /\ UNCHANGED ciphers /\ at[d] # "rotate"
    BY <1>2 DEF SignInServer, LoginServer, SignIn
  <2> QED BY <1>d, <1>s, <1>v, <2>1 DEF row
<1>3. CASE EnableServer(d)
  <2>1. Done(d) /\ UNCHANGED <<userId, verifier, ciphers>> /\ at[d] # "rotate" /\ at[d] \in Writing
    BY <1>3 DEF EnableServer, Writing
  <2>2. Accepted' = Accepted /\ UNCHANGED View
    BY <1>d, <1>v, <2>1 DEF Accepted
  <2>3. CASE recVerifier' = recVerifier
    BY <2>1, <2>2, <2>3 DEF Stutter
  <2>4. CASE recVerifier' # recVerifier
    <3>1. userId # 0
      BY <1>3, <2>1, <2>4 DEF EnableServer, KeysOK, OpOK
    <3>2. Abstract!SetCode
      BY <2>1, <2>2, <2>4, <3>1 DEF Abstract!SetCode
    <3> QED BY <3>2 DEF Abstract!Next
  <2> QED BY <2>3, <2>4
<1>4. CASE Challenge(d)
  <2>1. UNCHANGED row /\ UNCHANGED ciphers /\ at[d] # "rotate"
    BY <1>4 DEF Challenge
  <2>2. CASE Goto(d, "complete", pw[d], code[d], recovery.key, 0, NoItem)
    <3>1. Accepted' = Accepted \ {d}
      BY <2>1, <2>2, AcceptedKept DEF row
    <3> QED BY <1>s, <1>v, <2>1, <3>1 DEF row
  <2> QED BY <1>d, <1>s, <1>v, <1>4, <2>1, <2>2 DEF Challenge, row
<1>5. CASE CompleteVerify(d)
  <2>1. UNCHANGED row /\ UNCHANGED ciphers /\ at[d] # "rotate"
    BY <1>5 DEF CompleteVerify
  <2>2. CASE userId # 0 /\ recVerifier # 0 /\ Goto(d, "rotate", pw[d], code[d], key[d], userId, NoItem)
    <3>1. /\ at'[d] = "rotate" /\ acct'[d] = userId
          /\ \A e \in Devices \ {d} : at'[e] = at[e] /\ acct'[e] = acct[e]
      BY <2>2, GotoLocals
    <3>2. Accepted' = Accepted \cup {d}
      BY <2>1, <2>2, <3>1 DEF Accepted, row
    <3>3. Abstract!Grant(d)
      BY <1>v, <2>1, <2>2, <3>2 DEF Abstract!Grant, row
    <3> QED BY <3>3 DEF Abstract!Next
  <2> QED BY <1>d, <1>s, <1>v, <1>5, <2>1, <2>2 DEF CompleteVerify, row
<1>6. CASE CompleteRotate(d)
  <2>1. Done(d) /\ UNCHANGED <<userId, recVerifier, ciphers>> /\ at[d] = "rotate"
    BY <1>6 DEF CompleteRotate, SignIn
  <2>2. Accepted' = Accepted \ {d} /\ UNCHANGED View
    BY <1>d, <1>v, <2>1
  <2>3. CASE userId = acct[d]
    <3>1. userId # 0
      BY <2>1, <2>3 DEF KeysOK, OpOK, Writing
    <3>2. d \in Accepted /\ verifier' \in Passwords
      BY <1>t, <1>6, <2>1, <2>3, <3>1 DEF Accepted, CompleteRotate
    <3>3. Abstract!Reset(d)
      BY <2>1, <2>2, <3>2 DEF Abstract!Reset
    <3> QED BY <3>3 DEF Abstract!Next
  <2>4. CASE userId # acct[d]
    <3>1. d \notin Accepted /\ UNCHANGED verifier
      BY <1>6, <2>4 DEF Accepted, CompleteRotate
    <3> QED BY <2>1, <2>2, <3>1 DEF Stutter
  <2> QED BY <2>3, <2>4
<1>w. ASSUME NEW i \in Ids, NEW v \in Values \cup {0}, userId # 0, UNCHANGED row, Accepted' = Accepted,
             View' = [View EXCEPT ![i] = v]
      PROVE  Abstract!Next
  <2>1. Abstract!Write(i)
    BY <1>w DEF Abstract!Write, row
  <2> QED BY <2>1 DEF Abstract!Next
<1>7. CASE AddServer(d)
  <2>1. Done(d) /\ UNCHANGED row /\ at[d] # "rotate" /\ at[d] \in Writing
    BY <1>7 DEF AddServer, Writing
  <2>2. Accepted' = Accepted
    BY <1>d, <2>1 DEF Accepted, row
  <2>3. PICK i \in Ids : ciphers[i].owner = 0 /\ ciphers' = [ciphers EXCEPT ![i] = Sealed(d)]
    BY <1>7 DEF AddServer
  <2>4. CASE userId = acct[d]
    <3>1. userId # 0
      BY <2>1, <2>4 DEF KeysOK, OpOK
    <3>2. View' = [View EXCEPT ![i] = item[d].val]
      BY <1>t, <2>1, <2>3, <2>4, <3>1 DEF View, Sealed, row
    <3> QED BY <1>t, <1>w, <2>1, <2>2, <3>1, <3>2 DEF Item
  <2>5. CASE userId # acct[d]
    <3>1. View' = View
      BY <1>t, <2>1, <2>3, <2>5 DEF View, Sealed, row
    <3> QED BY <2>1, <2>2, <3>1 DEF Stutter, row
  <2> QED BY <2>4, <2>5
<1>8. CASE PutServer(d)
  <2>1. Done(d) /\ UNCHANGED row /\ at[d] # "rotate" /\ at[d] \in Writing /\ item[d].id \in Ids
    BY <1>t, <1>8 DEF PutServer, Writing, Item
  <2>2. Accepted' = Accepted
    BY <1>d, <2>1 DEF Accepted, row
  <2> DEFINE i == item[d].id
  <2>3. \/ UNCHANGED ciphers
        \/ ciphers[i].owner = acct[d] /\ ciphers' = [ciphers EXCEPT ![i] = Sealed(d)]
        \/ ciphers[i].owner = acct[d] /\ ciphers' = [ciphers EXCEPT ![i] = NoCipher]
    BY <1>8 DEF PutServer
  <2>4. CASE userId = acct[d] /\ ciphers' = [ciphers EXCEPT ![i] = Sealed(d)]
    <3>1. userId # 0
      BY <2>1, <2>4 DEF KeysOK, OpOK
    <3>2. View' = [View EXCEPT ![i] = item[d].val]
      BY <1>t, <2>1, <2>4, <3>1 DEF View, Sealed, row
    <3> QED BY <1>t, <1>w, <2>1, <2>2, <3>1, <3>2 DEF Item
  <2>5. CASE userId = acct[d] /\ ciphers' = [ciphers EXCEPT ![i] = NoCipher]
    <3>1. userId # 0
      BY <2>1, <2>5 DEF KeysOK, OpOK
    <3>2. View' = [View EXCEPT ![i] = 0]
      BY <1>t, <2>1, <2>5, <3>1 DEF View, NoCipher, row
    <3> QED BY <1>t, <1>w, <2>1, <2>2, <3>1, <3>2 DEF Item
  <2>6. CASE userId # acct[d] \/ UNCHANGED ciphers
    <3>1. View' = View
      BY <1>t, <2>1, <2>3, <2>6 DEF View, Sealed, NoCipher, row
    <3> QED BY <2>1, <2>2, <3>1 DEF Stutter, row
  <2> QED BY <2>3, <2>4, <2>5, <2>6
<1>9. CASE DeleteServer(d)
  <2>1. Done(d) /\ UNCHANGED verifier /\ at[d] # "rotate" /\ at[d] \in Writing
    BY <1>9 DEF DeleteServer, Writing
  <2>2. CASE userId = acct[d]
    <3>1. userId # 0 /\ userId' = 0 /\ recVerifier' = 0
      BY <1>9, <2>1, <2>2 DEF DeleteServer, KeysOK, OpOK
    <3>2. View' = [i \in Ids |-> 0] /\ Accepted' = {}
      BY <3>1 DEF View, Accepted
    <3>3. Abstract!Erase
      BY <2>1, <3>1, <3>2 DEF Abstract!Erase, Abstract!Empty
    <3> QED BY <3>3 DEF Abstract!Next
  <2>3. CASE userId # acct[d]
    BY <1>d, <1>s, <1>v, <1>9, <2>1, <2>3 DEF DeleteServer
  <2> QED BY <2>2, <2>3
<1>10. CASE Fails(d)
  <2>1. Accepted' = Accepted \ {d} /\ UNCHANGED row /\ UNCHANGED View
    BY <1>d, <1>v, <1>10 DEF Fails, row
  <2>2. Abstract!Refuse(d)
    BY <2>1 DEF Abstract!Refuse, row
  <2> QED BY <2>2 DEF Abstract!Next
<1> QED BY <1>1, <1>2, <1>3, <1>4, <1>5, <1>6, <1>7, <1>8, <1>9, <1>10 DEF Serve

\* The initial state of the row is an identifier nobody has.
LEMMA SimInit == Init => Abstract!Init
<1> SUFFICES ASSUME Init PROVE Abstract!Init
  OBVIOUS
<1>1. Plains = [i \in Ids |-> 0] /\ Accepted = {} /\ Sound = TRUE
  BY DEF Init, Plains, Plain, Accepted, Sound
<1> QED BY <1>1, Defaults DEF Init, Abstract!Init, Abstract!Empty

\* Every step maps to a step of the abstract account or to none.
LEMMA SimNext == RefineInv /\ RefineInv' /\ [Next]_vars => [Abstract!Next]_(Abstract!vars)
<1> SUFFICES ASSUME RefineInv, RefineInv', [Next]_vars PROVE Abstract!Next \/ UNCHANGED Abstract!vars
  OBVIOUS
<1>0. TypeOK /\ FreshOK /\ crossed \in BOOLEAN /\ crossed' \in BOOLEAN
  BY TypeParts DEF RefineInv, KeysInv, CountType, TypeOK
<1>1. CASE crossed'
  BY <1>1 DEF Abstract!Next, Abstract!Void, Sound
<1>2. CASE ~crossed'
  <2>1. ~crossed
    BY <1>2, <1>0, HistoryNext
  <2>2. KeysOK /\ KeysOK' /\ Sound' = Sound
    BY <1>0, <1>2, <2>1 DEF RefineInv, KeysInv, Sound
  <2>3. Plains = View
    BY <2>2, PlainsAre
  <2>4. (Plains = View)'
    BY <2>2, PlainsAre, PTL
  <2>5. Stutter \/ Abstract!Next
    BY <1>0, <2>2, <2>3, <2>4, SimStart, SimServe DEF Next
  <2>6. Stutter => UNCHANGED Abstract!vars
    BY <2>2, <2>3, <2>4 DEF Stutter, Abstract!vars
  <2> QED BY <2>5, <2>6
<1> QED BY <1>1, <1>2

\* The key hierarchy implements the account without keys: whatever devices,
\* recoveries, enrolments, writes and deletions overlap, the password opens
\* exactly the items of the account, a recovery code changes nothing but the
\* password, and a new account starts empty.
THEOREM ImplementsVault == Spec => KeepsPromises
<1>1. Spec => []RefineInv
  BY RefineInit, RefineNext, PTL DEF Spec
<1>2. QED
  BY <1>1, SimInit, SimNext, PTL DEF Spec, KeepsPromises, Abstract!Spec

----------------------------------------------------------------------------
(* Accounts of one identifier, one after the other *)

\* A new account shares its id with nothing: no session, no operation in
\* flight and no item of an earlier account under the identifier refers to it.
NewAccountsAreNew == [][userId' # userId /\ userId' # 0 => ~Used(userId')]_vars

\* The account of the row changes with a registration, or goes.
LEMMA OwnerNext ==
    ASSUME TypeOK, [Next]_vars
    PROVE  \/ userId' = userId
           \/ \E d \in Devices : RegisterServer(d) /\ userId = 0 /\ userId' = key[d]
           \/ userId' = 0 /\ \E d \in Devices : DeleteServer(d)
<1>1. ASSUME NEW d \in Devices, Start(d) PROVE userId' = userId
  BY <1>1 DEF Start, Register, Login, SignOut, EnableRecovery, DisableRecovery, Recover, AddItem, SaveItem,
              RemoveItem, DeleteAccount, RemoveShare, Type, Use, row
<1>2. ASSUME NEW d \in Devices, Serve(d), ~RegisterServer(d), ~DeleteServer(d) PROVE userId' = userId
  BY <1>2 DEF Serve, SignInServer, LoginServer, EnableServer, Challenge, CompleteVerify, CompleteRotate,
              AddServer, PutServer, Fails, row
<1>3. ASSUME NEW d \in Devices, RegisterServer(d)
      PROVE  userId' = userId \/ (userId = 0 /\ userId' = key[d])
  BY <1>3 DEF RegisterServer, row
<1>4. ASSUME NEW d \in Devices, DeleteServer(d) PROVE userId' = userId \/ userId' = 0
  BY <1>4 DEF DeleteServer
<1>5. CASE ShareLookup \/ ShareServer \/ UNCHANGED vars
  BY <1>5 DEF ShareLookup, ShareServer, vars, row
<1> QED BY <1>1, <1>2, <1>3, <1>4, <1>5 DEF Next

\* A registration that succeeds makes an account nothing has referred to, also
\* when it was overtaken by a deletion and other registrations.
THEOREM AccountsAreNew == Spec => NewAccountsAreNew
<1>1. Spec => []RefineInv
  BY RefineInit, RefineNext, PTL DEF Spec
<1>2. RefineInv /\ [Next]_vars => [userId' # userId /\ userId' # 0 => ~Used(userId')]_vars
  <2> SUFFICES ASSUME RefineInv, [Next]_vars, userId' # userId, userId' # 0 PROVE ~Used(userId')
    OBVIOUS
  <2>1. TypeOK /\ FreshOK
    BY DEF RefineInv, KeysInv
  <2>2. PICK d \in Devices : RegisterServer(d) /\ userId' = key[d]
    BY <2>1, OwnerNext
  <2>3. at[d] = "register"
    BY <2>2 DEF RegisterServer
  <2> QED BY <2>1, <2>2, <2>3 DEF FreshOK
<1>3. QED
  BY <1>1, <1>2, PTL DEF Spec, NewAccountsAreNew

----------------------------------------------------------------------------
(* One device *)

\* With one device nothing comes between a registration and its sign-in.
OwnSignIn == ~crossed /\ \A d \in Devices : at[d] = "signin" => userId = key[d]

\* Every step of a single device keeps it.
LEMMA OwnSignInNext ==
    ASSUME \A d, e \in Devices : d = e, TypeOK, OwnSignIn, [Next]_vars
    PROVE  OwnSignIn'
<1>l. at \in [Devices -> Ops] /\ key \in [Devices -> Bundle] /\ crossed \in BOOLEAN
  BY TypeParts DEF LocalsType, CountType
<1>1. ASSUME NEW d \in Devices, UNCHANGED crossed, at'[d] # "signin" PROVE OwnSignIn'
  BY <1>1 DEF OwnSignIn
<1>2. ASSUME NEW d \in Devices, RegisterServer(d) PROVE OwnSignIn'
  <2>1. UNCHANGED crossed
    BY <1>2 DEF RegisterServer
  <2>2. CASE Done(d)
    BY <1>l, <1>1, <2>1, <2>2 DEF Done, Goto
  <2>3. CASE userId' = key[d] /\ Goto(d, "signin", pw[d], 0, key[d], 0, NoItem)
    <3>1. key'[d] = key[d]
      BY <2>3, GotoLocals
    <3> QED BY <2>1, <2>3, <3>1 DEF OwnSignIn
  <2> QED BY <1>2, <2>2, <2>3 DEF RegisterServer
<1>3. ASSUME NEW d \in Devices, SignInServer(d) PROVE OwnSignIn'
  <2>1. at[d] = "signin" /\ userId = key[d] /\ at'[d] = "idle"
    BY <1>l, <1>3 DEF SignInServer, SignIn, Done, Goto, OwnSignIn
  <2>2. ~crossed'
    BY <1>3, <2>1, Zenon DEF SignInServer, OwnSignIn
  <2> QED BY <2>1, <2>2 DEF OwnSignIn
<1>4. ASSUME NEW d \in Devices, Serve(d), ~RegisterServer(d), ~SignInServer(d) PROVE OwnSignIn'
  <2>1. UNCHANGED crossed /\ at'[d] # "signin"
    BY <1>l, <1>4 DEF Serve, LoginServer, EnableServer, Challenge, CompleteVerify, CompleteRotate, AddServer,
                      PutServer, DeleteServer, Fails, SignIn, Done, Goto
  <2> QED BY <1>1, <2>1
<1>5. ASSUME NEW d \in Devices, Start(d) PROVE OwnSignIn'
  <2>1. CASE SignOut(d) \/ RemoveShare(d)
    BY <2>1 DEF SignOut, RemoveShare, OwnSignIn, row, client, locals
  <2>2. CASE ~(SignOut(d) \/ RemoveShare(d))
    <3>1. UNCHANGED crossed /\ at'[d] # "signin"
      BY <1>l, <1>5, <2>2 DEF Start, Register, Login, EnableRecovery, DisableRecovery, Recover, AddItem, SaveItem,
                              RemoveItem, DeleteAccount, Type, Use, Goto
    <3> QED BY <1>1, <3>1
  <2> QED BY <2>1, <2>2
<1>6. CASE ShareLookup \/ ShareServer \/ UNCHANGED vars
  BY <1>6 DEF ShareLookup, ShareServer, vars, row, client, locals, OwnSignIn
<1> QED BY <1>2, <1>3, <1>4, <1>5, <1>6 DEF Next

\* The password and the recovery code open the vault, and the vault loads
\* whole.
AlwaysOpens ==
    /\ userId # 0 =>
         /\ wrapped = [by |-> verifier, key |-> userId]
         /\ recVerifier # 0 => recovery = [by |-> recVerifier, key |-> userId]
    /\ \A d \in Devices : SignedIn(d) => LoadVault(sess[d]) = OwnItems(sess[d])

\* Used from a single device, lost answers, refused requests, deletions and
\* registrations of the same identifier included, an account never loses its
\* key: a registration is answered by another account only across devices.
THEOREM OneDeviceAlwaysOpens ==
    ASSUME \A d, e \in Devices : d = e
    PROVE  Spec => []AlwaysOpens
<1>1. Init => OwnSignIn
  BY DEF Init, OwnSignIn
<1>2. TypeOK /\ OwnSignIn /\ [Next]_vars => OwnSignIn'
  BY OwnSignInNext
<1>3. CredentialsOpenVault /\ NothingSkipped /\ OwnSignIn => AlwaysOpens
  BY DEF CredentialsOpenVault, NothingSkipped, OwnSignIn, AlwaysOpens
<1>4. QED
  BY <1>1, <1>2, <1>3, TypeCorrect, AcceptedCredentialsOpen, VaultLoadsWhole, PTL DEF Spec
=============================================================================
