----------------------------- MODULE TOTPProofs -----------------------------
(***************************************************************************)
(* Proofs about TOTP, for every set of request slots and every value of    *)
(* the bounds.                                                             *)
(***************************************************************************)
EXTENDS TOTP, TLAPS

(***************************************************************************)
(* The inductive invariant.                                                *)
(***************************************************************************)
\* What a handler holds about its copy of the row and its code.  After the
\* check, a confirmation has its secret confirmed and a login has a code
\* that is newer than its copy of the baseline and not ahead of the clock.
RequestsSound ==
    \A r \in Reqs :
        LET q == req[r]
        IN /\ q.snap.secret <= minted
           /\ q.op = "enable" /\ q.pc = "write" => q.snap.secret \in confirmed
           /\ q.op = "login" /\ q.pc = "write"
                => q.snap.last < q.code.step /\ q.code.step <= now + 1

\* Without overlap there is one login at most, and its copy of the baseline
\* is the baseline.
LoginsAlone ==
    ~overlap =>
        /\ \A r, s \in InFlight : r = s
        /\ \A r \in InFlight : req[r].snap.last = row.last

\* Without overlap and as long as the baseline has not been reset, it covers
\* every code consumed so far.
BaselineCovers ==
    ~overlap /\ ~rebased => /\ ~again
                            /\ \A c \in consumed : c.step <= row.last

\* There is something to replay only when a code has been consumed.
ReplayNeedsCode == again \/ rebased => consumed # {}

IInv ==
    /\ TypeOK
    /\ RequestsSound
    /\ EnabledMeansConfirmed
    /\ BaselineNotAhead
    /\ LoginsAlone
    /\ BaselineCovers
    /\ ReplayNeedsCode

-----------------------------------------------------------------------------
\* The slots after a step: every record but the one of r is the old one.
LEMMA SlotTypes ==
    ASSUME TypeOK, NEW r \in Reqs, NEW q \in Request,
           req' = [req EXCEPT ![r] = q]
    PROVE  /\ req' \in [Reqs -> Request]
           /\ req'[r] = q
           /\ \A s \in Reqs \ {r} : req'[s] = req[s]
  BY DEF TypeOK

LEMMA IdleType == Idle \in Request /\ NoTOTP \in Row /\ WrongCode \in Code
  BY DEF Idle, Request, NoTOTP, WrongCode, Row, Code

\* A slot that goes on or responds.
LEMMA GoToType ==
    ASSUME TypeOK, NEW r \in Reqs,
           NEW pc \in {"idle", "verify", "write"}, GoTo(r, pc)
    PROVE  \E q \in Request : /\ req' = [req EXCEPT ![r] = q]
                              /\ q.op = req[r].op /\ q.pc = pc
                              /\ q.snap = req[r].snap /\ q.code = req[r].code
  <1> DEFINE q == [op |-> req[r].op, pc |-> pc, snap |-> req[r].snap,
                   code |-> req[r].code]
  <1>1. req[r] \in Request
    BY DEF TypeOK
  <1>2. q \in Request
    BY <1>1 DEF Request
  <1>3. req' = [req EXCEPT ![r] = q]
    <2>1. q = [req[r] EXCEPT !.pc = pc]
      BY <1>1 DEF Request
    <2>2. QED
      BY <2>1 DEF GoTo
  <1>4. QED
    BY <1>2, <1>3

\* The codes a client may send are codes.
LEMMA OfferedType ==
    ASSUME TypeOK, NEW c \in Offered
    PROVE  c \in Code
  BY DEF TypeOK, Offered, WrongCode, Code, Row

LEMMA InitIInv == Init => IInv
  <1> SUFFICES ASSUME Init PROVE IInv
    OBVIOUS
  <1>1. \A r \in Reqs : req[r] = Idle
    BY DEF Init
  <1>2. TypeOK
    <2>1. row \in Row /\ row.secret = 0 /\ minted = 0
      BY IdleType DEF Init, NoTOTP
    <2>2. req \in [Reqs -> Request]
      BY IdleType DEF Init
    <2>3. /\ again \in BOOLEAN /\ overlap \in BOOLEAN
          /\ rebased \in BOOLEAN
      BY Zenon DEF Init
    <2>4. now \in Nat \ {0} /\ confirmed = {} /\ consumed = {}
      BY TOTPAssumption DEF Init
    <2>5. row.enabled => row.secret # 0
      BY DEF Init, NoTOTP
    <2>6. QED
      BY <2>1, <2>2, <2>3, <2>4, <2>5 DEF TypeOK
  <1>3. RequestsSound
    BY <1>1 DEF Init, RequestsSound, Idle, NoTOTP
  <1>4. EnabledMeansConfirmed /\ BaselineNotAhead
    BY TOTPAssumption
    DEF Init, EnabledMeansConfirmed, BaselineNotAhead, NoTOTP
  <1>5. InFlight = {}
    BY <1>1 DEF InFlight, Idle
  <1>6. LoginsAlone
    BY <1>5 DEF LoginsAlone
  <1>7. BaselineCovers /\ ReplayNeedsCode
    BY DEF Init, BaselineCovers, ReplayNeedsCode
  <1>8. QED
    BY <1>2, <1>3, <1>4, <1>6, <1>7 DEF IInv

-----------------------------------------------------------------------------
(***************************************************************************)
(* Steps that leave the row, the consumed codes and the history of the     *)
(* logins alone, in which slot r moves from one record to another.         *)
(***************************************************************************)
\* Slot r takes record q, which keeps what the invariant says of a slot, and
\* which as a login goes on with its copy of the row or has just made it.
Moves(r, q) ==
    /\ req' = [req EXCEPT ![r] = q]
    /\ UNCHANGED <<row, now, minted, consumed, again, rebased>>
    /\ overlap' \in BOOLEAN
    /\ confirmed \subseteq confirmed' /\ confirmed' \subseteq 1..minted
    /\ q.snap.secret <= minted
    /\ q.op = "enable" /\ q.pc = "write" => q.snap.secret \in confirmed'
    /\ q.op = "login" /\ q.pc = "write"
         => q.snap.last < q.code.step /\ q.code.step <= now + 1
    /\ ~overlap' => ~overlap
    /\ q.op = "login" /\ q.pc # "idle"
         => \/ r \in InFlight /\ q.snap = req[r].snap
            \/ /\ q.snap = row
               /\ ~overlap' => InFlight = {}

LEMMA SlotStep ==
    ASSUME IInv, NEW r \in Reqs, NEW q \in Request, Moves(r, q)
    PROVE  IInv'
  <1> USE DEF IInv, Moves
  <1>1. /\ req' \in [Reqs -> Request]
        /\ req'[r] = q
        /\ \A s \in Reqs \ {r} : req'[s] = req[s]
    BY SlotTypes
  <1>2. TypeOK'
    BY <1>1 DEF TypeOK
  <1>3. RequestsSound'
    BY <1>1 DEF RequestsSound
  <1>4. EnabledMeansConfirmed' /\ BaselineNotAhead'
    BY DEF EnabledMeansConfirmed, BaselineNotAhead
  <1>5. InFlight' \subseteq InFlight \cup {r}
    BY <1>1 DEF InFlight
  <1>6. LoginsAlone'
    <2> SUFFICES ASSUME ~overlap'
                 PROVE  /\ \A x, y \in InFlight' : x = y
                        /\ \A x \in InFlight' : req'[x].snap.last = row'.last
      BY DEF LoginsAlone
    <2>1. /\ \A x, y \in InFlight : x = y
          /\ \A x \in InFlight : req[x].snap.last = row.last
      BY DEF LoginsAlone
    <2>2. CASE r \in InFlight'
      <3>1. q.op = "login" /\ q.pc # "idle"
        BY <1>1, <2>2 DEF InFlight
      <3>2. InFlight \subseteq {r} /\ q.snap.last = row.last
        BY <2>1, <3>1
      <3>3. QED
        BY <1>1, <1>5, <3>2
    <2>3. CASE r \notin InFlight'
      <3>1. InFlight' \subseteq InFlight
        BY <1>5, <2>3
      <3>2. \A x \in InFlight' : x \in Reqs \ {r}
        BY <2>3 DEF InFlight
      <3>3. QED
        BY <1>1, <2>1, <3>1, <3>2
    <2>4. QED
      BY <2>2, <2>3
  <1>7. BaselineCovers' /\ ReplayNeedsCode'
    BY DEF BaselineCovers, ReplayNeedsCode
  <1>8. QED
    BY <1>2, <1>3, <1>4, <1>6, <1>7

\* A handler writes the TOTP columns: a secret that was generated, enabled
\* only if it was confirmed.
Stores(r, secret, enabled) ==
    /\ SetUserTOTP(secret, enabled)
    /\ Respond(r)
    /\ req[r].op # "login"
    /\ UNCHANGED <<now, confirmed>>
    /\ minted' \in Nat /\ minted <= minted' /\ secret <= minted'
    /\ enabled => secret \in confirmed

LEMMA SetUserTOTPStep ==
    ASSUME IInv, NEW r \in Reqs, NEW secret \in Nat, NEW enabled \in BOOLEAN,
           Stores(r, secret, enabled)
    PROVE  IInv'
  <1> USE DEF IInv, Stores
  <1>1. /\ req' \in [Reqs -> Request]
        /\ req'[r] = Idle
        /\ \A s \in Reqs \ {r} : req'[s] = req[s]
    BY SlotTypes, IdleType DEF Respond
  <1>2. row' = [secret |-> secret, enabled |-> enabled, last |-> 0]
    BY DEF SetUserTOTP
  <1>3. /\ secret = row.secret => consumed' = consumed
        /\ secret # row.secret => consumed' = {}
        /\ consumed' \subseteq consumed
    BY DEF SetUserTOTP
  <1>4. /\ again' \in BOOLEAN /\ overlap' \in BOOLEAN /\ rebased' \in BOOLEAN
        /\ again' => secret = row.secret /\ again
        /\ rebased' => secret = row.secret /\ consumed # {}
        /\ secret = row.secret /\ consumed # {} => rebased'
        /\ InFlight # {} => overlap'
    BY DEF SetUserTOTP
  <1>5. TypeOK'
    BY <1>1, <1>2, <1>3, <1>4 DEF TypeOK, Row
  <1>6. RequestsSound'
    <2>1. \A s \in Reqs : req[s] \in Request /\ req[s].snap.secret \in Nat
      BY DEF TypeOK, Request, Row
    <2>2. QED
      BY <1>1, <2>1 DEF RequestsSound, TypeOK, Idle, NoTOTP
  <1>7. EnabledMeansConfirmed' /\ BaselineNotAhead'
    BY <1>2 DEF EnabledMeansConfirmed, BaselineNotAhead, TypeOK
  <1>8. InFlight' \subseteq InFlight
    BY <1>1 DEF InFlight, Idle
  <1>9. LoginsAlone'
    BY <1>4, <1>8 DEF LoginsAlone
  <1>10. ReplayNeedsCode'
    BY <1>3, <1>4 DEF ReplayNeedsCode
  <1>11. BaselineCovers'
    <2> SUFFICES ASSUME ~overlap', ~rebased'
                 PROVE  ~again' /\ consumed' = {}
      BY DEF BaselineCovers
    <2>1. CASE secret = row.secret
      BY <1>3, <1>4, <2>1 DEF ReplayNeedsCode
    <2>2. CASE secret # row.secret
      BY <1>3, <1>4, <2>2
    <2>3. QED
      BY <2>1, <2>2
  <1>12. QED
    BY <1>5, <1>6, <1>7, <1>9, <1>10, <1>11

\* A login completes: the baseline moves to its code.
LEMMA ConsumeStep ==
    ASSUME IInv, NEW r \in Reqs, req[r].op = "login", req[r].pc = "write",
           SetUserTOTPCounter(req[r].code.step), Respond(r),
           consumed' = consumed \cup {req[r].code},
           again' = (again \/ req[r].code \in consumed),
           UNCHANGED <<now, minted, confirmed, overlap, rebased>>
    PROVE  IInv'
  <1> USE DEF IInv
  <1> DEFINE c == req[r].code
  <1>1. /\ req' \in [Reqs -> Request]
        /\ req'[r] = Idle
        /\ \A s \in Reqs \ {r} : req'[s] = req[s]
    BY SlotTypes, IdleType DEF Respond
  <1>2. /\ c \in Code /\ c.step \in Int
        /\ req[r].snap.last < c.step /\ c.step <= now + 1
    BY DEF TypeOK, Request, Code, RequestsSound
  <1>3. /\ row' = [row EXCEPT !.last = c.step]
        /\ row'.secret = row.secret /\ row'.enabled = row.enabled
        /\ row'.last = c.step /\ row' \in Row
    BY <1>2 DEF SetUserTOTPCounter, TypeOK, Row
  <1>4. again' \in BOOLEAN
    OBVIOUS
  <1>5. TypeOK'
    BY <1>1, <1>2, <1>3, <1>4 DEF TypeOK
  <1>6. RequestsSound'
    BY <1>1 DEF RequestsSound, TypeOK, Idle, NoTOTP
  <1>7. EnabledMeansConfirmed' /\ BaselineNotAhead'
    BY <1>2, <1>3 DEF EnabledMeansConfirmed, BaselineNotAhead
  <1>8. r \in InFlight /\ InFlight' = InFlight \ {r}
    BY <1>1 DEF InFlight, Idle
  <1>9. LoginsAlone'
    BY <1>8 DEF LoginsAlone
  <1>10. ReplayNeedsCode'
    BY DEF ReplayNeedsCode
  <1>11. BaselineCovers'
    <2> SUFFICES ASSUME ~overlap, ~rebased
                 PROVE  /\ ~again'
                        /\ \A d \in consumed' : d.step <= c.step
      BY <1>3 DEF BaselineCovers
    <2>1. row.last < c.step
      BY <1>2, <1>8 DEF LoginsAlone
    <2>2. ~again /\ \A d \in consumed : d.step <= row.last
      BY DEF BaselineCovers
    <2>3. \A d \in consumed : d.step \in Int
      BY DEF TypeOK, Code
    <2>4. row.last \in Int
      BY DEF TypeOK, Row
    <2>5. c \notin consumed
      BY <1>2, <2>1, <2>2, <2>4
    <2>6. ~again'
      BY <2>2, <2>5
    <2>7. \A d \in consumed' : d.step <= c.step
      BY <1>2, <2>1, <2>2, <2>3, <2>4
    <2>8. QED
      BY <2>6, <2>7
  <1>12. QED
    BY <1>5, <1>6, <1>7, <1>9, <1>10, <1>11
-----------------------------------------------------------------------------
(***************************************************************************)
(* Every action is one of these three kinds of step, or lets time pass or  *)
(* drops the requests.                                                     *)
(***************************************************************************)
\* What the steps below use of a slot and of the row.
LEMMA SlotFacts ==
    ASSUME IInv, NEW r \in Reqs
    PROVE  /\ req[r] \in Request /\ req[r].snap.secret \in Nat
           /\ row \in Row /\ row.secret \in Nat /\ minted \in Nat
           /\ req[r].snap.secret <= minted /\ row.secret <= minted
           /\ overlap \in BOOLEAN
           /\ confirmed \subseteq 1..minted
  BY DEF IInv, TypeOK, Request, Row, RequestsSound

\* A handler that answers without having written anything.
LEMMA RespondIInv ==
    ASSUME IInv, NEW r \in Reqs, Respond(r),
           UNCHANGED <<row, now, minted, confirmed, consumed, again,
                       rebased, overlap>>
    PROVE  IInv'
  <1>1. Idle.snap.secret = 0 /\ Idle.pc = "idle"
    BY DEF Idle, NoTOTP
  <1>2. Moves(r, Idle)
    BY <1>1, SlotFacts DEF Respond, Moves
  <1>3. QED
    BY <1>2, IdleType, SlotStep

LEMMA LoginIInv ==
    ASSUME IInv, NEW r \in Reqs,
           \/ \E c \in Offered : LoginLookup(r, c)
           \/ LoginVerify(r)
           \/ LoginConsume(r)
    PROVE  IInv'
  <1>1. /\ req[r] \in Request
        /\ row \in Row /\ row.secret <= minted
        /\ req[r].snap.secret <= minted
        /\ overlap \in BOOLEAN /\ confirmed \subseteq 1..minted
    BY SlotFacts
  <1>2. ASSUME NEW c \in Offered, LoginLookup(r, c)
        PROVE  IInv'
    <2> DEFINE q == [op |-> "login", pc |-> "verify", snap |-> row,
                     code |-> c]
    <2>1. q \in Request
      BY <1>1, OfferedType DEF IInv, Request
    <2>2. req' = [req EXCEPT ![r] = q]
      BY <1>2 DEF LoginLookup, Read
    <2>3. /\ overlap' \in BOOLEAN
          /\ ~overlap' => ~overlap
          /\ ~overlap' => InFlight = {}
      BY <1>1, <1>2 DEF LoginLookup
    <2>4. UNCHANGED <<row, now, minted, consumed, again, rebased, confirmed>>
      BY <1>2 DEF LoginLookup, codes
    <2> HIDE DEF q
    <2>5. q.op = "login" /\ q.pc = "verify" /\ q.snap = row
      BY DEF q
    <2>6. q.snap.secret <= minted /\ confirmed' \subseteq 1..minted
      BY <1>1, <2>4, <2>5
    <2>7. Moves(r, q)
      <3>1. q.pc # "write" /\ confirmed \subseteq confirmed'
        BY <2>4, <2>5
      <3>2. UNCHANGED <<row, now, minted, consumed, again, rebased>>
        BY <2>4
      <3>3. /\ q.op = "enable" /\ q.pc = "write"
                 => q.snap.secret \in confirmed'
            /\ q.op = "login" /\ q.pc = "write"
                 => q.snap.last < q.code.step /\ q.code.step <= now + 1
        BY <3>1
      <3>4. q.snap = row /\ (~overlap' => InFlight = {})
        BY <2>3, <2>5, Zenon
      <3>5. QED
        BY <2>2, <2>3, <2>6, <3>1, <3>2, <3>3, <3>4, Zenon DEF Moves
    <2>8. QED
      BY <2>1, <2>7, SlotStep
  <1>3. ASSUME LoginVerify(r) PROVE IInv'
    <2>1. Respond(r) \/ (GoTo(r, "write") /\ LoginCodeGood(req[r]))
      BY <1>3, Zenon DEF LoginVerify
    <2>2. UNCHANGED <<row, now, minted, confirmed, consumed, again, rebased,
                      overlap>>
      BY <1>3 DEF LoginVerify, codes
    <2>3. req[r].op = "login" /\ r \in InFlight
      BY <1>3 DEF LoginVerify, InFlight
    <2>4. CASE GoTo(r, "write") /\ LoginCodeGood(req[r])
      <3>1. PICK q \in Request :
              /\ req' = [req EXCEPT ![r] = q]
              /\ q.op = req[r].op /\ q.pc = "write"
              /\ q.snap = req[r].snap /\ q.code = req[r].code
        BY <2>4, GoToType DEF IInv
      <3>2. now \in Nat /\ q.code.step \in Int /\ q.snap.last \in Int
        BY DEF IInv, TypeOK, Request, Code, Row
      <3>3. q.snap.last < q.code.step /\ q.code.step <= now + 1
        BY <2>4, <3>1, <3>2 DEF LoginCodeGood, VerifyTOTPAt
      <3>4. Moves(r, q)
        BY <1>1, <2>2, <2>3, <3>1, <3>3 DEF Moves
      <3>5. QED
        BY <3>4, SlotStep
    <2>5. QED
      BY <2>1, <2>2, <2>4, RespondIInv
  <1>4. ASSUME LoginConsume(r) PROVE IInv'
    <2>1. /\ req[r].op = "login" /\ req[r].pc = "write" /\ Respond(r)
          /\ UNCHANGED <<now, confirmed>>
      BY <1>4 DEF LoginConsume
    <2>2. CASE StoreError
      BY <2>1, <2>2, RespondIInv DEF StoreError, codes
    <2>3. CASE ~StoreError
      <3>1. /\ SetUserTOTPCounter(req[r].code.step)
            /\ consumed' = consumed \cup {req[r].code}
            /\ again' = (again \/ req[r].code \in consumed)
            /\ UNCHANGED <<minted, rebased, overlap>>
        BY <1>4, <2>3, Zenon DEF LoginConsume
      <3>2. QED
        BY <2>1, <3>1, ConsumeStep
    <2>4. QED
      BY <2>2, <2>3
  <1>5. QED
    BY <1>2, <1>3, <1>4

\* The steps of the enrolment handlers that leave the row alone.
LEMMA EnrolIInv ==
    ASSUME IInv, NEW r \in Reqs,
           \/ SetupLookup(r)
           \/ \E c \in Offered : EnableLookup(r, c) \/ DisableLookup(r, c)
           \/ ConfirmVerify(r)
    PROVE  IInv'
  <1>1. /\ req[r].snap.secret \in Nat
        /\ row.secret \in Nat /\ minted \in Nat
        /\ req[r].snap.secret <= minted /\ row.secret <= minted
        /\ overlap \in BOOLEAN /\ confirmed \subseteq 1..minted
    BY SlotFacts
  <1>2. ASSUME NEW q \in Request, req' = [req EXCEPT ![r] = q],
               UNCHANGED <<row, now, minted, consumed, again, rebased,
                           overlap>>,
               confirmed \subseteq confirmed', confirmed' \subseteq 1..minted,
               q.snap.secret <= minted,
               q.op = "enable" /\ q.pc = "write"
                  => q.snap.secret \in confirmed',
               q.op # "login"
        PROVE  IInv'
    <2>1. Moves(r, q)
      BY <1>1, <1>2 DEF Moves
    <2>2. QED
      BY <2>1, SlotStep
  <1>3. ASSUME NEW op \in {"setup", "enable", "disable"},
               NEW pc \in {"verify", "write"}, NEW c \in Code,
               NEW snap \in Row, snap.secret <= minted,
               op = "enable" => pc = "verify",
               Read(r, op, pc, snap, c),
               UNCHANGED <<row, now, minted, consumed, again, rebased,
                           overlap, confirmed>>
        PROVE  IInv'
    <2> DEFINE q == [op |-> op, pc |-> pc, snap |-> snap, code |-> c]
    <2>1. q \in Request /\ req' = [req EXCEPT ![r] = q]
      BY <1>3 DEF Request, Read
    <2> HIDE DEF q
    <2>2. q.op = op /\ q.pc = pc /\ q.snap = snap
      BY DEF q
    <2>3. QED
      BY <1>1, <1>2, <1>3, <2>1, <2>2
  <1>4. ASSUME SetupLookup(r) PROVE IInv'
    <2>1. NoTOTP.secret = 0
      BY DEF NoTOTP
    <2>2. QED
      BY <1>1, <1>3, <1>4, <2>1, IdleType DEF SetupLookup, codes
  <1>5. SecretOnly \in Row /\ SecretOnly.secret = row.secret
    BY <1>1 DEF SecretOnly, Row
  <1>6. ASSUME NEW c \in Offered, EnableLookup(r, c) \/ DisableLookup(r, c)
        PROVE  IInv'
    <2>1. c \in Code
      BY OfferedType DEF IInv
    <2>2. CASE EnableLookup(r, c)
      BY <1>1, <1>3, <1>5, <2>1, <2>2 DEF EnableLookup, codes
    <2>3. CASE DisableLookup(r, c)
      BY <1>1, <1>3, <1>5, <2>1, <2>3 DEF DisableLookup, codes
    <2>4. QED
      BY <1>6, <2>2, <2>3
  <1>7. ASSUME ConfirmVerify(r) PROVE IInv'
    <2> DEFINE good == VerifyTOTPAt(req[r].snap.secret, req[r].code)
    <2>1. UNCHANGED <<row, now, minted, consumed, again, rebased, overlap>>
      BY <1>7 DEF ConfirmVerify, codes
    <2>2. /\ req[r].op \in {"enable", "disable"}
          /\ good /\ req[r].op = "enable"
               => confirmed' = confirmed \cup {req[r].snap.secret}
          /\ ~(good /\ req[r].op = "enable") => confirmed' = confirmed
      BY <1>7 DEF ConfirmVerify
    <2>3. /\ good => GoTo(r, "write") /\ req[r].snap.secret # 0
          /\ ~good => Respond(r)
      BY <1>7 DEF ConfirmVerify, VerifyTOTPAt
    <2> HIDE DEF good
    <2>4. CASE good
      <3>1. PICK q \in Request :
              /\ req' = [req EXCEPT ![r] = q]
              /\ q.op = req[r].op /\ q.pc = "write"
              /\ q.snap = req[r].snap /\ q.code = req[r].code
        BY <2>3, <2>4, GoToType DEF IInv
      <3>2. req[r].snap.secret \in 1..minted
        BY <1>1, <2>3, <2>4
      <3>3. confirmed \subseteq confirmed' /\ confirmed' \subseteq 1..minted
        BY <1>1, <2>2, <3>2
      <3>4. QED
        BY <1>1, <1>2, <2>1, <2>2, <2>4, <3>1, <3>3
    <2>5. CASE ~good
      BY <2>1, <2>2, <2>3, <2>5, RespondIInv
    <2>6. QED
      BY <2>4, <2>5
  <1>8. QED
    BY <1>4, <1>6, <1>7

\* The steps of the enrolment handlers that write the row.
LEMMA WriteIInv ==
    ASSUME IInv, NEW r \in Reqs,
           SetupWrite(r) \/ EnableWrite(r) \/ DisableWrite(r)
    PROVE  IInv'
  <1>1. /\ req[r].snap.secret \in Nat /\ minted \in Nat
        /\ req[r].snap.secret <= minted
    BY SlotFacts
  <1>2. /\ Respond(r) /\ req[r].op # "login"
        /\ UNCHANGED <<now, confirmed>>
    BY DEF SetupWrite, EnableWrite, DisableWrite
  <1>3. CASE StoreError
    BY <1>2, <1>3, RespondIInv DEF StoreError, codes
  <1>4. CASE SetupWrite(r) /\ ~StoreError
    <2>1. minted' = minted + 1 /\ SetUserTOTP(minted + 1, FALSE)
      BY <1>4, Zenon DEF SetupWrite
    <2>2. /\ minted' \in Nat /\ minted <= minted' /\ minted + 1 <= minted'
          /\ minted + 1 \in Nat /\ FALSE \in BOOLEAN
      BY <1>1, <2>1
    <2>3. Stores(r, minted + 1, FALSE)
      BY <1>2, <2>1, <2>2, Zenon DEF Stores
    <2>4. QED
      BY <2>2, <2>3, SetUserTOTPStep, Zenon
  <1>5. CASE EnableWrite(r) /\ ~StoreError
    <2>1. SetUserTOTP(req[r].snap.secret, TRUE) /\ minted' = minted
      BY <1>5, Zenon DEF EnableWrite
    <2>2. req[r].snap.secret \in confirmed
      BY <1>5 DEF EnableWrite, IInv, RequestsSound
    <2>3. /\ minted' \in Nat /\ minted <= minted'
          /\ req[r].snap.secret <= minted'
      BY <1>1, <2>1
    <2>4. Stores(r, req[r].snap.secret, TRUE)
      BY <1>2, <2>1, <2>2, <2>3, Zenon DEF Stores
    <2>5. QED
      BY <1>1, <2>4, SetUserTOTPStep
  <1>6. CASE DisableWrite(r) /\ ~StoreError
    <2>1. SetUserTOTP(0, FALSE) /\ minted' = minted
      BY <1>6, Zenon DEF DisableWrite
    <2>2. minted' \in Nat /\ minted <= minted' /\ 0 <= minted'
      BY <1>1, <2>1
    <2>3. Stores(r, 0, FALSE)
      BY <1>2, <2>1, <2>2, Zenon DEF Stores
    <2>4. QED
      BY <2>3, SetUserTOTPStep
  <1>7. QED
    BY <1>3, <1>4, <1>5, <1>6

LEMMA NextIInv == IInv /\ [Next]_vars => IInv'
  <1> SUFFICES ASSUME IInv, [Next]_vars PROVE IInv'
    OBVIOUS
  <1> USE DEF IInv
  <1>1. ASSUME Tick PROVE IInv'
    <2>1. /\ UNCHANGED <<row, minted, req, confirmed, consumed, again,
                         rebased, overlap>>
          /\ now' = now + 1
      BY <1>1 DEF Tick, codes
    <2>2. RequestsSound'
      <3>1. \A s \in Reqs : req[s].code.step \in Int
        BY DEF TypeOK, Request, Code
      <3>2. QED
        BY <2>1, <3>1 DEF RequestsSound, TypeOK
    <2>3. row.last \in Int
      BY DEF TypeOK, Row
    <2>4. QED
      BY <2>1, <2>2, <2>3
      DEF TypeOK, EnabledMeansConfirmed, BaselineNotAhead,
          LoginsAlone, BaselineCovers, ReplayNeedsCode, InFlight
  <1>2. ASSUME Crash PROVE IInv'
    <2>1. /\ UNCHANGED <<row, now, minted, confirmed, consumed, again,
                         rebased, overlap>>
          /\ req' \in [Reqs -> Request]
          /\ \A s \in Reqs : req'[s] = Idle
      BY <1>2, IdleType DEF Crash, codes
    <2>2. RequestsSound'
      BY <2>1 DEF RequestsSound, TypeOK, Idle, NoTOTP
    <2>3. InFlight' = {}
      BY <2>1 DEF InFlight, Idle
    <2>4. QED
      BY <2>1, <2>2, <2>3
      DEF TypeOK, EnabledMeansConfirmed, BaselineNotAhead,
          LoginsAlone, BaselineCovers, ReplayNeedsCode
  <1>3. ASSUME UNCHANGED vars PROVE IInv'
    BY <1>3
    DEF vars, TypeOK, RequestsSound, EnabledMeansConfirmed, BaselineNotAhead,
        LoginsAlone, BaselineCovers, ReplayNeedsCode, InFlight
  <1>4. QED
    BY <1>1, <1>2, <1>3, LoginIInv, EnrolIInv, WriteIInv DEF Next

LEMMA SpecIInv == Spec => []IInv
  BY InitIInv, NextIInv, PTL DEF Spec

-----------------------------------------------------------------------------
\* The TOTP columns, the copies the handlers hold and the histories keep
\* their types, and every stored or confirmed secret was generated.
THEOREM TypeCorrect == Spec => []TypeOK
  BY SpecIInv, PTL DEF IInv

\* However setup, enable and disable requests interleave, the second factor
\* is never required with a secret no code has confirmed.
THEOREM EnabledMeansConfirmedHolds == Spec => []EnabledMeansConfirmed
  BY SpecIInv, PTL DEF IInv

\* The replay baseline is at most one period ahead of the clock, however
\* stale the request that wrote it.
THEOREM BaselineNotAheadHolds == Spec => []BaselineNotAhead
  BY SpecIInv, PTL DEF IInv

\* A code completes two logins only if logins overlapped or the secret was
\* stored again.
THEOREM SingleUseSequentialHolds == Spec => []SingleUseSequential
  <1>1. IInv => SingleUseSequential
    BY DEF IInv, BaselineCovers, SingleUseSequential, TypeOK
  <1>2. QED
    BY <1>1, SpecIInv, PTL

-----------------------------------------------------------------------------
(***************************************************************************)
(* What the read, the check and the write being three steps costs: with    *)
(* one request at a time the comment of verifyLoginTOTP is right.          *)
(***************************************************************************)
\* Where requests are served one after the other no login overlaps anything.
LEMMA NextAlone ==
    ASSUME \A r, s \in Reqs : r = s, TypeOK, ~overlap, [Next]_vars
    PROVE  ~overlap'
  <1>1. ASSUME NEW r \in Reqs, req[r].op # "login" \/ req[r].pc = "idle"
        PROVE  InFlight = {}
    BY <1>1 DEF InFlight
  <1>2. ASSUME NEW r \in Reqs, req[r].op # "login",
               NEW secret, NEW enabled, SetUserTOTP(secret, enabled)
        PROVE  ~overlap'
    <2>1. InFlight = {}
      BY <1>1, <1>2
    <2>2. QED
      BY <1>2, <2>1, Zenon DEF SetUserTOTP
  <1>3. ASSUME StoreError PROVE ~overlap'
    BY <1>3 DEF StoreError
  <1>4. ASSUME NEW r \in Reqs, NEW c \in Offered, LoginLookup(r, c)
        PROVE  ~overlap'
    <2>1. InFlight = {}
      BY <1>1, <1>4 DEF LoginLookup, Read
    <2>2. QED
      BY <1>4, <2>1, Zenon DEF LoginLookup
  <1>5. ASSUME NEW r \in Reqs, SetupWrite(r) \/ EnableWrite(r) \/ DisableWrite(r)
        PROVE  ~overlap'
    <2>1. req[r].op # "login"
      BY <1>5 DEF SetupWrite, EnableWrite, DisableWrite
    <2>2. StoreError \/ \E secret, enabled : SetUserTOTP(secret, enabled)
      BY <1>5, Zenon DEF SetupWrite, EnableWrite, DisableWrite
    <2>3. QED
      BY <1>2, <1>3, <2>1, <2>2
  <1>6. ASSUME NEW r \in Reqs,
               \/ \E c \in Offered : EnableLookup(r, c) \/ DisableLookup(r, c)
               \/ LoginVerify(r) \/ LoginConsume(r) \/ SetupLookup(r) \/ ConfirmVerify(r)
        PROVE  ~overlap'
    BY <1>3, <1>6
    DEF EnableLookup, DisableLookup, LoginVerify, LoginConsume, SetupLookup, ConfirmVerify
  <1>7. CASE Tick \/ Crash \/ UNCHANGED vars
    BY <1>7 DEF Tick, Crash, vars
  <1>8. QED
    BY <1>4, <1>5, <1>6, <1>7 DEF Next

\* With one request at a time a code is good for one login, as long as the
\* same secret is not stored again; the restarts of the server included.
THEOREM SequentialSingleUse ==
    ASSUME \A r, s \in Reqs : r = s
    PROVE  Spec => []SingleUse
  <1>1. Init => ~overlap
    BY DEF Init
  <1>2. TypeOK /\ ~overlap /\ [Next]_vars => ~overlap'
    BY NextAlone
  <1>3. SingleUseSequential /\ ~overlap => SingleUse
    BY DEF SingleUseSequential, SingleUse
  <1>4. QED
    BY <1>1, <1>2, <1>3, TypeCorrect, SingleUseSequentialHolds, PTL DEF Spec

\* The replay baseline moves forward only: a step that sets it back has
\* overtaken another login, or stores the TOTP columns anew.
BaselineAdvances ==
    [][row'.last < row.last => overlap \/ row'.last = 0]_vars

\* SetUserTOTPCounter is unconditional, and still no stale login lowers the
\* counter unless it overlapped with another one or with an enrolment.
THEOREM BaselineAdvancesHolds == Spec => BaselineAdvances
  <1> DEFINE A == row'.last < row.last => overlap \/ row'.last = 0
  <1>1. ASSUME IInv, Next PROVE A
    <2> USE <1>1
    <2>0. row \in Row /\ req \in [Reqs -> Request] /\ row.last \in Int
      BY DEF IInv, TypeOK, Row
    <2>1. ASSUME row' = row PROVE A
      BY <2>0, <2>1
    <2>2. ASSUME NEW secret, NEW enabled, SetUserTOTP(secret, enabled) PROVE A
      BY <2>2 DEF SetUserTOTP
    <2>3. ASSUME NEW r \in Reqs, LoginConsume(r) PROVE A
      <3>1. CASE StoreError
        BY <2>1, <3>1 DEF StoreError
      <3>2. CASE SetUserTOTPCounter(req[r].code.step)
        <4>1. req[r].op = "login" /\ req[r].pc = "write"
          BY <2>3 DEF LoginConsume
        <4>2. req[r].snap.last < req[r].code.step
          BY <4>1 DEF IInv, RequestsSound
        <4>3. r \in InFlight
          BY <4>1 DEF InFlight
        <4>4. ~overlap => req[r].snap.last = row.last
          BY <4>3 DEF IInv, LoginsAlone
        <4>5. row'.last = req[r].code.step /\ req[r].code.step \in Int
          BY <2>0, <3>2 DEF SetUserTOTPCounter, Row, Request, Code
        <4>6. QED
          BY <2>0, <4>2, <4>4, <4>5
      <3>3. QED
        BY <2>3, <3>1, <3>2, Zenon DEF LoginConsume
    <2>4. ASSUME NEW r \in Reqs, SetupWrite(r) \/ EnableWrite(r) \/ DisableWrite(r)
          PROVE  A
      <3>1. StoreError \/ \E secret, enabled : SetUserTOTP(secret, enabled)
        BY <2>4, Zenon DEF SetupWrite, EnableWrite, DisableWrite
      <3>2. QED
        BY <2>1, <2>2, <3>1 DEF StoreError
    <2>5. ASSUME NEW r \in Reqs,
                 \/ \E c \in Offered : LoginLookup(r, c) \/ EnableLookup(r, c) \/ DisableLookup(r, c)
                 \/ LoginVerify(r) \/ SetupLookup(r) \/ ConfirmVerify(r)
          PROVE  A
      BY <2>1, <2>5
      DEF LoginLookup, EnableLookup, DisableLookup, LoginVerify, SetupLookup, ConfirmVerify
    <2>6. CASE Tick \/ Crash
      BY <2>1, <2>6 DEF Tick, Crash
    <2>7. QED
      BY <2>3, <2>4, <2>5, <2>6 DEF Next
  <1>2. IInv /\ [Next]_vars => [A]_vars
    BY <1>1
  <1>3. QED
    BY <1>2, SpecIInv, PTL DEF Spec, BaselineAdvances
=============================================================================
