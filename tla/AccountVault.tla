---------------------------- MODULE AccountVault ----------------------------
(***************************************************************************)
(* What an account promises its user, without any keys: a vault of items   *)
(* behind a master password, and a recovery code that can set a new master *)
(* password and changes nothing else.  AccountKeys implements it.          *)
(***************************************************************************)
EXTENDS Naturals

CONSTANTS Devices, Ids, Values, Passwords

VARIABLES
    owner,     \* the account behind the identifier, 0 when there is none
    password,  \* its master password
    code,      \* its recovery code, 0 when recovery is off
    plain,     \* what the password opens: per item its content, 0 for no item
    granted,   \* devices whose recovery code was accepted
    sound      \* FALSE once a registration was answered by another account

vars == <<owner, password, code, plain, granted, sound>>

Empty == [i \in Ids |-> 0]

Init ==
    /\ owner = 0
    /\ password \in Passwords
    /\ code = 0
    /\ plain = Empty
    /\ granted = {}
    /\ sound = TRUE

\* A new account: nothing of an earlier one under the same identifier is left.
Create ==
    /\ owner = 0
    /\ owner' # 0
    /\ password' \in Passwords
    /\ code' = 0
    /\ plain' = Empty
    /\ granted' = {}
    /\ UNCHANGED sound

Erase ==
    /\ owner # 0
    /\ owner' = 0
    /\ code' = 0
    /\ plain' = Empty
    /\ granted' = {}
    /\ UNCHANGED <<password, sound>>

\* One item is added, changed or removed.
Write(i) ==
    /\ owner # 0
    /\ \E v \in Values \cup {0} : plain' = [plain EXCEPT ![i] = v]
    /\ UNCHANGED <<owner, password, code, granted, sound>>

\* Recovery is turned on with a new code, or off.
SetCode ==
    /\ owner # 0
    /\ code' # code
    /\ UNCHANGED <<owner, password, plain, granted, sound>>

\* The code is accepted; later the password is replaced, or that fails.
Grant(d) ==
    /\ code # 0
    /\ granted' = granted \cup {d}
    /\ UNCHANGED <<owner, password, code, plain, sound>>

Reset(d) ==
    /\ d \in granted
    /\ password' \in Passwords
    /\ granted' = granted \ {d}
    /\ UNCHANGED <<owner, code, plain, sound>>

Refuse(d) ==
    /\ granted' = granted \ {d}
    /\ UNCHANGED <<owner, password, code, plain, sound>>

\* The promise ends when a registration took another account for its own.
Void == ~sound'

Next ==
    \/ Create \/ Erase \/ SetCode \/ Void
    \/ \E i \in Ids : Write(i)
    \/ \E d \in Devices : Grant(d) \/ Reset(d) \/ Refuse(d)

Spec == Init /\ [][Next]_vars
=============================================================================
