---------------------------- MODULE SessionLedger ----------------------------
(***************************************************************************)
(* What the session tokens promise, without requests, handlers or epochs:  *)
(* a ledger of refresh tokens.  A token is entered fresh; it is exchanged  *)
(* only after it has been retired; and it is struck out for good, by a     *)
(* revocation that strikes out every token of its user, or once it has     *)
(* expired.  Sessions implements it.                                       *)
(***************************************************************************)
EXTENDS Naturals

CONSTANTS
    Users,
    TTL,      \* how long a token is good for
    Lossy     \* may the retirement of a token be lost?

VARIABLES
    entry,    \* the tokens ever entered: owner, the token exchanged, expiry
    fresh,    \* tokens that can still be exchanged
    retired,  \* tokens that were exchanged and are kept to detect a reuse
    lost,     \* tokens whose retirement was lost
    now

vars == <<entry, fresh, retired, lost, now>>

Init ==
    /\ entry = <<>>
    /\ fresh = {}
    /\ retired = {}
    /\ lost = {}
    /\ now = 0

\* Token p (0: none, a login) is exchanged for a new token t of user u: it
\* belongs to u and is no longer fresh.
Enter(t, u, p) ==
    /\ t \notin DOMAIN entry
    /\ p # 0 => /\ p \in DOMAIN entry /\ entry[p].user = u
                /\ p \notin fresh \/ p \in lost
    /\ entry' = [i \in DOMAIN entry \cup {t} |->
                   IF i = t THEN [user |-> u, parent |-> p, expires |-> now + TTL]
                            ELSE entry[i]]
    /\ fresh' = fresh \cup {t}
    /\ UNCHANGED <<retired, lost, now>>

Retire(t) ==
    /\ t \in fresh
    /\ fresh' = fresh \ {t}
    /\ retired' = retired \cup {t}
    /\ UNCHANGED <<entry, lost, now>>

Lose(t) ==
    /\ Lossy
    /\ t \in DOMAIN entry
    /\ lost' = lost \cup {t}
    /\ UNCHANGED <<entry, fresh, retired, now>>

\* Every token of u is struck out at once, fresh or retired, and no other.
Revoke(u) ==
    /\ fresh' = {t \in fresh : entry[t].user # u}
    /\ retired' = {t \in retired : entry[t].user # u}
    /\ UNCHANGED <<entry, lost, now>>

Lapse(t) ==
    /\ t \in fresh \cup retired
    /\ entry[t].expires < now
    /\ fresh' = fresh \ {t}
    /\ retired' = retired \ {t}
    /\ UNCHANGED <<entry, lost, now>>

Tick ==
    /\ now' = now + 1
    /\ UNCHANGED <<entry, fresh, retired, lost>>

Next ==
    \/ \E t \in Nat \ {0} : \E u \in Users : \E p \in Nat : Enter(t, u, p)
    \/ \E t \in DOMAIN entry : Retire(t) \/ Lose(t) \/ Lapse(t)
    \/ \E u \in Users : Revoke(u)
    \/ Tick

Spec == Init /\ [][Next]_vars
=============================================================================
