--------------------------- MODULE PaymentPromise ---------------------------
(***************************************************************************)
(* What a payment in USDT promises to the customer and to the shop: an order *)
(* is paid by its own transfer only, is confirmed once and for good, and     *)
(* only then activates the membership, with the credits that come with it.   *)
(* The membership may be activated again, but not more often than threads    *)
(* look after orders.                                                        *)
(***************************************************************************)
EXTENDS Integers

CONSTANTS Orders, Users, UserOf, MaxActivations

VARIABLES phase, transfer, activations, credits

vars == <<phase, transfer, activations, credits>>

Init ==
    /\ phase       = [o \in Orders |-> "none"]
    /\ transfer    = [o \in Orders |-> FALSE]
    /\ activations = [o \in Orders |-> 0]
    /\ credits     = [u \in Users |-> 0]

Open(o) ==
    /\ phase[o] = "none"
    /\ phase' = [phase EXCEPT ![o] = "open"]
    /\ UNCHANGED <<transfer, activations, credits>>

Transfer(o) ==
    /\ phase[o] # "none"
    /\ transfer' = [transfer EXCEPT ![o] = TRUE]
    /\ UNCHANGED <<phase, activations, credits>>

\* An order that expired is still open: a late transfer is accepted.
Accept(o) ==
    /\ phase[o] = "open" /\ transfer[o]
    /\ phase' = [phase EXCEPT ![o] = "paid"]
    /\ UNCHANGED <<transfer, activations, credits>>

Confirm(o) ==
    /\ phase[o] = "paid"
    /\ phase' = [phase EXCEPT ![o] = "confirmed"]
    /\ UNCHANGED <<transfer, activations, credits>>

Activate(o) ==
    /\ phase[o] = "confirmed"
    /\ activations[o] < MaxActivations
    /\ activations' = [activations EXCEPT ![o] = @ + 1]
    /\ credits'     = [credits EXCEPT ![UserOf[o]] = @ + 1]
    /\ UNCHANGED <<phase, transfer>>

Next ==
    \E o \in Orders : Open(o) \/ Transfer(o) \/ Accept(o) \/ Confirm(o) \/ Activate(o)

Spec == Init /\ [][Next]_vars
=============================================================================
