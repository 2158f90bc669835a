---------------------------- MODULE OrderPromise ----------------------------
(***************************************************************************)
(* What the order queue promises to the strategies that use it: an order is  *)
(* submitted once, tried at least once and at most MaxAttempts times, and    *)
(* once it is closed nobody tries it again.                                  *)
(***************************************************************************)
EXTENDS Integers

CONSTANTS Orders, MaxAttempts

VARIABLES phase, tries

vars == <<phase, tries>>

Init ==
    /\ phase = [o \in Orders |-> "absent"]
    /\ tries = [o \in Orders |-> 0]

Submit(o) ==
    /\ phase[o] = "absent"
    /\ phase' = [phase EXCEPT ![o] = "open"]
    /\ UNCHANGED tries

Try(o) ==
    /\ phase[o] = "open"
    /\ tries[o] < MaxAttempts
    /\ tries' = [tries EXCEPT ![o] = @ + 1]
    /\ UNCHANGED phase

Close(o) ==
    /\ phase[o] = "open"
    /\ tries[o] > 0
    /\ phase' = [phase EXCEPT ![o] = "closed"]
    /\ UNCHANGED tries

Next == \E o \in Orders : Submit(o) \/ Try(o) \/ Close(o)

Spec == Init /\ [][Next]_vars
=============================================================================
