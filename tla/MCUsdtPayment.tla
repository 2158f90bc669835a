--------------------------- MODULE MCUsdtPayment ---------------------------
(* A small instance of UsdtPayment: two orders of one user, a background      *)
(* worker and an API thread.                                                 *)
EXTENDS UsdtPayment

MCOrders == {1, 2}
MCUsers  == {"u"}
MCUserOf == [o \in MCOrders |-> "u"]
=============================================================================
