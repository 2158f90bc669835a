-------------------------- MODULE MCPendingOrders --------------------------
(* A small instance of PendingOrders: two orders of one strategy and one of  *)
(* another, drained by two worker processes.                                 *)
EXTENDS PendingOrders

MCOrders     == 1..3
MCStrategyOf == [o \in MCOrders |-> IF o = 2 THEN "s2" ELSE "s1"]
MCStrategies == {"s1", "s2"}
=============================================================================
