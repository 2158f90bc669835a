-------------------------- MODULE MCLiveExecution --------------------------
(* A small instance of LiveExecution: one row of each kind, of which one is   *)
(* ever enqueued, so that a behaviour follows a single row of any kind        *)
(* through its attempts at the hands of competing workers.                    *)
EXTENDS LiveExecution, TLC

MCOrders      == 1..5
MCStrategies  == MCOrders
MCStrategyOf  == [o \in MCOrders |-> o]
MCLimitRows   == {1, 2, 5}
MCSignalRows  == {4}
MCDedupRows   == {1}
MCMinTradable == [o \in MCOrders |-> IF o = 1 THEN 2 ELSE 0]
MCTolerance   == [o \in MCOrders |-> IF o = 5 THEN 1 ELSE 0]

\* The workers run the same code, and every checked formula is one of safety.
MCSymmetry == Permutations(Workers)

\* The bound of the runs.
OneRow == Cardinality({o \in Orders : status[o] # "absent"}) <= 1
=============================================================================
