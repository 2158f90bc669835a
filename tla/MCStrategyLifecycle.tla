------------------------ MODULE MCStrategyLifecycle ------------------------
(* A small instance of StrategyLifecycle: one indicator strategy and one      *)
(* script, two server processes.                                             *)
EXTENDS StrategyLifecycle

MCStrategies == {"a", "script"}
MCScripts    == {"script"}
=============================================================================
