------------------------- MODULE MCExecutorProtocol -------------------------
(* Instances of ExecutorProtocol for TLC.  Runs are interchangeable;       *)
(* applications are not where AllowedApps names some.                      *)
EXTENDS ExecutorProtocol, TLC

RunsAreAlike == Permutations(Runs)
=============================================================================
