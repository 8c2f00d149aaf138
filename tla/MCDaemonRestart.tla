-------------------------- MODULE MCDaemonRestart ---------------------------
EXTENDS DaemonRestart, TLC

CONSTANTS a, b, c, repo1

OneRepo == [r \in Runs |-> repo1]

(* Every run its own plan.                                                 *)
DistinctPlans == [r \in Runs |-> r]

(* All properties of the run are safety properties, and the runs are alike.*)
AnyRun == Permutations(Runs)
=============================================================================
