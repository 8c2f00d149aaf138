--------------------------- MODULE MCRunLifecycle ---------------------------
EXTENDS RunLifecycle

CONSTANTS a, b, c, repo1, repo2

(* All runs on one repository, or c on a second one.                       *)
OneRepo == [r \in Runs |-> repo1]
TwoRepos == [r \in Runs |-> IF r = c THEN repo2 ELSE repo1]

(* Every run its own plan.                                                 *)
DistinctPlans == [r \in Runs |-> r]

(* The runs of one repository are interchangeable, and with them the plans *)
(* that name them.                                                         *)
RunSymmetry == Permutations(Runs)
=============================================================================
