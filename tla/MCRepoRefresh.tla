--------------------------- MODULE MCRepoRefresh ----------------------------
(* Instances of RepoRefresh for TLC: one repository, three jobs.           *)
EXTENDS RepoRefresh, TLC

CONSTANTS j1, j2, j3, repo

ThreeJobs == {j1, j2, j3}
OneKey == [j \in ThreeJobs |-> repo]
JobSymmetry == Permutations(ThreeJobs)
=============================================================================
