---------------------------- MODULE MCDedupQueue ----------------------------
(* An instance of DedupQueue for TLC: three jobs that share one key.       *)
EXTENDS DedupQueue

CONSTANTS j1, j2, j3, repo

ThreeJobs == {j1, j2, j3}
ThreeOnOneKey == [j \in ThreeJobs |-> repo]
=============================================================================
