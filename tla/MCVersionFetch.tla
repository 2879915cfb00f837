--------------------------- MODULE MCVersionFetch ---------------------------
(* An instance of VersionFetch for TLC: a package that is fetched by two   *)
(* jobs, and replaced at its URL; a branch; and a job for the package that *)
(* was posted to the queue for releases, after the topic of the repository *)
(* has changed to pages-release while the listing of its packages is       *)
(* stored.                                                                 *)
EXTENDS VersionFetch, TLC

CONSTANTS j1, j2, j3, j4, r1, r2, home, guide

(* The package has two files of one name: readers may see either.          *)
PackageZip == << [name |-> <<"index.html">>, body |-> home],
                 [name |-> <<"index.html">>, body |-> guide] >>
(* What replaced the package at its URL.                                   *)
ReplacedZip == << [name |-> <<"index.html">>, body |-> guide] >>
(* A branch: a directory around the file.                                  *)
BranchZip == << [name |-> <<"repo", "index.html">>, body |-> home] >>

AllArchives == {BranchZip, PackageZip, ReplacedZip}
Versions == {"commit", "sha256"}
KindOfVersion == [commit |-> "branch", sha256 |-> "package"]
ArchiveOfVersion == [commit |-> BranchZip, sha256 |-> PackageZip]

FourJobs == {j1, j2, j3, j4}
VersionOfJob == [j \in FourJobs |-> IF j = j3 THEN "commit" ELSE "sha256"]
QueueOfJob ==
  [j \in FourJobs |-> CASE j = j3 -> "branch" [] j = j4 -> "release" [] OTHER -> "package"]
JobSymmetry == Permutations({j1, j2})

(* The root of the package, and a file the branch does not have.           *)
TwoRequests == {r1, r2}
AskedVersion == [r \in TwoRequests |-> IF r = r1 THEN "sha256" ELSE "commit"]
AskedPath == [r \in TwoRequests |-> IF r = r1 THEN <<"">> ELSE <<"css">>]
=============================================================================
