---------------------------- MODULE PagesServer ----------------------------
(***************************************************************************)
(* The parts of the server together, around one repository and one reader  *)
(* who keeps reloading the latest page: the topic that decides the queue   *)
(* of a request, the web hook that decides it differently, the listing     *)
(* runners, the version runners, and the buckets that outlive the process. *)
(*                                                                         *)
(* The parts appear by what the other modules show of them: the queues by  *)
(* JobLedger (a job is run, or coalesced into a run it has met or into one *)
(* that panicked, which is decided here when it is posted or, after a      *)
(* panic, when it is taken), fetches and pages by PageSite (a              *)
(* version is published whole or not at all), a listing by its latest      *)
(* version, as of the moment it is read.                                   *)
(***************************************************************************)
EXTENDS Naturals

CONSTANTS Kinds,       \* of repositories and queues, of types.RepoType
          MaxVersion,  \* bound: versions in Gitea
          MaxRuns,     \* runs of one listing at a time
          MaxTrouble   \* bound: failures, kills and changes of the topic

ASSUME PagesAssumption ==
  /\ Kinds \subseteq {"branch", "release", "package"}
  /\ "package" \in Kinds
  /\ MaxVersion \in Nat \ {0} /\ MaxRuns \in Nat \ {0} /\ MaxTrouble \in Nat

VARIABLES
  topic,     \* Gitea: the kind that the repository's topic names
  made,      \* Gitea: how many versions there have been; they are numbered
  newest,    \* Gitea: the number of the latest version of each kind, or 0
  gone,      \* Gitea: versions whose file was replaced or removed
  listed,    \* bucket "repo-pages": the latest version of the stored listing
  published, \* bucket "pages-meta": the versions that can be served
  toList,    \* kinds with a waiting listing job
  listRun,   \* what each run of a listing has read
  toFetch,   \* the jobs of versions that wait
  fetching,  \* the jobs of versions with a run in progress
  dead,      \* the jobs of versions that the queue still marks as running
             \* after a panic
  foreign,   \* history: a listing of another kind than the topic was asked for
  trouble    \* bound

Versions == [kind : Kinds, n : 1..MaxVersion]
FetchJobs == [queue : Kinds, version : Versions]
Newest(k) == [kind |-> k, n |-> newest[k]]

outside == <<topic, made, newest, gone>>
listQueue == <<toList, listRun>>
fetchQueue == <<toFetch, fetching, dead>>
buckets == <<listed, published>>
vars == <<outside, listQueue, fetchQueue, buckets, foreign, trouble>>

(* What stands in the place of a version.                                  *)
Sign(word) == [kind |-> word, n |-> 0]
NoListing == Sign("no listing")
RunStates == {Sign("idle"), Sign("begun")} \cup Versions

Init ==
  /\ topic \in Kinds
  /\ made = 0 /\ newest = [k \in Kinds |-> 0]
  /\ gone = {}
  /\ listed = NoListing /\ published = {}
  /\ toList = {}
  /\ listRun = [k \in Kinds |-> [i \in 1..MaxRuns |-> Sign("idle")]]
  /\ toFetch = {} /\ fetching = {} /\ dead = {}
  /\ foreign = FALSE /\ trouble = 0

Trouble == trouble < MaxTrouble /\ trouble' = trouble + 1

(* Posting a job: it waits, and may be coalesced if a run is in progress.  *)
PostList(k) ==
  \/ toList' = toList \cup {k}
  \/ (\E i \in 1..MaxRuns : listRun[k][i] # Sign("idle")) /\ UNCHANGED toList

PostFetch(j) ==
  \/ toFetch' = toFetch \cup {j}
  \/ j \in fetching \cup dead /\ UNCHANGED toFetch

-----------------------------------------------------------------------------
(* Gitea: a version is added; it may take the place of the one before, as  *)
(* a package's file does that is uploaded again under the same version.    *)
Push(k) ==
  /\ made < MaxVersion
  /\ made' = made + 1
  /\ newest' = [newest EXCEPT ![k] = made + 1]
  /\ \/ UNCHANGED gone
     \/ k # "branch" /\ newest[k] > 0 /\ gone' = gone \cup {Newest(k)}
  /\ UNCHANGED <<topic, listQueue, fetchQueue, buckets, foreign, trouble>>

(* A maintainer gives the repository another topic.                        *)
Retopic(k) ==
  /\ Trouble
  /\ k # topic
  /\ topic' = k
  /\ foreign' = TRUE
  /\ UNCHANGED <<made, newest, gone, listQueue, fetchQueue, buckets>>

(* A web hook comes: for a version, for anything else that happens to the  *)
(* repository, or again.  The handler does not read it, and posts a        *)
(* listing of packages, whatever the topic is.                             *)
HookArrives ==
  /\ PostList("package")
  /\ foreign' = (foreign \/ topic # "package")
  /\ UNCHANGED <<outside, listRun, fetchQueue, buckets, trouble>>

-----------------------------------------------------------------------------
(* The reader reloads: requestPageData for the latest version.             *)

(* Variant: the request for an unknown repository posts what the hook      *)
(* posts.                                                                  *)
AskUnlistedPackage ==
  /\ listed = NoListing
  /\ PostList("package")
  /\ UNCHANGED <<outside, listRun, fetchQueue, buckets, foreign, trouble>>

AskUnlisted ==
  /\ listed = NoListing
  /\ PostList(topic)
  /\ UNCHANGED <<outside, listRun, fetchQueue, buckets, foreign, trouble>>

(* Variant: the version's job is left to the listing that found it.        *)
AskWithoutFetch ==
  /\ listed \in Versions \ published
  /\ UNCHANGED <<outside, listQueue, fetchQueue, buckets, foreign, trouble>>

AskUnfetched ==
  /\ listed \in Versions \ published
  /\ PostFetch([queue |-> topic, version |-> listed])
  /\ UNCHANGED <<outside, listQueue, fetching, dead, buckets, foreign, trouble>>

AskPublished ==
  /\ listed \in published
  /\ UNCHANGED <<outside, listQueue, fetchQueue, buckets, foreign, trouble>>

Ask == AskUnlisted \/ AskUnfetched \/ AskPublished

-----------------------------------------------------------------------------
(* The queues of the listing runners.                                      *)
BeginList(k, i) ==
  /\ k \in toList
  /\ listRun[k][i] = Sign("idle")
  /\ listRun' = [listRun EXCEPT ![k][i] = Sign("begun")]
  /\ toList' = toList \ {k}
  /\ UNCHANGED <<outside, fetchQueue, buckets, foreign, trouble>>

(* Variant: that there are no versions is not noticed.                     *)
ReadEmptyList(k, i) ==
  /\ listRun[k][i] = Sign("begun")
  /\ listRun' = [listRun EXCEPT ![k][i] = Newest(k)]
  /\ UNCHANGED <<outside, toList, fetchQueue, buckets, foreign, trouble>>

ReadList(k, i) ==
  /\ listRun[k][i] = Sign("begun")
  /\ listRun' = [listRun EXCEPT ![k][i] = IF newest[k] = 0 THEN Sign("idle") ELSE Newest(k)]
  /\ UNCHANGED <<outside, toList, fetchQueue, buckets, foreign, trouble>>

(* RepoPages().Set, then the job of the version.                           *)
StoreList(k, i) ==
  /\ listRun[k][i] \in Versions
  /\ listed' = listRun[k][i]
  /\ PostFetch([queue |-> k, version |-> listRun[k][i]])
  /\ listRun' = [listRun EXCEPT ![k][i] = Sign("idle")]
  /\ UNCHANGED <<outside, toList, fetching, dead, published, foreign, trouble>>

(* Gitea fails, or the bucket; or the listing is stored and posting the     *)
(* job of the version fails.                                               *)
ListFails(k, i) ==
  /\ Trouble
  /\ listRun[k][i] # Sign("idle")
  /\ listed' \in {listed} \cup ({listRun[k][i]} \cap Versions)
  /\ listRun' = [listRun EXCEPT ![k][i] = Sign("idle")]
  /\ UNCHANGED <<outside, toList, fetchQueue, published, foreign>>

-----------------------------------------------------------------------------
(* The queues of the version runners.                                      *)
BeginFetch(j) ==
  /\ j \in toFetch \ dead
  /\ fetching' = fetching \cup {j}
  /\ toFetch' = toFetch \ {j}
  /\ UNCHANGED <<outside, listQueue, dead, buckets, foreign, trouble>>

(* "another job is still running": it panicked.                            *)
SkipFetch(j) ==
  /\ j \in toFetch \cap dead
  /\ toFetch' = toFetch \ {j}
  /\ UNCHANGED <<outside, listQueue, fetching, dead, buckets, foreign, trouble>>

(* The runner of a queue can only fetch what is of its kind: the archive   *)
(* of another kind has another hash, or an identity Gitea does not know.   *)
Deliverable(j) == j.queue = j.version.kind /\ j.version \notin gone

(* "version already fetched", or the pages are published.                  *)
Publish(j) ==
  /\ j \in fetching
  /\ j.version \in published \/ Deliverable(j)
  /\ published' = published \cup {j.version}
  /\ fetching' = fetching \ {j}
  /\ UNCHANGED <<outside, listQueue, toFetch, dead, listed, foreign, trouble>>

(* A version that is not published reaches the release runner without the  *)
(* Extra that only a listing of releases fills.                            *)
LacksExtra(j) ==
  j.queue = "release" /\ j.version.kind # "release" /\ j.version \notin published

(* It panics, and the pool recovers: the run is over, its mark stays.      *)
Panic(j) ==
  /\ j \in fetching
  /\ LacksExtra(j)
  /\ fetching' = fetching \ {j}
  /\ dead' = dead \cup {j}
  /\ UNCHANGED <<outside, listQueue, toFetch, buckets, foreign, trouble>>

FetchRefused(j) ==
  /\ j \in fetching
  /\ j.version \notin published /\ ~Deliverable(j) /\ ~LacksExtra(j)
  /\ fetching' = fetching \ {j}
  /\ UNCHANGED <<outside, listQueue, toFetch, dead, buckets, foreign, trouble>>

FetchFails(j) ==
  /\ Trouble
  /\ j \in fetching
  /\ ~LacksExtra(j)
  /\ fetching' = fetching \ {j}
  /\ UNCHANGED <<outside, listQueue, toFetch, dead, buckets, foreign>>

(* The process exits and starts again: queues and runs are gone.           *)
Exit ==
  /\ toList' = {}
  /\ listRun' = [k \in Kinds |-> [i \in 1..MaxRuns |-> Sign("idle")]]
  /\ toFetch' = {} /\ fetching' = {} /\ dead' = {}
  /\ UNCHANGED <<outside, buckets, foreign>>

Kill == Trouble /\ Exit

-----------------------------------------------------------------------------
List(k, i) == ReadList(k, i) \/ StoreList(k, i)
Fetch(j) == Publish(j) \/ FetchRefused(j) \/ Panic(j)

Next ==
  \/ Ask \/ HookArrives \/ Kill
  \/ \E k \in Kinds :
       \/ Push(k) \/ Retopic(k)
       \/ \E i \in 1..MaxRuns : BeginList(k, i) \/ List(k, i) \/ ListFails(k, i)
  \/ \E j \in FetchJobs : BeginFetch(j) \/ SkipFetch(j) \/ Fetch(j) \/ FetchFails(j)

Spec == Init /\ [][Next]_vars

(* The reader reloads, queues hand out their jobs, and runs come to an end. *)
FairSpec ==
  /\ Spec
  /\ WF_vars(Ask)
  /\ \A k \in Kinds : \A i \in 1..MaxRuns : WF_vars(BeginList(k, i)) /\ WF_vars(List(k, i))
  /\ \A j \in FetchJobs : WF_vars(BeginFetch(j) \/ SkipFetch(j)) /\ WF_vars(Fetch(j))

-----------------------------------------------------------------------------
TypeOK ==
  /\ topic \in Kinds
  /\ made \in 0..MaxVersion /\ newest \in [Kinds -> 0..made]
  /\ gone \subseteq Versions
  /\ listed \in {NoListing} \cup Versions
  /\ published \subseteq Versions
  /\ toList \subseteq Kinds
  /\ listRun \in [Kinds -> [1..MaxRuns -> RunStates]]
  /\ toFetch \subseteq FetchJobs
  /\ fetching \subseteq FetchJobs
  /\ dead \subseteq FetchJobs
  /\ foreign \in BOOLEAN
  /\ trouble \in 0..MaxTrouble

(* What is stored, and cannot be made good by anything the reader does.    *)
Stuck ==
  \/ listed = NoListing /\ newest[topic] = 0
  \/ /\ listed \in Versions \ published
     /\ listed \in gone \/ listed.kind # topic

(* A reader who goes on reloading is shown a page in the end, and again,   *)
(* through failures, kills and lost jobs, unless for ever the repository   *)
(* has nothing of its kind, or the stored listing names a version that     *)
(* Gitea no longer has, or one of another kind (tasks.go:18-58).           *)
ReaderServed == []<>(listed \in published) \/ <>[]Stuck

(* The stored listing is of the kind of the topic, unless the topic was    *)
(* changed or a web hook came to a repository without packages' topic: a   *)
(* reader of a release repository may then see a package (main.go:153).    *)
OtherKindExplained == listed \in Versions /\ ~foreign => listed.kind = topic

(* A version's job is left marked as running by a panic, so that the queue *)
(* drops it until the process exits, only after one of those two: the      *)
(* release runner met a version of another kind (taskFetchVersion.go:205). *)
DeadKeyExplained == dead # {} => foreign
=============================================================================
