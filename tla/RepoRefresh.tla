---------------------------- MODULE RepoRefresh -----------------------------
(***************************************************************************)
(* Keeping the listing of a repository up to date: the runner              *)
(* fetchRepoFromPackages (one listing, one Set of the bucket "repo-pages", *)
(* jobs for the versions), the two places that post its jobs - a request   *)
(* for an unknown repository and the web hook - and the queue of           *)
(* DedupQueue between them.                                                *)
(*                                                                         *)
(* The repository has the topic pages-package.  The runners for releases   *)
(* and branches have the same steps, but the web hook posts to the queue   *)
(* for packages only (main.go:153), so nothing refreshes their listings.   *)
(* This runner does not panic, so the queue's Panic takes no part here.    *)
(*                                                                         *)
(* A listing is the revision of the repository's versions in Gitea that it *)
(* was read at.  A listing is read at one moment: this is a repository     *)
(* whose versions fit one page of Gitea.                                   *)
(***************************************************************************)
EXTENDS DedupQueue

CONSTANT MaxRevision  \* bound: revisions of a repository in Gitea

ASSUME RefreshAssumption == MaxRevision \in Nat

VARIABLES
  gitea,     \* the current revision of each repository's versions
  bare,      \* the repositories that have no version at present
  hooks,     \* web hooks that Gitea has sent and nobody has received
  lostHooks, \* history: the repositories with a web hook that was lost
  run,       \* how far the runner of each job has come
  listing,   \* the revision the runner has read
  repoPages, \* bucket "repo-pages": a function from the known repositories
  rivals     \* history: the repositories that had two runs at a time

refreshVars == <<gitea, bare, hooks, lostHooks, run, listing, repoPages, rivals>>
allVars == <<queueVars, refreshVars>>

RunPhases == {"idle", "listing", "listed", "returned", "error", "over"}

RefreshInit ==
  /\ QueueInit
  /\ gitea \in [Keys -> {0, 1}]
  /\ bare = {k \in Keys : gitea[k] = 0}
  /\ hooks = [k \in Keys |-> 0]
  /\ lostHooks = {}
  /\ run = [j \in Jobs |-> "idle"]
  /\ listing = [j \in Jobs |-> 0]
  /\ repoPages = [k \in {} |-> 0]
  /\ rivals = {}

-----------------------------------------------------------------------------
(* Gitea: the versions of a repository change - one is added, or one of    *)
(* several is deleted - and a web hook is sent off.                        *)
Push(k) ==
  /\ gitea[k] < MaxRevision
  /\ gitea' = [gitea EXCEPT ![k] = @ + 1]
  /\ bare' = bare \ {k}
  /\ hooks' = [hooks EXCEPT ![k] = @ + 1]
  /\ UNCHANGED <<queueVars, lostHooks, run, listing, repoPages, rivals>>

(* Gitea: the last version with a docs.zip is deleted.                     *)
DeleteLast(k) ==
  /\ k \notin bare
  /\ gitea[k] < MaxRevision
  /\ gitea' = [gitea EXCEPT ![k] = @ + 1]
  /\ bare' = bare \cup {k}
  /\ hooks' = [hooks EXCEPT ![k] = @ + 1]
  /\ UNCHANGED <<queueVars, lostHooks, run, listing, repoPages, rivals>>

(* A web hook that finds the server down is not sent again.                *)
HookLost(k) ==
  /\ hooks[k] > 0
  /\ hooks' = [hooks EXCEPT ![k] = @ - 1]
  /\ lostHooks' = lostHooks \cup {k}
  /\ UNCHANGED <<queueVars, gitea, bare, run, listing, repoPages, rivals>>

(* The hook handler enqueues a job whatever is known of the repository.    *)
HookArrives(j) ==
  /\ hooks[KeyOf[j]] > 0
  /\ hooks' = [hooks EXCEPT ![KeyOf[j]] = @ - 1]
  /\ Enqueue(j)
  /\ UNCHANGED <<gitea, bare, lostHooks, run, listing, repoPages, rivals>>

(* requestPageData enqueues a job only for a repository that is unknown.   *)
RequestUnknown(j) ==
  /\ KeyOf[j] \notin DOMAIN repoPages
  /\ Enqueue(j)
  /\ UNCHANGED refreshVars

(* The clock, the pool, and the consumer up to the call of the runner.     *)
QueueMoves(j) ==
  /\ Tick \/ Take(j) \/ SkipTooOld(j) \/ SkipBusy(j) \/ Clear(j) \/ Timeout(j)
  /\ UNCHANGED refreshVars

StartRun(j) ==
  /\ Start(j)
  /\ run' = [run EXCEPT ![j] = "listing"]
  /\ rivals' = IF RunsOf(KeyOf[j]) = {} THEN rivals ELSE rivals \cup {KeyOf[j]}
  /\ UNCHANGED <<gitea, bare, hooks, lostHooks, listing, repoPages>>

(* Variant: the paging stops early, and the newest versions are missed.    *)
ListFirstPages(j) ==
  /\ run[j] = "listing"
  /\ KeyOf[j] \notin bare
  /\ \E v \in 1..gitea[KeyOf[j]] : listing' = [listing EXCEPT ![j] = v]
  /\ run' = [run EXCEPT ![j] = "listed"]
  /\ UNCHANGED <<queueVars, gitea, bare, hooks, lostHooks, repoPages, rivals>>

(* allGiteaPages returns at least one version.                             *)
ListVersions(j) ==
  /\ run[j] = "listing"
  /\ KeyOf[j] \notin bare
  /\ listing' = [listing EXCEPT ![j] = gitea[KeyOf[j]]]
  /\ run' = [run EXCEPT ![j] = "listed"]
  /\ UNCHANGED <<queueVars, gitea, bare, hooks, lostHooks, repoPages, rivals>>

(* "no versions found for repo": nothing is stored, and no error returned, *)
(* also where a listing with versions is stored already.                   *)
ListNothing(j) ==
  /\ run[j] = "listing"
  /\ KeyOf[j] \in bare
  /\ run' = [run EXCEPT ![j] = "returned"]
  /\ UNCHANGED <<queueVars, gitea, bare, hooks, lostHooks, listing, repoPages, rivals>>

(* Gitea answers with an error.                                            *)
ListFails(j) ==
  /\ run[j] = "listing"
  /\ run' = [run EXCEPT ![j] = "error"]
  /\ UNCHANGED <<queueVars, gitea, bare, hooks, lostHooks, listing, repoPages, rivals>>

(* Variant: the listing is stored under the job instead of the repository. *)
StoreUnderJob(j) ==
  /\ run[j] = "listed"
  /\ repoPages' = [k \in DOMAIN repoPages \cup {j} |->
                     IF k = j THEN listing[j] ELSE repoPages[k]]
  /\ run' = [run EXCEPT ![j] = "returned"]
  /\ UNCHANGED <<queueVars, gitea, bare, hooks, lostHooks, listing, rivals>>

(* RepoPages().Set, and a fetchVersion job for each version of the list;   *)
(* the runner returns an error when one of those cannot be enqueued.       *)
StoreListing(j) ==
  /\ run[j] = "listed"
  /\ repoPages' = [k \in DOMAIN repoPages \cup {KeyOf[j]} |->
                     IF k = KeyOf[j] THEN listing[j] ELSE repoPages[k]]
  /\ \E end \in {"returned", "error"} : run' = [run EXCEPT ![j] = end]
  /\ UNCHANGED <<queueVars, gitea, bare, hooks, lostHooks, listing, rivals>>

StoreFails(j) ==
  /\ run[j] = "listed"
  /\ run' = [run EXCEPT ![j] = "error"]
  /\ UNCHANGED <<queueVars, gitea, bare, hooks, lostHooks, listing, repoPages, rivals>>

(* The consumer after the runner.                                          *)
FinishRun(j) ==
  /\ run[j] = "returned"
  /\ Finish(j)
  /\ run' = [run EXCEPT ![j] = "over"]
  /\ UNCHANGED <<gitea, bare, hooks, lostHooks, listing, repoPages, rivals>>

FailRun(j) ==
  /\ run[j] = "error"
  /\ Fail(j)
  /\ run' = [run EXCEPT ![j] = "over"]
  /\ UNCHANGED <<gitea, bare, hooks, lostHooks, listing, repoPages, rivals>>

(* The process exits and starts again; "repo-pages" is durable.            *)
RestartServer ==
  /\ Restart
  /\ run' = [j \in Jobs |-> IF run[j] = "idle" THEN "idle" ELSE "over"]
  /\ UNCHANGED <<gitea, bare, hooks, lostHooks, listing, repoPages, rivals>>

RefreshNext ==
  \/ \E k \in Keys : Push(k) \/ DeleteLast(k) \/ HookLost(k)
  \/ \E j \in Jobs : \/ HookArrives(j) \/ RequestUnknown(j) \/ QueueMoves(j)
                     \/ StartRun(j) \/ ListVersions(j) \/ ListNothing(j) \/ ListFails(j)
                     \/ StoreListing(j) \/ StoreFails(j) \/ FinishRun(j) \/ FailRun(j)
  \/ RestartServer

RefreshSpec == RefreshInit /\ [][RefreshNext]_allVars

-----------------------------------------------------------------------------
(* Type correctness of what this module adds to the queue.                 *)
RefreshTypeOK ==
  /\ gitea \in [Keys -> 0..MaxRevision \cup {1}]
  /\ bare \subseteq Keys
  /\ hooks \in [Keys -> Nat]
  /\ lostHooks \subseteq Keys
  /\ run \in [Jobs -> RunPhases]
  /\ listing \in [Jobs -> Nat]
  /\ DOMAIN repoPages \subseteq Keys
  /\ \A k \in DOMAIN repoPages : repoPages[k] \in Nat
  /\ rivals \subseteq Keys

JobsOf(k) == {j \in Jobs : KeyOf[j] = k}

(* Nothing is under way for a repository that is known.                    *)
Quiet(k) ==
  /\ k \in DOMAIN repoPages
  /\ hooks[k] = 0
  /\ \A j \in JobsOf(k) : stage[j] \notin Waiting \cup {"running"}

(* What may keep a change of the versions out of the stored listing.       *)
HookMissed(k) == k \in lostHooks
RunFailed(k) == \E j \in JobsOf(k) : stage[j] \in {"failed", "lost"}
RunsRaced(k) == k \in rivals
JoinedLate(k) == \E j \in JobsOf(k) : stage[j] \in Skipped /\ after[j] = {}

NothingLeft(k) == k \in bare

(* A stored listing is out of date only for one of five reasons: a web     *)
(* hook was lost, a run failed or died, two runs raced, the queue dropped  *)
(* a job in favour of a run that had begun before the job was posted, or   *)
(* the last version was deleted, for which a runner stores nothing         *)
(* (queue.go:94-114, taskFetchRepoFromPackages.go:50-116).                 *)
StaleOnlyIf ==
  \A k \in Keys :
    Quiet(k) /\ repoPages[k] # gitea[k]
      => HookMissed(k) \/ RunFailed(k) \/ RunsRaced(k) \/ JoinedLate(k) \/ NothingLeft(k)

(* A stored listing is replaced by an older one only where two runs raced. *)
NeverOlderAlone ==
  [][\A k \in DOMAIN repoPages : repoPages'[k] < repoPages[k] => RunsRaced(k)]_allVars

(* README.md:20: "pages-server fetches the latest version of the           *)
(* repository ... and caches it".  The repository has a version, no web    *)
(* hook was lost, no run failed and no two runs raced, and still the       *)
(* cached listing is not the latest.                                       *)
CachesLatest ==
  \A k \in Keys :
    Quiet(k) /\ ~HookMissed(k) /\ ~RunFailed(k) /\ ~RunsRaced(k) /\ ~NothingLeft(k)
      => repoPages[k] = gitea[k]
=============================================================================
