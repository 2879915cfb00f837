---------------------------- MODULE RepoListing ------------------------------
(***************************************************************************)
(* One listing of a repository's versions: allGiteaPages (gitea.go) as the *)
(* runners fetchRepoFromPackages, fetchRepoFromReleases and                *)
(* fetchRepoFromBranches use it, and the choice of the latest version.     *)
(* RepoRefresh takes a listing as one moment; this module has its steps,   *)
(* while Gitea goes on adding, removing and pushing to what is listed.     *)
(*                                                                         *)
(* An entry is a package, a release or a branch.  Gitea (external) answers *)
(* a page of its list as it is at the time of the call, in an order of its *)
(* own, with the number of pages it then has; an entry that is pushed to   *)
(* may move to another place of that order.                                *)
(*                                                                         *)
(* Dates come from other clocks than the server's: CreatedAt from Gitea's, *)
(* the date of a branch from that of whoever made its last commit, who may *)
(* have set it to anything.  They stand in no relation to time.Now().      *)
(***************************************************************************)
EXTENDS Integers, FiniteSets, SequencesExt

CONSTANTS Entries,     \* everything Gitea may list
          Passing,     \* entries the runner's filters let pass
          WithDocs,    \* packages and releases with a file docs.zip
          GhPages,     \* the branch gh-pages
          Dated,       \* the date of each entry that is there from the start
          Dates,       \* dates that what is added or pushed may bear
          PageSize,    \* entries to a page of Gitea
          MaxChanges   \* bound: changes in Gitea while the listing runs

ASSUME ListingAssumption ==
  /\ Passing \subseteq Entries /\ WithDocs \subseteq Entries
  /\ Dated \in [Entries -> Nat] /\ Dates \subseteq Nat
  /\ PageSize \in Nat \ {0}
  /\ MaxChanges \in Nat

VARIABLES
  kind,     \* input: what the repository is listed from
  clock,    \* time.Now() of the server
  remote,   \* the list in Gitea
  created,  \* the date of each entry: CreatedAt, or that of its last commit
  changes,  \* history: what has happened in Gitea since the listing began
  phase,    \* where the runner is
  page,     \* the page to read
  more,     \* page < rsp.LastPage in the last answer
  todo,     \* entries of the page that the loop has not come to
  versions, \* what the runner has collected
  latest    \* repoInfo.Latest, once it is stored

giteaVars == <<clock, remote, created, changes>>
runVars == <<phase, page, more, todo, versions, latest>>
vars == <<kind, giteaVars, runVars>>

Phases == {"paging", "page", "listed", "stored", "empty", "failed"}
Over == {"stored", "empty", "failed"}
Change == [what : {"added", "removed", "pushed"}, entry : Entries]
Version == [entry : Entries, created : Nat]

(* time.Now() when the listing begins.                                     *)
Start == 2

Init ==
  /\ kind \in {"package", "release", "branch"}
  /\ clock = Start
  /\ \E there \in SUBSET Entries :
       IsFiniteSet(there) /\ remote \in SetToSeqs(there)
  /\ created = Dated
  /\ changes = <<>>
  /\ phase = "paging"
  /\ page = 1
  /\ more = FALSE
  /\ todo = <<>>
  /\ versions = <<>>
  /\ latest = <<>>

-----------------------------------------------------------------------------
(* Gitea.                                                                  *)
There == {remote[i] : i \in DOMAIN remote}

Happens(what, e) ==
  /\ Len(changes) < MaxChanges
  /\ phase \notin Over
  /\ changes' = Append(changes, [what |-> what, entry |-> e])

Add(e, i, date) ==
  /\ e \notin There
  /\ Happens("added", e)
  /\ clock' = clock + 1
  /\ remote' = InsertAt(remote, i, e)
  /\ created' = [created EXCEPT ![e] = date]
  /\ UNCHANGED runVars

Delete(i) ==
  /\ Happens("removed", remote[i])
  /\ remote' = RemoveAt(remote, i)
  /\ UNCHANGED <<clock, created, runVars>>

(* A branch is pushed to, and may move from place i to place k; packages   *)
(* and releases keep their date.                                           *)
PushTo(i, k, date) ==
  /\ kind = "branch"
  /\ Happens("pushed", remote[i])
  /\ clock' = clock + 1
  /\ remote' = InsertAt(RemoveAt(remote, i), k, remote[i])
  /\ created' = [created EXCEPT ![remote[i]] = date]
  /\ UNCHANGED runVars

-----------------------------------------------------------------------------
(* allGiteaPages.                                                          *)
LastPage == (Len(remote) + PageSize - 1) \div PageSize
PageOf(n) == SubSeq(remote, (n - 1) * PageSize + 1, Min({n * PageSize, Len(remote)}))

(* Variant: the loop ends one page early.                                  *)
ReadButLast ==
  /\ phase = "paging"
  /\ todo' = [i \in DOMAIN PageOf(page) |->
                [entry |-> PageOf(page)[i], created |-> created[PageOf(page)[i]]]]
  /\ more' = (page + 1 < LastPage)
  /\ phase' = "page"
  /\ UNCHANGED <<giteaVars, page, versions, latest>>

(* The call of content, up to the answer of the listing itself.            *)
ReadPage ==
  /\ phase = "paging"
  /\ todo' = [i \in DOMAIN PageOf(page) |->
                [entry |-> PageOf(page)[i], created |-> created[PageOf(page)[i]]]]
  /\ more' = (page < LastPage)
  /\ phase' = "page"
  /\ UNCHANGED <<giteaVars, page, versions, latest>>

(* Variant: page++ is missing.                                             *)
TurnSamePage ==
  /\ phase = "page"
  /\ todo = <<>>
  /\ phase' = IF more THEN "paging" ELSE "listed"
  /\ UNCHANGED <<giteaVars, page, more, todo, versions, latest>>

(* Variant: ret of the callback outlives the page, and is appended again.  *)
TurnKeepingPage ==
  /\ phase = "page"
  /\ todo = <<>>
  /\ IF more
     THEN page' = page + 1 /\ phase' = "paging" /\ versions' = versions \o versions
     ELSE phase' = "listed" /\ UNCHANGED <<page, versions>>
  /\ UNCHANGED <<giteaVars, more, todo, latest>>

TurnPage ==
  /\ phase = "page"
  /\ todo = <<>>
  /\ IF more
     THEN page' = page + 1 /\ phase' = "paging"
     ELSE phase' = "listed" /\ UNCHANGED page
  /\ UNCHANGED <<giteaVars, more, todo, versions, latest>>

(* Gitea refuses a page, or the files of an entry.                         *)
GiteaFails ==
  /\ \/ phase = "paging"
     \/ phase = "page" /\ todo # <<>> /\ kind # "branch"
  /\ phase' = "failed"
  /\ UNCHANGED <<giteaVars, page, more, todo, versions, latest>>

-----------------------------------------------------------------------------
(* The loop over a page: the filters, the files, the version.              *)
AtEntry == phase = "page" /\ todo # <<>>

NextEntry == todo' = Tail(todo) /\ UNCHANGED <<giteaVars, phase, page, more, latest>>

SkipEntry ==
  /\ AtEntry
  /\ Head(todo).entry \notin Passing
  /\ NextEntry
  /\ UNCHANGED versions

(* The files of an entry are asked for by its name or id: one that has     *)
(* been removed since the page was read makes the whole listing fail.      *)
EntryGone ==
  /\ AtEntry /\ kind # "branch"
  /\ Head(todo).entry \in Passing \ There
  /\ phase' = "failed"
  /\ UNCHANGED <<giteaVars, page, more, todo, versions, latest>>

(* Variant: an entry without docs.zip becomes a version, too.              *)
AddAnyFile ==
  /\ AtEntry /\ kind # "branch"
  /\ Head(todo).entry \in Passing \cap There
  /\ NextEntry
  /\ versions' = Append(versions, Head(todo))

AddWithFile ==
  /\ AtEntry /\ kind # "branch"
  /\ Head(todo).entry \in Passing \cap There
  /\ NextEntry
  /\ versions' = IF Head(todo).entry \in WithDocs THEN Append(versions, Head(todo))
                                                  ELSE versions

(* Variant: gh-pages keeps the date of its commit.                         *)
AddBranchAsDated ==
  /\ AtEntry /\ kind = "branch"
  /\ Head(todo).entry \in Passing
  /\ NextEntry
  /\ versions' = Append(versions, Head(todo))

(* gh-pages is dated with time.Now(), another branch with its commit.      *)
AddBranch ==
  /\ AtEntry /\ kind = "branch"
  /\ Head(todo).entry \in Passing
  /\ NextEntry
  /\ versions' = Append(versions,
       IF Head(todo).entry = GhPages THEN [Head(todo) EXCEPT !.created = clock]
                                     ELSE Head(todo))

-----------------------------------------------------------------------------
(* Variant: an empty list is stored as well.                               *)
StoreEmpty ==
  /\ phase = "listed"
  /\ versions = <<>>
  /\ phase' = "stored"
  /\ UNCHANGED <<giteaVars, page, more, todo, versions, latest>>

(* "no versions found for repo".                                           *)
FindNothing ==
  /\ phase = "listed"
  /\ versions = <<>>
  /\ phase' = "empty"
  /\ UNCHANGED <<giteaVars, page, more, todo, versions, latest>>

(* Variant: the versions are sorted with the oldest first.                 *)
StoreOldest ==
  /\ phase = "listed"
  /\ \E i \in DOMAIN versions :
       /\ \A k \in DOMAIN versions : versions[i].created <= versions[k].created
       /\ latest' = <<versions[i]>>
  /\ phase' = "stored"
  /\ UNCHANGED <<giteaVars, page, more, todo, versions>>

(* SortFunc is not stable: any of the newest versions may come first.      *)
StoreSorted ==
  /\ phase = "listed"
  /\ \E i \in DOMAIN versions :
       /\ \A k \in DOMAIN versions : versions[i].created >= versions[k].created
       /\ latest' = <<versions[i]>>
  /\ phase' = "stored"
  /\ UNCHANGED <<giteaVars, page, more, todo, versions>>

Gitea ==
  \/ \E e \in Entries, i \in 1..(Len(remote) + 1), date \in Dates : Add(e, i, date)
  \/ \E i \in DOMAIN remote : Delete(i)
  \/ \E i, k \in DOMAIN remote, date \in Dates : PushTo(i, k, date)

List ==
  \/ ReadPage \/ TurnPage \/ GiteaFails
  \/ SkipEntry \/ EntryGone \/ AddWithFile \/ AddBranch
  \/ FindNothing \/ StoreSorted

Next == (Gitea \/ List) /\ UNCHANGED kind

Spec == Init /\ [][Next]_vars

(* Gitea answers or fails, and the loops go on.                            *)
FairSpec == Spec /\ WF_vars(List /\ UNCHANGED kind)

-----------------------------------------------------------------------------
(* Type correctness; the loop holds one page at a time, and what is stored *)
(* has a latest version.                                                   *)
TypeOK ==
  /\ kind \in {"package", "release", "branch"}
  /\ clock \in Nat
  /\ remote \in Seq(Entries) /\ IsInjective(remote)
  /\ created \in [Entries -> Nat]
  /\ changes \in Seq(Change) /\ Len(changes) <= MaxChanges
  /\ phase \in Phases
  /\ page \in Nat \ {0}
  /\ more \in BOOLEAN
  /\ todo \in Seq(Version) /\ Len(todo) <= PageSize
  /\ versions \in Seq(Version)
  /\ latest \in Seq(Version)
  /\ Len(latest) = IF phase = "stored" THEN 1 ELSE 0

Happened(whats) == \E i \in DOMAIN changes : changes[i].what \in whats
Touched(e) == \E i \in DOMAIN changes : changes[i].entry = e

(* What the listing is meant to contain, of what was there throughout.     *)
Wants(e) == e \in Passing /\ (kind = "branch" \/ e \in WithDocs)
Wanted == {e \in There : Wants(e) /\ ~Touched(e)}

Listed == {versions[i].entry : i \in DOMAIN versions}

(* Of a list that does not change while it is paged, the listing has each  *)
(* wanted entry once, and nothing else (gitea.go:9-32, the callbacks of    *)
(* the three runners).                                                     *)
QuietListingExact ==
  phase \in {"listed", "stored", "empty"} /\ changes = <<>>
    => Listed = Wanted /\ Len(versions) = Cardinality(Wanted)

(* An entry that is there throughout is missed only if the list has more   *)
(* than one page, and another entry left its place, so that those behind   *)
(* it moved up over the edge of a page (gitea.go:12-30).                   *)
MissedOnlyIfLeft ==
  phase \in {"listed", "stored", "empty"} /\ ~(Wanted \subseteq Listed)
    => page > 1 /\ Happened({"removed", "pushed"})

(* An entry is listed twice only on different pages, and if another one    *)
(* came in before it: its version is then stored twice, and two jobs are   *)
(* posted for it.  With the property above, a list of one page is read as  *)
(* it is at one moment, which is how RepoRefresh takes a listing.          *)
DoubledOnlyIfCame ==
  ~IsInjective([i \in DOMAIN versions |-> versions[i].entry])
    => page > 1 /\ Happened({"added", "pushed"})

(* A reader who names no version gets the newest of what was there         *)
(* throughout, unless it was missed (taskFetchRepoFromPackages.go:102-105, *)
(* tasks.go:33).  The date of gh-pages itself does not count.              *)
LatestIsNewest ==
  phase = "stored" /\ (page = 1 \/ ~Happened({"removed", "pushed"}))
    => \A e \in Wanted : \/ created[e] <= latest[1].created
                         \/ kind = "branch" /\ e = GhPages

(* gh-pages, where it is listed, is the latest version unless a branch     *)
(* bears a date that was in the future when the listing began: pushed to   *)
(* meanwhile and read on a later page, or committed by a clock that runs   *)
(* ahead of the server's (taskFetchRepoFromBranch.go:63-68).               *)
GhPagesIsLatest ==
  phase = "stored" /\ kind = "branch" /\ GhPages \in Listed
    => latest[1].entry = GhPages \/ latest[1].created >= Start

(* A listing ends once Gitea's list stops growing: each turn comes nearer  *)
(* to the last page (gitea.go:26-29).                                      *)
ListingEnds == <>(phase \in Over)
=============================================================================
