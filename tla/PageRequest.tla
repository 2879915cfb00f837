----------------------------- MODULE PageRequest -----------------------------
(***************************************************************************)
(* A request for a page, from the access check to the version it is for:   *)
(* the handler of main.go:232-316 with its loop over the topics of the     *)
(* repository, and requestPageData (tasks.go:18-58).  What follows, for a  *)
(* version whose pages are published, is in VersionFetch.                  *)
(*                                                                         *)
(* Gitea (external) lists the topics of a repository, at most 25, on one   *)
(* page, so that allGiteaPages calls the callback once.                    *)
(***************************************************************************)
EXTENDS Naturals, SequencesExt

CONSTANTS MaxTopics,  \* bound: topics of a repository
          MaxListed   \* bound: versions of a stored listing

ASSUME RequestAssumption == MaxTopics \in Nat /\ MaxListed \in Nat

(* consts.PagesLabelPrefix and a name: _RepoTypeValue has three names.     *)
TypeOfTopic ==
  [t \in {"pages-branch", "pages-release", "pages-package"} |->
     CASE t = "pages-branch"  -> "branch"
       [] t = "pages-release" -> "release"
       [] t = "pages-package" -> "package"]

TypeTopics == DOMAIN TypeOfTopic
PrefixedTopics == TypeTopics \cup {"pages-packages"}
Topics == PrefixedTopics \cup {"docs"}
RepoTypes == {"branch", "release", "package"}

(* The queue that fetchRepo and fetchVersion choose (taskFetch.go).        *)
Queues == [what : {"fetchRepo", "fetchVersion"}, from : RepoTypes]

Names == {"latest", "v1"}
Version == [name : Names, sha : {"", "sha1", "sha2"}]

(* An unknown repository has no listing; a listing that is stored has a    *)
(* version, and its first one is Latest.                                   *)
Listings == UNION {[1..n -> Version] : n \in 0..MaxListed}
Unknown == <<>>

VARIABLES
  topics,    \* input: the topics of the repository, in Gitea's order
  asked,     \* input: the version behind the @ of the url, "" for none
  listing,   \* input: what "repo-pages" has for the repository
  published, \* input: the versions that have metadata
  step,      \* where the request is
  allowed,   \* GetRepo has answered with the client's token
  at,        \* the topic the loop comes to next
  types,     \* ret of the callback
  lterr,     \* lterr of the callback: it holds an error
  version,   \* the version the request is for
  posted,    \* the queue a job was posted to
  answer     \* the page that was sent

input == <<topics, asked, listing, published>>
vars == <<input, step, allowed, at, types, lterr, version, posted, answer>>

Steps == {"access", "topics", "listing", "version", "reading", "answered"}
Answers == {"none", "login", "error", "preparation"}
NoVersion == [name |-> "none", sha |-> "none"]

Init ==
  /\ topics \in UNION {{s \in [1..n -> Topics] : IsInjective(s)} : n \in 0..MaxTopics}
  /\ asked \in Names \cup {""}
  /\ listing \in Listings
  /\ published \in SUBSET {"sha1"}
  /\ step = "access"
  /\ allowed = FALSE
  /\ at = 1
  /\ types = <<>>
  /\ lterr = FALSE
  /\ version = NoVersion
  /\ posted = <<>>
  /\ answer = "none"

-----------------------------------------------------------------------------
Send(page) == step' = "answered" /\ answer' = page

(* Variant: the login page is sent, and the handler goes on.               *)
RefusedGoesOn ==
  /\ step = "access"
  /\ step' = "topics"
  /\ answer' = "login"
  /\ UNCHANGED <<allowed, at, types, lterr, version, posted>>

(* GetRepo fails, for want of access or otherwise.                         *)
AccessRefused ==
  /\ step = "access"
  /\ Send("login")
  /\ UNCHANGED <<allowed, at, types, lterr, version, posted>>

AccessGranted ==
  /\ step = "access"
  /\ step' = "topics"
  /\ allowed' = TRUE
  /\ UNCHANGED <<at, types, lterr, version, posted, answer>>

TopicsRefused ==
  /\ step = "topics" /\ at = 1
  /\ Send("error")
  /\ UNCHANGED <<allowed, at, types, lterr, version, posted>>

(* One turn of the loop.                                                   *)
AtTopic == step = "topics" /\ at \in DOMAIN topics
NextTopic == at' = at + 1 /\ UNCHANGED <<step, allowed, version, posted, answer>>

OtherTopic ==
  /\ AtTopic
  /\ topics[at] \notin PrefixedTopics
  /\ NextTopic
  /\ UNCHANGED <<types, lterr>>

(* ParseRepoType sets lterr, and the loop goes on.                         *)
UnparsedTopic ==
  /\ AtTopic
  /\ topics[at] \in PrefixedTopics \ TypeTopics
  /\ NextTopic
  /\ lterr' = TRUE
  /\ UNCHANGED types

(* Variant: an error stays until the callback returns.                     *)
TypeTopicKeepsError ==
  /\ AtTopic
  /\ topics[at] \in TypeTopics
  /\ NextTopic
  /\ types' = Append(types, TypeOfTopic[topics[at]])
  /\ UNCHANGED lterr

(* ParseRepoType sets lterr to nil: an earlier error is forgotten.         *)
TypeTopic ==
  /\ AtTopic
  /\ topics[at] \in TypeTopics
  /\ NextTopic
  /\ types' = Append(types, TypeOfTopic[topics[at]])
  /\ lterr' = FALSE

(* Variant: the first of several types is taken.                           *)
FirstType == ~lterr /\ types # <<>>

(* len(repotypes) is 1, and the callback has returned no error.            *)
OneType == ~lterr /\ Len(types) = 1

TopicsDecide ==
  /\ step = "topics" /\ at = Len(topics) + 1
  /\ IF OneType THEN step' = "listing" /\ UNCHANGED answer ELSE Send("error")
  /\ UNCHANGED <<allowed, at, types, lterr, version, posted>>

-----------------------------------------------------------------------------
(* requestPageData.                                                        *)
StoreFails ==
  /\ step \in {"listing", "version"}
  /\ Send("error")
  /\ UNCHANGED <<allowed, at, types, lterr, version, posted>>

PostTo(what) == posted' = Append(posted, [what |-> what, from |-> types[1]])

(* An unknown repository: a failing Enqueue is logged, and the answer is   *)
(* the same.                                                               *)
RequestRepo ==
  /\ step = "listing"
  /\ listing = Unknown
  /\ PostTo("fetchRepo") \/ UNCHANGED posted
  /\ Send("preparation")
  /\ UNCHANGED <<allowed, at, types, lterr, version>>

ChooseLatest ==
  /\ step = "listing"
  /\ listing # Unknown
  /\ asked = ""
  /\ version' = listing[1]
  /\ step' = "version"
  /\ UNCHANGED <<allowed, at, types, lterr, posted, answer>>

ChooseNamed ==
  /\ step = "listing"
  /\ \E i \in DOMAIN listing :
       /\ listing[i].name = asked
       /\ \A k \in 1..(i - 1) : listing[k].name # asked
       /\ version' = listing[i]
  /\ step' = "version"
  /\ UNCHANGED <<allowed, at, types, lterr, posted, answer>>

(* ErrVersionNotFound.                                                     *)
NotNamed ==
  /\ step = "listing"
  /\ listing # Unknown
  /\ asked # "" /\ \A i \in DOMAIN listing : listing[i].name # asked
  /\ Send("error")
  /\ UNCHANGED <<allowed, at, types, lterr, version, posted>>

NoHash ==
  /\ step = "version"
  /\ version.sha = ""
  /\ Send("preparation")
  /\ UNCHANGED <<allowed, at, types, lterr, version, posted>>

(* Here the error of Enqueue is returned.                                  *)
RequestVersion ==
  /\ step = "version"
  /\ version.sha \notin published \cup {""}
  /\ \/ PostTo("fetchVersion") /\ Send("preparation")
     \/ UNCHANGED posted /\ Send("error")
  /\ UNCHANGED <<allowed, at, types, lterr, version>>

ReadPages ==
  /\ step = "version"
  /\ version.sha \in published
  /\ step' = "reading"
  /\ UNCHANGED <<allowed, at, types, lterr, version, posted, answer>>

Next ==
  /\ \/ AccessRefused \/ AccessGranted
     \/ TopicsRefused \/ OtherTopic \/ UnparsedTopic \/ TypeTopic \/ TopicsDecide
     \/ StoreFails \/ RequestRepo
     \/ ChooseLatest \/ ChooseNamed \/ NotNamed
     \/ NoHash \/ RequestVersion \/ ReadPages
  /\ UNCHANGED input

Spec == Init /\ [][Next]_vars

-----------------------------------------------------------------------------
(* Type correctness; an answer ends the request.                           *)
TypeOK ==
  /\ step \in Steps
  /\ allowed \in BOOLEAN
  /\ at \in 1..(Len(topics) + 1)
  /\ types \in Seq(RepoTypes)
  /\ lterr \in BOOLEAN
  /\ version \in Version \cup {NoVersion}
  /\ posted \in Seq(Queues)
  /\ answer \in Answers
  /\ step = "answered" <=> answer # "none"

(* What the topics say, whatever the loop does: one of them names a type,  *)
(* and no other pages- topic stands behind it.                             *)
TypePlaces == {i \in DOMAIN topics : topics[i] \in TypeTopics}
FitPlace(i) == TypePlaces = {i} /\ \A k \in DOMAIN topics : k > i => topics[k] \notin PrefixedTopics

(* The loop finds exactly that: an unknown pages- topic is forgiven if the *)
(* topic of the type comes behind it, and refused otherwise; with several  *)
(* types, or none, there is no page (main.go:251-291).  That the types are *)
(* those of types_enum.go is not in question here: README.md:10 has        *)
(* another one, see DocumentedTopicAccepted.                               *)
TopicsDecideType ==
  [][step = "topics" /\ at = Len(topics) + 1
       => (step' = "listing" <=>
             \E i \in DOMAIN topics : FitPlace(i) /\ types = <<TypeOfTopic[topics[i]]>>)]_vars

(* README.md:8-10 names the modes by the topics pages-branch,              *)
(* pages-release and pages-packages.  This states that a repository whose  *)
(* only pages- topic is one of these has one type when the loop is over.   *)
DocumentedTopics == {"pages-branch", "pages-release", "pages-packages"}
DocumentedTopicAccepted ==
  step = "topics" /\ at = Len(topics) + 1 =>
    \A t \in DocumentedTopics :
      {topics[i] : i \in DOMAIN topics} \cap PrefixedTopics = {t} => OneType

(* A request posts at most one job, and only a job that is wanted: the     *)
(* client can see the repository, its one type chooses the queue, and the  *)
(* listing or the pages are missing (main.go:239-299, tasks.go:25-58).     *)
PostsWanted ==
  posted # <<>> =>
    /\ allowed
    /\ Len(posted) = 1
    /\ \E i \in TypePlaces : FitPlace(i) /\ posted[1].from = TypeOfTopic[topics[i]]
    /\ CASE posted[1].what = "fetchRepo" -> listing = Unknown
         [] posted[1].what = "fetchVersion" -> version.sha \notin published \cup {""}
=============================================================================
