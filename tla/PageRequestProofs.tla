-------------------------- MODULE PageRequestProofs --------------------------
(***************************************************************************)
(* Proofs about PageRequest, for repositories with any number of topics    *)
(* and listings of any length.  The invariant of the loop says what the    *)
(* topics behind it amount to: with one type so far there is one place it  *)
(* came from, and an error is left exactly by the last pages- topic.       *)
(***************************************************************************)
EXTENDS PageRequest, TLAPS

Done == 1..(at - 1)

(* What types and lterr say of the topics the loop has seen.               *)
TypesSeen ==
  /\ types = <<>> => Done \cap TypePlaces = {}
  /\ Len(types) = 1 => \E i \in Done :
       Done \cap TypePlaces = {i} /\ types = <<TypeOfTopic[topics[i]]>>

ErrorSeen ==
  /\ ~lterr => \A k \in Done : topics[k] \in PrefixedTopics =>
       \E i \in Done : i >= k /\ i \in TypePlaces
  /\ lterr => \E k \in Done :
       /\ topics[k] \in PrefixedTopics \ TypeTopics
       /\ \A i \in Done : i > k => topics[i] \notin PrefixedTopics

Decided == \E i \in TypePlaces : FitPlace(i) /\ types = <<TypeOfTopic[topics[i]]>>

Past == {"listing", "version", "reading"}

Inputs ==
  /\ topics \in Seq(Topics)
  /\ listing \in Seq(Version)

RequestInv ==
  /\ TypeOK /\ Inputs
  /\ step \in {"access", "topics"} => TypesSeen /\ ErrorSeen /\ posted = <<>>
  /\ step = "access" => at = 1
  /\ step \in Past => allowed /\ Decided /\ posted = <<>>
  /\ step = "topics" => allowed
  /\ PostsWanted

LEMMA FunctionIsSeq ==
  ASSUME NEW S, NEW n \in Nat, NEW f \in [1..n -> S]
  PROVE  f \in Seq(S) /\ Len(f) = n
  OBVIOUS

LEMMA InputsTyped == Init => Inputs
<1> SUFFICES ASSUME Init PROVE Inputs
  OBVIOUS
<1>1. PICK n \in 0..MaxTopics : topics \in [1..n -> Topics]
  BY DEF Init
<1>2. PICK m \in 0..MaxListed : listing \in [1..m -> Version]
  BY DEF Init, Listings
<1>3. n \in Nat /\ m \in Nat
  BY RequestAssumption
<1>4. QED BY <1>1, <1>2, <1>3, FunctionIsSeq DEF Inputs

LEMMA InitRequest == Init => RequestInv
<1> SUFFICES ASSUME Init PROVE RequestInv
  OBVIOUS
<1>1. Inputs
  BY InputsTyped
<1>2. /\ step = "access" /\ at = 1 /\ types = <<>> /\ lterr = FALSE /\ allowed = FALSE
      /\ version = NoVersion /\ posted = <<>> /\ answer = "none"
  BY DEF Init
<1>3. TypeOK
  <2>1. at \in 1..(Len(topics) + 1)
    BY <1>1, <1>2 DEF Inputs
  <2>2. types \in Seq(RepoTypes) /\ posted \in Seq(Queues)
    BY <1>2
  <2>3. QED BY <1>2, <2>1, <2>2 DEF TypeOK, Steps, Answers
<1>4. TypesSeen /\ ErrorSeen
  <2>1. Done = {} /\ Len(types) = 0
    BY <1>2 DEF Done
  <2>2. QED BY <1>2, <2>1 DEF TypesSeen, ErrorSeen
<1>5. PostsWanted
  BY <1>2 DEF PostsWanted
<1>6. QED BY <1>1, <1>2, <1>3, <1>4, <1>5 DEF RequestInv, Past

LEMMA TopicTypes ==
  /\ TypeTopics \subseteq PrefixedTopics
  /\ \A t \in TypeTopics : TypeOfTopic[t] \in RepoTypes
  BY DEF TypeTopics, PrefixedTopics, TypeOfTopic, RepoTypes

(* Steps that end the request, or go on, without a job.                    *)
LEMMA AccessKeeps ==
  ASSUME RequestInv, AccessRefused \/ AccessGranted \/ TopicsRefused, UNCHANGED input
  PROVE  RequestInv'
<1>1. TypeOK' /\ Inputs'
  BY DEF RequestInv, TypeOK, Inputs, AccessRefused, AccessGranted, TopicsRefused, Send, input,
         Steps, Answers
<1>2. step' # "answered" => (TypesSeen /\ ErrorSeen)'
  BY DEF RequestInv, AccessRefused, AccessGranted, TopicsRefused, Send, input,
         TypesSeen, ErrorSeen, Done, TypePlaces
<1>3. PostsWanted' /\ posted' = <<>> /\ step' \in {"answered", "topics"}
  BY DEF RequestInv, AccessRefused, AccessGranted, TopicsRefused, Send, PostsWanted
<1>4. step' = "topics" => allowed'
  BY DEF AccessRefused, AccessGranted, TopicsRefused, Send
<1>5. QED BY <1>1, <1>2, <1>3, <1>4 DEF RequestInv, Past

(* A turn of the loop that leaves the types alone.                         *)
LEMMA OtherTopicKeeps ==
  ASSUME RequestInv, OtherTopic, UNCHANGED input
  PROVE  RequestInv'
<1>1. at \in Nat /\ Done' = Done \cup {at} /\ at \notin Done /\ at \in DOMAIN topics
  BY DEF RequestInv, TypeOK, Inputs, OtherTopic, AtTopic, NextTopic, Done
<1>2. at \notin TypePlaces /\ topics[at] \notin PrefixedTopics
  BY TopicTypes DEF OtherTopic, TypePlaces
<1>3. TypeOK' /\ Inputs'
  BY DEF RequestInv, TypeOK, Inputs, OtherTopic, AtTopic, NextTopic, input
<1>4. TypesSeen'
  BY <1>1, <1>2 DEF RequestInv, OtherTopic, AtTopic, input, TypesSeen, TypePlaces
<1>5. ErrorSeen'
  BY <1>1, <1>2 DEF RequestInv, OtherTopic, AtTopic, input, ErrorSeen, TypePlaces
<1>6. QED BY <1>3, <1>4, <1>5
     DEF RequestInv, OtherTopic, AtTopic, NextTopic, input, PostsWanted, Past

LEMMA UnparsedKeeps ==
  ASSUME RequestInv, UnparsedTopic, UNCHANGED input
  PROVE  RequestInv'
<1>1. at \in Nat /\ Done' = Done \cup {at} /\ at \notin Done /\ at \in DOMAIN topics
      /\ \A i \in Done : i < at /\ i \in Nat
  BY DEF RequestInv, TypeOK, Inputs, UnparsedTopic, AtTopic, NextTopic, Done
<1>2. at \notin TypePlaces /\ topics[at] \in PrefixedTopics \ TypeTopics /\ lterr'
  BY DEF UnparsedTopic, TypePlaces
<1>3. TypeOK' /\ Inputs'
  BY DEF RequestInv, TypeOK, Inputs, UnparsedTopic, AtTopic, NextTopic, input
<1>4. TypesSeen'
  BY <1>1, <1>2 DEF RequestInv, UnparsedTopic, AtTopic, input, TypesSeen, TypePlaces
<1>5. ErrorSeen'
  <2>1. \A i \in Done' : ~(i > at)
    BY <1>1
  <2>2. topics'[at] \in PrefixedTopics \ TypeTopics /\ at \in Done'
    BY <1>1, <1>2 DEF input
  <2>3. QED BY <1>2, <2>1, <2>2 DEF ErrorSeen
<1>6. QED BY <1>3, <1>4, <1>5
     DEF RequestInv, UnparsedTopic, AtTopic, NextTopic, input, PostsWanted, Past

(* A topic that names a type.                                              *)
LEMMA TypeTopicKeeps ==
  ASSUME RequestInv, TypeTopic, UNCHANGED input
  PROVE  RequestInv'
<1>1. at \in Nat /\ Done' = Done \cup {at} /\ at \notin Done /\ at \in DOMAIN topics
      /\ \A i \in Done : i < at /\ i \in Nat
  BY DEF RequestInv, TypeOK, Inputs, TypeTopic, AtTopic, NextTopic, Done
<1>2. at \in TypePlaces /\ lterr' = FALSE /\ TypeOfTopic[topics[at]] \in RepoTypes
  BY <1>1, TopicTypes DEF TypeTopic, TypePlaces
<1>3. types \in Seq(RepoTypes) /\ types' = Append(types, TypeOfTopic[topics[at]])
  BY DEF RequestInv, TypeOK, TypeTopic
<1>4. TypeOK' /\ Inputs'
  <2>1. types' \in Seq(RepoTypes)
    BY <1>2, <1>3
  <2>2. at' \in 1..(Len(topics') + 1)
    BY <1>1 DEF RequestInv, Inputs, TypeTopic, NextTopic, input
  <2>3. QED BY <1>2, <2>1, <2>2 DEF RequestInv, TypeOK, Inputs, TypeTopic, NextTopic, input
<1>5. TypesSeen'
  <2>1. types' # <<>>
    BY <1>2, <1>3
  <2>2. ASSUME Len(types') = 1
        PROVE  Done \cap TypePlaces = {} /\ types' = <<TypeOfTopic[topics[at]]>>
    <3>1. types = <<>>
      BY <1>2, <1>3, <2>2
    <3>2. QED BY <3>1, <1>2, <1>3 DEF RequestInv, TypeTopic, AtTopic, TypesSeen
  <2>3. TypePlaces' = TypePlaces /\ topics' = topics
    BY DEF input, TypePlaces
  <2>4. QED BY <1>1, <1>2, <2>1, <2>2, <2>3 DEF TypesSeen
<1>6. ErrorSeen'
  BY <1>1, <1>2 DEF input, ErrorSeen, TypePlaces
<1>7. QED BY <1>4, <1>5, <1>6
     DEF RequestInv, TypeTopic, AtTopic, NextTopic, input, PostsWanted, Past

(* What the loop has found when it is through.                             *)
LEMMA LoopFinds ==
  ASSUME RequestInv, step = "topics", at = Len(topics) + 1
  PROVE  OneType <=> Decided
<1>1. Done = DOMAIN topics /\ TypePlaces \subseteq Done /\ \A i \in Done : i \in Nat
  BY DEF RequestInv, Inputs, Done, TypePlaces
<1>2. TypesSeen /\ ErrorSeen
  BY DEF RequestInv
<1>3. ASSUME OneType PROVE Decided
  <2>1. PICK i \in Done : TypePlaces = {i} /\ types = <<TypeOfTopic[topics[i]]>>
    BY <1>1, <1>2, <1>3 DEF OneType, TypesSeen
  <2>2. \A k \in DOMAIN topics : k > i => topics[k] \notin PrefixedTopics
    BY <1>1, <1>2, <1>3, <2>1 DEF OneType, ErrorSeen
  <2>3. QED BY <2>1, <2>2 DEF Decided, FitPlace
<1>4. ASSUME Decided PROVE OneType
  <2>1. PICK i \in TypePlaces : FitPlace(i) /\ types = <<TypeOfTopic[topics[i]]>>
    BY <1>4 DEF Decided
  <2>2. ~lterr
    <3>1. SUFFICES ASSUME lterr PROVE FALSE
      OBVIOUS
    <3>2. PICK k \in Done :
            /\ topics[k] \in PrefixedTopics \ TypeTopics
            /\ \A n \in Done : n > k => topics[n] \notin PrefixedTopics
      BY <1>2, <3>1 DEF ErrorSeen
    <3>3. i # k /\ ~(i > k) /\ ~(k > i)
      BY <1>1, <2>1, <3>2, TopicTypes DEF FitPlace, TypePlaces
    <3>4. QED BY <1>1, <2>1, <3>2, <3>3
  <2>3. QED BY <2>1, <2>2 DEF OneType
<1>5. QED BY <1>3, <1>4

LEMMA DecideKeeps ==
  ASSUME RequestInv, TopicsDecide, UNCHANGED input
  PROVE  RequestInv'
<1>1. TypeOK' /\ Inputs'
  BY DEF RequestInv, TypeOK, Inputs, TopicsDecide, Send, input, Steps, Answers
<1>2. step' = "listing" => Decided'
  BY LoopFinds DEF TopicsDecide, Send, input, Decided, FitPlace, TypePlaces
<1>3. step' \in {"listing", "answered"} /\ posted' = <<>> /\ (step' = "listing" => allowed')
  BY DEF RequestInv, TopicsDecide, Send
<1>4. QED BY <1>1, <1>2, <1>3 DEF RequestInv, PostsWanted, Past

-----------------------------------------------------------------------------
(* requestPageData: the job goes to the queue of the one type.             *)
LEMMA DecidedTypes ==
  ASSUME RequestInv, step \in Past
  PROVE  /\ Decided /\ posted = <<>> /\ allowed
         /\ Len(types) = 1 /\ types[1] \in RepoTypes
         /\ \E i \in TypePlaces : FitPlace(i) /\ types[1] = TypeOfTopic[topics[i]]
  BY TopicTypes DEF RequestInv, Decided, TypePlaces

LEMMA PostedJob ==
  ASSUME RequestInv, NEW runner \in {"fetchRepo", "fetchVersion"}, step \in Past, PostTo(runner)
  PROVE  /\ posted' \in Seq(Queues) /\ Len(posted') = 1
         /\ posted'[1].what = runner /\ posted'[1].from = types[1]
<1> DEFINE job == [what |-> runner, from |-> types[1]]
<1>1. job \in Queues /\ job.what = runner /\ job.from = types[1]
  BY DecidedTypes DEF Queues
<1>2. posted' = Append(posted, job) /\ posted = <<>>
  BY DecidedTypes DEF PostTo
<1> HIDE DEF job
<1>3. QED BY <1>1, <1>2

LEMMA PostKeeps ==
  ASSUME RequestInv, NEW runner \in {"fetchRepo", "fetchVersion"}, step \in Past,
         PostTo(runner), Send("preparation"),
         UNCHANGED <<allowed, at, types, lterr, input>>, version' = version,
         runner = "fetchRepo" => listing = Unknown,
         runner = "fetchVersion" => version.sha \notin published \cup {""}
  PROVE  RequestInv'
<1>1. TypeOK' /\ Inputs'
  BY PostedJob DEF RequestInv, TypeOK, Inputs, Send, input, Steps, Answers
<1>2. PostsWanted'
  <2>1. UNCHANGED <<topics, listing, published>> /\ allowed' /\ types' = types
    BY DecidedTypes DEF input
  <2>2. \E i \in TypePlaces' : FitPlace(i)' /\ posted'[1].from = TypeOfTopic[topics'[i]]
    BY <2>1, PostedJob, DecidedTypes DEF TypePlaces, FitPlace
  <2>3. CASE runner = "fetchRepo"
    BY <2>1, <2>2, <2>3, PostedJob DEF PostsWanted
  <2>4. CASE runner = "fetchVersion"
    BY <2>1, <2>2, <2>4, PostedJob DEF PostsWanted
  <2>5. QED BY <2>3, <2>4
<1>3. QED BY <1>1, <1>2 DEF RequestInv, Send, Past

LEMMA NoPostKeeps ==
  ASSUME RequestInv, step \in Past, posted' = posted, step' \in Past \cup {"answered"},
         step' = "answered" <=> answer' # "none", answer' \in Answers,
         UNCHANGED <<allowed, at, types, lterr, input>>,
         version' \in Version \cup {NoVersion}
  PROVE  RequestInv'
<1>1. TypeOK' /\ Inputs'
  BY DEF RequestInv, TypeOK, Inputs, input, Steps, Past
<1>2. Decided' /\ allowed' /\ posted' = <<>>
  BY DecidedTypes DEF Decided, FitPlace, TypePlaces, input
<1>3. QED BY <1>1, <1>2 DEF RequestInv, PostsWanted, Past

LEMMA ListingKeeps ==
  ASSUME RequestInv, UNCHANGED input,
         StoreFails \/ RequestRepo \/ ChooseLatest \/ ChooseNamed \/ NotNamed
  PROVE  RequestInv'
<1>1. CASE StoreFails \/ NotNamed
  BY <1>1, NoPostKeeps
     DEF StoreFails, NotNamed, Send, Past, Answers, RequestInv, TypeOK
<1>2. CASE RequestRepo
  <2>1. CASE PostTo("fetchRepo")
    BY <1>2, <2>1, PostKeeps DEF RequestRepo, Past
  <2>2. CASE UNCHANGED posted
    BY <1>2, <2>2, NoPostKeeps
       DEF RequestRepo, Send, Past, Answers, RequestInv, TypeOK
  <2>3. QED BY <1>2, <2>1, <2>2 DEF RequestRepo
<1>3. CASE ChooseLatest
  <2>1. 1 \in DOMAIN listing /\ listing[1] \in Version
    <3>1. listing \in Seq(Version) /\ listing # <<>>
      BY <1>3 DEF RequestInv, Inputs, ChooseLatest, Unknown
    <3>2. QED BY <3>1
  <2>2. QED BY <1>3, <2>1, NoPostKeeps DEF ChooseLatest, Past, RequestInv, TypeOK
<1>4. CASE ChooseNamed
  <2>1. PICK i \in DOMAIN listing :
          /\ listing[i].name = asked
          /\ \A k \in 1..(i - 1) : listing[k].name # asked
          /\ version' = listing[i]
    BY <1>4 DEF ChooseNamed
  <2>2. listing[i] \in Version
    BY DEF RequestInv, Inputs
  <2>3. QED BY <1>4, <2>1, <2>2, NoPostKeeps DEF ChooseNamed, Past, RequestInv, TypeOK
<1>5. QED BY <1>1, <1>2, <1>3, <1>4

LEMMA VersionKeeps ==
  ASSUME RequestInv, UNCHANGED input, NoHash \/ RequestVersion \/ ReadPages
  PROVE  RequestInv'
<1>1. CASE NoHash
  BY <1>1, NoPostKeeps DEF NoHash, Send, Past, Answers, RequestInv, TypeOK
<1>2. CASE RequestVersion
  <2>1. CASE PostTo("fetchVersion") /\ Send("preparation")
    BY <1>2, <2>1, PostKeeps DEF RequestVersion, Past
  <2>2. CASE UNCHANGED posted /\ Send("error")
    BY <1>2, <2>2, NoPostKeeps
       DEF RequestVersion, Send, Past, Answers, RequestInv, TypeOK
  <2>3. QED BY <1>2, <2>1, <2>2 DEF RequestVersion
<1>3. CASE ReadPages
  BY <1>3, NoPostKeeps DEF ReadPages, Past, RequestInv, TypeOK
<1>4. QED BY <1>1, <1>2, <1>3

LEMMA RequestInvariant == Spec => []RequestInv
<1>1. RequestInv /\ [Next]_vars => RequestInv'
  <2>1. ASSUME RequestInv, Next PROVE RequestInv'
    BY <2>1, AccessKeeps, OtherTopicKeeps, UnparsedKeeps, TypeTopicKeeps, DecideKeeps,
       ListingKeeps, VersionKeeps DEF Next
  <2>2. ASSUME RequestInv, UNCHANGED vars PROVE RequestInv'
    BY <2>2 DEF RequestInv, vars, input, TypeOK, Inputs, TypesSeen, ErrorSeen, Done, TypePlaces,
                Decided, FitPlace, Past, PostsWanted
  <2>3. QED BY <2>1, <2>2
<1>2. QED BY InitRequest, <1>1, PTL DEF Spec

-----------------------------------------------------------------------------
(* Every reachable state of a request is well typed, and only an answer    *)
(* ends it.                                                                *)
THEOREM TypeCorrect == Spec => []TypeOK
  BY RequestInvariant, PTL DEF RequestInv

(* A request posts at most one job, and only one that is wanted            *)
(* (main.go:239-299, tasks.go:25-58).                                      *)
THEOREM PostsCorrect == Spec => []PostsWanted
  BY RequestInvariant, PTL DEF RequestInv

(* The loop over the topics goes on to a listing exactly where one topic   *)
(* names a type and no other pages- topic stands behind it                 *)
(* (main.go:251-291).                                                      *)
THEOREM TopicsCorrect == Spec => TopicsDecideType
<1> DEFINE Through == step = "topics" /\ at = Len(topics) + 1
<1>1. ASSUME RequestInv, Next, Through
      PROVE  step' = "listing" <=> Decided
  <2>1. TopicsDecide \/ TopicsRefused
    <3>1. at \notin DOMAIN topics
      BY <1>1 DEF RequestInv, Inputs
    <3>2. QED BY <1>1, <3>1
         DEF Next, AccessRefused, AccessGranted, OtherTopic, UnparsedTopic, TypeTopic, AtTopic,
             StoreFails, RequestRepo, ChooseLatest, ChooseNamed, NotNamed, NoHash,
             RequestVersion, ReadPages
  <2>2. CASE TopicsDecide
    BY <1>1, <2>2, LoopFinds DEF TopicsDecide, Send
  <2>3. CASE TopicsRefused
    <3>1. Done = {} /\ step' = "answered"
      BY <2>3 DEF TopicsRefused, Send, Done
    <3>2. ~Decided
      BY <1>1, <3>1 DEF RequestInv, TypesSeen, Decided
    <3>3. QED BY <3>1, <3>2
  <2>4. QED BY <2>1, <2>2, <2>3
<1>2. RequestInv /\ [Next]_vars => [Through => (step' = "listing" <=> Decided)]_vars
  BY <1>1
<1>3. [Through => (step' = "listing" <=> Decided)]_vars
        => [step = "topics" /\ at = Len(topics) + 1
              => (step' = "listing" <=>
                    \E i \in DOMAIN topics : FitPlace(i) /\ types = <<TypeOfTopic[topics[i]]>>)]_vars
  BY DEF Decided, FitPlace, TypePlaces
<1>4. QED BY RequestInvariant, <1>2, <1>3, PTL DEF Spec, TopicsDecideType
=============================================================================
