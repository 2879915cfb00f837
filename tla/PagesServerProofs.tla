-------------------------- MODULE PagesServerProofs --------------------------
(***************************************************************************)
(* Proofs about PagesServer, for any set of kinds and any bounds.  As long *)
(* as no listing of another kind than the topic was asked for, everything  *)
(* on its way - jobs, runs, the stored listing - is of the topic's kind,   *)
(* and what a listing run has read is of the kind of its queue: then no    *)
(* run panics, and no key is dead.                                         *)
(***************************************************************************)
EXTENDS PagesServer, TLAPS

RunsOfTheirKind ==
  \A k \in Kinds, i \in 1..MaxRuns : listRun[k][i] \in Versions => listRun[k][i].kind = k

OnlyTopic ==
  /\ \A k \in toList : k = topic
  /\ \A k \in Kinds, i \in 1..MaxRuns : listRun[k][i] # Sign("idle") => k = topic
  /\ listed \in Versions => listed.kind = topic
  /\ \A j \in toFetch \cup fetching : j.queue = topic /\ j.version.kind = topic
  /\ dead = {}

PagesInv == TypeOK /\ RunsOfTheirKind /\ (foreign \/ OnlyTopic)

LEMMA SignIsNoVersion ==
  ASSUME NEW word
  PROVE  Sign(word) \notin Versions
  BY DEF Sign, Versions

LEMMA InitPages == Init => PagesInv
<1> SUFFICES ASSUME Init PROVE PagesInv
  OBVIOUS
<1>1. TypeOK
  <2>1. made \in 0..MaxVersion /\ newest \in [Kinds -> 0..made] /\ trouble \in 0..MaxTrouble
    BY PagesAssumption DEF Init
  <2>2. listRun \in [Kinds -> [1..MaxRuns -> RunStates]]
    BY DEF Init, RunStates
  <2>3. QED BY <2>1, <2>2 DEF Init, TypeOK
<1>2. RunsOfTheirKind /\ OnlyTopic
  BY SignIsNoVersion DEF Init, RunsOfTheirKind, OnlyTopic, NoListing
<1>3. QED BY <1>1, <1>2 DEF PagesInv

LEMMA TroubleTyped ==
  ASSUME TypeOK, Trouble \/ UNCHANGED trouble
  PROVE  trouble' \in 0..MaxTrouble
  BY PagesAssumption DEF TypeOK, Trouble

(* What Gitea holds.                                                       *)
LEMMA NewestTyped ==
  ASSUME TypeOK, NEW k \in Kinds, newest[k] # 0
  PROVE  Newest(k) \in Versions /\ Newest(k).kind = k
  BY PagesAssumption DEF TypeOK, Newest, Versions

LEMMA PushKeeps ==
  ASSUME PagesInv, NEW k \in Kinds, Push(k)
  PROVE  PagesInv'
<1>1. made' \in 0..MaxVersion /\ newest' \in [Kinds -> 0..made']
  BY PagesAssumption DEF PagesInv, TypeOK, Push
<1>2. gone' \subseteq Versions
  BY NewestTyped DEF PagesInv, TypeOK, Push
<1>3. TypeOK'
  BY <1>1, <1>2 DEF PagesInv, TypeOK, Push, listQueue, fetchQueue, buckets
<1>4. RunsOfTheirKind' /\ (foreign \/ OnlyTopic)'
  BY DEF PagesInv, RunsOfTheirKind, OnlyTopic, Push, listQueue, fetchQueue, buckets
<1>5. QED BY <1>3, <1>4 DEF PagesInv

LEMMA RetopicKeeps ==
  ASSUME PagesInv, NEW k \in Kinds, Retopic(k)
  PROVE  PagesInv'
<1>1. TypeOK'
  BY TroubleTyped DEF PagesInv, TypeOK, Retopic, listQueue, fetchQueue, buckets
<1>2. RunsOfTheirKind' /\ foreign'
  BY DEF PagesInv, RunsOfTheirKind, Retopic, listQueue
<1>3. QED BY <1>1, <1>2 DEF PagesInv

(* A listing is asked for, by a reader or by the hook.                     *)
LEMMA PostListKeeps ==
  ASSUME PagesInv, NEW k \in Kinds, PostList(k),
         UNCHANGED <<outside, listRun, fetchQueue, buckets, trouble>>,
         foreign' \in BOOLEAN, foreign => foreign', k = topic \/ foreign'
  PROVE  PagesInv'
<1>1. TypeOK'
  BY DEF PagesInv, TypeOK, PostList, outside, fetchQueue, buckets
<1>2. RunsOfTheirKind'
  BY DEF PagesInv, RunsOfTheirKind
<1>3. (foreign \/ OnlyTopic)'
  BY DEF PagesInv, OnlyTopic, PostList, outside, fetchQueue, buckets
<1>4. QED BY <1>1, <1>2, <1>3 DEF PagesInv

LEMMA HookKeeps ==
  ASSUME PagesInv, HookArrives
  PROVE  PagesInv'
<1>1. foreign \in BOOLEAN /\ "package" \in Kinds
  BY PagesAssumption DEF PagesInv, TypeOK
<1>2. foreign' \in BOOLEAN /\ (foreign => foreign') /\ ("package" = topic \/ foreign')
  BY <1>1 DEF HookArrives
<1>3. QED BY <1>1, <1>2, PostListKeeps DEF HookArrives

LEMMA AskKeeps ==
  ASSUME PagesInv, Ask
  PROVE  PagesInv'
<1>1. CASE AskUnlisted
  BY <1>1, PostListKeeps DEF AskUnlisted, PagesInv, TypeOK
<1>2. CASE AskUnfetched
  <2>1. TypeOK'
    BY <1>2 DEF PagesInv, TypeOK, AskUnfetched, PostFetch, FetchJobs, outside, listQueue, buckets
  <2>2. RunsOfTheirKind'
    BY <1>2 DEF PagesInv, RunsOfTheirKind, AskUnfetched, listQueue
  <2>3. (foreign \/ OnlyTopic)'
    BY <1>2 DEF PagesInv, OnlyTopic, AskUnfetched, PostFetch, outside, listQueue, buckets
  <2>4. QED BY <2>1, <2>2, <2>3 DEF PagesInv
<1>3. CASE AskPublished
  BY <1>3 DEF PagesInv, TypeOK, RunsOfTheirKind, OnlyTopic, AskPublished, outside, listQueue,
              fetchQueue, buckets
<1>4. QED BY <1>1, <1>2, <1>3 DEF Ask

-----------------------------------------------------------------------------
(* The listing runners.                                                    *)
LEMMA BeginListKeeps ==
  ASSUME PagesInv, NEW k \in Kinds, NEW i \in 1..MaxRuns, BeginList(k, i)
  PROVE  PagesInv'
<1>1. TypeOK'
  BY DEF PagesInv, TypeOK, BeginList, RunStates, outside, fetchQueue, buckets
<1>2. \A l \in Kinds, n \in 1..MaxRuns :
        listRun'[l][n] = IF l = k /\ n = i THEN Sign("begun") ELSE listRun[l][n]
  BY DEF PagesInv, TypeOK, BeginList
<1>3. RunsOfTheirKind'
  BY <1>2, SignIsNoVersion DEF PagesInv, RunsOfTheirKind
<1>4. (foreign \/ OnlyTopic)'
  BY <1>2 DEF PagesInv, OnlyTopic, BeginList, outside, fetchQueue, buckets
<1>5. QED BY <1>1, <1>3, <1>4 DEF PagesInv

LEMMA ReadListKeeps ==
  ASSUME PagesInv, NEW k \in Kinds, NEW i \in 1..MaxRuns, ReadList(k, i)
  PROVE  PagesInv'
<1> DEFINE v == IF newest[k] = 0 THEN Sign("idle") ELSE Newest(k)
<1>1. v = Sign("idle") \/ (v \in Versions /\ v.kind = k)
  BY NewestTyped DEF PagesInv
<1>2. listRun[k][i] # Sign("idle") /\ listRun' = [listRun EXCEPT ![k][i] = v]
  BY DEF ReadList, Sign
<1> HIDE DEF v
<1>3. TypeOK'
  <2>1. v \in RunStates
    BY <1>1 DEF RunStates
  <2>2. listRun' \in [Kinds -> [1..MaxRuns -> RunStates]]
    BY <1>2, <2>1 DEF PagesInv, TypeOK
  <2>3. QED BY <2>2 DEF PagesInv, TypeOK, ReadList, outside, fetchQueue, buckets
<1>4. \A l \in Kinds, n \in 1..MaxRuns :
        listRun'[l][n] = IF l = k /\ n = i THEN v ELSE listRun[l][n]
  BY <1>2 DEF PagesInv, TypeOK
<1>5. RunsOfTheirKind'
  BY <1>1, <1>4, SignIsNoVersion DEF PagesInv, RunsOfTheirKind
<1>6. (foreign \/ OnlyTopic)'
  BY <1>2, <1>4 DEF PagesInv, OnlyTopic, ReadList, outside, fetchQueue, buckets
<1>7. QED BY <1>3, <1>5, <1>6 DEF PagesInv

(* A run ends.                                                             *)
LEMMA RunEnds ==
  ASSUME PagesInv, NEW k \in Kinds, NEW i \in 1..MaxRuns,
         listRun' = [listRun EXCEPT ![k][i] = Sign("idle")]
  PROVE  /\ listRun' \in [Kinds -> [1..MaxRuns -> RunStates]]
         /\ RunsOfTheirKind'
         /\ \A l \in Kinds, n \in 1..MaxRuns :
              listRun'[l][n] # Sign("idle") => listRun[l][n] # Sign("idle")
<1>1. listRun' \in [Kinds -> [1..MaxRuns -> RunStates]]
  BY DEF PagesInv, TypeOK, RunStates
<1>2. \A l \in Kinds, n \in 1..MaxRuns :
        listRun'[l][n] = IF l = k /\ n = i THEN Sign("idle") ELSE listRun[l][n]
  BY DEF PagesInv, TypeOK
<1>3. QED BY <1>1, <1>2, SignIsNoVersion DEF PagesInv, RunsOfTheirKind

LEMMA StoreListKeeps ==
  ASSUME PagesInv, NEW k \in Kinds, NEW i \in 1..MaxRuns, StoreList(k, i)
  PROVE  PagesInv'
<1>1. listRun[k][i] \in Versions /\ listRun[k][i].kind = k /\ listRun[k][i] # Sign("idle")
  BY SignIsNoVersion DEF PagesInv, RunsOfTheirKind, StoreList
<1>2. TypeOK'
  <2>1. [queue |-> k, version |-> listRun[k][i]] \in FetchJobs
    BY <1>1 DEF FetchJobs
  <2>2. toFetch' \subseteq FetchJobs
    BY <2>1 DEF PagesInv, TypeOK, StoreList, PostFetch
  <2>3. listRun' \in [Kinds -> [1..MaxRuns -> RunStates]]
    BY RunEnds DEF StoreList
  <2>4. QED BY <1>1, <2>2, <2>3 DEF PagesInv, TypeOK, StoreList, outside
<1>3. (foreign \/ OnlyTopic)'
  BY <1>1, RunEnds DEF PagesInv, OnlyTopic, StoreList, PostFetch, outside
<1>4. QED BY <1>2, <1>3, RunEnds DEF PagesInv, StoreList

LEMMA ListFailsKeeps ==
  ASSUME PagesInv, NEW k \in Kinds, NEW i \in 1..MaxRuns, ListFails(k, i)
  PROVE  PagesInv'
<1>1. TypeOK'
  BY RunEnds, TroubleTyped DEF PagesInv, TypeOK, ListFails, outside, fetchQueue
<1>2. listed' = listed \/ (listed' \in Versions /\ listed' = listRun[k][i] /\ listed'.kind = k)
  BY DEF PagesInv, RunsOfTheirKind, ListFails
<1>3. (foreign \/ OnlyTopic)'
  BY <1>2, RunEnds DEF PagesInv, OnlyTopic, ListFails, outside, fetchQueue
<1>4. QED BY <1>1, <1>3, RunEnds DEF PagesInv, ListFails

-----------------------------------------------------------------------------
(* The version runners.                                                    *)
LEMMA FetchStepsKeep ==
  ASSUME PagesInv, NEW j \in FetchJobs,
         BeginFetch(j) \/ SkipFetch(j) \/ Publish(j) \/ FetchRefused(j) \/ FetchFails(j)
  PROVE  PagesInv'
<1>1. /\ toFetch' \subseteq toFetch /\ fetching' \subseteq toFetch \cup fetching
      /\ UNCHANGED <<outside, listQueue, dead, listed, foreign>>
      /\ published' \in {published, published \cup {j.version}}
      /\ Trouble \/ UNCHANGED trouble
  BY DEF BeginFetch, SkipFetch, Publish, FetchRefused, FetchFails, buckets
<1>2. TypeOK'
  BY <1>1, TroubleTyped DEF PagesInv, TypeOK, FetchJobs, outside, listQueue
<1>3. RunsOfTheirKind' /\ (foreign \/ OnlyTopic)'
  BY <1>1 DEF PagesInv, RunsOfTheirKind, OnlyTopic, outside, listQueue
<1>4. QED BY <1>2, <1>3 DEF PagesInv

(* A panic: only a listing of another kind brings the runner to it.        *)
LEMMA PanicNeedsForeign ==
  ASSUME PagesInv, NEW j \in FetchJobs, Panic(j)
  PROVE  foreign
  BY DEF PagesInv, OnlyTopic, Panic, LacksExtra

LEMMA PanicKeeps ==
  ASSUME PagesInv, NEW j \in FetchJobs, Panic(j)
  PROVE  PagesInv'
<1>1. TypeOK' /\ RunsOfTheirKind'
  BY DEF PagesInv, TypeOK, RunsOfTheirKind, Panic, outside, listQueue, buckets
<1>2. foreign'
  BY PanicNeedsForeign DEF Panic
<1>3. QED BY <1>1, <1>2 DEF PagesInv

(* The process exits: nothing is on its way any more.                      *)
LEMMA ExitKeeps ==
  ASSUME PagesInv, Exit, Trouble \/ UNCHANGED trouble
  PROVE  PagesInv'
<1>1. TypeOK'
  BY TroubleTyped DEF PagesInv, TypeOK, Exit, RunStates, outside, buckets
<1>2. RunsOfTheirKind' /\ (foreign \/ OnlyTopic)'
  BY SignIsNoVersion DEF PagesInv, RunsOfTheirKind, OnlyTopic, Exit, outside, buckets
<1>3. QED BY <1>1, <1>2 DEF PagesInv

LEMMA IdleKeeps == PagesInv /\ UNCHANGED vars => PagesInv'
  BY DEF PagesInv, TypeOK, RunsOfTheirKind, OnlyTopic, vars, outside, listQueue, fetchQueue,
         buckets

LEMMA PagesInvariant == Spec => []PagesInv
<1>1. ASSUME PagesInv, Next
      PROVE  PagesInv'
  <2>1. CASE Ask \/ HookArrives \/ Kill
    BY <1>1, <2>1, AskKeeps, HookKeeps, ExitKeeps DEF Kill
  <2>2. CASE \E k \in Kinds : Push(k) \/ Retopic(k)
    BY <1>1, <2>2, PushKeeps, RetopicKeeps
  <2>3. CASE \E k \in Kinds : \E i \in 1..MaxRuns : BeginList(k, i) \/ List(k, i) \/ ListFails(k, i)
    BY <1>1, <2>3, BeginListKeeps, ReadListKeeps, StoreListKeeps, ListFailsKeeps DEF List
  <2>4. CASE \E j \in FetchJobs :
              BeginFetch(j) \/ SkipFetch(j) \/ Fetch(j) \/ FetchFails(j)
    BY <1>1, <2>4, FetchStepsKeep, PanicKeeps DEF Fetch
  <2>5. QED BY <1>1, <2>1, <2>2, <2>3, <2>4 DEF Next
<1>2. PagesInv /\ [Next]_vars => PagesInv'
  BY <1>1, IdleKeeps
<1>3. QED BY InitPages, <1>2, PTL DEF Spec

-----------------------------------------------------------------------------
(* Every reachable state of the server around a repository is well typed.  *)
THEOREM TypeCorrect == Spec => []TypeOK
  BY PagesInvariant, PTL DEF PagesInv

(* The stored listing is of the topic's kind unless a hook or a change of  *)
(* the topic asked for another (main.go:153).                              *)
THEOREM KindCorrect == Spec => []OtherKindExplained
<1>1. PagesInv => OtherKindExplained
  BY DEF PagesInv, OnlyTopic, OtherKindExplained
<1>2. QED BY PagesInvariant, <1>1, PTL

(* A panic leaves a version's job marked as running only after such a      *)
(* request (taskFetchVersion.go:205, queue.go:105-114).                    *)
THEOREM DeadKeyCorrect == Spec => []DeadKeyExplained
<1>1. PagesInv => DeadKeyExplained
  BY DEF PagesInv, OnlyTopic, DeadKeyExplained
<1>2. QED BY PagesInvariant, <1>1, PTL
=============================================================================
