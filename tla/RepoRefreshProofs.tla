-------------------------- MODULE RepoRefreshProofs --------------------------
(***************************************************************************)
(* Theorems about DedupQueue, and about RepoRefresh, which extends it, for *)
(* every set of repositories and jobs, every assignment of deduping keys,  *)
(* every pool size and every bound of the clock and of the revisions.      *)
(* The theorems about the queue come first; those about the listings build *)
(* on them.                                                                *)
(***************************************************************************)
EXTENDS RepoRefresh, SequenceTheorems, FiniteSetTheorems, TLAPS

USE DEF Waiting, Skipped

-----------------------------------------------------------------------------
(* The ring: what Enqueue and Take do to a sequence.                       *)

(* Taking the head of a non-empty ring leaves the other elements, each one *)
(* place further ahead.                                                    *)
LEMMA TailOfRing ==
  ASSUME NEW S, NEW s \in Seq(S), s # <<>>
  PROVE  /\ Tail(s) \in Seq(S)
         /\ Len(s) \in Nat \ {0}
         /\ Head(s) = s[1] /\ Head(s) \in S
         /\ Len(Tail(s)) = Len(s) - 1
         /\ \A n \in 1..Len(Tail(s)) : Tail(s)[n] = s[n + 1]
BY HeadTailProperties

(* Appending a job keeps the places of the others.                         *)
LEMMA AppendToRing ==
  ASSUME NEW S, NEW s \in Seq(S), NEW e \in S
  PROVE  /\ Append(s, e) \in Seq(S)
         /\ Len(s) \in Nat
         /\ Len(Append(s, e)) = Len(s) + 1
         /\ \A n \in 1..Len(s) : Append(s, e)[n] = s[n]
         /\ Append(s, e)[Len(s) + 1] = e
BY AppendProperties

-----------------------------------------------------------------------------
(* Type correctness.                                                       *)

LEMMA TypeInit == QueueInit => TypeOK
BY QueueAssumption DEF QueueInit, TypeOK, Stages

LEMMA TypeStep == TypeOK /\ [QueueNext]_queueVars => TypeOK'
<1> SUFFICES ASSUME TypeOK, [QueueNext]_queueVars PROVE TypeOK'
  OBVIOUS
<1> USE QueueAssumption DEF TypeOK, Stages, DedupValue
<1>1. CASE Tick
  BY <1>1 DEF Tick
<1>2. CASE Restart
  BY <1>2 DEF Restart
<1>3. ASSUME NEW j \in Jobs, Enqueue(j) PROVE TypeOK'
  <2>1. fifo' \in Seq(Jobs)
    BY <1>3, AppendToRing DEF Enqueue
  <2> QED
    BY <1>3, <2>1 DEF Enqueue, Holders
<1>4. ASSUME NEW j \in Jobs, Take(j) PROVE TypeOK'
  <2>1. fifo' \in Seq(Jobs)
    BY <1>4, TailOfRing DEF Take
  <2> QED
    BY <1>4, <2>1 DEF Take
<1>5. ASSUME NEW j \in Jobs, Consume(j) PROVE TypeOK'
  <2>1. CASE SkipTooOld(j)
    BY <2>1 DEF SkipTooOld
  <2>2. CASE SkipBusy(j)
    BY <2>2 DEF SkipBusy, FoundBusy
  <2>3. CASE Clear(j)
    BY <2>3 DEF Clear, NoteRace
  <2>4. CASE Start(j)
    BY <2>4 DEF Start, Put
  <2> QED
    BY <1>5, <2>1, <2>2, <2>3, <2>4 DEF Consume
<1>6. ASSUME NEW j \in Jobs, Finish(j) PROVE TypeOK'
  BY <1>6 DEF Finish, Put
<1>7. ASSUME NEW j \in Jobs, Fail(j) PROVE TypeOK'
  BY <1>7 DEF Fail, Drop
<1>8. ASSUME NEW j \in Jobs, Panic(j) \/ Timeout(j) PROVE TypeOK'
  BY <1>8 DEF Panic, Timeout
<1>9. CASE UNCHANGED queueVars
  BY <1>9 DEF queueVars
<1> QED
  BY <1>1, <1>2, <1>3, <1>4, <1>5, <1>6, <1>7, <1>8, <1>9 DEF QueueNext

(* Every reachable state of a queue is well typed.                         *)
THEOREM TypeCorrect == QueueSpec => []TypeOK
BY TypeInit, TypeStep, PTL DEF QueueSpec

-----------------------------------------------------------------------------
(* The ring holds the queued jobs, each once.                              *)

LEMMA RingInit == QueueInit => RingHoldsQueued
BY DEF QueueInit, RingHoldsQueued

LEMMA RingStep ==
  TypeOK /\ RingHoldsQueued /\ [QueueNext]_queueVars => RingHoldsQueued'
<1> SUFFICES ASSUME TypeOK, RingHoldsQueued, [QueueNext]_queueVars
             PROVE  RingHoldsQueued'
  OBVIOUS
<1>a. /\ fifo \in Seq(Jobs)
      /\ stage \in [Jobs -> Stages]
  BY DEF TypeOK
<1>b. /\ Len(fifo) \in Nat
      /\ \A n \in 1..Len(fifo) : fifo[n] \in Jobs
  BY <1>a
<1>c. \A j \in Jobs : stage[j] = "queued" <=> \E n \in 1..Len(fifo) : fifo[n] = j
  BY DEF RingHoldsQueued
<1>d. \A m, n \in 1..Len(fifo) : fifo[m] = fifo[n] => m = n
  BY DEF RingHoldsQueued
<1>e. ASSUME fifo' = fifo, \A i \in Jobs : stage'[i] = "queued" <=> stage[i] = "queued"
      PROVE  RingHoldsQueued'
  BY <1>c, <1>d, <1>e DEF RingHoldsQueued
<1>1. CASE Tick
  BY <1>1, <1>e DEF Tick
<1>2. CASE Restart
  BY <1>2, <1>a DEF Restart, RingHoldsQueued
<1>3. ASSUME NEW j \in Jobs, Enqueue(j) PROVE RingHoldsQueued'
  <2>1. /\ fifo' = Append(fifo, j)
        /\ stage[j] = "new"
        /\ stage' = [stage EXCEPT ![j] = "queued"]
    BY <1>3 DEF Enqueue
  <2>2. /\ Len(fifo) \in Nat
        /\ Len(fifo') = Len(fifo) + 1
        /\ \A n \in 1..Len(fifo) : fifo'[n] = fifo[n]
        /\ fifo'[Len(fifo) + 1] = j
    BY <1>a, <2>1, AppendToRing
  <2>3. \A n \in 1..Len(fifo) : fifo[n] # j
    BY <1>c, <2>1
  <2>4. ASSUME NEW m \in 1..Len(fifo'), NEW n \in 1..Len(fifo'), fifo'[m] = fifo'[n]
        PROVE  m = n
    <3>1. m \in 1..Len(fifo) \/ m = Len(fifo) + 1
      BY <2>2
    <3>2. n \in 1..Len(fifo) \/ n = Len(fifo) + 1
      BY <2>2
    <3>3. CASE m \in 1..Len(fifo) /\ n \in 1..Len(fifo)
      BY <1>d, <2>2, <2>4, <3>3
    <3>4. CASE m = Len(fifo) + 1 /\ n \in 1..Len(fifo)
      BY <2>2, <2>3, <2>4, <3>4
    <3>5. CASE n = Len(fifo) + 1 /\ m \in 1..Len(fifo)
      BY <2>2, <2>3, <2>4, <3>5
    <3> QED
      BY <3>1, <3>2, <3>3, <3>4, <3>5
  <2>5. ASSUME NEW i \in Jobs
        PROVE  stage'[i] = "queued" <=> \E n \in 1..Len(fifo') : fifo'[n] = i
    <3>1. CASE i = j
      <4>1. Len(fifo) + 1 \in 1..Len(fifo')
        BY <2>2
      <4> QED
        BY <1>a, <2>1, <2>2, <3>1, <4>1
    <3>2. CASE i # j
      <4>1. ASSUME NEW n \in 1..Len(fifo'), fifo'[n] = i
            PROVE  n \in 1..Len(fifo) /\ fifo[n] = i
        <5>1. n \in 1..Len(fifo) \/ n = Len(fifo) + 1
          BY <2>2
        <5> QED
          BY <2>2, <3>2, <4>1, <5>1
      <4>2. ASSUME NEW n \in 1..Len(fifo), fifo[n] = i
            PROVE  n \in 1..Len(fifo') /\ fifo'[n] = i
        BY <2>2, <4>2
      <4> QED
        BY <1>a, <1>c, <2>1, <3>2, <4>1, <4>2
    <3> QED
      BY <3>1, <3>2
  <2> QED
    BY <2>4, <2>5 DEF RingHoldsQueued
<1>4. ASSUME NEW j \in Jobs, Take(j) PROVE RingHoldsQueued'
  <2>1. /\ fifo # <<>>
        /\ j = Head(fifo)
        /\ fifo' = Tail(fifo)
        /\ stage' = [stage EXCEPT ![j] = "taken"]
    BY <1>4 DEF Take
  <2>2. /\ Len(fifo) \in Nat \ {0}
        /\ j = fifo[1]
        /\ Len(fifo') = Len(fifo) - 1
        /\ \A n \in 1..Len(fifo') : fifo'[n] = fifo[n + 1]
    BY <1>a, <2>1, TailOfRing
  <2>3. \A n \in 1..Len(fifo') : n + 1 \in 1..Len(fifo) /\ n + 1 # 1
    BY <2>2
  <2>4. \A n \in 1..Len(fifo') : fifo'[n] # j
    <3>1. 1 \in 1..Len(fifo)
      BY <2>2
    <3> QED
      BY <1>d, <2>2, <2>3, <3>1
  <2>5. ASSUME NEW m \in 1..Len(fifo'), NEW n \in 1..Len(fifo'), fifo'[m] = fifo'[n]
        PROVE  m = n
    <3>1. m + 1 = n + 1
      BY <1>d, <2>2, <2>3, <2>5
    <3> QED
      BY <2>2, <3>1
  <2>6. ASSUME NEW i \in Jobs
        PROVE  stage'[i] = "queued" <=> \E n \in 1..Len(fifo') : fifo'[n] = i
    <3>1. CASE i = j
      BY <1>a, <2>1, <2>4, <3>1
    <3>2. CASE i # j
      <4>1. ASSUME NEW n \in 1..Len(fifo), fifo[n] = i
            PROVE  n - 1 \in 1..Len(fifo') /\ fifo'[n - 1] = i
        <5>1. n - 1 \in 1..Len(fifo') /\ (n - 1) + 1 = n
          BY <2>2, <3>2, <4>1
        <5> QED
          BY <2>2, <4>1, <5>1
      <4>2. ASSUME NEW n \in 1..Len(fifo'), fifo'[n] = i
            PROVE  n + 1 \in 1..Len(fifo) /\ fifo[n + 1] = i
        BY <2>2, <2>3, <4>2
      <4> QED
        BY <1>a, <1>c, <2>1, <3>2, <4>1, <4>2
    <3> QED
      BY <3>1, <3>2
  <2> QED
    BY <2>5, <2>6 DEF RingHoldsQueued
<1>5. ASSUME NEW j \in Jobs, Consume(j) PROVE RingHoldsQueued'
  <2>1. fifo' = fifo
    BY <1>5 DEF Consume, SkipTooOld, SkipBusy, FoundBusy, Clear, Start
  <2>2. \A i \in Jobs : stage'[i] = "queued" <=> stage[i] = "queued"
    BY <1>a, <1>5 DEF Consume, SkipTooOld, SkipBusy, FoundBusy, Clear, Start
  <2> QED
    BY <1>e, <2>1, <2>2
<1>6. ASSUME NEW j \in Jobs, Finish(j) \/ Fail(j) \/ Panic(j) \/ Timeout(j)
      PROVE  RingHoldsQueued'
  <2>1. fifo' = fifo
    BY <1>6 DEF Finish, Fail, Panic, Timeout
  <2>2. \A i \in Jobs : stage'[i] = "queued" <=> stage[i] = "queued"
    BY <1>a, <1>6 DEF Finish, Fail, Panic, Timeout
  <2> QED
    BY <1>e, <2>1, <2>2
<1>7. CASE UNCHANGED queueVars
  BY <1>7, <1>e DEF queueVars
<1> QED
  BY <1>1, <1>2, <1>3, <1>4, <1>5, <1>6, <1>7 DEF QueueNext

-----------------------------------------------------------------------------
(* Slots, time stamps and the running mark.                                *)

LEMMA SlotsStep ==
  TypeOK /\ SlotsInProgress /\ [QueueNext]_queueVars => SlotsInProgress'
<1> SUFFICES ASSUME TypeOK, SlotsInProgress, [QueueNext]_queueVars,
                    NEW i \in slots'
             PROVE  stage'[i] \in {"taken", "cleared", "running"}
  BY DEF SlotsInProgress
<1> USE DEF TypeOK, SlotsInProgress
<1>1. CASE Tick \/ Restart \/ UNCHANGED queueVars
  BY <1>1 DEF Tick, Restart, queueVars
<1>2. ASSUME NEW j \in Jobs, Enqueue(j) \/ Take(j)
      PROVE  stage'[i] \in {"taken", "cleared", "running"}
  BY <1>2 DEF Enqueue, Take
<1>3. ASSUME NEW j \in Jobs, Consume(j)
      PROVE  stage'[i] \in {"taken", "cleared", "running"}
  BY <1>3 DEF Consume, SkipTooOld, SkipBusy, FoundBusy, Clear, Start
<1>4. ASSUME NEW j \in Jobs, Finish(j) \/ Fail(j) \/ Panic(j) \/ Timeout(j)
      PROVE  stage'[i] \in {"taken", "cleared", "running"}
  BY <1>4 DEF Finish, Fail, Panic, Timeout
<1> QED
  BY <1>1, <1>2, <1>3, <1>4 DEF QueueNext

LEMMA StampsStep ==
  TypeOK /\ StampsInThePast /\ [QueueNext]_queueVars => StampsInThePast'
<1> SUFFICES ASSUME TypeOK, StampsInThePast, [QueueNext]_queueVars
             PROVE  StampsInThePast'
  OBVIOUS
<1>a. /\ clock \in Nat
      /\ posted \in [Jobs -> Nat]
      /\ \A j \in Jobs : posted[j] <= clock
      /\ \A k \in DOMAIN dedup : dedup[k].posted \in Nat /\ dedup[k].posted <= clock
  BY QueueAssumption DEF TypeOK, StampsInThePast, DedupValue
<1>1. CASE Tick \/ Restart \/ UNCHANGED queueVars
  BY <1>a, <1>1 DEF Tick, Restart, queueVars, StampsInThePast
<1>2. ASSUME NEW j \in Jobs, Enqueue(j) \/ Take(j) \/ Panic(j) \/ Timeout(j)
      PROVE  StampsInThePast'
  BY <1>a, <1>2 DEF Enqueue, Take, Panic, Timeout, StampsInThePast
<1>3. ASSUME NEW j \in Jobs, SkipTooOld(j) \/ SkipBusy(j) \/ Clear(j)
      PROVE  StampsInThePast'
  BY <1>a, <1>3 DEF SkipTooOld, SkipBusy, FoundBusy, Clear, StampsInThePast
<1>4. ASSUME NEW j \in Jobs, NEW r \in BOOLEAN, clock' = clock, posted' = posted,
             Put(KeyOf[j], [running |-> r, posted |-> clock])
      PROVE  StampsInThePast'
  <2>1. ASSUME NEW k \in DOMAIN dedup' PROVE dedup'[k].posted <= clock
    <3>1. CASE k = KeyOf[j]
      BY <1>a, <1>4, <3>1 DEF Put
    <3>2. CASE k # KeyOf[j]
      <4>1. k \in DOMAIN dedup /\ dedup'[k] = dedup[k]
        BY <1>4, <3>2 DEF Put
      <4> QED
        BY <1>a, <4>1
    <3> QED
      BY <3>1, <3>2
  <2> QED
    BY <1>a, <1>4, <2>1 DEF StampsInThePast
<1>5. ASSUME NEW j \in Jobs, Start(j) \/ Finish(j) PROVE StampsInThePast'
  BY <1>4, <1>5 DEF Start, Finish
<1>6. ASSUME NEW j \in Jobs, Fail(j) PROVE StampsInThePast'
  BY <1>a, <1>6 DEF Fail, Drop, StampsInThePast
<1> QED
  BY <1>1, <1>2, <1>3, <1>5, <1>6 DEF QueueNext, Consume

(* Who holds the mark of a key: a run, or what a panic left of it.         *)
Held == {"running", "panicked"}

LEMMA MarkStep ==
  TypeOK /\ MarkHasHolder /\ RingHoldsQueued /\ [QueueNext]_queueVars
    => MarkHasHolder'
<1> SUFFICES ASSUME TypeOK, MarkHasHolder, RingHoldsQueued,
                    [QueueNext]_queueVars,
                    NEW k \in DOMAIN dedup', dedup'[k].running
             PROVE  \E i \in Jobs : stage'[i] \in Held /\ KeyOf[i] = k
  BY DEF MarkHasHolder, Holders, Held
<1> USE QueueAssumption DEF TypeOK, DedupValue, Held
<1> DEFINE Goal == \E i \in Jobs : stage'[i] \in Held /\ KeyOf[i] = k
<1>1. ASSUME k \in DOMAIN dedup, dedup[k].running
      PROVE  \E i \in Jobs : stage[i] \in Held /\ KeyOf[i] = k
  BY <1>1 DEF MarkHasHolder, Holders, Held
<1>2. CASE Tick \/ Restart \/ UNCHANGED queueVars
  BY <1>1, <1>2 DEF Tick, Restart, queueVars
<1>3. ASSUME NEW j \in Jobs, Enqueue(j) PROVE Goal
  BY <1>1, <1>3 DEF Enqueue
<1>4. ASSUME NEW j \in Jobs, Take(j) PROVE Goal
  <2>1. stage[j] = "queued"
    BY <1>4, TailOfRing DEF Take, RingHoldsQueued
  <2> QED
    BY <1>1, <1>4, <2>1 DEF Take
<1>5. ASSUME NEW j \in Jobs, SkipTooOld(j) \/ SkipBusy(j) \/ Clear(j)
                              \/ Panic(j) \/ Timeout(j)
      PROVE  Goal
  BY <1>1, <1>5 DEF SkipTooOld, SkipBusy, FoundBusy, Clear, Panic, Timeout
<1>6. ASSUME NEW j \in Jobs, Start(j) PROVE Goal
  <2>1. CASE k = KeyOf[j]
    BY <1>6, <2>1 DEF Start
  <2>2. CASE k # KeyOf[j]
    <3>1. k \in DOMAIN dedup /\ dedup[k].running
      BY <1>6, <2>2 DEF Start, Put
    <3>2. PICK i \in Jobs : stage[i] \in Held /\ KeyOf[i] = k
      BY <1>1, <3>1
    <3> QED
      BY <1>6, <3>2 DEF Start
  <2> QED
    BY <2>1, <2>2
<1>7. ASSUME NEW j \in Jobs, Finish(j) PROVE Goal
  <2>1. k # KeyOf[j] /\ k \in DOMAIN dedup /\ dedup[k].running
    BY <1>7 DEF Finish, Put
  <2>2. PICK i \in Jobs : stage[i] \in Held /\ KeyOf[i] = k
    BY <1>1, <2>1
  <2> QED
    BY <1>7, <2>1, <2>2 DEF Finish
<1>8. ASSUME NEW j \in Jobs, Fail(j) PROVE Goal
  <2>1. k # KeyOf[j] /\ k \in DOMAIN dedup /\ dedup[k].running
    BY <1>8 DEF Fail, Drop
  <2>2. PICK i \in Jobs : stage[i] \in Held /\ KeyOf[i] = k
    BY <1>1, <2>1
  <2> QED
    BY <1>8, <2>1, <2>2 DEF Fail
<1> QED
  BY <1>2, <1>3, <1>4, <1>5, <1>6, <1>7, <1>8 DEF QueueNext, Consume

-----------------------------------------------------------------------------
(* What the waiting jobs have seen, and why a skipped job is not missed.   *)

(* The message at the head of the ring is a queued job.                    *)
LEMMA TakesQueued ==
  ASSUME TypeOK, RingHoldsQueued, NEW j \in Jobs, Take(j)
  PROVE  stage[j] = "queued"
BY TailOfRing DEF TypeOK, RingHoldsQueued, Take

(* No step takes a run from what a job has seen, unless it posts the job.  *)
LEMMA SeenGrows ==
  ASSUME TypeOK, [QueueNext]_queueVars, NEW j \in Jobs, stage[j] # "new"
  PROVE  during[j] \cup after[j] \subseteq during'[j] \cup after'[j]
<1> USE DEF TypeOK
<1>1. CASE Tick \/ Restart \/ UNCHANGED queueVars
  BY <1>1 DEF Tick, Restart, queueVars
<1>2. ASSUME NEW i \in Jobs, Enqueue(i)
      PROVE  during[j] \cup after[j] \subseteq during'[j] \cup after'[j]
  BY <1>2 DEF Enqueue
<1>3. ASSUME NEW i \in Jobs, Consume(i)
      PROVE  during[j] \cup after[j] \subseteq during'[j] \cup after'[j]
  BY <1>3 DEF Consume, SkipTooOld, SkipBusy, FoundBusy, Clear, Start
<1>4. ASSUME NEW i \in Jobs, Take(i) \/ Finish(i) \/ Fail(i) \/ Panic(i) \/ Timeout(i)
      PROVE  during[j] \cup after[j] \subseteq during'[j] \cup after'[j]
  BY <1>4 DEF Take, Finish, Fail, Panic, Timeout
<1> QED
  BY <1>1, <1>2, <1>3, <1>4 DEF QueueNext

LEMMA RunsAreSeenStep ==
  TypeOK /\ RingHoldsQueued /\ RunsAreSeen /\ [QueueNext]_queueVars
    => RunsAreSeen'
<1> SUFFICES ASSUME TypeOK, RingHoldsQueued, RunsAreSeen, [QueueNext]_queueVars,
                    NEW i \in Jobs, NEW j \in Jobs,
                    stage'[i] \in Held, stage'[j] \in Waiting, KeyOf[i] = KeyOf[j]
             PROVE  i \in during'[j] \cup after'[j]
  BY DEF RunsAreSeen, Holders, Held
<1>a. stage \in [Jobs -> Stages]
  BY DEF TypeOK
<1>b. ASSUME stage[i] \in Held, stage[j] \in Waiting
      PROVE  i \in during'[j] \cup after'[j]
  <2>1. i \in during[j] \cup after[j]
    BY <1>b DEF RunsAreSeen, Holders, Held
  <2> QED
    BY <1>b, <2>1, SeenGrows
<1>1. CASE Tick \/ Restart \/ UNCHANGED queueVars
  BY <1>a, <1>b, <1>1 DEF Tick, Restart, queueVars, Held
<1>2. ASSUME NEW m \in Jobs, Enqueue(m) PROVE i \in during'[j] \cup after'[j]
  <2>1. stage[i] \in Held
    BY <1>a, <1>2 DEF Enqueue, Held
  <2>2. CASE j = m
    BY <1>2, <2>1, <2>2 DEF Enqueue, Holders, Held, TypeOK
  <2>3. CASE j # m
    BY <1>a, <1>b, <1>2, <2>1, <2>3 DEF Enqueue, Held
  <2> QED
    BY <2>2, <2>3
<1>3. ASSUME NEW m \in Jobs, Take(m) PROVE i \in during'[j] \cup after'[j]
  <2>1. stage[m] = "queued"
    BY <1>3, TakesQueued
  <2> QED
    BY <1>a, <1>b, <1>3, <2>1 DEF Take, Held
<1>4. ASSUME NEW m \in Jobs, SkipTooOld(m) \/ SkipBusy(m) \/ Clear(m)
      PROVE  i \in during'[j] \cup after'[j]
  BY <1>a, <1>b, <1>4 DEF SkipTooOld, SkipBusy, FoundBusy, Clear, Held
<1>5. ASSUME NEW m \in Jobs, Start(m) PROVE i \in during'[j] \cup after'[j]
  <2>1. stage[j] \in Waiting /\ j # m
    BY <1>a, <1>5 DEF Start, Held
  <2>2. CASE i = m
    BY <1>5, <2>1, <2>2 DEF Start, TypeOK
  <2>3. CASE i # m
    BY <1>a, <1>b, <1>5, <2>1, <2>3 DEF Start, Held
  <2> QED
    BY <2>2, <2>3
<1>6. ASSUME NEW m \in Jobs, Finish(m) \/ Fail(m) \/ Panic(m) \/ Timeout(m)
      PROVE  i \in during'[j] \cup after'[j]
  BY <1>a, <1>b, <1>6 DEF Finish, Fail, Panic, Timeout, Held
<1> QED
  BY <1>1, <1>2, <1>3, <1>4, <1>5, <1>6 DEF QueueNext, Consume

(* A waiting job whose key has an entry with a later stamp has seen a run: *)
(* only Start and Finish stamp an entry, and at that moment the job had    *)
(* already been posted.                                                    *)
LEMMA LaterStampStep ==
  TypeOK /\ RingHoldsQueued /\ StampsInThePast /\ RunsAreSeen /\ LaterStampIsSeen
    /\ [QueueNext]_queueVars => LaterStampIsSeen'
<1> SUFFICES ASSUME TypeOK, RingHoldsQueued, StampsInThePast, RunsAreSeen,
                    LaterStampIsSeen, [QueueNext]_queueVars,
                    NEW j \in Jobs, stage'[j] \in Waiting,
                    KeyOf[j] \in DOMAIN dedup',
                    posted'[j] < dedup'[KeyOf[j]].posted
             PROVE  during'[j] \cup after'[j] # {}
  BY DEF LaterStampIsSeen, Known, PostedBeforeEntry
<1>a. /\ stage \in [Jobs -> Stages]
      /\ posted \in [Jobs -> Nat]
      /\ clock \in Nat
  BY QueueAssumption DEF TypeOK
<1>b. ASSUME stage[j] \in Waiting, KeyOf[j] \in DOMAIN dedup,
             dedup'[KeyOf[j]] = dedup[KeyOf[j]], posted' = posted
      PROVE  during'[j] \cup after'[j] # {}
  <2>1. during[j] \cup after[j] # {}
    BY <1>b DEF LaterStampIsSeen, Known, PostedBeforeEntry
  <2> QED
    BY <1>b, <2>1, SeenGrows
<1>1. CASE Tick \/ Restart \/ UNCHANGED queueVars
  BY <1>a, <1>b, <1>1 DEF Tick, Restart, queueVars
<1>2. ASSUME NEW m \in Jobs, Enqueue(m) PROVE during'[j] \cup after'[j] # {}
  <2>1. CASE j = m
    <3>1. dedup[KeyOf[j]].posted \in Nat /\ dedup[KeyOf[j]].posted <= clock
      BY <1>2 DEF Enqueue, StampsInThePast, TypeOK, DedupValue
    <3> QED
      BY <1>a, <1>2, <2>1, <3>1 DEF Enqueue
  <2>2. CASE j # m
    <3>1. posted[j] < dedup[KeyOf[j]].posted /\ stage[j] \in Waiting
      BY <1>a, <1>2, <2>2 DEF Enqueue
    <3>2. during[j] \cup after[j] # {}
      BY <1>2, <3>1 DEF LaterStampIsSeen, Known, PostedBeforeEntry, Enqueue
    <3> QED
      BY <3>1, <3>2, SeenGrows
  <2> QED
    BY <2>1, <2>2
<1>3. ASSUME NEW m \in Jobs, Take(m) PROVE during'[j] \cup after'[j] # {}
  <2>1. stage[m] = "queued"
    BY <1>3, TakesQueued
  <2> QED
    BY <1>a, <1>b, <1>3, <2>1 DEF Take
<1>4. ASSUME NEW m \in Jobs, SkipTooOld(m) \/ SkipBusy(m) \/ Clear(m)
                              \/ Panic(m) \/ Timeout(m)
      PROVE  during'[j] \cup after'[j] # {}
  BY <1>a, <1>b, <1>4 DEF SkipTooOld, SkipBusy, FoundBusy, Clear, Panic, Timeout
<1>5. ASSUME NEW m \in Jobs, Start(m) PROVE during'[j] \cup after'[j] # {}
  <2>1. stage[j] \in Waiting /\ j # m
    BY <1>a, <1>5 DEF Start
  <2>2. CASE KeyOf[j] = KeyOf[m]
    BY <1>5, <2>1, <2>2 DEF Start, TypeOK
  <2>3. CASE KeyOf[j] # KeyOf[m]
    BY <1>b, <1>5, <2>1, <2>3 DEF Start, Put
  <2> QED
    BY <2>2, <2>3
<1>6. ASSUME NEW m \in Jobs, Finish(m) PROVE during'[j] \cup after'[j] # {}
  <2>1. stage[j] \in Waiting
    BY <1>a, <1>6 DEF Finish
  <2>2. CASE KeyOf[j] = KeyOf[m]
    <3>1. m \in during[j] \cup after[j]
      BY <1>6, <2>1, <2>2 DEF Finish, RunsAreSeen, Holders
    <3> QED
      BY <2>1, <3>1, SeenGrows
  <2>3. CASE KeyOf[j] # KeyOf[m]
    BY <1>b, <1>6, <2>1, <2>3 DEF Finish, Put
  <2> QED
    BY <2>2, <2>3
<1>7. ASSUME NEW m \in Jobs, Fail(m) PROVE during'[j] \cup after'[j] # {}
  <2>1. stage[j] \in Waiting
    BY <1>a, <1>7 DEF Fail
  <2> QED
    BY <1>b, <1>7, <2>1 DEF Fail, Drop
<1> QED
  BY <1>1, <1>2, <1>3, <1>4, <1>5, <1>6, <1>7 DEF QueueNext, Consume

(* The two skips find a run that the job has seen.                         *)
LEMMA SkipFindsRun ==
  ASSUME MarkHasHolder, RunsAreSeen, LaterStampIsSeen,
         NEW j \in Jobs, SkipTooOld(j) \/ SkipBusy(j)
  PROVE  during[j] \cup after[j] # {}
<1>1. CASE SkipTooOld(j)
  BY <1>1 DEF SkipTooOld, LaterStampIsSeen
<1>2. CASE SkipBusy(j)
  <2>1. PICK i \in Jobs : i \in Holders(KeyOf[j])
    BY <1>2 DEF SkipBusy, FoundBusy, Known, MarkHasHolder, Holders
  <2>2. i \in during[j] \cup after[j]
    BY <1>2, <2>1 DEF SkipBusy, FoundBusy, RunsAreSeen
  <2> QED
    BY <2>2
<1> QED
  BY <1>1, <1>2

LEMMA SkipJustifiedStep ==
  TypeOK /\ RingHoldsQueued /\ MarkHasHolder /\ RunsAreSeen /\ LaterStampIsSeen
    /\ SkipJustified /\ [QueueNext]_queueVars => SkipJustified'
<1> SUFFICES ASSUME TypeOK, RingHoldsQueued, MarkHasHolder, RunsAreSeen,
                    LaterStampIsSeen, SkipJustified, [QueueNext]_queueVars,
                    NEW j \in Jobs, stage'[j] \in Skipped
             PROVE  during'[j] \cup after'[j] # {}
  BY DEF SkipJustified
<1>a. stage \in [Jobs -> Stages]
  BY DEF TypeOK
<1>b. ASSUME stage[j] \in Skipped PROVE during'[j] \cup after'[j] # {}
  BY <1>b, SeenGrows DEF SkipJustified
<1>1. CASE Tick \/ Restart \/ UNCHANGED queueVars
  BY <1>a, <1>b, <1>1 DEF Tick, Restart, queueVars
<1>2. ASSUME NEW m \in Jobs, Enqueue(m) \/ Take(m) \/ Clear(m) \/ Start(m)
                              \/ Finish(m) \/ Fail(m) \/ Panic(m) \/ Timeout(m)
      PROVE  during'[j] \cup after'[j] # {}
  BY <1>a, <1>b, <1>2 DEF Enqueue, Take, Clear, Start, Finish, Fail, Panic, Timeout
<1>3. ASSUME NEW m \in Jobs, SkipTooOld(m) \/ SkipBusy(m)
      PROVE  during'[j] \cup after'[j] # {}
  <2>1. CASE j = m
    <3>1. during[j] \cup after[j] # {}
      BY <1>3, <2>1, SkipFindsRun
    <3> QED
      BY <1>3, <2>1, <3>1 DEF SkipTooOld, SkipBusy, FoundBusy
  <2>2. CASE j # m
    BY <1>a, <1>b, <1>3, <2>2 DEF SkipTooOld, SkipBusy, FoundBusy
  <2> QED
    BY <2>1, <2>2
<1> QED
  BY <1>1, <1>2, <1>3 DEF QueueNext, Consume

-----------------------------------------------------------------------------
(* A job that has not been posted has seen nothing yet.                    *)
NewUnseen == \A j \in Jobs : stage[j] = "new" => after[j] = {}

LEMMA NewUnseenStep ==
  TypeOK /\ NewUnseen /\ [QueueNext]_queueVars => NewUnseen'
<1> SUFFICES ASSUME TypeOK, NewUnseen, [QueueNext]_queueVars,
                    NEW j \in Jobs, stage'[j] = "new"
             PROVE  after'[j] = {}
  BY DEF NewUnseen
<1>a. /\ stage \in [Jobs -> Stages]
      /\ stage[j] = "new" => after[j] = {}
  BY DEF TypeOK, NewUnseen
<1>1. CASE Tick \/ Restart \/ UNCHANGED queueVars
  BY <1>a, <1>1 DEF Tick, Restart, queueVars
<1>2. ASSUME NEW m \in Jobs, Enqueue(m) \/ Take(m) \/ Consume(m)
      PROVE  after'[j] = {}
  BY <1>a, <1>2 DEF Enqueue, Take, Consume, SkipTooOld, SkipBusy, FoundBusy, Clear, Start
<1>3. ASSUME NEW m \in Jobs, Finish(m) \/ Fail(m) \/ Panic(m) \/ Timeout(m)
      PROVE  after'[j] = {}
  BY <1>a, <1>3 DEF Finish, Fail, Panic, Timeout
<1> QED
  BY <1>1, <1>2, <1>3 DEF QueueNext

-----------------------------------------------------------------------------
(* One job of a key past the check, unless two found it free.              *)

(* A run of an unraced key ends while no other job of it is past the       *)
(* check, so that no mark is taken from under another run.                 *)
LEMMA OneUnlessRacedStep ==
  TypeOK /\ RingHoldsQueued /\ OneUnlessRaced /\ [QueueNext]_queueVars => OneUnlessRaced'
<1> SUFFICES ASSUME TypeOK, RingHoldsQueued, OneUnlessRaced, [QueueNext]_queueVars,
                    NEW i \in Jobs, NEW j \in Jobs,
                    stage'[i] \in {"cleared", "running"}, KeyOf[i] \notin raced'
             PROVE  /\ stage'[j] \in {"cleared", "running"} /\ KeyOf[i] = KeyOf[j]
                         => i = j
                    /\ stage'[i] = "running"
                         => KeyOf[i] \in DOMAIN dedup' /\ dedup'[KeyOf[i]].running
  BY DEF OneUnlessRaced, Known
<1> DEFINE Past == {"cleared", "running"}
           Goal == /\ stage'[j] \in Past /\ KeyOf[i] = KeyOf[j] => i = j
                   /\ stage'[i] = "running"
                        => KeyOf[i] \in DOMAIN dedup' /\ dedup'[KeyOf[i]].running
<1>a. /\ stage \in [Jobs -> Stages]
      /\ KeyOf \in [Jobs -> Keys]
  BY QueueAssumption DEF TypeOK
<1>b. ASSUME stage[i] \in Past, KeyOf[i] \notin raced
      PROVE  /\ \A m \in Jobs : stage[m] \in Past /\ KeyOf[i] = KeyOf[m] => i = m
             /\ stage[i] = "running" => KeyOf[i] \in DOMAIN dedup /\ dedup[KeyOf[i]].running
  BY <1>b DEF OneUnlessRaced, Known
<1>c. ASSUME \A m \in Jobs : stage'[m] \in Past => stage'[m] = stage[m],
             dedup' = dedup, raced' = raced
      PROVE  Goal
  BY <1>b, <1>c
<1>1. CASE Tick \/ UNCHANGED queueVars
  BY <1>c, <1>1 DEF Tick, queueVars
<1>2. CASE Restart
  BY <1>a, <1>2 DEF Restart
<1>3. ASSUME NEW m \in Jobs, Enqueue(m) \/ SkipTooOld(m) \/ SkipBusy(m) \/ Panic(m)
                              \/ Timeout(m)
      PROVE  Goal
  BY <1>a, <1>c, <1>3 DEF Enqueue, SkipTooOld, SkipBusy, FoundBusy, Panic, Timeout
<1>4. ASSUME NEW m \in Jobs, Take(m) PROVE Goal
  <2>1. stage[m] = "queued"
    BY <1>4, TakesQueued
  <2> QED
    BY <1>a, <1>c, <1>4, <2>1 DEF Take
<1>5. ASSUME NEW m \in Jobs, Clear(m) PROVE Goal
  <2>1. /\ KeyOf[i] \notin raced
        /\ stage' = [stage EXCEPT ![m] = "cleared"] /\ dedup' = dedup
        /\ KeyOf[m] \in DOMAIN dedup => ~ dedup[KeyOf[m]].running
    BY <1>5 DEF Clear, NoteRace, Known
  <2>2. ASSUME KeyOf[i] = KeyOf[m], NEW n \in Jobs \ {m}, KeyOf[n] = KeyOf[m]
        PROVE  stage[n] \notin Past
    <3>1. stage[n] # "cleared"
      BY <1>5, <2>2 DEF Clear, NoteRace
    <3>2. stage[n] # "running"
      BY <2>1, <2>2 DEF OneUnlessRaced, Known
    <3> QED
      BY <3>1, <3>2
  <2>3. CASE KeyOf[i] = KeyOf[m]
    BY <1>a, <2>1, <2>2, <2>3
  <2>4. CASE KeyOf[i] # KeyOf[m]
    BY <1>a, <1>b, <2>1, <2>4
  <2> QED
    BY <2>3, <2>4
<1>6. ASSUME NEW m \in Jobs, Start(m) PROVE Goal
  <2>1. /\ KeyOf[i] \notin raced /\ stage[m] = "cleared"
        /\ stage' = [stage EXCEPT ![m] = "running"]
    BY <1>6 DEF Start
  <2>2. stage[i] \in Past
    BY <1>a, <2>1
  <2>3. KeyOf[i] = KeyOf[m] => i = m
    BY <1>b, <2>1, <2>2
  <2>4. CASE i = m
    BY <1>a, <1>b, <1>6, <2>1, <2>2, <2>4 DEF Start, Put
  <2>5. CASE KeyOf[i] # KeyOf[m]
    BY <1>a, <1>b, <1>6, <2>1, <2>2, <2>5 DEF Start, Put
  <2> QED
    BY <2>3, <2>4, <2>5
<1>7. ASSUME NEW m \in Jobs, Finish(m) \/ Fail(m) PROVE Goal
  <2>1. /\ KeyOf[i] \notin raced /\ stage[m] = "running" /\ i # m
        /\ \A n \in Jobs : stage'[n] \in Past => stage'[n] = stage[n]
    BY <1>a, <1>7 DEF Finish, Fail
  <2>2. KeyOf[i] # KeyOf[m]
    BY <1>b, <2>1
  <2>3. KeyOf[i] \in DOMAIN dedup
          => KeyOf[i] \in DOMAIN dedup' /\ dedup'[KeyOf[i]] = dedup[KeyOf[i]]
    BY <1>7, <2>2 DEF Finish, Fail, Put, Drop
  <2> QED
    BY <1>b, <2>1, <2>3
<1> QED
  BY <1>1, <1>2, <1>3, <1>4, <1>5, <1>6, <1>7 DEF QueueNext, Consume

(* The inductive invariant.  MarkHasHolder and SkipJustified are not       *)
(* inductive alone: that a skip is justified rests on what waiting jobs    *)
(* have seen (RunsAreSeen, LaterStampIsSeen), and that in turn on Enqueue  *)
(* stamping a job no earlier than any entry (StampsInThePast) and on the   *)
(* pool handing out only queued jobs (RingHoldsQueued).  OverlapOnlyByRace *)
(* needs to know of the jobs between the check and the mark too            *)
(* (OneUnlessRaced).                                                       *)
QueueInv ==
  /\ TypeOK /\ RingHoldsQueued /\ SlotsInProgress /\ StampsInThePast
  /\ MarkHasHolder /\ RunsAreSeen /\ LaterStampIsSeen /\ SkipJustified
  /\ NewUnseen /\ OneUnlessRaced

LEMMA InvInit == QueueInit => QueueInv
<1> SUFFICES ASSUME QueueInit PROVE QueueInv
  OBVIOUS
<1>1. TypeOK /\ RingHoldsQueued
  BY TypeInit, RingInit
<1>2. SlotsInProgress
  BY DEF QueueInit, SlotsInProgress
<1>3. StampsInThePast
  BY DEF QueueInit, StampsInThePast
<1>4. MarkHasHolder
  BY DEF QueueInit, MarkHasHolder
<1>5. \A j \in Jobs : stage[j] = "new"
  BY DEF QueueInit
<1>6. RunsAreSeen /\ LaterStampIsSeen /\ SkipJustified
  BY <1>5 DEF RunsAreSeen, LaterStampIsSeen, SkipJustified
<1>7. NewUnseen
  BY DEF QueueInit, NewUnseen
<1>8. OneUnlessRaced
  BY <1>5 DEF OneUnlessRaced
<1> QED
  BY <1>1, <1>2, <1>3, <1>4, <1>6, <1>7, <1>8 DEF QueueInv

LEMMA InvStep == QueueInv /\ [QueueNext]_queueVars => QueueInv'
BY TypeStep, RingStep, SlotsStep, StampsStep, MarkStep, RunsAreSeenStep,
   LaterStampStep, SkipJustifiedStep, NewUnseenStep, OneUnlessRacedStep
   DEF QueueInv

LEMMA InvHolds == QueueSpec => []QueueInv
BY InvInit, InvStep, PTL DEF QueueSpec

(* A mark Running has a run in progress behind it, or one that panicked in *)
(* this process: returning runners, in whatever order, leave none behind.  *)
THEOREM MarkCorrect == QueueSpec => []MarkHasHolder
<1>1. QueueInv => MarkHasHolder
  BY DEF QueueInv
<1> QED
  BY InvHolds, <1>1, PTL

(* Two runs of a key are in progress together only if two jobs of it found *)
(* the key free before either had marked it.                               *)
THEOREM OverlapCorrect == QueueSpec => []OverlapOnlyByRace
<1>1. QueueInv => OverlapOnlyByRace
  BY DEF QueueInv, OneUnlessRaced, OverlapOnlyByRace
<1> QED
  BY InvHolds, <1>1, PTL

(* A key whose run panicked stays dead until the process exits.            *)
THEOREM DeadCorrect == QueueSpec => DeadKeyStaysDead
<1>1. ASSUME QueueInv, QueueNext, NEW k \in Keys, Dead(k), ~ Restart PROVE Dead(k)'
  <2>a. /\ TypeOK /\ RingHoldsQueued
        /\ stage \in [Jobs -> Stages]
        /\ k \in DOMAIN dedup /\ dedup[k].running
        /\ \A j \in Jobs : KeyOf[j] = k => stage[j] \notin {"cleared", "running"}
    BY <1>1 DEF QueueInv, TypeOK, Dead
  <2>b. ASSUME k \in DOMAIN dedup', dedup'[k] = dedup[k],
               \A j \in Jobs : KeyOf[j] = k => stage'[j] \notin {"cleared", "running"}
        PROVE  Dead(k)'
    BY <2>a, <2>b DEF Dead
  <2>1. CASE Tick
    BY <2>a, <2>b, <2>1 DEF Tick
  <2>2. ASSUME NEW j \in Jobs, Enqueue(j) \/ SkipTooOld(j) \/ SkipBusy(j) \/ Panic(j)
                                \/ Timeout(j)
        PROVE  Dead(k)'
    BY <2>a, <2>b, <2>2 DEF Enqueue, SkipTooOld, SkipBusy, FoundBusy, Panic, Timeout
  <2>3. ASSUME NEW j \in Jobs, Take(j) PROVE Dead(k)'
    BY <2>a, <2>b, <2>3, TakesQueued DEF Take
  <2>4. ASSUME NEW j \in Jobs, Clear(j) PROVE Dead(k)'
    <3>1. KeyOf[j] # k
      BY <2>a, <2>4 DEF Clear, Known
    <3> QED
      BY <2>a, <2>b, <2>4, <3>1 DEF Clear
  <2>5. ASSUME NEW j \in Jobs, Start(j) \/ Finish(j) \/ Fail(j) PROVE Dead(k)'
    <3>1. KeyOf[j] # k
      BY <2>a, <2>5 DEF Start, Finish, Fail
    <3>2. k \in DOMAIN dedup' /\ dedup'[k] = dedup[k]
      BY <2>a, <2>5, <3>1 DEF Start, Finish, Fail, Put, Drop
    <3> QED
      BY <2>a, <2>b, <2>5, <3>1, <3>2 DEF Start, Finish, Fail
  <2> QED
    BY <1>1, <2>1, <2>2, <2>3, <2>4, <2>5 DEF QueueNext, Consume
<1>2. QueueInv /\ [QueueNext]_queueVars
        => [\A k \in Keys : Dead(k) => Dead(k)' \/ Restart]_queueVars
  BY <1>1
<1> QED
  BY <1>2, InvHolds, PTL DEF QueueSpec, DeadKeyStaysDead

(* A job is skipped only if, at some moment after it was posted, a run of  *)
(* its key was in progress or lay panicked in the same process.            *)
THEOREM SkipCorrect == QueueSpec => []SkipJustified
<1>1. QueueInv => SkipJustified
  BY DEF QueueInv
<1> QED
  BY InvHolds, <1>1, PTL

(* The consumer, the pool or its time limit can take a step: the guards of *)
(* Take, of Consume and of Timeout, the actions QueueFairness is about.    *)
QueueCanMove ==
  \/ fifo # <<>> /\ Cardinality(slots) < PoolSize
  \/ \E j \in Jobs : stage[j] \in {"taken", "cleared"}
  \/ \E j \in slots : stage[j] = "running"

(* While a job waits, the queue is not blocked, although no runner need    *)
(* ever return: the safety half of EveryJobDecided.                        *)
THEOREM QueueNeverStuck ==
  QueueSpec => []((\E j \in Jobs : stage[j] \in Waiting) => QueueCanMove)
<1>1. ASSUME QueueInv, NEW j \in Jobs, stage[j] \in Waiting PROVE QueueCanMove
  <2>1. CASE stage[j] \in {"taken", "cleared"}
    BY <2>1 DEF QueueCanMove
  <2>2. CASE stage[j] = "queued"
    <3>1. fifo # <<>>
      BY <1>1, <2>2 DEF QueueInv, TypeOK, RingHoldsQueued
    <3>2. CASE slots = {}
      BY <3>1, <3>2, FS_EmptySet, QueueAssumption DEF QueueCanMove
    <3>3. CASE slots # {}
      <4>1. PICK i \in slots : stage[i] \in {"taken", "cleared", "running"}
        BY <1>1, <3>3 DEF QueueInv, SlotsInProgress
      <4>2. i \in Jobs
        BY <1>1, <4>1 DEF QueueInv, TypeOK
      <4> QED
        BY <4>1, <4>2 DEF QueueCanMove
    <3> QED
      BY <3>2, <3>3
  <2> QED
    BY <1>1, <2>1, <2>2 DEF Waiting
<1>2. QueueInv => ((\E j \in Jobs : stage[j] \in Waiting) => QueueCanMove)
  BY <1>1
<1> QED
  BY <1>2, InvHolds, PTL

-----------------------------------------------------------------------------
(* Refinement: every step of the queue is a step of JobLedger, or none.    *)

LEMMA LedgerInitOK == QueueInit => Ledger!LedgerInit
BY DEF QueueInit, Ledger!LedgerInit, LedgerStatus

(* A step that moves one job, and what it does to the job's status.        *)
LEMMA StatusMoves ==
  ASSUME TypeOK, NEW j \in Jobs, NEW s \in Stages,
         stage' = [stage EXCEPT ![j] = s]
  PROVE  \A i \in Jobs : i # j => LedgerStatus(i)' = LedgerStatus(i)
BY DEF TypeOK, LedgerStatus

LEMMA LedgerStep ==
  QueueInv /\ [QueueNext]_queueVars => [Ledger!LedgerNext]_(Ledger!ledgerVars)
<1> SUFFICES ASSUME QueueInv, [QueueNext]_queueVars
             PROVE  [Ledger!LedgerNext]_(Ledger!ledgerVars)
  OBVIOUS
<1>a. /\ TypeOK
      /\ stage \in [Jobs -> Stages]
      /\ during \in [Jobs -> SUBSET Jobs]
      /\ after \in [Jobs -> SUBSET Jobs]
  BY DEF QueueInv, TypeOK
<1>b. ASSUME \A i \in Jobs : LedgerStatus(i)' = LedgerStatus(i),
             during' = during, after' = after
      PROVE  UNCHANGED Ledger!ledgerVars
  BY <1>b DEF Ledger!ledgerVars
<1>1. CASE Tick \/ UNCHANGED queueVars
  <2>1. stage' = stage /\ during' = during /\ after' = after
    BY <1>1 DEF Tick, queueVars
  <2>2. \A i \in Jobs : LedgerStatus(i)' = LedgerStatus(i)
    BY <2>1 DEF LedgerStatus
  <2> QED
    BY <1>b, <2>1, <2>2
<1>2. CASE Restart
  <2>1. during' = during /\ after' = after
    BY <1>2 DEF Restart
  <2>2. \A i \in Jobs :
          LedgerStatus(i)' = IF LedgerStatus(i) \in {"waiting", "live", "dead"}
                               THEN "lost" ELSE LedgerStatus(i)
    BY <1>a, <1>2 DEF Restart, LedgerStatus, Stages
  <2>3. Ledger!ProcessExit
    BY <2>1, <2>2 DEF Ledger!ProcessExit
  <2> QED
    BY <2>3 DEF Ledger!LedgerNext
<1>3. ASSUME NEW j \in Jobs, Enqueue(j) PROVE Ledger!Post(j)
  <2>1. \A i \in Jobs : LedgerStatus(i)' = IF i = j THEN "waiting" ELSE LedgerStatus(i)
    BY <1>a, <1>3, StatusMoves DEF Enqueue, LedgerStatus, Stages
  <2>2. LedgerStatus(j) = "new"
    BY <1>3 DEF Enqueue, LedgerStatus
  <2>3. Holders(KeyOf[j]) =
          {i \in Jobs : LedgerStatus(i) \in {"live", "dead"} /\ KeyOf[i] = KeyOf[j]}
    BY <1>a DEF Holders, LedgerStatus, Stages
  <2>4. after[j] = {}
    BY <1>3 DEF Enqueue, QueueInv, NewUnseen
  <2> QED
    BY <1>a, <1>3, <2>1, <2>2, <2>3, <2>4 DEF Enqueue, Ledger!Post
<1>4. ASSUME NEW j \in Jobs, Take(j) PROVE UNCHANGED Ledger!ledgerVars
  <2>1. stage[j] = "queued"
    BY <1>4, TakesQueued DEF QueueInv
  <2>2. LedgerStatus(j)' = LedgerStatus(j)
    BY <1>a, <1>4, <2>1 DEF Take, LedgerStatus
  <2> QED
    BY <1>a, <1>b, <1>4, <2>2, StatusMoves DEF Take, Stages
<1>5. ASSUME NEW j \in Jobs, Clear(j) PROVE UNCHANGED Ledger!ledgerVars
  <2>1. LedgerStatus(j)' = LedgerStatus(j)
    BY <1>a, <1>5 DEF Clear, LedgerStatus
  <2> QED
    BY <1>a, <1>b, <1>5, <2>1, StatusMoves DEF Clear, Stages
<1>6. ASSUME NEW j \in Jobs, SkipTooOld(j) \/ SkipBusy(j) PROVE Ledger!Coalesce(j)
  <2>1. during[j] \cup after[j] # {}
    BY <1>6, SkipFindsRun DEF QueueInv
  <2>2. \A i \in Jobs : LedgerStatus(i)' = IF i = j THEN "coalesced" ELSE LedgerStatus(i)
    <3>1. LedgerStatus(j)' = "coalesced"
      BY <1>a, <1>6 DEF SkipTooOld, SkipBusy, FoundBusy, LedgerStatus
    <3>2. \A i \in Jobs : i # j => LedgerStatus(i)' = LedgerStatus(i)
      BY <1>a, <1>6, StatusMoves DEF SkipTooOld, SkipBusy, FoundBusy, Stages
    <3> QED
      BY <3>1, <3>2
  <2>3. LedgerStatus(j) = "waiting"
    BY <1>6 DEF SkipTooOld, SkipBusy, FoundBusy, LedgerStatus
  <2>4. during' = during /\ after' = after
    BY <1>6 DEF SkipTooOld, SkipBusy, FoundBusy
  <2> QED
    BY <2>1, <2>2, <2>3, <2>4 DEF Ledger!Coalesce
<1>7. ASSUME NEW j \in Jobs, Start(j) PROVE Ledger!Begin(j)
  <2>1. \A i \in Jobs : LedgerStatus(i)' = IF i = j THEN "live" ELSE LedgerStatus(i)
    BY <1>a, <1>7, StatusMoves DEF Start, LedgerStatus, Stages
  <2>2. LedgerStatus(j) = "waiting"
    BY <1>7 DEF Start, LedgerStatus
  <2>3. \A i \in Jobs : LedgerStatus(i) = "waiting" <=> stage[i] \in Waiting
    BY <1>a DEF LedgerStatus, Stages
  <2>4. \A i \in Jobs :
          during'[i] \cup after'[i] =
            IF LedgerStatus(i) = "waiting" /\ i # j /\ KeyOf[i] = KeyOf[j]
              THEN (during[i] \cup after[i]) \cup {j} ELSE during[i] \cup after[i]
    BY <1>a, <1>7, <2>3 DEF Start
  <2> QED
    BY <2>1, <2>2, <2>4 DEF Ledger!Begin
<1>8. ASSUME NEW j \in Jobs, Finish(j) \/ Fail(j) PROVE Ledger!End(j)
  <2>1. \A i \in Jobs : LedgerStatus(i)' = IF i = j THEN "ended" ELSE LedgerStatus(i)
    BY <1>a, <1>8, StatusMoves DEF Finish, Fail, LedgerStatus, Stages
  <2>2. LedgerStatus(j) = "live"
    BY <1>8 DEF Finish, Fail, LedgerStatus
  <2>3. during' = during /\ after' = after
    BY <1>8 DEF Finish, Fail
  <2> QED
    BY <2>1, <2>2, <2>3 DEF Ledger!End
<1>9. ASSUME NEW j \in Jobs, Timeout(j) PROVE UNCHANGED Ledger!ledgerVars
  <2>1. stage' = stage /\ during' = during /\ after' = after
    BY <1>9 DEF Timeout
  <2>2. \A i \in Jobs : LedgerStatus(i)' = LedgerStatus(i)
    BY <2>1 DEF LedgerStatus
  <2> QED
    BY <1>b, <2>1, <2>2
<1>10. ASSUME NEW j \in Jobs, Panic(j) PROVE Ledger!Die(j)
  <2>1. \A i \in Jobs : LedgerStatus(i)' = IF i = j THEN "dead" ELSE LedgerStatus(i)
    BY <1>a, <1>10, StatusMoves DEF Panic, LedgerStatus, Stages
  <2>2. LedgerStatus(j) = "live"
    BY <1>10 DEF Panic, LedgerStatus
  <2>3. during' = during /\ after' = after
    BY <1>10 DEF Panic
  <2> QED
    BY <2>1, <2>2, <2>3 DEF Ledger!Die
<1> QED
  BY <1>1, <1>2, <1>3, <1>4, <1>5, <1>6, <1>7, <1>8, <1>9, <1>10
     DEF QueueNext, Consume, Ledger!LedgerNext

(* The queue of database/queue.go, with its clock, its pool, its           *)
(* deduplication store and its panicking runners, implements JobLedger.    *)
THEOREM QueueKeepsLedger == QueueSpec => KeepsLedger
<1>1. QueueInit => Ledger!LedgerInit
  BY LedgerInitOK
<1>2. QueueInv /\ [QueueNext]_queueVars => [Ledger!LedgerNext]_(Ledger!ledgerVars)
  BY LedgerStep
<1> QED
  BY <1>1, <1>2, InvHolds, PTL DEF QueueSpec, KeepsLedger, Ledger!LedgerSpec

(***************************************************************************)
(* The listings that are refreshed through the queue.                      *)
(***************************************************************************)
-----------------------------------------------------------------------------
(* The queue inside: what is proved of DedupQueue holds here too.          *)

LEMMA RefreshMovesQueue == [RefreshNext]_allVars => [QueueNext]_queueVars
<1> SUFFICES ASSUME [RefreshNext]_allVars PROVE [QueueNext]_queueVars
  OBVIOUS
<1>1. ASSUME NEW k \in Keys, Push(k) \/ DeleteLast(k) \/ HookLost(k) PROVE UNCHANGED queueVars
  BY <1>1 DEF Push, DeleteLast, HookLost
<1>2. ASSUME NEW j \in Jobs, HookArrives(j) \/ RequestUnknown(j) PROVE QueueNext
  BY <1>2 DEF HookArrives, RequestUnknown, QueueNext
<1>3. ASSUME NEW j \in Jobs, QueueMoves(j) PROVE QueueNext
  BY <1>3 DEF QueueMoves, QueueNext, Consume
<1>4. ASSUME NEW j \in Jobs, StartRun(j) \/ FinishRun(j) \/ FailRun(j)
      PROVE  QueueNext
  BY <1>4 DEF StartRun, FinishRun, FailRun, QueueNext, Consume
<1>5. ASSUME NEW j \in Jobs,
             \/ ListVersions(j) \/ ListNothing(j) \/ ListFails(j)
             \/ StoreListing(j) \/ StoreFails(j)
      PROVE  UNCHANGED queueVars
  BY <1>5 DEF ListVersions, ListNothing, ListFails, StoreListing, StoreFails
<1>6. CASE RestartServer
  BY <1>6 DEF RestartServer, QueueNext
<1>7. CASE UNCHANGED allVars
  BY <1>7 DEF allVars
<1> QED
  BY <1>1, <1>2, <1>3, <1>4, <1>5, <1>6, <1>7 DEF RefreshNext

(* The listings use the queue as the queue's own specification allows.     *)
THEOREM RefreshUsesQueue == RefreshSpec => QueueSpec
<1>1. RefreshInit => QueueInit
  BY DEF RefreshInit
<1> QED
  BY <1>1, RefreshMovesQueue, PTL DEF RefreshSpec, QueueSpec

(* The listings so have the promise of JobLedger: each of their jobs is    *)
(* run, or coalesced into a run of its repository that it has met.         *)
THEOREM RefreshKeepsLedger == RefreshSpec => KeepsLedger
BY RefreshUsesQueue, QueueKeepsLedger, PTL

LEMMA QueueInvHolds == RefreshSpec => []QueueInv
BY RefreshUsesQueue, InvHolds, PTL

-----------------------------------------------------------------------------
(* Type correctness.                                                       *)

LEMMA RefreshTypeInit == RefreshInit => RefreshTypeOK
BY RefreshAssumption DEF RefreshInit, RefreshTypeOK, RunPhases

LEMMA RefreshTypeStep ==
  TypeOK /\ RefreshTypeOK /\ [RefreshNext]_allVars => RefreshTypeOK'
<1> SUFFICES ASSUME TypeOK, RefreshTypeOK, [RefreshNext]_allVars
             PROVE  RefreshTypeOK'
  OBVIOUS
<1> USE QueueAssumption, RefreshAssumption DEF RefreshTypeOK, RunPhases
<1>1. ASSUME NEW k \in Keys, Push(k) \/ DeleteLast(k) \/ HookLost(k) PROVE RefreshTypeOK'
  BY <1>1 DEF Push, DeleteLast, HookLost
<1>2. ASSUME NEW j \in Jobs, HookArrives(j) \/ RequestUnknown(j) \/ QueueMoves(j)
      PROVE  RefreshTypeOK'
  BY <1>2 DEF HookArrives, RequestUnknown, QueueMoves, refreshVars
<1>3. ASSUME NEW j \in Jobs, StartRun(j) \/ FinishRun(j) \/ FailRun(j)
      PROVE  RefreshTypeOK'
  BY <1>3 DEF StartRun, FinishRun, FailRun
<1>4. ASSUME NEW j \in Jobs, ListVersions(j) \/ ListNothing(j) \/ ListFails(j)
      PROVE  RefreshTypeOK'
  BY <1>4 DEF ListVersions, ListNothing, ListFails
<1>5. ASSUME NEW j \in Jobs, StoreListing(j) \/ StoreFails(j) PROVE RefreshTypeOK'
  BY <1>5 DEF StoreListing, StoreFails
<1>6. CASE RestartServer
  BY <1>6 DEF RestartServer
<1>7. CASE UNCHANGED allVars
  BY <1>7 DEF allVars, refreshVars
<1> QED
  BY <1>1, <1>2, <1>3, <1>4, <1>5, <1>6, <1>7 DEF RefreshNext

(* Every reachable state of the listings is well typed.                    *)
THEOREM RefreshTypeCorrect == RefreshSpec => []RefreshTypeOK
<1>1. QueueInv => TypeOK
  BY DEF QueueInv
<1> QED
  BY <1>1, QueueInvHolds, RefreshTypeInit, RefreshTypeStep, PTL DEF RefreshSpec

-----------------------------------------------------------------------------
(* Runners and queue in step.                                              *)
InFlight == {"listing", "listed", "returned", "error"}

(* The runner of a job moves only while the queue has the job running.     *)
RunMatches ==
  \A j \in Jobs :
    /\ stage[j] = "running" <=> run[j] \in InFlight
    /\ stage[j] \in {"new"} \cup Waiting \cup Skipped => run[j] = "idle"
    /\ stage[j] \in {"done", "failed"} => run[j] = "over"
    /\ stage[j] # "panicked"

(* Two runs of a repository at a time are recorded in rivals.              *)
OneUnlessRival ==
  \A i, j \in Jobs :
    stage[i] = "running" /\ stage[j] = "running" /\ KeyOf[i] = KeyOf[j]
      => i = j \/ KeyOf[i] \in rivals

(* The jobs in after[j] are runs of the repository of j.                   *)
AfterStarted ==
  \A j \in Jobs : \A i \in after[j] :
    KeyOf[i] = KeyOf[j] /\ stage[i] \in {"running", "done", "failed", "lost"}

LEMMA RunMatchesStep ==
  QueueInv /\ RefreshTypeOK /\ RunMatches /\ [RefreshNext]_allVars => RunMatches'
<1> SUFFICES ASSUME QueueInv, RefreshTypeOK, RunMatches, [RefreshNext]_allVars
             PROVE  RunMatches'
  OBVIOUS
<1>a. /\ TypeOK /\ RingHoldsQueued
      /\ stage \in [Jobs -> Stages]
      /\ run \in [Jobs -> RunPhases]
  BY DEF QueueInv, TypeOK, RefreshTypeOK
<1> USE <1>a DEF RunMatches, InFlight, Stages, RunPhases
<1>1. ASSUME NEW k \in Keys, Push(k) \/ DeleteLast(k) \/ HookLost(k) PROVE RunMatches'
  BY <1>1 DEF Push, DeleteLast, HookLost, queueVars
<1>2. ASSUME NEW j \in Jobs, HookArrives(j) \/ RequestUnknown(j) PROVE RunMatches'
  BY <1>2 DEF HookArrives, RequestUnknown, Enqueue, refreshVars
<1>3. ASSUME NEW j \in Jobs, QueueMoves(j) PROVE RunMatches'
  <2>1. run' = run
    BY <1>3 DEF QueueMoves, refreshVars
  <2>2. CASE Tick \/ Timeout(j)
    BY <2>1, <2>2 DEF Tick, Timeout
  <2>3. CASE Take(j)
    <3>1. stage[j] = "queued"
      BY <2>3, TakesQueued
    <3> QED
      BY <2>1, <2>3, <3>1 DEF Take
  <2>4. CASE SkipTooOld(j) \/ SkipBusy(j) \/ Clear(j)
    BY <2>1, <2>4 DEF SkipTooOld, SkipBusy, FoundBusy, Clear
  <2> QED
    BY <1>3, <2>2, <2>3, <2>4 DEF QueueMoves
<1>4. ASSUME NEW j \in Jobs, StartRun(j) PROVE RunMatches'
  BY <1>4 DEF StartRun, Start
<1>5. ASSUME NEW j \in Jobs, FinishRun(j) \/ FailRun(j) PROVE RunMatches'
  BY <1>5 DEF FinishRun, FailRun, Finish, Fail
<1>6. ASSUME NEW j \in Jobs, ListVersions(j) \/ ListNothing(j) \/ ListFails(j)
      PROVE  RunMatches'
  BY <1>6 DEF ListVersions, ListNothing, ListFails, queueVars
<1>7. ASSUME NEW j \in Jobs, StoreListing(j) \/ StoreFails(j) PROVE RunMatches'
  BY <1>7 DEF StoreListing, StoreFails, queueVars
<1>8. CASE RestartServer
  BY <1>8 DEF RestartServer, Restart
<1>9. CASE UNCHANGED allVars
  BY <1>9 DEF allVars, refreshVars, queueVars
<1> QED
  BY <1>1, <1>2, <1>3, <1>4, <1>5, <1>6, <1>7, <1>8, <1>9 DEF RefreshNext

(* A job runs after a step if it ran before or the step started it.        *)
LEMMA NewRuns ==
  ASSUME QueueInv, [RefreshNext]_allVars, NEW i \in Jobs, stage'[i] = "running"
  PROVE  stage[i] = "running" \/ StartRun(i)
<1>a. /\ TypeOK /\ RingHoldsQueued
      /\ stage \in [Jobs -> Stages]
  BY DEF QueueInv, TypeOK
<1>1. ASSUME NEW k \in Keys, Push(k) \/ DeleteLast(k) \/ HookLost(k) PROVE stage[i] = "running"
  BY <1>1 DEF Push, DeleteLast, HookLost, queueVars
<1>2. ASSUME NEW j \in Jobs, HookArrives(j) \/ RequestUnknown(j)
      PROVE  stage[i] = "running"
  BY <1>a, <1>2 DEF HookArrives, RequestUnknown, Enqueue
<1>3. ASSUME NEW j \in Jobs, QueueMoves(j) PROVE stage[i] = "running"
  BY <1>a, <1>3 DEF QueueMoves, Tick, Take, Timeout, SkipTooOld, SkipBusy, FoundBusy, Clear
<1>4. ASSUME NEW j \in Jobs, StartRun(j) PROVE stage[i] = "running" \/ StartRun(i)
  BY <1>a, <1>4 DEF StartRun, Start
<1>5. ASSUME NEW j \in Jobs, FinishRun(j) \/ FailRun(j) PROVE stage[i] = "running"
  BY <1>a, <1>5 DEF FinishRun, FailRun, Finish, Fail
<1>6. ASSUME NEW j \in Jobs,
             \/ ListVersions(j) \/ ListNothing(j) \/ ListFails(j)
             \/ StoreListing(j) \/ StoreFails(j)
      PROVE  stage[i] = "running"
  BY <1>6 DEF ListVersions, ListNothing, ListFails, StoreListing, StoreFails, queueVars
<1>7. CASE RestartServer
  BY <1>a, <1>7 DEF RestartServer, Restart
<1>8. CASE UNCHANGED allVars
  BY <1>8 DEF allVars, queueVars
<1> QED
  BY <1>1, <1>2, <1>3, <1>4, <1>5, <1>6, <1>7, <1>8 DEF RefreshNext

(* Nothing is taken out of rivals.                                         *)
LEMMA RivalsGrow == ASSUME [RefreshNext]_allVars PROVE rivals \subseteq rivals'
BY DEF RefreshNext, Push, DeleteLast, HookLost, HookArrives, RequestUnknown, QueueMoves,
       StartRun, ListVersions, ListNothing, ListFails, StoreListing, StoreFails, FinishRun,
       FailRun, RestartServer, allVars, refreshVars

LEMMA OneUnlessRivalStep ==
  QueueInv /\ OneUnlessRival /\ [RefreshNext]_allVars => OneUnlessRival'
<1> SUFFICES ASSUME QueueInv, OneUnlessRival, [RefreshNext]_allVars,
                    NEW i \in Jobs, NEW j \in Jobs,
                    stage'[i] = "running", stage'[j] = "running", KeyOf[i] = KeyOf[j]
             PROVE  i = j \/ KeyOf[i] \in rivals'
  BY DEF OneUnlessRival
<1>1. CASE stage[i] = "running" /\ stage[j] = "running"
  BY <1>1, RivalsGrow DEF OneUnlessRival
<1>2. CASE StartRun(i) /\ stage[j] = "running"
  BY <1>2 DEF StartRun, RunsOf
<1>3. CASE StartRun(j) /\ stage[i] = "running"
  BY <1>3 DEF StartRun, RunsOf
<1>4. CASE StartRun(i) /\ StartRun(j)
  BY <1>4 DEF StartRun, Start, QueueInv, TypeOK, Stages
<1> QED
  BY <1>1, <1>2, <1>3, <1>4, NewRuns

(* Once begun, a run is in progress or over.                               *)
Begun == {"running", "done", "failed", "lost"}

LEMMA BegunStays ==
  ASSUME QueueInv, [RefreshNext]_allVars, NEW i \in Jobs, stage[i] \in Begun
  PROVE  /\ stage'[i] \in Begun
         /\ stage[i] # "running" => stage'[i] = stage[i]
<1>a. /\ TypeOK /\ RingHoldsQueued
      /\ stage \in [Jobs -> Stages]
  BY DEF QueueInv, TypeOK
<1> DEFINE Goal == /\ stage'[i] \in Begun
                   /\ stage[i] # "running" => stage'[i] = stage[i]
<1>1. ASSUME stage' = stage PROVE Goal
  BY <1>1
<1>2. ASSUME NEW k \in Keys, Push(k) \/ DeleteLast(k) \/ HookLost(k) PROVE Goal
  BY <1>1, <1>2 DEF Push, DeleteLast, HookLost, queueVars
<1>3. ASSUME NEW j \in Jobs, HookArrives(j) \/ RequestUnknown(j) PROVE Goal
  BY <1>a, <1>3 DEF HookArrives, RequestUnknown, Enqueue, Begun
<1>4. ASSUME NEW j \in Jobs, QueueMoves(j) PROVE Goal
  <2>1. CASE Take(j)
    <3>1. stage[j] = "queued"
      BY <1>a, <2>1, TakesQueued
    <3> QED
      BY <1>a, <2>1, <3>1 DEF Take, Begun
  <2>2. CASE Tick \/ Timeout(j) \/ SkipTooOld(j) \/ SkipBusy(j) \/ Clear(j)
    BY <1>a, <2>2 DEF Tick, Timeout, SkipTooOld, SkipBusy, FoundBusy, Clear, Begun
  <2> QED
    BY <1>4, <2>1, <2>2 DEF QueueMoves
<1>5. ASSUME NEW j \in Jobs, StartRun(j) PROVE Goal
  BY <1>a, <1>5 DEF StartRun, Start, Begun
<1>6. ASSUME NEW j \in Jobs, FinishRun(j) \/ FailRun(j) PROVE Goal
  BY <1>a, <1>6 DEF FinishRun, FailRun, Finish, Fail, Begun
<1>7. ASSUME NEW j \in Jobs,
             \/ ListVersions(j) \/ ListNothing(j) \/ ListFails(j)
             \/ StoreListing(j) \/ StoreFails(j)
      PROVE  Goal
  BY <1>1, <1>7 DEF ListVersions, ListNothing, ListFails, StoreListing, StoreFails, queueVars
<1>8. CASE RestartServer
  BY <1>a, <1>8 DEF RestartServer, Restart, Begun
<1>9. CASE UNCHANGED allVars
  BY <1>1, <1>9 DEF allVars, queueVars
<1> QED
  BY <1>2, <1>3, <1>4, <1>5, <1>6, <1>7, <1>8, <1>9 DEF RefreshNext

(* Only a start adds to what waiting jobs have seen.                       *)
LEMMA AfterGrows ==
  ASSUME [RefreshNext]_allVars
  PROVE  \/ after' = after
         \/ \E j \in Jobs : StartRun(j)
BY DEF RefreshNext, Push, DeleteLast, HookLost, HookArrives, RequestUnknown, QueueMoves,
       ListVersions, ListNothing, ListFails, StoreListing, StoreFails, FinishRun,
       FailRun, RestartServer, allVars, refreshVars, queueVars, Enqueue, Tick, Take,
       SkipTooOld, SkipBusy, FoundBusy, Clear, Timeout, Finish, Fail, Restart

LEMMA AfterStartedStep ==
  QueueInv /\ AfterStarted /\ [RefreshNext]_allVars => AfterStarted'
<1> SUFFICES ASSUME QueueInv, AfterStarted, [RefreshNext]_allVars,
                    NEW j \in Jobs, NEW i \in after'[j]
             PROVE  KeyOf[i] = KeyOf[j] /\ stage'[i] \in Begun
  BY DEF AfterStarted, Begun
<1>a. /\ stage \in [Jobs -> Stages]
      /\ after \in [Jobs -> SUBSET Jobs]
  BY DEF QueueInv, TypeOK
<1>1. CASE i \in after[j]
  <2>1. i \in Jobs /\ KeyOf[i] = KeyOf[j] /\ stage[i] \in Begun
    BY <1>a, <1>1 DEF AfterStarted, Begun
  <2> QED
    BY <2>1, BegunStays
<1>2. CASE i \notin after[j]
  <2>1. PICK m \in Jobs : StartRun(m)
    BY <1>2, AfterGrows
  <2>2. i = m /\ KeyOf[m] = KeyOf[j]
    BY <1>a, <1>2, <2>1 DEF StartRun, Start
  <2> QED
    BY <1>a, <2>1, <2>2 DEF StartRun, Start, Begun
<1> QED
  BY <1>1, <1>2

-----------------------------------------------------------------------------
(* Listings and what is stored.                                            *)

(* No listing is newer than Gitea.                                         *)
ListingPast ==
  /\ \A j \in Jobs : listing[j] <= gitea[KeyOf[j]]
  /\ \A k \in DOMAIN repoPages : repoPages[k] <= gitea[k]

(* Without rivals, what is stored is not newer than what a run has read.   *)
StoredNotNewer ==
  \A j \in Jobs :
    run[j] = "listed" /\ KeyOf[j] \in DOMAIN repoPages /\ KeyOf[j] \notin rivals
      => repoPages[KeyOf[j]] <= listing[j]

Stored(j) == run[j] = "returned" \/ (run[j] = "over" /\ stage[j] = "done")

(* A run that has listed nothing has read no revision.                     *)
Unread == \A j \in Jobs : run[j] \in {"idle", "listing"} => listing[j] = 0

(* Without rivals, a run that has read the latest revision has stored it.  *)
StoredCurrent ==
  \A j \in Jobs :
    Stored(j) /\ listing[j] = gitea[KeyOf[j]] /\ listing[j] > 0 /\ KeyOf[j] \notin rivals
      => KeyOf[j] \in DOMAIN repoPages /\ repoPages[KeyOf[j]] = gitea[KeyOf[j]]

(* The steps that leave Gitea, the listings and the store alone, and move  *)
(* no runner but at its start and its end.                                 *)
LEMMA StillSteps ==
  ASSUME RefreshTypeOK, RunMatches, [RefreshNext]_allVars,
         ~ \E k \in Keys : Push(k) \/ DeleteLast(k),
         ~ \E j \in Jobs : ListVersions(j) \/ StoreListing(j)
  PROVE  /\ UNCHANGED <<gitea, listing, repoPages>>
         /\ \A j \in Jobs : run'[j] = "listed" => run[j] = "listed"
BY DEF RefreshNext, HookLost, HookArrives, RequestUnknown, QueueMoves, StartRun,
       ListNothing, ListFails, StoreFails, FinishRun, FailRun, RestartServer,
       allVars, refreshVars, RefreshTypeOK

LEMMA ListingPastStep ==
  RefreshTypeOK /\ RunMatches /\ ListingPast /\ [RefreshNext]_allVars => ListingPast'
<1> SUFFICES ASSUME RefreshTypeOK, RunMatches, ListingPast, [RefreshNext]_allVars
             PROVE  ListingPast'
  OBVIOUS
<1>a. /\ gitea \in [Keys -> Nat]
      /\ listing \in [Jobs -> Nat]
      /\ KeyOf \in [Jobs -> Keys]
      /\ DOMAIN repoPages \subseteq Keys
      /\ \A k \in DOMAIN repoPages : repoPages[k] \in Nat
  BY QueueAssumption, RefreshAssumption DEF RefreshTypeOK
<1>1. ASSUME NEW k \in Keys, Push(k) \/ DeleteLast(k) PROVE ListingPast'
  BY <1>a, <1>1 DEF Push, DeleteLast, ListingPast
<1>2. ASSUME NEW j \in Jobs, ListVersions(j) PROVE ListingPast'
  BY <1>a, <1>2 DEF ListVersions, ListingPast
<1>3. ASSUME NEW j \in Jobs, StoreListing(j) PROVE ListingPast'
  <2>1. ASSUME NEW k \in DOMAIN repoPages' PROVE repoPages'[k] <= gitea'[k]
    BY <1>a, <1>3 DEF StoreListing, ListingPast
  <2> QED
    BY <1>3, <2>1 DEF StoreListing, ListingPast
<1> QED
  BY <1>1, <1>2, <1>3, StillSteps DEF ListingPast

LEMMA StoredNotNewerStep ==
  RefreshTypeOK /\ RunMatches /\ OneUnlessRival /\ ListingPast /\ StoredNotNewer
    /\ [RefreshNext]_allVars => StoredNotNewer'
<1> SUFFICES ASSUME RefreshTypeOK, RunMatches, OneUnlessRival, ListingPast,
                    StoredNotNewer, [RefreshNext]_allVars,
                    NEW j \in Jobs, run'[j] = "listed",
                    KeyOf[j] \in DOMAIN repoPages', KeyOf[j] \notin rivals'
             PROVE  repoPages'[KeyOf[j]] <= listing'[j]
  BY DEF StoredNotNewer
<1>a. /\ run \in [Jobs -> RunPhases]
      /\ listing \in [Jobs -> Nat]
      /\ KeyOf[j] \notin rivals
  BY RivalsGrow DEF RefreshTypeOK
<1>1. ASSUME NEW k \in Keys, Push(k) \/ DeleteLast(k) PROVE repoPages'[KeyOf[j]] <= listing'[j]
  BY <1>a, <1>1 DEF Push, DeleteLast, StoredNotNewer
<1>2. ASSUME NEW i \in Jobs, ListVersions(i)
      PROVE  repoPages'[KeyOf[j]] <= listing'[j]
  <2>1. CASE i = j
    BY <1>a, <1>2, <2>1 DEF ListVersions, ListingPast
  <2>2. CASE i # j
    BY <1>a, <1>2, <2>2 DEF ListVersions, StoredNotNewer
  <2> QED
    BY <2>1, <2>2
<1>3. ASSUME NEW i \in Jobs, StoreListing(i)
      PROVE  repoPages'[KeyOf[j]] <= listing'[j]
  <2>1. i # j /\ run[j] = "listed" /\ run[i] = "listed"
    BY <1>a, <1>3 DEF StoreListing
  <2>2. KeyOf[i] # KeyOf[j]
    BY <1>a, <2>1 DEF RunMatches, InFlight, OneUnlessRival
  <2> QED
    BY <1>a, <1>3, <2>1, <2>2 DEF StoreListing, StoredNotNewer
<1> QED
  BY <1>a, <1>1, <1>2, <1>3, StillSteps DEF StoredNotNewer

LEMMA UnreadStep == RefreshTypeOK /\ RunMatches /\ Unread /\ [RefreshNext]_allVars => Unread'
<1> SUFFICES ASSUME RefreshTypeOK, RunMatches, Unread, [RefreshNext]_allVars,
                    NEW j \in Jobs, run'[j] \in {"idle", "listing"}
             PROVE  listing'[j] = 0
  BY DEF Unread
<1>a. /\ run \in [Jobs -> RunPhases]
      /\ listing \in [Jobs -> Nat]
  BY DEF RefreshTypeOK
<1>b. ASSUME run[j] \in {"idle", "listing"}, listing'[j] = listing[j]
      PROVE  listing'[j] = 0
  BY <1>b DEF Unread
<1>1. ASSUME NEW k \in Keys, Push(k) \/ DeleteLast(k) \/ HookLost(k)
      PROVE  listing'[j] = 0
  BY <1>b, <1>1 DEF Push, DeleteLast, HookLost
<1>2. ASSUME NEW i \in Jobs, HookArrives(i) \/ RequestUnknown(i) \/ QueueMoves(i)
      PROVE  listing'[j] = 0
  BY <1>b, <1>2 DEF HookArrives, RequestUnknown, QueueMoves, refreshVars
<1>3. ASSUME NEW i \in Jobs, StartRun(i) PROVE listing'[j] = 0
  <2>1. i = j => run[i] = "idle"
    BY <1>3 DEF StartRun, Start, RunMatches
  <2> QED
    BY <1>a, <1>b, <1>3, <2>1 DEF StartRun
<1>4. ASSUME NEW i \in Jobs,
             \/ ListVersions(i) \/ ListNothing(i) \/ ListFails(i)
             \/ StoreListing(i) \/ StoreFails(i) \/ FinishRun(i) \/ FailRun(i)
      PROVE  listing'[j] = 0
  BY <1>a, <1>b, <1>4
     DEF ListVersions, ListNothing, ListFails, StoreListing, StoreFails, FinishRun, FailRun
<1>5. CASE RestartServer
  BY <1>a, <1>b, <1>5 DEF RestartServer
<1>6. CASE UNCHANGED allVars
  BY <1>b, <1>6 DEF allVars, refreshVars
<1> QED
  BY <1>1, <1>2, <1>3, <1>4, <1>5, <1>6 DEF RefreshNext

(* A step stores no other run than that of StoreListing and ListNothing.   *)
LEMMA NewStored ==
  ASSUME QueueInv, RefreshTypeOK, RunMatches, [RefreshNext]_allVars,
         NEW j \in Jobs, Stored(j)'
  PROVE  Stored(j) \/ StoreListing(j) \/ ListNothing(j)
<1>a. /\ TypeOK /\ RingHoldsQueued
      /\ stage \in [Jobs -> Stages]
      /\ run \in [Jobs -> RunPhases]
  BY DEF QueueInv, TypeOK, RefreshTypeOK
<1> USE <1>a DEF Stored
<1>1. ASSUME NEW k \in Keys, Push(k) \/ DeleteLast(k) \/ HookLost(k) PROVE Stored(j)
  BY <1>1 DEF Push, DeleteLast, HookLost, queueVars
<1>2. ASSUME NEW i \in Jobs, HookArrives(i) \/ RequestUnknown(i) PROVE Stored(j)
  BY <1>2 DEF HookArrives, RequestUnknown, Enqueue, refreshVars
<1>3. ASSUME NEW i \in Jobs, QueueMoves(i) PROVE Stored(j)
  BY <1>3 DEF QueueMoves, Tick, Take, Timeout, SkipTooOld, SkipBusy, FoundBusy, Clear,
                  refreshVars
<1>4. ASSUME NEW i \in Jobs, StartRun(i) PROVE Stored(j)
  BY <1>4 DEF StartRun, Start
<1>5. ASSUME NEW i \in Jobs, FinishRun(i) \/ FailRun(i) PROVE Stored(j)
  BY <1>5 DEF FinishRun, FailRun, Finish, Fail
<1>6. ASSUME NEW i \in Jobs, ListVersions(i) \/ ListFails(i) \/ StoreFails(i)
      PROVE  Stored(j)
  BY <1>6 DEF ListVersions, ListFails, StoreFails, queueVars
<1>7. ASSUME NEW i \in Jobs, StoreListing(i) \/ ListNothing(i), i # j
      PROVE  Stored(j)
  BY <1>7 DEF StoreListing, ListNothing, queueVars
<1>8. CASE RestartServer
  BY <1>8 DEF RestartServer, Restart, RunMatches, InFlight, RunPhases
<1>9. CASE UNCHANGED allVars
  BY <1>9 DEF allVars, refreshVars, queueVars
<1> QED
  BY <1>1, <1>2, <1>3, <1>4, <1>5, <1>6, <1>7, <1>8, <1>9 DEF RefreshNext

LEMMA StoredCurrentStep ==
  QueueInv /\ RefreshTypeOK /\ RunMatches /\ OneUnlessRival /\ ListingPast
    /\ StoredNotNewer /\ Unread /\ StoredCurrent /\ [RefreshNext]_allVars => StoredCurrent'
<1> SUFFICES ASSUME QueueInv, RefreshTypeOK, RunMatches, OneUnlessRival, ListingPast,
                    StoredNotNewer, Unread, StoredCurrent, [RefreshNext]_allVars,
                    NEW j \in Jobs, Stored(j)', listing'[j] = gitea'[KeyOf[j]],
                    listing'[j] > 0, KeyOf[j] \notin rivals'
             PROVE  /\ KeyOf[j] \in DOMAIN repoPages'
                    /\ repoPages'[KeyOf[j]] = gitea'[KeyOf[j]]
  BY DEF StoredCurrent
<1>a. /\ run \in [Jobs -> RunPhases]
      /\ listing \in [Jobs -> Nat]
      /\ gitea \in [Keys -> Nat]
      /\ KeyOf \in [Jobs -> Keys]
      /\ \A k \in DOMAIN repoPages : repoPages[k] \in Nat
      /\ KeyOf[j] \notin rivals
  BY RivalsGrow, QueueAssumption, RefreshAssumption DEF RefreshTypeOK
<1> DEFINE Goal == /\ KeyOf[j] \in DOMAIN repoPages'
                   /\ repoPages'[KeyOf[j]] = gitea'[KeyOf[j]]
<1>1. CASE StoreListing(j)
  BY <1>a, <1>1 DEF StoreListing
<1>2. CASE ListNothing(j)
  BY <1>a, <1>2 DEF ListNothing, Unread
<1>3. ASSUME Stored(j), NEW k \in Keys, Push(k) \/ DeleteLast(k) PROVE Goal
  <2>1. listing[j] <= gitea[KeyOf[j]]
    BY DEF ListingPast
  <2>2. k # KeyOf[j] /\ listing[j] = gitea[KeyOf[j]] /\ listing[j] > 0
    BY <1>a, <1>3, <2>1 DEF Push, DeleteLast
  <2> QED
    BY <1>a, <1>3, <2>2 DEF Push, DeleteLast, StoredCurrent
<1>4. ASSUME Stored(j), NEW i \in Jobs, ListVersions(i) PROVE Goal
  <2>1. i # j
    BY <1>4 DEF ListVersions, queueVars, Stored, RunMatches, InFlight
  <2> QED
    BY <1>a, <1>4, <2>1 DEF ListVersions, StoredCurrent
<1>5. ASSUME Stored(j), NEW i \in Jobs, StoreListing(i), i # j PROVE Goal
  <2>1. /\ gitea' = gitea /\ listing' = listing
        /\ run[i] = "listed"
    BY <1>5 DEF StoreListing
  <2>2. /\ KeyOf[j] \in DOMAIN repoPages
        /\ repoPages[KeyOf[j]] = gitea[KeyOf[j]]
    BY <1>a, <1>5, <2>1 DEF StoredCurrent
  <2>3. CASE KeyOf[i] = KeyOf[j]
    <3>1. repoPages[KeyOf[j]] <= listing[i] /\ listing[i] <= gitea[KeyOf[j]]
      BY <1>a, <2>1, <2>2, <2>3 DEF StoredNotNewer, ListingPast
    <3> QED
      BY <1>a, <1>5, <2>1, <2>2, <2>3, <3>1 DEF StoreListing
  <2>4. CASE KeyOf[i] # KeyOf[j]
    BY <1>5, <2>1, <2>2, <2>4 DEF StoreListing
  <2> QED
    BY <2>3, <2>4
<1>6. CASE /\ Stored(j)
           /\ ~ \E k \in Keys : Push(k) \/ DeleteLast(k)
           /\ ~ \E i \in Jobs : ListVersions(i) \/ StoreListing(i)
  BY <1>a, <1>6, StillSteps DEF StoredCurrent
<1> QED
  BY <1>1, <1>2, <1>3, <1>4, <1>5, <1>6, NewStored

-----------------------------------------------------------------------------
(* Why a stored listing comes up to date again.                            *)

(* What a run has read, if it has read anything yet, is the latest.        *)
Current(i) == run[i] \in {"listed", "returned", "over"} => listing[i] = gitea[KeyOf[i]]

(* A job that will bring the listing up to date, or leave an excuse.       *)
Obliged(j) ==
  \/ stage[j] \in Waiting /\ \A i \in after[j] : Current(i)
  \/ stage[j] = "running" /\ Current(j)

Excused(k) == HookMissed(k) \/ RunFailed(k) \/ RunsRaced(k) \/ JoinedLate(k)

(* The repository has been listed, although this may not be stored yet.    *)
Listed(k) == k \in DOMAIN repoPages \/ \E j \in JobsOf(k) : run[j] = "listed"

UpToDate(k) == k \in DOMAIN repoPages /\ repoPages[k] = gitea[k]

Covered ==
  \A k \in Keys :
    Listed(k) => \/ UpToDate(k) \/ hooks[k] > 0 \/ NothingLeft(k) \/ Excused(k)
                 \/ \E j \in JobsOf(k) : Obliged(j)

RefreshInv ==
  /\ QueueInv /\ RefreshTypeOK /\ RunMatches /\ OneUnlessRival /\ AfterStarted
  /\ ListingPast /\ StoredNotNewer /\ Unread /\ StoredCurrent /\ Covered

(* An excuse is not taken back.                                            *)
LEMMA ExcuseStays ==
  ASSUME RefreshInv, [RefreshNext]_allVars, NEW k \in Keys, Excused(k)
  PROVE  Excused(k)'
<1>a. /\ TypeOK /\ RingHoldsQueued
      /\ stage \in [Jobs -> Stages]
      /\ after \in [Jobs -> SUBSET Jobs]
  BY DEF RefreshInv, QueueInv, TypeOK
<1>1. CASE HookMissed(k)
  <2>1. lostHooks \subseteq lostHooks'
    BY DEF RefreshNext, Push, DeleteLast, HookLost, HookArrives, RequestUnknown, QueueMoves,
           StartRun, ListVersions, ListNothing, ListFails, StoreListing, StoreFails, FinishRun,
           FailRun, RestartServer, allVars, refreshVars
  <2> QED
    BY <1>1, <2>1 DEF HookMissed, Excused
<1>2. CASE RunFailed(k)
  <2>1. PICK j \in JobsOf(k) : stage[j] \in {"failed", "lost"}
    BY <1>2 DEF RunFailed
  <2>2. stage'[j] = stage[j]
    BY <2>1, BegunStays DEF Begun, JobsOf, RefreshInv
  <2> QED
    BY <2>1, <2>2 DEF RunFailed, Excused, JobsOf
<1>3. CASE RunsRaced(k)
  BY <1>3, RivalsGrow DEF RunsRaced, Excused
<1>4. CASE JoinedLate(k)
  <2>1. PICK j \in JobsOf(k) : stage[j] \in Skipped /\ after[j] = {}
    BY <1>4 DEF JoinedLate
  <2>2. stage'[j] = stage[j] /\ after'[j] = after[j]
    <3> DEFINE Goal == stage'[j] = stage[j] /\ after'[j] = after[j]
    <3>0. j \in Jobs
      BY DEF JobsOf
    <3>1. ASSUME stage' = stage, after' = after PROVE Goal
      BY <3>1
    <3>2. ASSUME NEW m \in Keys, Push(m) \/ DeleteLast(m) \/ HookLost(m) PROVE Goal
      BY <3>1, <3>2 DEF Push, DeleteLast, HookLost, queueVars
    <3>3. ASSUME NEW i \in Jobs, HookArrives(i) \/ RequestUnknown(i) PROVE Goal
      BY <1>a, <2>1, <3>0, <3>3 DEF HookArrives, RequestUnknown, Enqueue
    <3>4. ASSUME NEW i \in Jobs, QueueMoves(i) PROVE Goal
      <4>1. CASE Take(i)
        <5>1. stage[i] = "queued"
          BY <1>a, <4>1, TakesQueued
        <5> QED
          BY <1>a, <2>1, <3>0, <4>1, <5>1 DEF Take
      <4>2. CASE Tick \/ Timeout(i) \/ SkipTooOld(i) \/ SkipBusy(i) \/ Clear(i)
        BY <1>a, <2>1, <3>0, <4>2 DEF Tick, Timeout, SkipTooOld, SkipBusy, FoundBusy, Clear
      <4> QED
        BY <3>4, <4>1, <4>2 DEF QueueMoves
    <3>5. ASSUME NEW i \in Jobs, StartRun(i) PROVE Goal
      BY <1>a, <2>1, <3>0, <3>5 DEF StartRun, Start
    <3>6. ASSUME NEW i \in Jobs, FinishRun(i) \/ FailRun(i) PROVE Goal
      BY <1>a, <2>1, <3>0, <3>6 DEF FinishRun, FailRun, Finish, Fail
    <3>7. ASSUME NEW i \in Jobs,
                 \/ ListVersions(i) \/ ListNothing(i) \/ ListFails(i)
                 \/ StoreListing(i) \/ StoreFails(i)
          PROVE  Goal
      BY <3>1, <3>7
         DEF ListVersions, ListNothing, ListFails, StoreListing, StoreFails, queueVars
    <3>8. CASE RestartServer
      BY <1>a, <2>1, <3>0, <3>8 DEF RestartServer, Restart
    <3>9. CASE UNCHANGED allVars
      BY <3>1, <3>9 DEF allVars, queueVars
    <3> QED
      BY <3>2, <3>3, <3>4, <3>5, <3>6, <3>7, <3>8, <3>9 DEF RefreshNext
  <2> QED
    BY <2>1, <2>2 DEF JoinedLate, Excused, JobsOf
<1> QED
  BY <1>1, <1>2, <1>3, <1>4 DEF Excused

(* Unless Gitea moves on, or has no version left, what was current stays   *)
(* so, or the run fails.                                                   *)
LEMMA CurrentStays ==
  ASSUME RefreshInv, [RefreshNext]_allVars, NEW i \in Jobs, Current(i),
         gitea'[KeyOf[i]] = gitea[KeyOf[i]], ~ NothingLeft(KeyOf[i])
  PROVE  Current(i)' \/ stage'[i] \in {"failed", "lost"}
<1>a. /\ stage \in [Jobs -> Stages]
      /\ run \in [Jobs -> RunPhases]
      /\ listing \in [Jobs -> Nat]
      /\ gitea \in [Keys -> Nat]
      /\ KeyOf \in [Jobs -> Keys]
  BY QueueAssumption, RefreshAssumption DEF RefreshInv, QueueInv, TypeOK, RefreshTypeOK
<1> DEFINE Goal == Current(i)' \/ stage'[i] \in {"failed", "lost"}
<1>1. ASSUME run' = run, listing' = listing PROVE Goal
  BY <1>1 DEF Current
<1>2. ASSUME NEW k \in Keys, Push(k) \/ DeleteLast(k) \/ HookLost(k) PROVE Goal
  BY <1>1, <1>2 DEF Push, DeleteLast, HookLost
<1>3. ASSUME NEW j \in Jobs, HookArrives(j) \/ RequestUnknown(j) \/ QueueMoves(j)
      PROVE  Goal
  BY <1>1, <1>3 DEF HookArrives, RequestUnknown, QueueMoves, refreshVars
<1>4. ASSUME NEW j \in Jobs, StartRun(j) \/ StoreListing(j) \/ FinishRun(j)
      PROVE  Goal
  BY <1>a, <1>4 DEF StartRun, StoreListing, FinishRun, Current
<1>5. ASSUME NEW j \in Jobs, ListVersions(j) \/ ListFails(j) \/ StoreFails(j)
      PROVE  Goal
  BY <1>a, <1>5 DEF ListVersions, ListFails, StoreFails, Current
<1>6. ASSUME NEW j \in Jobs, ListNothing(j) PROVE Goal
  <2>1. i # j
    BY <1>6 DEF ListNothing, NothingLeft
  <2> QED
    BY <1>a, <1>6, <2>1 DEF ListNothing, Current
<1>7. ASSUME NEW j \in Jobs, FailRun(j) PROVE Goal
  BY <1>a, <1>7 DEF FailRun, Fail, Current
<1>8. CASE RestartServer
  <2>1. CASE stage[i] = "running"
    BY <1>a, <1>8, <2>1 DEF RestartServer, Restart
  <2>2. CASE stage[i] # "running"
    BY <1>a, <1>8, <2>2
       DEF RestartServer, Current, RefreshInv, RunMatches, InFlight, RunPhases
  <2> QED
    BY <2>1, <2>2
<1>9. CASE UNCHANGED allVars
  BY <1>1, <1>9 DEF allVars, refreshVars
<1> QED
  BY <1>2, <1>3, <1>4, <1>5, <1>6, <1>7, <1>8, <1>9 DEF RefreshNext

(* A job leaves the queue and its run in one of five ways.                 *)
LEMMA WaysOut ==
  ASSUME QueueInv, [RefreshNext]_allVars,
         NEW j \in Jobs, stage[j] \in Waiting \cup {"running"}
  PROVE  \/ stage[j] \in Waiting /\ stage'[j] \in Waiting
         \/ stage[j] = "running" /\ stage'[j] = "running"
         \/ StartRun(j) \/ FinishRun(j)
         \/ QueueMoves(j) /\ (SkipTooOld(j) \/ SkipBusy(j))
         \/ stage'[j] \in {"failed", "lost"}
<1>a. /\ TypeOK /\ RingHoldsQueued
      /\ stage \in [Jobs -> Stages]
  BY DEF QueueInv, TypeOK
<1> DEFINE Goal == \/ stage[j] \in Waiting /\ stage'[j] \in Waiting
                   \/ stage[j] = "running" /\ stage'[j] = "running"
                   \/ StartRun(j) \/ FinishRun(j)
                   \/ QueueMoves(j) /\ (SkipTooOld(j) \/ SkipBusy(j))
                   \/ stage'[j] \in {"failed", "lost"}
<1>1. ASSUME stage'[j] = stage[j] PROVE Goal
  BY <1>1
<1>2. ASSUME NEW k \in Keys, Push(k) \/ DeleteLast(k) \/ HookLost(k) PROVE Goal
  BY <1>1, <1>2 DEF Push, DeleteLast, HookLost, queueVars
<1>3. ASSUME NEW i \in Jobs, HookArrives(i) \/ RequestUnknown(i) PROVE Goal
  BY <1>a, <1>1, <1>3 DEF HookArrives, RequestUnknown, Enqueue
<1>4. ASSUME NEW i \in Jobs, QueueMoves(i) PROVE Goal
  <2>1. CASE Take(i)
    <3>1. stage[i] = "queued"
      BY <1>a, <2>1, TakesQueued
    <3> QED
      BY <1>a, <2>1, <3>1 DEF Take
  <2>2. CASE Tick \/ Timeout(i) \/ Clear(i)
    BY <1>a, <2>2 DEF Tick, Timeout, Clear
  <2>3. CASE (SkipTooOld(i) \/ SkipBusy(i)) /\ i # j
    BY <1>a, <1>1, <2>3 DEF SkipTooOld, SkipBusy, FoundBusy
  <2> QED
    BY <1>4, <2>1, <2>2, <2>3 DEF QueueMoves
<1>5. ASSUME NEW i \in Jobs, StartRun(i) \/ FinishRun(i) \/ FailRun(i) PROVE Goal
  <2>1. CASE i # j
    BY <1>a, <1>1, <1>5, <2>1 DEF StartRun, FinishRun, FailRun, Start, Finish, Fail
  <2>2. CASE i = j
    BY <1>a, <1>5, <2>2 DEF FailRun, Fail
  <2> QED
    BY <2>1, <2>2
<1>6. ASSUME NEW i \in Jobs,
             \/ ListVersions(i) \/ ListNothing(i) \/ ListFails(i)
             \/ StoreListing(i) \/ StoreFails(i)
      PROVE  Goal
  BY <1>1, <1>6 DEF ListVersions, ListNothing, ListFails, StoreListing, StoreFails, queueVars
<1>7. CASE RestartServer
  BY <1>a, <1>7 DEF RestartServer, Restart
<1>8. CASE UNCHANGED allVars
  BY <1>1, <1>8 DEF allVars, queueVars
<1> QED
  BY <1>2, <1>3, <1>4, <1>5, <1>6, <1>7, <1>8 DEF RefreshNext

(* An obliged job stays obliged until it is skipped or finished.           *)
LEMMA ObligedStays ==
  ASSUME RefreshInv, [RefreshNext]_allVars, NEW k \in Keys, ~ Excused(k)',
         gitea'[k] = gitea[k], ~ NothingLeft(k), NEW j \in JobsOf(k), Obliged(j)
  PROVE  \/ Obliged(j)' \/ FinishRun(j)
         \/ QueueMoves(j) /\ (SkipTooOld(j) \/ SkipBusy(j))
<1>a. /\ j \in Jobs /\ KeyOf[j] = k
      /\ stage \in [Jobs -> Stages]
      /\ after \in [Jobs -> SUBSET Jobs]
  BY DEF RefreshInv, QueueInv, TypeOK, JobsOf
<1>b. ASSUME NEW i \in JobsOf(k), Current(i) PROVE Current(i)'
  <2>1. i \in Jobs /\ KeyOf[i] = k /\ i \in JobsOf(k)'
    BY DEF JobsOf
  <2>2. stage'[i] \notin {"failed", "lost"}
    BY <2>1 DEF Excused, RunFailed
  <2> QED
    BY <1>b, <2>1, <2>2, CurrentStays
<1>1. CASE stage[j] = "running" /\ stage'[j] = "running"
  BY <1>1, <1>b DEF Obliged
<1>2. CASE StartRun(j)
  BY <1>a, <1>2 DEF StartRun, Start, Obliged, Current, RefreshInv, RefreshTypeOK
<1>3. CASE stage[j] \in Waiting /\ stage'[j] \in Waiting
  <2>1. ASSUME NEW i \in after'[j] PROVE Current(i)'
    <3>1. CASE i \in after[j]
      <4>1. i \in JobsOf(k) /\ Current(i)
        BY <1>3, <1>a, <3>1 DEF Obliged, RefreshInv, AfterStarted, JobsOf
      <4> QED
        BY <1>b, <4>1
    <3>2. CASE i \notin after[j]
      <4>1. PICK m \in Jobs : StartRun(m)
        BY <3>2, AfterGrows
      <4>2. i = m
        BY <1>a, <3>2, <4>1 DEF StartRun, Start
      <4> QED
        BY <4>1, <4>2 DEF StartRun, Current, RefreshInv, RefreshTypeOK
    <3> QED
      BY <3>1, <3>2
  <2> QED
    BY <1>3, <2>1 DEF Obliged
<1>4. stage'[j] \notin {"failed", "lost"}
  BY <1>a DEF Excused, RunFailed, JobsOf
<1>5. stage[j] \in Waiting \cup {"running"}
  BY DEF Obliged
<1> QED
  BY <1>a, <1>1, <1>2, <1>3, <1>4, <1>5, WaysOut DEF RefreshInv

(* What the steps elsewhere leave as it is for a repository.               *)
LEMMA OtherSteps ==
  ASSUME RefreshInv, [RefreshNext]_allVars, NEW k \in Keys,
         ~ Push(k), ~ DeleteLast(k), ~ HookLost(k),
         \A j \in JobsOf(k) :
           ~ HookArrives(j) /\ ~ RequestUnknown(j) /\ ~ ListVersions(j) /\ ~ StoreListing(j)
  PROVE  /\ gitea'[k] = gitea[k] /\ hooks'[k] = hooks[k]
         /\ UpToDate(k) => UpToDate(k)'
         /\ Listed(k)' => Listed(k)
<1>a. /\ run \in [Jobs -> RunPhases]
      /\ gitea \in [Keys -> 0..MaxRevision \cup {1}]
      /\ hooks \in [Keys -> Nat]
      /\ KeyOf \in [Jobs -> Keys]
  BY QueueAssumption DEF RefreshInv, RefreshTypeOK
<1>b. ASSUME gitea'[k] = gitea[k], hooks'[k] = hooks[k], repoPages' = repoPages,
             \A j \in JobsOf(k) : run'[j] = "listed" => run[j] = "listed"
      PROVE  /\ gitea'[k] = gitea[k] /\ hooks'[k] = hooks[k]
             /\ UpToDate(k) => UpToDate(k)'
             /\ Listed(k)' => Listed(k)
  BY <1>b DEF UpToDate, Listed, JobsOf
<1> DEFINE Goal == /\ gitea'[k] = gitea[k] /\ hooks'[k] = hooks[k]
                   /\ UpToDate(k) => UpToDate(k)'
                   /\ Listed(k)' => Listed(k)
<1>1. ASSUME NEW m \in Keys, Push(m) \/ DeleteLast(m) \/ HookLost(m) PROVE Goal
  BY <1>a, <1>b, <1>1 DEF Push, DeleteLast, HookLost
<1>2. ASSUME NEW j \in Jobs, HookArrives(j) \/ RequestUnknown(j) PROVE Goal
  BY <1>a, <1>b, <1>2 DEF HookArrives, RequestUnknown, refreshVars, JobsOf
<1>3. ASSUME NEW j \in Jobs, QueueMoves(j) PROVE Goal
  BY <1>b, <1>3 DEF QueueMoves, refreshVars
<1>4. ASSUME NEW j \in Jobs, StartRun(j) \/ FinishRun(j) \/ FailRun(j) PROVE Goal
  <2>1. \A i \in JobsOf(k) : run'[i] = "listed" => run[i] = "listed"
    BY <1>a, <1>4 DEF StartRun, FinishRun, FailRun, JobsOf
  <2> QED
    BY <1>b, <1>4, <2>1 DEF StartRun, FinishRun, FailRun
<1>5. ASSUME NEW j \in Jobs, ListVersions(j) PROVE Goal
  <2>1. \A i \in JobsOf(k) : run'[i] = run[i]
    BY <1>a, <1>5 DEF ListVersions, JobsOf
  <2> QED
    BY <1>b, <1>5, <2>1 DEF ListVersions
<1>6. ASSUME NEW j \in Jobs, ListNothing(j) \/ ListFails(j) \/ StoreFails(j) PROVE Goal
  <2>1. \A i \in JobsOf(k) : run'[i] = "listed" => run[i] = "listed"
    BY <1>a, <1>6 DEF ListNothing, ListFails, StoreFails, JobsOf
  <2> QED
    BY <1>b, <1>6, <2>1 DEF ListNothing, ListFails, StoreFails
<1>7. ASSUME NEW j \in Jobs, StoreListing(j) PROVE Goal
  <2>1. KeyOf[j] # k
    BY <1>7 DEF JobsOf
  <2>2. \A i \in JobsOf(k) : run'[i] = "listed" => run[i] = "listed"
    BY <1>a, <1>7 DEF StoreListing, JobsOf
  <2>3. /\ k \in DOMAIN repoPages' <=> k \in DOMAIN repoPages
        /\ k \in DOMAIN repoPages => repoPages'[k] = repoPages[k]
    BY <1>7, <2>1 DEF StoreListing
  <2> QED
    BY <1>7, <2>2, <2>3 DEF StoreListing, UpToDate, Listed, JobsOf
<1>8. CASE RestartServer
  <2>1. \A i \in JobsOf(k) : run'[i] = "listed" => run[i] = "listed"
    BY <1>a, <1>8 DEF RestartServer, JobsOf
  <2> QED
    BY <1>b, <1>8, <2>1 DEF RestartServer
<1>9. CASE UNCHANGED allVars
  BY <1>b, <1>9 DEF allVars, refreshVars
<1> QED
  BY <1>1, <1>2, <1>3, <1>4, <1>5, <1>6, <1>7, <1>8, <1>9 DEF RefreshNext

(* Only a change of its versions leaves a repository bare, or ends that.   *)
LEMMA BareStays ==
  ASSUME [RefreshNext]_allVars, NEW k \in Keys, ~ Push(k), ~ DeleteLast(k)
  PROVE  NothingLeft(k)' <=> NothingLeft(k)
BY DEF NothingLeft, RefreshNext, Push, DeleteLast, HookLost, HookArrives, RequestUnknown,
       QueueMoves, StartRun, ListVersions, ListNothing, ListFails, StoreListing, StoreFails,
       FinishRun, FailRun, RestartServer, allVars, refreshVars

(* A run that has read the latest listing and is not in flight has stored  *)
(* it, or there is nothing in Gitea and the stored listing says so, or     *)
(* another run that is in flight does.                                     *)
LEMMA OverIsUpToDate ==
  ASSUME RefreshInv, NEW k \in Keys, Listed(k), ~ RunsRaced(k),
         NEW j \in JobsOf(k), Stored(j), listing[j] = gitea[k]
  PROVE  UpToDate(k) \/ \E i \in JobsOf(k) : run[i] = "listed" /\ Obliged(i)
<1>a. /\ listing \in [Jobs -> Nat]
      /\ gitea \in [Keys -> Nat]
      /\ \A m \in DOMAIN repoPages : repoPages[m] \in Nat
      /\ j \in Jobs /\ KeyOf[j] = k
  BY RefreshAssumption DEF RefreshInv, RefreshTypeOK, JobsOf
<1>1. CASE listing[j] > 0
  BY <1>a, <1>1 DEF RefreshInv, StoredCurrent, RunsRaced, UpToDate
<1>2. CASE listing[j] = 0 /\ k \in DOMAIN repoPages
  <2>1. repoPages[k] <= gitea[k]
    BY <1>2 DEF RefreshInv, ListingPast
  <2> QED
    BY <1>a, <1>2, <2>1 DEF UpToDate
<1>3. CASE listing[j] = 0 /\ k \notin DOMAIN repoPages
  <2>1. PICK i \in JobsOf(k) : run[i] = "listed"
    BY <1>3 DEF Listed
  <2>2. i \in Jobs /\ KeyOf[i] = k
    BY DEF JobsOf
  <2>3. listing[i] <= gitea[k]
    BY <2>2 DEF RefreshInv, ListingPast
  <2>4. listing[i] = gitea[k]
    BY <1>a, <1>3, <2>2, <2>3
  <2>5. stage[i] = "running"
    BY <2>1, <2>2 DEF RefreshInv, RunMatches, InFlight
  <2> QED
    BY <2>1, <2>2, <2>4, <2>5 DEF Obliged, Current
<1> QED
  BY <1>a, <1>1, <1>2, <1>3

LEMMA CoveredStep == RefreshInv /\ [RefreshNext]_allVars => Covered'
<1> SUFFICES ASSUME RefreshInv, [RefreshNext]_allVars, NEW k \in Keys,
                    Listed(k)', ~ (hooks'[k] > 0), ~ NothingLeft(k)', ~ Excused(k)'
             PROVE  UpToDate(k)' \/ \E j \in JobsOf(k) : Obliged(j)'
  BY DEF Covered, JobsOf
<1> DEFINE Goal == UpToDate(k)' \/ \E j \in JobsOf(k) : Obliged(j)'
<1>a. /\ stage \in [Jobs -> Stages]
      /\ run \in [Jobs -> RunPhases]
      /\ listing \in [Jobs -> Nat]
      /\ gitea \in [Keys -> Nat]
      /\ hooks \in [Keys -> Nat]
      /\ KeyOf \in [Jobs -> Keys]
      /\ \A j \in JobsOf(k) : j \in Jobs /\ KeyOf[j] = k
  BY QueueAssumption, RefreshAssumption
     DEF RefreshInv, QueueInv, TypeOK, RefreshTypeOK, JobsOf
<1>b. ~ Excused(k) /\ ~ RunsRaced(k)
  BY ExcuseStays DEF Excused
<1>c. Listed(k) => \/ UpToDate(k) \/ hooks[k] > 0 \/ NothingLeft(k)
                   \/ \E j \in JobsOf(k) : Obliged(j)
  BY <1>b DEF RefreshInv, Covered
<1>d. ASSUME NEW i \in JobsOf(k), Obliged(i), stage[i] = "running", ~ FinishRun(i),
             gitea'[k] = gitea[k], ~ NothingLeft(k)
      PROVE  Obliged(i)'
  BY <1>b, <1>d, ObligedStays DEF SkipTooOld, SkipBusy, FoundBusy
<1>e. ASSUME NEW j \in JobsOf(k), Stored(j), listing[j] = gitea[k], Listed(k),
             UpToDate(k) => UpToDate(k)', gitea'[k] = gitea[k], ~ NothingLeft(k)
      PROVE  Goal
  <2>1. CASE UpToDate(k)
    BY <1>e, <2>1
  <2>2. ASSUME NEW i \in JobsOf(k), run[i] = "listed", Obliged(i) PROVE Goal
    <3>1. stage[i] = "running" /\ ~ FinishRun(i)
      BY <1>a, <2>2 DEF RefreshInv, RunMatches, InFlight, FinishRun
    <3> QED
      BY <1>d, <1>e, <2>2, <3>1
  <2> QED
    BY <1>b, <1>e, <2>1, <2>2, OverIsUpToDate
<1>f. ASSUME ~ Push(k), ~ DeleteLast(k) PROVE ~ NothingLeft(k)
  BY <1>f, BareStays
<1>1. CASE Push(k) \/ DeleteLast(k)
  BY <1>1, <1>a DEF Push, DeleteLast
<1>2. CASE HookLost(k)
  BY <1>2 DEF HookLost, Excused, HookMissed
<1>3. ASSUME NEW j \in JobsOf(k), HookArrives(j) \/ RequestUnknown(j) PROVE Goal
  <2>1. stage[j] = "new" /\ stage'[j] = "queued" /\ after'[j] = after[j]
    BY <1>a, <1>3 DEF HookArrives, RequestUnknown, Enqueue
  <2>2. after'[j] = {}
    BY <1>a, <2>1 DEF RefreshInv, QueueInv, NewUnseen
  <2> QED
    BY <2>1, <2>2 DEF Obliged
<1>4. ASSUME NEW j \in JobsOf(k), ListVersions(j) PROVE Goal
  <2>1. stage'[j] = "running"
    BY <1>a, <1>4 DEF ListVersions, queueVars, RefreshInv, RunMatches, InFlight
  <2>2. Current(j)'
    BY <1>a, <1>4 DEF ListVersions, Current
  <2> QED
    BY <2>1, <2>2 DEF Obliged
<1>5. ASSUME NEW j \in JobsOf(k), StoreListing(j) PROVE Goal
  <2>1. /\ run[j] = "listed" /\ gitea' = gitea /\ hooks' = hooks
        /\ repoPages'[k] = listing[j] /\ k \in DOMAIN repoPages'
        /\ ~ NothingLeft(k)
    BY <1>a, <1>5 DEF StoreListing, NothingLeft
  <2>2. Listed(k)
    BY <2>1 DEF Listed
  <2>3. CASE UpToDate(k)
    <3>1. repoPages[k] <= listing[j] /\ listing[j] <= gitea[k]
      BY <1>a, <1>b, <2>1, <2>3
         DEF UpToDate, RefreshInv, StoredNotNewer, ListingPast, RunsRaced
    <3> QED
      BY <1>a, <2>1, <2>3, <3>1 DEF UpToDate
  <2>4. ASSUME NEW i \in JobsOf(k), Obliged(i) PROVE Goal
    <3>1. ~ FinishRun(i) /\ ~ (QueueMoves(i) /\ (SkipTooOld(i) \/ SkipBusy(i)))
      BY <1>a, <1>5
         DEF StoreListing, queueVars, FinishRun, Finish, SkipTooOld, SkipBusy, FoundBusy
    <3> QED
      BY <2>1, <2>4, <3>1, ObligedStays
  <2> QED
    BY <1>c, <2>1, <2>2, <2>3, <2>4
<1>6. CASE /\ ~ Push(k) /\ ~ DeleteLast(k) /\ ~ HookLost(k)
           /\ \A j \in JobsOf(k) : /\ ~ HookArrives(j) /\ ~ RequestUnknown(j)
                                    /\ ~ ListVersions(j) /\ ~ StoreListing(j)
  <2>1. /\ gitea'[k] = gitea[k] /\ hooks'[k] = hooks[k]
        /\ UpToDate(k) => UpToDate(k)'
        /\ Listed(k) /\ ~ NothingLeft(k)
    BY <1>6, <1>f, OtherSteps
  <2>2. ASSUME NEW j \in JobsOf(k), Obliged(j), FinishRun(j) PROVE Goal
    <3>1. run[j] = "returned" /\ stage[j] = "running"
      BY <2>2 DEF FinishRun, Finish
    <3>2. Stored(j) /\ listing[j] = gitea[k]
      BY <1>a, <2>2, <3>1 DEF Stored, Obliged, Current
    <3> QED
      BY <1>e, <2>1, <3>2
  <2>3. ASSUME NEW j \in JobsOf(k), Obliged(j), SkipTooOld(j) \/ SkipBusy(j) PROVE Goal
    <3>1. /\ stage[j] = "taken" /\ stage'[j] \in Skipped
          /\ stage' = [stage EXCEPT ![j] = stage'[j]] /\ after' = after
      BY <1>a, <2>3 DEF SkipTooOld, SkipBusy, FoundBusy
    <3>2. after[j] # {}
      BY <3>1 DEF Excused, JoinedLate
    <3>3. PICK i \in after[j] : TRUE
      BY <3>2
    <3>4. /\ i \in JobsOf(k) /\ Current(i)
          /\ stage[i] \in {"running", "done", "failed", "lost"}
      BY <1>a, <2>3, <3>1 DEF Obliged, RefreshInv, AfterStarted, QueueInv, TypeOK, JobsOf
    <3>5. stage[i] \notin {"failed", "lost"}
      BY <1>b, <3>4 DEF Excused, RunFailed
    <3>6. CASE stage[i] = "running"
      <4>1. ~ FinishRun(i)
        BY <1>a, <3>1, <3>4, <3>6 DEF FinishRun, Finish
      <4> QED
        BY <1>d, <2>1, <3>4, <3>6, <4>1 DEF Obliged
    <3>7. CASE stage[i] = "done"
      <4>1. Stored(i) /\ listing[i] = gitea[k]
        BY <1>a, <3>4, <3>7 DEF Stored, Current, RefreshInv, RunMatches
      <4> QED
        BY <1>e, <2>1, <3>4, <4>1
    <3> QED
      BY <3>4, <3>5, <3>6, <3>7
  <2>4. ASSUME NEW j \in JobsOf(k), Obliged(j) PROVE Goal
    BY <2>1, <2>2, <2>3, <2>4, ObligedStays
  <2> QED
    BY <1>c, <2>1, <2>4
<1> QED
  BY <1>1, <1>2, <1>3, <1>4, <1>5, <1>6

-----------------------------------------------------------------------------
LEMMA RefreshInvInit == RefreshInit => RefreshInv
<1> SUFFICES ASSUME RefreshInit PROVE RefreshInv
  OBVIOUS
<1>1. QueueInv /\ RefreshTypeOK
  BY InvInit, RefreshTypeInit DEF RefreshInit
<1>2. /\ \A j \in Jobs : stage[j] = "new" /\ run[j] = "idle" /\ listing[j] = 0
      /\ after = [j \in Jobs |-> {}]
      /\ DOMAIN repoPages = {}
      /\ gitea \in [Keys -> {0, 1}]
  BY DEF RefreshInit, QueueInit
<1>3. RunMatches /\ OneUnlessRival /\ AfterStarted
  BY <1>2 DEF RunMatches, OneUnlessRival, AfterStarted, InFlight
<1>4. ListingPast /\ StoredNotNewer /\ Unread /\ StoredCurrent /\ Covered
  BY <1>2, QueueAssumption
     DEF ListingPast, StoredNotNewer, Unread, StoredCurrent, Stored, Covered, Listed,
         JobsOf
<1> QED
  BY <1>1, <1>3, <1>4 DEF RefreshInv

LEMMA RefreshInvStep == RefreshInv /\ [RefreshNext]_allVars => RefreshInv'
<1> SUFFICES ASSUME RefreshInv, [RefreshNext]_allVars PROVE RefreshInv'
  OBVIOUS
<1>1. QueueInv'
  BY RefreshMovesQueue, InvStep DEF RefreshInv
<1>2. RefreshTypeOK'
  BY RefreshTypeStep DEF RefreshInv, QueueInv
<1>3. RunMatches' /\ OneUnlessRival' /\ AfterStarted'
  BY RunMatchesStep, OneUnlessRivalStep, AfterStartedStep DEF RefreshInv
<1>4. ListingPast' /\ StoredNotNewer' /\ Unread' /\ StoredCurrent'
  BY ListingPastStep, StoredNotNewerStep, UnreadStep, StoredCurrentStep DEF RefreshInv
<1> QED
  BY <1>1, <1>2, <1>3, <1>4, CoveredStep DEF RefreshInv

LEMMA RefreshInvHolds == RefreshSpec => []RefreshInv
BY RefreshInvInit, RefreshInvStep, PTL DEF RefreshSpec

(* A stored listing is out of date only for one of the five reasons that   *)
(* StaleOnlyIf names.                                                      *)
THEOREM StaleCorrect == RefreshSpec => []StaleOnlyIf
<1>1. RefreshInv => StaleOnlyIf
  BY DEF RefreshInv, Covered, StaleOnlyIf, Quiet, Listed, UpToDate, Excused, Obliged,
         RefreshTypeOK
<1> QED
  BY <1>1, RefreshInvHolds, PTL

(* Only where two runs raced is a stored listing replaced by an older one. *)
THEOREM NeverOlderCorrect == RefreshSpec => NeverOlderAlone
<1>1. ASSUME RefreshInv, [RefreshNext]_allVars,
             NEW k \in DOMAIN repoPages, repoPages'[k] < repoPages[k]
      PROVE  RunsRaced(k)
  <2>1. /\ k \in Keys /\ repoPages[k] \in Nat
        /\ listing \in [Jobs -> Nat]
    BY <1>1 DEF RefreshInv, RefreshTypeOK
  <2>2. PICK j \in Jobs : StoreListing(j)
    BY <1>1, <2>1
       DEF RefreshNext, Push, DeleteLast, HookLost, HookArrives, RequestUnknown, QueueMoves,
           StartRun, ListVersions, ListNothing, ListFails, StoreFails, FinishRun, FailRun,
           RestartServer, allVars, refreshVars
  <2>3. run[j] = "listed" /\ KeyOf[j] = k /\ repoPages'[k] = listing[j]
    BY <1>1, <2>1, <2>2 DEF StoreListing
  <2>4. KeyOf[j] \notin rivals => repoPages[k] <= listing[j]
    BY <1>1, <2>3 DEF RefreshInv, StoredNotNewer
  <2> QED
    BY <1>1, <2>1, <2>3, <2>4 DEF RunsRaced
<1>2. RefreshInv /\ [RefreshNext]_allVars
        => [\A k \in DOMAIN repoPages :
              repoPages'[k] < repoPages[k] => RunsRaced(k)]_allVars
  BY <1>1
<1> QED
  BY <1>2, RefreshInvHolds, PTL DEF RefreshSpec, NeverOlderAlone
-----------------------------------------------------------------------------
(* What SkipJustified counts as a run of the key is one.                   *)

(* The runs a job has met are other jobs of its repository whose runner    *)
(* was called.                                                             *)
RunsMetBegan ==
  \A j \in Jobs : \A i \in during[j] \cup after[j] :
    i # j /\ KeyOf[i] = KeyOf[j] /\ run[i] # "idle"

(* A runner that was called has been called.                               *)
LEMMA CallStays ==
  ASSUME RefreshTypeOK, [RefreshNext]_allVars, NEW i \in Jobs, run[i] # "idle"
  PROVE  run'[i] # "idle"
BY DEF RefreshTypeOK, RefreshNext, Push, DeleteLast, HookLost, HookArrives, RequestUnknown,
       QueueMoves, StartRun, ListVersions, ListNothing, ListFails, StoreListing, StoreFails, FinishRun,
       FailRun, RestartServer, allVars, refreshVars

(* Only a post and a start add to the runs a job has met.                  *)
LEMMA RunsMetGrow ==
  ASSUME [RefreshNext]_allVars
  PROVE  \/ UNCHANGED <<during, after>>
         \/ \E j \in Jobs : Enqueue(j)
         \/ \E j \in Jobs : StartRun(j)
BY DEF RefreshNext, Push, DeleteLast, HookLost, HookArrives, RequestUnknown, QueueMoves,
       ListVersions, ListNothing, ListFails, StoreListing, StoreFails, FinishRun,
       FailRun, RestartServer, allVars, queueVars, Tick, Take,
       SkipTooOld, SkipBusy, FoundBusy, Clear, Timeout, Finish, Fail, Restart

LEMMA RunsMetStep == RefreshInv /\ RunsMetBegan /\ [RefreshNext]_allVars => RunsMetBegan'
<1> SUFFICES ASSUME RefreshInv, RunsMetBegan, [RefreshNext]_allVars,
                    NEW j \in Jobs, NEW i \in during'[j] \cup after'[j]
             PROVE  i # j /\ KeyOf[i] = KeyOf[j] /\ run'[i] # "idle"
  BY DEF RunsMetBegan
<1>a. /\ RefreshTypeOK /\ RunMatches
      /\ during \in [Jobs -> SUBSET Jobs] /\ after \in [Jobs -> SUBSET Jobs]
  BY DEF RefreshInv, QueueInv, TypeOK
<1>1. CASE i \in during[j] \cup after[j]
  <2>1. i \in Jobs /\ i # j /\ KeyOf[i] = KeyOf[j] /\ run[i] # "idle"
    BY <1>a, <1>1 DEF RunsMetBegan
  <2> QED
    BY <1>a, <2>1, CallStays
<1>2. ASSUME i \notin during[j] \cup after[j], NEW m \in Jobs, Enqueue(m)
      PROVE  i # j /\ KeyOf[i] = KeyOf[j] /\ run'[i] # "idle"
  <2>1. m = j /\ i \in Holders(KeyOf[j]) /\ stage[j] = "new"
    BY <1>a, <1>2 DEF Enqueue
  <2>2. i \in Jobs /\ stage[i] = "running" /\ KeyOf[i] = KeyOf[j]
    BY <1>a, <2>1 DEF Holders, RunMatches
  <2>3. run[i] # "idle"
    BY <1>a, <2>2 DEF RunMatches, InFlight
  <2> QED
    BY <1>a, <2>1, <2>2, <2>3, CallStays
<1>3. ASSUME i \notin during[j] \cup after[j], NEW m \in Jobs, StartRun(m)
      PROVE  i # j /\ KeyOf[i] = KeyOf[j] /\ run'[i] # "idle"
  <2>1. i = m /\ i # j /\ KeyOf[i] = KeyOf[j]
    BY <1>a, <1>3 DEF StartRun, Start
  <2>2. run'[m] = "listing"
    BY <1>a, <1>3 DEF StartRun, RefreshTypeOK
  <2> QED
    BY <2>1, <2>2
<1> QED
  BY <1>1, <1>2, <1>3, RunsMetGrow

(* A job is dropped only if the runner of another job of its repository    *)
(* was called: what SkipJustified says, without the history variables.     *)
THEOREM DroppedForRun ==
  RefreshSpec => [](\A j \in Jobs : stage[j] \in Skipped =>
                      \E i \in Jobs : i # j /\ KeyOf[i] = KeyOf[j] /\ run[i] # "idle")
<1> DEFINE ForRun == \A j \in Jobs : stage[j] \in Skipped =>
                       \E i \in Jobs : i # j /\ KeyOf[i] = KeyOf[j] /\ run[i] # "idle"
<1>1. RefreshInit => RunsMetBegan
  BY DEF RefreshInit, QueueInit, RunsMetBegan
<1>2. RefreshInv /\ RunsMetBegan => ForRun
  <2> SUFFICES ASSUME RefreshInv, RunsMetBegan, NEW j \in Jobs, stage[j] \in Skipped
               PROVE  \E i \in Jobs : i # j /\ KeyOf[i] = KeyOf[j] /\ run[i] # "idle"
    OBVIOUS
  <2>1. PICK i \in during[j] \cup after[j] : TRUE
    BY DEF RefreshInv, QueueInv, SkipJustified
  <2>2. i \in Jobs
    BY DEF RefreshInv, QueueInv, TypeOK
  <2> QED
    BY <2>2 DEF RunsMetBegan
<1> HIDE DEF ForRun
<1>3. RefreshSpec => []ForRun
  BY <1>1, <1>2, RunsMetStep, RefreshInvHolds, PTL DEF RefreshSpec
<1> QED
  BY <1>3 DEF ForRun
=============================================================================
