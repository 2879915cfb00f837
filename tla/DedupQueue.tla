----------------------------- MODULE DedupQueue -----------------------------
(***************************************************************************)
(* One queue of database/queue.go: the consumer function that NewQueue     *)
(* hands to gq.NewPool(2, ...), the deduplication store it consults and    *)
(* Enqueue.  NewQueue builds six independent queues, one per task type.    *)
(*                                                                         *)
(* Atomicity: each access to the deduplication store is one action, with   *)
(* the time.Now() that feeds it; the Get of line 94 and the Set of line    *)
(* 105 are different actions, and other goroutines run between them.       *)
(*                                                                         *)
(* The pool (golang-queue/queue) is external: a FIFO ring without a        *)
(* capacity limit, PoolSize goroutine slots, no retry, a time limit after  *)
(* which a slot is reused although the consumer function is still running, *)
(* because no runner watches its context, and a recover() that turns a     *)
(* panic of the consumer function into an error.                           *)
(***************************************************************************)
EXTENDS Naturals, Sequences, FiniteSets

CONSTANTS Jobs,      \* every message ever enqueued has its own identity
          Keys,      \* the values of DedupingKey()
          KeyOf,     \* the deduping key of each job
          PoolSize,  \* worker count given to the pool (2 in the code)
          MaxClock   \* bound: the last reading of the wall clock

ASSUME QueueAssumption ==
  /\ KeyOf \in [Jobs -> Keys]
  /\ PoolSize \in Nat \ {0}
  /\ MaxClock \in Nat

VARIABLES
  clock,   \* time.Now()
  stage,   \* how far each job has come
  posted,  \* jobT.Posted of each job
  fifo,    \* the ring of the pool
  slots,   \* jobs that hold a pool slot
  dedup,   \* the deduplication store: a function from the stored keys
  during,  \* history: holders of the key's mark when the job was posted
  after,   \* history: runs of the key begun while the job was waiting
  raced    \* history: keys that two jobs found free before either had marked

queueVars == <<clock, stage, posted, fifo, slots, dedup, during, after, raced>>

Stages == {"new", "queued", "taken", "cleared", "running",
           "done", "failed", "panicked", "tooOld", "busy", "lost"}
Waiting == {"queued", "taken", "cleared"}
Skipped == {"tooOld", "busy"}

DedupValue == [running : BOOLEAN, posted : Nat]

Put(k, v) == dedup' = [x \in DOMAIN dedup \cup {k} |-> IF x = k THEN v ELSE dedup[x]]
Drop(k) == dedup' = [x \in DOMAIN dedup \ {k} |-> dedup[x]]

RunsOf(k) == {i \in Jobs : stage[i] = "running" /\ KeyOf[i] = k}
Holders(k) == {i \in Jobs : stage[i] \in {"running", "panicked"} /\ KeyOf[i] = k}

QueueInit ==
  /\ clock = 0
  /\ stage = [j \in Jobs |-> "new"]
  /\ posted = [j \in Jobs |-> 0]
  /\ fifo = <<>>
  /\ slots = {}
  /\ dedup = [k \in {} |-> [running |-> FALSE, posted |-> 0]]
  /\ during = [j \in Jobs |-> {}]
  /\ after = [j \in Jobs |-> {}]
  /\ raced = {}

-----------------------------------------------------------------------------
(* The wall clock advances between two readings, or does not.              *)
Tick ==
  /\ clock < MaxClock
  /\ clock' = clock + 1
  /\ UNCHANGED <<stage, posted, fifo, slots, dedup, during, after, raced>>

(* Enqueue: stamp the job and append it to the ring.                       *)
Enqueue(j) ==
  /\ stage[j] = "new"
  /\ stage' = [stage EXCEPT ![j] = "queued"]
  /\ posted' = [posted EXCEPT ![j] = clock]
  /\ fifo' = Append(fifo, j)
  /\ during' = [during EXCEPT ![j] = Holders(KeyOf[j])]
  /\ UNCHANGED <<clock, slots, dedup, after, raced>>

(* The pool hands the oldest message to a free slot.                       *)
Take(j) ==
  /\ fifo # <<>>
  /\ j = Head(fifo)
  /\ Cardinality(slots) < PoolSize
  /\ fifo' = Tail(fifo)
  /\ slots' = slots \cup {j}
  /\ stage' = [stage EXCEPT ![j] = "taken"]
  /\ UNCHANGED <<clock, posted, dedup, during, after, raced>>

Known(j) == KeyOf[j] \in DOMAIN dedup
NotPostedAfterEntry(j) == posted[j] <= dedup[KeyOf[j]].posted  \* variant: !After for Before
PostedBeforeEntry(j) == posted[j] < dedup[KeyOf[j]].posted

(* Get, then "task is older than the last run": the job is dropped.        *)
SkipTooOld(j) ==
  /\ stage[j] = "taken"
  /\ Known(j)
  /\ PostedBeforeEntry(j)
  /\ stage' = [stage EXCEPT ![j] = "tooOld"]
  /\ slots' = slots \ {j}
  /\ UNCHANGED <<clock, posted, fifo, dedup, during, after, raced>>

(* Variant: the consumer waits for the other run instead of returning.     *)
WaitWhileBusy(j) ==
  /\ stage[j] = "taken"
  /\ Known(j)
  /\ dedup[KeyOf[j]].running
  /\ UNCHANGED queueVars

(* What the consumer reports as "another job is still running".            *)
FoundBusy(j) ==
  /\ stage[j] = "taken"
  /\ Known(j)
  /\ ~PostedBeforeEntry(j)
  /\ dedup[KeyOf[j]].running

(* Get, then "another job is still running": the job is dropped.           *)
SkipBusy(j) ==
  /\ FoundBusy(j)
  /\ stage' = [stage EXCEPT ![j] = "busy"]
  /\ slots' = slots \ {j}
  /\ UNCHANGED <<clock, posted, fifo, dedup, during, after, raced>>

(* The history kept by a job that finds its key free: did another job find *)
(* it free too, and not yet mark it?                                       *)
NoteRace(j) ==
  raced' = raced \cup {k \in {KeyOf[j]} :
                         \E i \in Jobs \ {j} : stage[i] = "cleared" /\ KeyOf[i] = k}

(* Variant: the check of Running is missing.                               *)
ClearUnlessTooOld(j) ==
  /\ stage[j] = "taken"
  /\ Known(j) => ~PostedBeforeEntry(j)
  /\ stage' = [stage EXCEPT ![j] = "cleared"]
  /\ NoteRace(j)
  /\ UNCHANGED <<clock, posted, fifo, slots, dedup, during, after>>

(* Get, and neither reason to skip.                                        *)
Clear(j) ==
  /\ stage[j] = "taken"
  /\ Known(j) => ~PostedBeforeEntry(j) /\ ~dedup[KeyOf[j]].running
  /\ stage' = [stage EXCEPT ![j] = "cleared"]
  /\ NoteRace(j)
  /\ UNCHANGED <<clock, posted, fifo, slots, dedup, during, after>>

(* Variant: the store is keyed by the job instead of its deduping key.     *)
StartUnderJob(j) ==
  /\ stage[j] = "cleared"
  /\ Put(j, [running |-> TRUE, posted |-> clock])
  /\ stage' = [stage EXCEPT ![j] = "running"]
  /\ UNCHANGED <<clock, posted, fifo, slots, during, after, raced>>

(* Set(Running: true) and the call of task.Runner.                         *)
Start(j) ==
  /\ stage[j] = "cleared"
  /\ Put(KeyOf[j], [running |-> TRUE, posted |-> clock])
  /\ stage' = [stage EXCEPT ![j] = "running"]
  /\ after' = [i \in Jobs |->
                 IF stage[i] \in Waiting /\ i # j /\ KeyOf[i] = KeyOf[j]
                   THEN after[i] \cup {j} ELSE after[i]]
  /\ UNCHANGED <<clock, posted, fifo, slots, during, raced>>

(* The runner returned nil: Set(Running: false) with a fresh time stamp.   *)
Finish(j) ==
  /\ stage[j] = "running"
  /\ Put(KeyOf[j], [running |-> FALSE, posted |-> clock])
  /\ stage' = [stage EXCEPT ![j] = "done"]
  /\ slots' = slots \ {j}
  /\ UNCHANGED <<clock, posted, fifo, during, after, raced>>

(* Variant: the error path returns without the Delete.                     *)
FailKeepsEntry(j) ==
  /\ stage[j] = "running"
  /\ stage' = [stage EXCEPT ![j] = "failed"]
  /\ slots' = slots \ {j}
  /\ UNCHANGED <<clock, posted, fifo, dedup, during, after, raced>>

(* The runner returned an error: Delete.                                   *)
Fail(j) ==
  /\ stage[j] = "running"
  /\ Drop(KeyOf[j])
  /\ stage' = [stage EXCEPT ![j] = "failed"]
  /\ slots' = slots \ {j}
  /\ UNCHANGED <<clock, posted, fifo, during, after, raced>>

(* The runner panics.  The pool recovers and frees the slot; nothing is    *)
(* deferred, so neither Set nor Delete is reached and the mark stays.      *)
Panic(j) ==
  /\ stage[j] = "running"
  /\ stage' = [stage EXCEPT ![j] = "panicked"]
  /\ slots' = slots \ {j}
  /\ UNCHANGED <<clock, posted, fifo, dedup, during, after, raced>>

(* The pool's time limit: the slot is free, the runner is not stopped.     *)
Timeout(j) ==
  /\ stage[j] = "running"
  /\ j \in slots
  /\ slots' = slots \ {j}
  /\ UNCHANGED <<clock, stage, posted, fifo, dedup, during, after, raced>>

(* Variant: the deduplication store outlives the process, as bbolt does.   *)
RestartKeepsStore ==
  /\ \E j \in Jobs : stage[j] # "new"
  /\ stage' = [j \in Jobs |-> IF stage[j] \in Waiting \cup {"running", "panicked"}
                                THEN "lost" ELSE stage[j]]
  /\ fifo' = <<>>
  /\ slots' = {}
  /\ raced' = {}
  /\ UNCHANGED <<clock, posted, dedup, during, after>>

(* The process exits (log.Fatal in a runner, a kill) and starts again:     *)
(* ring, store and goroutines were in memory only.                         *)
Restart ==
  /\ \E j \in Jobs : stage[j] # "new"
  /\ stage' = [j \in Jobs |-> IF stage[j] \in Waiting \cup {"running", "panicked"}
                                THEN "lost" ELSE stage[j]]
  /\ fifo' = <<>>
  /\ slots' = {}
  /\ dedup' = [k \in {} |-> [running |-> FALSE, posted |-> 0]]
  /\ raced' = {}
  /\ UNCHANGED <<clock, posted, during, after>>

Consume(j) == SkipTooOld(j) \/ SkipBusy(j) \/ Clear(j) \/ Start(j)

QueueNext ==
  \/ Tick
  \/ Restart
  \/ \E j \in Jobs : \/ Enqueue(j) \/ Take(j) \/ Consume(j)
                     \/ Finish(j) \/ Fail(j) \/ Panic(j) \/ Timeout(j)

QueueSpec == QueueInit /\ [][QueueNext]_queueVars

(* The Go scheduler runs the pool's goroutines and its timer.  Nothing is  *)
(* assumed of the runner: http.DefaultClient has no time limit, so a fetch *)
(* may never return.                                                       *)
QueueFairness ==
  \A j \in Jobs : WF_queueVars(Take(j)) /\ WF_queueVars(Consume(j)) /\ WF_queueVars(Timeout(j))

FairQueueSpec == QueueSpec /\ QueueFairness

-----------------------------------------------------------------------------
(* Type correctness of the queue, with the identity of every job.          *)
TypeOK ==
  /\ clock \in 0..MaxClock
  /\ stage \in [Jobs -> Stages]
  /\ posted \in [Jobs -> Nat]
  /\ fifo \in Seq(Jobs)
  /\ slots \subseteq Jobs
  /\ DOMAIN dedup \subseteq Keys
  /\ \A k \in DOMAIN dedup : dedup[k] \in DedupValue
  /\ during \in [Jobs -> SUBSET Jobs]
  /\ after \in [Jobs -> SUBSET Jobs]
  /\ raced \subseteq Keys

(* The ring holds exactly the queued jobs, each once.  This, and what is   *)
(* said of slots, time stamps and runs seen below, serves the proofs.      *)
RingHoldsQueued ==
  /\ \A j \in Jobs : stage[j] = "queued" <=> \E n \in 1..Len(fifo) : fifo[n] = j
  /\ \A m, n \in 1..Len(fifo) : fifo[m] = fifo[n] => m = n

(* A pool slot is held by a job in progress.                               *)
SlotsInProgress == \A j \in slots : stage[j] \in {"taken", "cleared", "running"}

(* No time stamp lies in the future.                                       *)
StampsInThePast ==
  /\ \A j \in Jobs : posted[j] <= clock
  /\ \A k \in DOMAIN dedup : dedup[k].posted <= clock

(* A mark Running has somebody behind it: a run in progress, or a run of   *)
(* this process that panicked.  No returning runner and no race of two of  *)
(* them leaves a mark behind that would make the queue skip every later    *)
(* job of the key (queue.go:100-114); a panic does, see DeadKeyStaysDead.  *)
MarkHasHolder ==
  \A k \in DOMAIN dedup : dedup[k].running => Holders(k) # {}

(* Every waiting job has seen each run of its key that holds the mark.     *)
RunsAreSeen ==
  \A i, j \in Jobs :
    i \in Holders(KeyOf[j]) /\ stage[j] \in Waiting => i \in during[j] \cup after[j]

(* A stamp later than a waiting job's comes from a run the job has seen.   *)
LaterStampIsSeen ==
  \A j \in Jobs :
    stage[j] \in Waiting /\ Known(j) /\ PostedBeforeEntry(j)
      => during[j] \cup after[j] # {}

(* The promise of the deduplication, as far as the code keeps it: a job is *)
(* dropped only if, at some moment after it was posted, a run of its key   *)
(* was in progress or lay panicked in the same process - however many runs *)
(* of the key race, fail, panic, outlive their slot or die with the        *)
(* process.                                                                *)
SkipJustified ==
  \A j \in Jobs : stage[j] \in Skipped => during[j] \cup after[j] # {}

(* The queue exists so that a key is not run twice at a time.  Two runs of *)
(* one key are in progress together only if, in this process, two jobs of  *)
(* the key read the store before either had marked it (queue.go:94, 105):  *)
(* neither the pool's time limit nor a failed or panicked run is enough.   *)
OverlapOnlyByRace ==
  \A i, j \in Jobs :
    stage[i] = "running" /\ stage[j] = "running" /\ KeyOf[i] = KeyOf[j]
      => i = j \/ KeyOf[i] \in raced

(* Why: without a race a key has one job past the check, and while it runs *)
(* the key is marked.                                                      *)
OneUnlessRaced ==
  \A i, j \in Jobs :
    stage[i] \in {"cleared", "running"} /\ KeyOf[i] \notin raced
      => /\ stage[j] \in {"cleared", "running"} /\ KeyOf[i] = KeyOf[j] => i = j
         /\ stage[i] = "running" => Known(i) /\ dedup[KeyOf[i]].running

(* A key that is marked Running with nobody left to take the mark away.    *)
Dead(k) ==
  /\ k \in DOMAIN dedup
  /\ dedup[k].running
  /\ \A j \in Jobs : KeyOf[j] = k => stage[j] \notin {"cleared", "running"}

(* A dead key stays dead until the process exits: no later job, time limit *)
(* or tick of the clock revives it (queue.go:94-114).  Its jobs are said   *)
(* to be dropped for another job that is still running; none is.           *)
DeadKeyStaysDead ==
  [][\A k \in Keys : Dead(k) => Dead(k)' \/ Restart]_queueVars

(* Every queued job is decided - started, skipped or lost in a restart -   *)
(* although runners may hang for ever: the pool's time limit frees slots.  *)
EveryJobDecided ==
  \A j \in Jobs : stage[j] = "queued" ~> stage[j] \notin Waiting

(* The queue keeps the promise of JobLedger.                               *)
LedgerStatus(j) ==
  CASE stage[j] = "new" -> "new"
    [] stage[j] \in Waiting -> "waiting"
    [] stage[j] = "running" -> "live"
    [] stage[j] \in {"done", "failed"} -> "ended"
    [] stage[j] = "panicked" -> "dead"
    [] stage[j] \in Skipped -> "coalesced"
    [] stage[j] = "lost" -> "lost"

Ledger == INSTANCE JobLedger
            WITH status <- [j \in Jobs |-> LedgerStatus(j)],
                 overlap <- [j \in Jobs |-> during[j] \cup after[j]]

KeepsLedger == Ledger!LedgerSpec
=============================================================================
