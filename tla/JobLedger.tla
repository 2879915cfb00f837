----------------------------- MODULE JobLedger -----------------------------
(***************************************************************************)
(* What database/queue.go promises, without its clock, its pool and its    *)
(* deduplication store.  A posted job is either run, or coalesced into     *)
(* another run of its deduping key that was in progress at some moment     *)
(* since the job was posted.  A run may die without ending - its runner    *)
(* panics and the pool recovers - and then it counts as in progress until  *)
(* the process exits.  A process exit loses what is unfinished.            *)
(* The promise is deliberately no stronger: it lets two runs of one key be *)
(* in progress together, and lets a job be coalesced into a run that began *)
(* before the job was posted.                                              *)
(***************************************************************************)
CONSTANTS Jobs,   \* the messages ever given to Enqueue, each with an identity
          Keys,   \* the values of TaskElement.DedupingKey()
          KeyOf   \* the deduping key of each job

VARIABLES status,  \* where each job stands
          overlap  \* per job, runs of its key in progress or dead since it was posted

ledgerVars == <<status, overlap>>

Statuses == {"new", "waiting", "live", "ended", "dead", "coalesced", "lost"}

LedgerInit ==
  /\ status = [j \in Jobs |-> "new"]
  /\ overlap = [j \in Jobs |-> {}]

Post(j) ==
  /\ status[j] = "new"
  /\ status' = [status EXCEPT ![j] = "waiting"]
  /\ overlap' = [overlap EXCEPT
               ![j] = {i \in Jobs : status[i] \in {"live", "dead"} /\ KeyOf[i] = KeyOf[j]}]

Begin(j) ==
  /\ status[j] = "waiting"
  /\ status' = [status EXCEPT ![j] = "live"]
  /\ overlap' = [i \in Jobs |->
                   IF status[i] = "waiting" /\ i # j /\ KeyOf[i] = KeyOf[j]
                     THEN overlap[i] \cup {j} ELSE overlap[i]]

End(j) ==
  /\ status[j] = "live"
  /\ status' = [status EXCEPT ![j] = "ended"]
  /\ UNCHANGED overlap

Die(j) ==
  /\ status[j] = "live"
  /\ status' = [status EXCEPT ![j] = "dead"]
  /\ UNCHANGED overlap

Coalesce(j) ==
  /\ status[j] = "waiting"
  /\ overlap[j] # {}
  /\ status' = [status EXCEPT ![j] = "coalesced"]
  /\ UNCHANGED overlap

ProcessExit ==
  /\ status' = [j \in Jobs |-> IF status[j] \in {"waiting", "live", "dead"}
                                 THEN "lost" ELSE status[j]]
  /\ UNCHANGED overlap

LedgerNext ==
  \/ \E j \in Jobs : Post(j) \/ Begin(j) \/ End(j) \/ Die(j) \/ Coalesce(j)
  \/ ProcessExit

LedgerSpec == LedgerInit /\ [][LedgerNext]_ledgerVars
=============================================================================
