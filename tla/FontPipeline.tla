---------------------------- MODULE FontPipeline -----------------------------
(***************************************************************************)
(* fontCSS of templates/fetchJS/main.go: a style sheet is copied, and each *)
(* url(...) of it is replaced by the file it names.  One goroutine, the    *)
(* writer, writes the parts in their order; up to Limit - 1 others fetch   *)
(* the files; the filter itself cuts the sheet into parts and hands them   *)
(* to the writer over an unbuffered channel.  All but the filter belong to *)
(* one errgroup, whose first error cancels the context that only the       *)
(* writer watches.                                                         *)
(*                                                                         *)
(* Parts 2u-1 and 2u are the text before the u-th url(...) and its file;   *)
(* part 2N+1 is the text behind the last one, without its last byte.  What *)
(* the parts contain, and the parentheses the cut leaves out, is           *)
(* abstracted: a written part is known by its number, and by whether the   *)
(* writer had its data.                                                    *)
(*                                                                         *)
(* script.Filter, which runs the filter, closes the writer's pipe when the *)
(* filter returns (external).  The sheet comes over HTTP without a time    *)
(* limit, and a write to the pipe blocks until somebody reads it: either   *)
(* may take for ever.                                                      *)
(***************************************************************************)
EXTENDS Naturals, Sequences, FiniteSets

CONSTANTS N,     \* number of url(...) in the style sheet
          Limit  \* the limit of the errgroup (5 in the code)

Urls == 1..N

ASSUME PipelineAssumption ==
  /\ N \in Nat
  /\ Limit \in Nat /\ Limit >= 2

VARIABLES
  unusable,  \* input: the urls that do not parse or have no mime type
  tail,      \* input: the bytes behind the last ")": none, one or more
  filter,    \* where the filter is
  next,      \* the part the filter comes to next
  closed,    \* writeChan is closed
  writer,    \* where the writer is
  holding,   \* the part the writer received last
  fetch,     \* how far the goroutine of each url has come
  fetched,   \* the urls whose data is there
  cancelled, \* the group has recorded an error and cancelled the context
  output,    \* what has been written: part numbers, and whether they had data
  result     \* what the filter returned

sheet == <<unusable, tail>>
state == <<filter, next, closed, writer, holding, fetch, fetched, cancelled, output, result>>
vars == <<sheet, state>>

FilterStates == {"reading", "cutting", "launched", "waiting", "returned"}
WriterStates == {"new", "receiving", "awaiting", "writing", "ended"}
FetchStates == {"new", "fetching", "arrived", "failed", "ended"}
Results == {"none", "nil", "error", "panic"}

Init ==
  /\ unusable \in SUBSET Urls
  /\ tail \in {"none", "one", "more"}
  /\ filter = "reading"
  /\ next = 1
  /\ closed = FALSE
  /\ writer = "new"
  /\ holding = 0
  /\ fetch = [u \in Urls |-> "new"]
  /\ fetched = {}
  /\ cancelled = FALSE
  /\ output = <<>>
  /\ result = "none"

-----------------------------------------------------------------------------
IsFile(p) == p <= 2 * N /\ p % 2 = 0
UrlOf(p) == p \div 2

(* The goroutines that count against the limit.                            *)
Members ==
  {u \in Urls : fetch[u] \in {"fetching", "arrived", "failed"}}
    \cup {w \in {0} : writer \notin {"new", "ended"}}

(* close(fs.c) comes before the goroutine returns its error.               *)
Signalled(u) == fetch[u] \in {"arrived", "failed", "ended"}

-----------------------------------------------------------------------------
(* The filter.                                                             *)
ReadSheet ==
  /\ filter = "reading"
  /\ filter' = "cutting"
  /\ writer' = "receiving"
  /\ UNCHANGED <<next, closed, holding, fetch, fetched, cancelled, output, result>>

(* An error of ReadAll is swallowed: the filter returns nil.  There is no  *)
(* group yet.                                                              *)
ReadFails ==
  /\ filter = "reading"
  /\ filter' = "returned"
  /\ result' = "nil"
  /\ UNCHANGED <<next, closed, writer, holding, fetch, fetched, cancelled, output>>

(* writeChan <- part: the filter and the writer meet.                      *)
HandOver(p) ==
  /\ writer = "receiving"
  /\ writer' = IF IsFile(p) THEN "awaiting" ELSE "writing"
  /\ holding' = p
  /\ next' = p + 1

SendText ==
  /\ filter = "cutting"
  /\ next <= 2 * N + 1 /\ ~IsFile(next)
  /\ next = 2 * N + 1 => tail = "more"
  /\ HandOver(next)
  /\ UNCHANGED <<filter, closed, fetch, fetched, cancelled, output, result>>

(* The early returns: the deferred close, but no Wait for the group.       *)
RejectUrl ==
  /\ filter = "cutting"
  /\ IsFile(next) /\ UrlOf(next) \in unusable
  /\ filter' = "returned"
  /\ result' = "error"
  /\ closed' = TRUE
  /\ UNCHANGED <<next, writer, holding, fetch, fetched, cancelled, output>>

(* Variant: the writer is not counted against the limit.                   *)
LaunchOneMore ==
  /\ filter = "cutting"
  /\ IsFile(next) /\ UrlOf(next) \notin unusable
  /\ Cardinality(Members \ {0}) < Limit
  /\ fetch' = [fetch EXCEPT ![UrlOf(next)] = "fetching"]
  /\ filter' = "launched"
  /\ UNCHANGED <<next, closed, writer, holding, fetched, cancelled, output, result>>

(* eg.Go blocks while the group is at its limit.                           *)
LaunchFetch ==
  /\ filter = "cutting"
  /\ IsFile(next) /\ UrlOf(next) \notin unusable
  /\ Cardinality(Members) < Limit
  /\ fetch' = [fetch EXCEPT ![UrlOf(next)] = "fetching"]
  /\ filter' = "launched"
  /\ UNCHANGED <<next, closed, writer, holding, fetched, cancelled, output, result>>

SendFile ==
  /\ filter = "launched"
  /\ HandOver(next)
  /\ filter' = "cutting"
  /\ UNCHANGED <<closed, fetch, fetched, cancelled, output, result>>

(* Nothing is left of the sheet, not even the byte that is never sent: the *)
(* slice bs[len(bs) : len(bs)-1] panics, and the program ends.             *)
TailPanics ==
  /\ filter = "cutting"
  /\ next = 2 * N + 1 /\ tail = "none"
  /\ filter' = "returned"
  /\ result' = "panic"
  /\ UNCHANGED <<next, closed, writer, holding, fetch, fetched, cancelled, output>>

PartCount == IF tail = "more" THEN 2 * N + 1 ELSE 2 * N

PastEnd == next > PartCount /\ tail # "none"

(* Variant: the channel is left to the deferred close.                     *)
CloseDeferred ==
  /\ filter = "cutting"
  /\ PastEnd
  /\ filter' = "waiting"
  /\ UNCHANGED <<next, closed, writer, holding, fetch, fetched, cancelled, output, result>>

CloseChannel ==
  /\ filter = "cutting"
  /\ PastEnd
  /\ closed' = TRUE
  /\ filter' = "waiting"
  /\ UNCHANGED <<next, writer, holding, fetch, fetched, cancelled, output, result>>

(* eg.Wait has seen every goroutine return.                                *)
WaitReturns ==
  /\ filter = "waiting"
  /\ Members = {}
  /\ filter' = "returned"
  /\ result' = IF cancelled THEN "error" ELSE "nil"
  /\ UNCHANGED <<next, closed, writer, holding, fetch, fetched, cancelled, output>>

-----------------------------------------------------------------------------
(* The writer.  Its select takes any of the cases that are ready.          *)
WriterCancelled ==
  /\ writer \in {"receiving", "awaiting"}
  /\ cancelled
  /\ writer' = "ended"
  /\ UNCHANGED <<filter, next, closed, holding, fetch, fetched, cancelled, output, result>>

WriterEnds ==
  /\ writer = "receiving"
  /\ closed
  /\ writer' = "ended"
  /\ UNCHANGED <<filter, next, closed, holding, fetch, fetched, cancelled, output, result>>

(* Variant: the writer does not wait for the part it holds.                *)
AwaitNothing ==
  /\ writer = "awaiting"
  /\ writer' = "writing"
  /\ UNCHANGED <<filter, next, closed, holding, fetch, fetched, cancelled, output, result>>

AwaitFile ==
  /\ writer = "awaiting"
  /\ Signalled(UrlOf(holding))
  /\ writer' = "writing"
  /\ UNCHANGED <<filter, next, closed, holding, fetch, fetched, cancelled, output, result>>

(* The pipe is there until the filter has returned.                        *)
Write ==
  /\ writer = "writing"
  /\ filter # "returned"
  /\ output' = Append(output,
       [part |-> holding, data |-> IsFile(holding) => UrlOf(holding) \in fetched])
  /\ writer' = "receiving"
  /\ UNCHANGED <<filter, next, closed, holding, fetch, fetched, cancelled, result>>

WriteFails ==
  /\ writer = "writing"
  /\ writer' = "ended"
  /\ cancelled' = TRUE
  /\ UNCHANGED <<filter, next, closed, holding, fetch, fetched, output, result>>

-----------------------------------------------------------------------------
(* A fetching goroutine: the answer, close(fs.c), and its return.          *)
FileArrives(u) ==
  /\ fetch[u] = "fetching"
  /\ fetch' = [fetch EXCEPT ![u] = "arrived"]
  /\ fetched' = fetched \cup {u}
  /\ UNCHANGED <<filter, next, closed, writer, holding, cancelled, output, result>>

FileFails(u) ==
  /\ fetch[u] = "fetching"
  /\ fetch' = [fetch EXCEPT ![u] = "failed"]
  /\ UNCHANGED <<filter, next, closed, writer, holding, fetched, cancelled, output, result>>

(* Variant: the error of a fetch is logged, and not returned.              *)
ReturnNoError(u) ==
  /\ fetch[u] \in {"arrived", "failed"}
  /\ fetch' = [fetch EXCEPT ![u] = "ended"]
  /\ UNCHANGED <<filter, next, closed, writer, holding, fetched, cancelled, output, result>>

FetchReturns(u) ==
  /\ fetch[u] \in {"arrived", "failed"}
  /\ fetch' = [fetch EXCEPT ![u] = "ended"]
  /\ cancelled' = (cancelled \/ fetch[u] = "failed")
  /\ UNCHANGED <<filter, next, closed, writer, holding, fetched, output, result>>

-----------------------------------------------------------------------------
Read == ReadSheet \/ ReadFails
Cut ==
  \/ SendText \/ RejectUrl \/ LaunchFetch \/ SendFile
  \/ TailPanics \/ CloseChannel \/ WaitReturns
Filter == Read \/ Cut

Receive == WriterCancelled \/ WriterEnds \/ AwaitFile
PutOut == Write \/ WriteFails
Writer == Receive \/ PutOut

(* The sheet does not change; a panic of the filter ends the program.      *)
Step(A) == A /\ result # "panic" /\ UNCHANGED sheet

Next ==
  \/ Step(Filter)
  \/ Step(Writer)
  \/ \E u \in Urls : Step(FileArrives(u) \/ FileFails(u) \/ FetchReturns(u))

Spec == Init /\ [][Next]_vars

(* Goroutines are scheduled; nothing is assumed of the servers of the      *)
(* sheet and of the files, nor of who reads the pipe.                      *)
Fairness ==
  /\ WF_vars(Step(Cut))
  /\ WF_vars(Step(Receive))
  /\ \A u \in Urls : WF_vars(Step(FetchReturns(u)))

FairSpec == Spec /\ Fairness

-----------------------------------------------------------------------------
(* Type correctness; the group stays within its limit.                     *)
TypeOK ==
  /\ unusable \subseteq Urls /\ tail \in {"none", "one", "more"}
  /\ filter \in FilterStates
  /\ next \in 1..(2 * N + 2)
  /\ closed \in BOOLEAN
  /\ writer \in WriterStates
  /\ holding \in 0..(2 * N + 1)
  /\ fetch \in [Urls -> FetchStates]
  /\ fetched \subseteq Urls
  /\ cancelled \in BOOLEAN
  /\ output \in Seq([part : 1..(2 * N + 1), data : BOOLEAN])
  /\ result \in Results
  /\ Cardinality(Members) <= Limit

(* What is written is the beginning of the sheet, part by part in its      *)
(* order, however the fetches overtake each other; a file is written       *)
(* without its data only after its fetch has failed (fetchJS:94-129).      *)
WrittenInOrder ==
  \A i \in DOMAIN output :
    /\ output[i].part = i
    /\ ~output[i].data => Signalled(UrlOf(i)) /\ UrlOf(i) \notin fetched

(* The filter returns nil for a sheet it could read only if the whole      *)
(* sheet, with the data of every file, has been written (fetchJS:213-224). *)
NilMeansComplete ==
  result = "nil" /\ writer # "new" =>
    /\ Len(output) = PartCount
    /\ \A i \in DOMAIN output : output[i].data

(* The filter returns, unless the sheet, a file or the pipe hangs, or an   *)
(* error has ended the writer: then a filter that still has parts to hand  *)
(* over blocks for ever on the channel nobody receives from (fetchJS:68,   *)
(* 99-104, 123, 135, 211, 214).                                            *)
ReturnsUnlessFailed ==
  \/ <>(result # "none")
  \/ <>[](filter = "reading")
  \/ <>[](\E u \in Urls : fetch[u] = "fetching")
  \/ <>[](writer = "writing")
  \/ <>cancelled
=============================================================================
