------------------------- MODULE FontPipelineProofs --------------------------
(* Theorems about FontPipeline for every style sheet and every limit of    *)
(* the group.                                                              *)
EXTENDS FontPipeline, FiniteSetTheorems, TLAPS

USE DEF FilterStates, WriterStates, FetchStates, Results

(* TypeOK without the size of the group.                                   *)
Types ==
  /\ unusable \subseteq Urls /\ tail \in {"none", "one", "more"}
  /\ filter \in FilterStates
  /\ next \in 1..(2 * N + 2)
  /\ closed \in BOOLEAN
  /\ writer \in WriterStates
  /\ holding \in 0..(2 * N + 1)
  /\ fetch \in [Urls -> FetchStates]
  /\ fetched \subseteq Urls
  /\ cancelled \in BOOLEAN
  /\ output \in Seq([part : 1..(2 * N + 1), data : BOOLEAN])
  /\ result \in Results

(* Which parts have been launched, handed over, and written.               *)
Launched ==
  /\ \A u \in Urls : fetch[u] = "new" <=> 2 * u > next \/ (2 * u = next /\ filter # "launched")
  /\ filter = "launched" => IsFile(next)
  /\ next = 2 * N + 2 => tail = "more"

HandedOver ==
  /\ filter = "reading" => writer = "new"
  /\ filter \in {"cutting", "launched", "waiting"} => writer # "new"
  /\ writer = "new" => next = 1 /\ Len(output) = 0
  /\ writer = "receiving" => Len(output) = next - 1
  /\ writer \in {"awaiting", "writing"} => holding = next - 1 /\ Len(output) = next - 2
  /\ writer = "ended" => Len(output) <= next - 1
  /\ writer = "awaiting" => IsFile(holding)
  /\ writer = "writing" /\ IsFile(holding) => Signalled(UrlOf(holding))

(* A file without data has failed, and its error cancels at last.          *)
Fetched ==
  \A u \in Urls :
    /\ fetch[u] \in {"new", "fetching", "failed"} => u \notin fetched
    /\ fetch[u] = "arrived" => u \in fetched
    /\ fetch[u] = "ended" /\ u \notin fetched => cancelled

(* WrittenInOrder; only files may lack their data.                         *)
Ordered ==
  /\ WrittenInOrder
  /\ \A i \in DOMAIN output : ~output[i].data => IsFile(i)

(* Without an error the writer ends after the last part, and the filter    *)
(* after everyone.                                                         *)
Ends ==
  /\ closed => filter \in {"waiting", "returned"}
  /\ filter = "waiting" => closed /\ next = PartCount + 1
  /\ result # "none" <=> filter = "returned"
  /\ writer = "ended" /\ ~cancelled => closed /\ Len(output) = next - 1
  /\ result = "nil" /\ writer # "new" =>
       /\ writer = "ended" /\ ~cancelled /\ next = PartCount + 1
       /\ \A u \in Urls : fetch[u] \in {"new", "ended"}

Inv == Types /\ Launched /\ HandedOver /\ Fetched /\ Ordered /\ Ends

(* The actions, without the choice of the sheet.                           *)
Moves ==
  \/ Filter \/ Writer
  \/ \E u \in Urls : FileArrives(u) \/ FileFails(u) \/ FetchReturns(u)

LEMMA NextMoves == [Next]_vars => UNCHANGED sheet /\ (Moves \/ UNCHANGED state)
BY DEF Next, Step, Moves, vars, sheet, state

-----------------------------------------------------------------------------
(* The numbers of the parts.                                               *)
LEMMA FilePart ==
  ASSUME NEW p \in Nat, p >= 1, IsFile(p)
  PROVE  UrlOf(p) \in Urls /\ p = 2 * UrlOf(p)
BY PipelineAssumption DEF IsFile, UrlOf, Urls

LEMMA PartFile == \A u \in Urls : IsFile(2 * u) /\ UrlOf(2 * u) = u
BY PipelineAssumption DEF IsFile, UrlOf, Urls

-----------------------------------------------------------------------------
LEMMA TypesStep == Inv /\ [Next]_vars => Types'
<1> SUFFICES ASSUME Inv, UNCHANGED sheet, Moves \/ UNCHANGED state PROVE Types'
  BY NextMoves
<1> USE PipelineAssumption DEF Inv, Types, sheet
<1>1. CASE ReadSheet \/ ReadFails \/ RejectUrl \/ TailPanics \/ CloseChannel \/ WaitReturns
  BY <1>1 DEF ReadSheet, ReadFails, RejectUrl, TailPanics, CloseChannel, WaitReturns
<1>2. CASE SendText
  BY <1>2 DEF SendText, HandOver
<1>3. CASE LaunchFetch
  BY <1>3 DEF LaunchFetch
<1>4. CASE SendFile
  BY <1>4 DEF SendFile, HandOver, Launched, IsFile
<1>5. CASE WriterCancelled \/ WriterEnds \/ AwaitFile \/ WriteFails
  BY <1>5 DEF WriterCancelled, WriterEnds, AwaitFile, WriteFails
<1>6. CASE Write
  <2>1. holding \in 1..(2 * N + 1)
    BY <1>6 DEF Write, HandedOver
  <2>2. (IsFile(holding) => UrlOf(holding) \in fetched) \in BOOLEAN
    OBVIOUS
  <2> QED
    BY <1>6, <2>1, <2>2 DEF Write
<1>7. ASSUME NEW u \in Urls, FileArrives(u) \/ FileFails(u) \/ FetchReturns(u)
      PROVE  Types'
  <2>1. cancelled' \in BOOLEAN
    BY <1>7 DEF FileArrives, FileFails, FetchReturns
  <2>2. /\ fetch' \in [Urls -> FetchStates]
        /\ fetched' \subseteq Urls
        /\ UNCHANGED <<filter, next, closed, writer, holding, output, result>>
    BY <1>7 DEF FileArrives, FileFails, FetchReturns
  <2> QED
    BY <2>1, <2>2
<1>8. CASE UNCHANGED state
  BY <1>8 DEF state
<1> QED
  BY <1>1, <1>2, <1>3, <1>4, <1>5, <1>6, <1>7, <1>8 DEF Moves, Filter, Read, Cut, Writer, Receive, PutOut

LEMMA LaunchedStep == Inv /\ [Next]_vars => Launched'
<1> SUFFICES ASSUME Inv, UNCHANGED sheet, Moves \/ UNCHANGED state PROVE Launched'
  BY NextMoves
<1> USE PipelineAssumption DEF Inv, Types, sheet, Launched, IsFile, Urls
<1>1. CASE ReadSheet \/ ReadFails \/ RejectUrl \/ TailPanics \/ CloseChannel \/ WaitReturns
  BY <1>1 DEF ReadSheet, ReadFails, RejectUrl, TailPanics, CloseChannel, WaitReturns
<1>2. CASE SendText
  BY <1>2 DEF SendText, HandOver
<1>3. CASE LaunchFetch
  BY <1>3, FilePart DEF LaunchFetch
<1>4. CASE SendFile
  BY <1>4 DEF SendFile, HandOver
<1>5. CASE Writer
  BY <1>5 DEF Writer, Receive, PutOut, WriterCancelled, WriterEnds, AwaitFile, Write, WriteFails
<1>6. ASSUME NEW u \in Urls, FileArrives(u) \/ FileFails(u) \/ FetchReturns(u)
      PROVE  Launched'
  BY <1>6 DEF FileArrives, FileFails, FetchReturns
<1>7. CASE UNCHANGED state
  BY <1>7 DEF state
<1> QED
  BY <1>1, <1>2, <1>3, <1>4, <1>5, <1>6, <1>7 DEF Moves, Filter, Read, Cut

LEMMA HandedOverStep == Inv /\ [Next]_vars => HandedOver'
<1> SUFFICES ASSUME Inv, UNCHANGED sheet, Moves \/ UNCHANGED state PROVE HandedOver'
  BY NextMoves
<1> USE PipelineAssumption DEF Inv, Types, HandedOver
<1>1. CASE ReadSheet \/ ReadFails \/ RejectUrl \/ TailPanics \/ CloseChannel \/ WaitReturns
  BY <1>1 DEF ReadSheet, ReadFails, RejectUrl, TailPanics, CloseChannel, WaitReturns, Signalled
<1>2. CASE SendText
  BY <1>2 DEF SendText, HandOver, Signalled
<1>3. CASE LaunchFetch
  BY <1>3 DEF LaunchFetch, Signalled, IsFile
<1>4. CASE SendFile
  BY <1>4 DEF SendFile, HandOver, Launched
<1>5. CASE WriterCancelled \/ WriterEnds \/ AwaitFile \/ WriteFails
  BY <1>5 DEF WriterCancelled, WriterEnds, AwaitFile, WriteFails, Signalled
<1>6. CASE Write
  BY <1>6 DEF Write
<1>7. ASSUME NEW u \in Urls, FileArrives(u) \/ FileFails(u) \/ FetchReturns(u)
      PROVE  HandedOver'
  <2>1. /\ UNCHANGED <<filter, next, writer, holding, output>>
        /\ \A v \in Urls : Signalled(v) => Signalled(v)'
    BY <1>7 DEF FileArrives, FileFails, FetchReturns, Signalled
  <2>2. IsFile(holding) /\ writer = "writing" => UrlOf(holding) \in Urls
    BY FilePart
  <2>3. /\ UNCHANGED IsFile(holding)
        /\ UNCHANGED UrlOf(holding)
    BY <2>1 DEF IsFile, UrlOf
  <2> QED
    BY <2>1, <2>2, <2>3
<1>8. CASE UNCHANGED state
  BY <1>8 DEF state, Signalled
<1> QED
  BY <1>1, <1>2, <1>3, <1>4, <1>5, <1>6, <1>7, <1>8 DEF Moves, Filter, Read, Cut, Writer, Receive, PutOut

LEMMA FetchedStep == Inv /\ [Next]_vars => Fetched'
<1> SUFFICES ASSUME Inv, UNCHANGED sheet, Moves \/ UNCHANGED state PROVE Fetched'
  BY NextMoves
<1> USE DEF Inv, Types, Fetched
<1>1. CASE Filter
  <2>1. CASE LaunchFetch
    <3>1. UrlOf(next) \in Urls /\ fetch[UrlOf(next)] = "new"
      BY <2>1, FilePart, PipelineAssumption DEF LaunchFetch, Launched
    <3> QED
      BY <2>1, <3>1 DEF LaunchFetch
  <2> QED
    BY <1>1, <2>1
       DEF Filter, Read, Cut, ReadSheet, ReadFails, SendText, HandOver, RejectUrl, SendFile,
           TailPanics, CloseChannel, WaitReturns
<1>2. CASE Writer
  BY <1>2 DEF Writer, Receive, PutOut, WriterCancelled, WriterEnds, AwaitFile, Write, WriteFails
<1>3. ASSUME NEW u \in Urls, FileArrives(u) \/ FileFails(u) \/ FetchReturns(u)
      PROVE  Fetched'
  BY <1>3 DEF FileArrives, FileFails, FetchReturns
<1>4. CASE UNCHANGED state
  BY <1>4 DEF state
<1> QED
  BY <1>1, <1>2, <1>3, <1>4 DEF Moves

LEMMA OrderedStep == Inv /\ [Next]_vars => Ordered'
<1> SUFFICES ASSUME Inv, UNCHANGED sheet, Moves \/ UNCHANGED state PROVE Ordered'
  BY NextMoves
<1> USE DEF Inv, Types, Ordered, WrittenInOrder
(* A file that is signalled stays so, and its data does not come any more. *)
<1>1. ASSUME UNCHANGED output,
             \A u \in Urls : Signalled(u) /\ u \notin fetched => Signalled(u)' /\ u \notin fetched'
      PROVE  Ordered'
  <2>1. \A i \in DOMAIN output : i \in Nat /\ i >= 1
    OBVIOUS
  <2> QED
    BY <1>1, <2>1, FilePart DEF IsFile
<1>2. CASE Filter
  <2>1. CASE LaunchFetch
    <3>1. fetch[UrlOf(next)] = "new" /\ UrlOf(next) \in Urls
      BY <2>1, FilePart, PipelineAssumption DEF LaunchFetch, Launched
    <3> QED
      BY <1>1, <2>1, <3>1 DEF LaunchFetch, Signalled
  <2>2. ASSUME UNCHANGED <<output, fetch, fetched>> PROVE Ordered'
    BY <1>1, <2>2 DEF Signalled
  <2> QED
    BY <1>2, <2>1, <2>2
       DEF Filter, Read, Cut, ReadSheet, ReadFails, SendText, HandOver, RejectUrl, SendFile,
           TailPanics, CloseChannel, WaitReturns
<1>3. CASE WriterCancelled \/ WriterEnds \/ AwaitFile \/ WriteFails
  BY <1>1, <1>3 DEF WriterCancelled, WriterEnds, AwaitFile, WriteFails, Signalled
<1>4. CASE Write
  <2> DEFINE item == [part |-> holding, data |-> IsFile(holding) => UrlOf(holding) \in fetched]
  <2>1. /\ output' = Append(output, item)
        /\ holding = Len(output) + 1
        /\ IsFile(holding) => Signalled(UrlOf(holding))
        /\ UNCHANGED <<fetch, fetched>>
    BY <1>4, PipelineAssumption DEF Write, HandedOver
  <2>2. /\ DOMAIN output' = 1..(Len(output) + 1)
        /\ \A i \in DOMAIN output : output'[i] = output[i]
        /\ output'[Len(output) + 1] = item
        /\ DOMAIN output = 1..Len(output)
    BY <2>1
  <2>3. item.part = holding /\ (item.data <=> (IsFile(holding) => UrlOf(holding) \in fetched))
    OBVIOUS
  <2> HIDE DEF item
  <2> QED
    BY <2>1, <2>2, <2>3 DEF Signalled, IsFile
<1>5. ASSUME NEW u \in Urls, FileArrives(u) \/ FileFails(u) \/ FetchReturns(u)
      PROVE  Ordered'
  BY <1>1, <1>5 DEF FileArrives, FileFails, FetchReturns, Signalled
<1>6. CASE UNCHANGED state
  BY <1>1, <1>6 DEF state, Signalled
<1> QED
  BY <1>2, <1>3, <1>4, <1>5, <1>6 DEF Moves, Writer, Receive, PutOut

LEMMA EndsStep == Inv /\ [Next]_vars => Ends'
<1> SUFFICES ASSUME Inv, UNCHANGED sheet, Moves \/ UNCHANGED state PROVE Ends'
  BY NextMoves
<1> USE PipelineAssumption DEF Inv, Types, sheet, Ends, PartCount
<1>1. CASE ReadSheet \/ ReadFails \/ RejectUrl \/ TailPanics
  BY <1>1 DEF ReadSheet, ReadFails, RejectUrl, TailPanics, HandedOver
<1>2. CASE SendText
  BY <1>2 DEF SendText, HandOver
<1>3. CASE LaunchFetch
  BY <1>3 DEF LaunchFetch
<1>4. CASE SendFile
  BY <1>4 DEF SendFile, HandOver
<1>5. CASE CloseChannel
  BY <1>5 DEF CloseChannel, PastEnd, Launched
<1>6. CASE WaitReturns
  <2>1. writer = "ended" /\ \A u \in Urls : fetch[u] \in {"new", "ended"}
    BY <1>6 DEF WaitReturns, Members, HandedOver
  <2> QED
    BY <1>6, <2>1 DEF WaitReturns
<1>7. CASE WriterCancelled \/ WriterEnds \/ AwaitFile \/ WriteFails
  BY <1>7 DEF WriterCancelled, WriterEnds, AwaitFile, WriteFails, HandedOver
<1>8. CASE Write
  BY <1>8 DEF Write
<1>9. ASSUME NEW u \in Urls, FileArrives(u) \/ FileFails(u) \/ FetchReturns(u)
      PROVE  Ends'
  <2>1. /\ UNCHANGED <<filter, next, closed, writer, output, result>>
        /\ cancelled => cancelled'
        /\ fetch[u] \notin {"new", "ended"}
    BY <1>9 DEF FileArrives, FileFails, FetchReturns
  <2>2. ~(result = "nil" /\ writer # "new")
    BY <2>1
  <2> QED
    BY <2>1, <2>2
<1>10. CASE UNCHANGED state
  BY <1>10 DEF state
<1> QED
  BY <1>1, <1>2, <1>3, <1>4, <1>5, <1>6, <1>7, <1>8, <1>9, <1>10 DEF Moves, Filter, Read, Cut, Writer, Receive, PutOut

LEMMA InvInit == Init => Inv
<1> SUFFICES ASSUME Init PROVE Inv
  OBVIOUS
<1> USE PipelineAssumption DEF Init
<1>1. Types
  <2>1. output \in Seq([part : 1..(2 * N + 1), data : BOOLEAN])
    OBVIOUS
  <2>2. closed \in BOOLEAN /\ cancelled \in BOOLEAN
    OBVIOUS
  <2>3. next \in 1..(2 * N + 2) /\ holding \in 0..(2 * N + 1)
    OBVIOUS
  <2> QED
    BY <2>1, <2>2, <2>3 DEF Types
<1>2. Launched /\ Fetched
  BY DEF Launched, Fetched, Urls
<1>3. HandedOver /\ Ordered /\ Ends
  BY DEF HandedOver, Ordered, WrittenInOrder, Ends
<1> QED
  BY <1>1, <1>2, <1>3 DEF Inv

LEMMA InvHolds == Spec => []Inv
<1>1. Inv /\ [Next]_vars => Inv'
  BY TypesStep, LaunchedStep, HandedOverStep, FetchedStep, OrderedStep, EndsStep DEF Inv
<1> QED
  BY <1>1, InvInit, PTL DEF Spec

-----------------------------------------------------------------------------
(* The group and its limit.                                                *)
GroupBounded == Cardinality(Members) <= Limit

LEMMA MembersFinite ==
  /\ IsFiniteSet(Members) /\ IsFiniteSet(Members')
  /\ Cardinality(Members) \in Nat /\ Cardinality(Members') \in Nat
<1>1. IsFiniteSet(0..N)
  BY FS_Interval, PipelineAssumption
<1>2. Members \subseteq 0..N /\ Members' \subseteq 0..N
  BY PipelineAssumption DEF Members, Urls
<1> QED
  BY <1>1, <1>2, FS_Subset, FS_CardinalityType

LEMMA GroupStep == Inv /\ GroupBounded /\ [Next]_vars => GroupBounded'
<1> SUFFICES ASSUME Inv, GroupBounded, UNCHANGED sheet, Moves \/ UNCHANGED state
             PROVE  GroupBounded'
  BY NextMoves
<1> USE PipelineAssumption DEF GroupBounded
<1>1. ASSUME Members' \subseteq Members PROVE GroupBounded'
  <2>1. Cardinality(Members') <= Cardinality(Members)
    BY <1>1, MembersFinite, FS_Subset
  <2> QED
    BY <2>1, MembersFinite
<1>2. CASE ReadSheet
  <2>1. \A u \in Urls : fetch[u] = "new"
    BY <1>2 DEF ReadSheet, Inv, Types, HandedOver, Launched, Urls
  <2>2. Members' = {0}
    BY <1>2, <2>1 DEF ReadSheet, Members
  <2>3. Cardinality({0}) = 1
    BY FS_Singleton
  <2> QED
    BY <2>2, <2>3
<1>3. CASE LaunchFetch
  <2> DEFINE u == UrlOf(next)
  <2>1. Members' \subseteq Members \cup {u}
    BY <1>3 DEF LaunchFetch, Members, Inv, Types
  <2>2. IsFiniteSet(Members \cup {u}) /\ Cardinality(Members \cup {u}) <= Cardinality(Members) + 1
    BY MembersFinite, FS_AddElement
  <2>3. Cardinality(Members') <= Cardinality(Members \cup {u})
    BY <2>1, <2>2, FS_Subset
  <2>4. Cardinality(Members) < Limit
    BY <1>3 DEF LaunchFetch
  <2>5. Cardinality(Members \cup {u}) \in Nat
    BY <2>2, FS_CardinalityType
  <2> HIDE DEF u
  <2> QED
    BY <2>2, <2>3, <2>4, <2>5, MembersFinite
<1>4. CASE ReadFails \/ RejectUrl \/ TailPanics \/ CloseChannel \/ WaitReturns
  BY <1>1, <1>4 DEF ReadFails, RejectUrl, TailPanics, CloseChannel, WaitReturns, Members
<1>5. CASE SendText \/ SendFile
  BY <1>1, <1>5 DEF SendText, SendFile, HandOver, Members
<1>6. CASE Writer
  BY <1>1, <1>6 DEF Writer, Receive, PutOut, WriterCancelled, WriterEnds, AwaitFile, Write, WriteFails, Members
<1>7. ASSUME NEW u \in Urls, FileArrives(u) \/ FileFails(u) \/ FetchReturns(u)
      PROVE  GroupBounded'
  BY <1>1, <1>7 DEF FileArrives, FileFails, FetchReturns, Members, Inv, Types
<1>8. CASE UNCHANGED state
  BY <1>1, <1>8 DEF state, Members
<1> QED
  BY <1>2, <1>3, <1>4, <1>5, <1>6, <1>7, <1>8 DEF Moves, Filter, Read, Cut

LEMMA GroupHolds == Spec => []GroupBounded
<1>1. Init => GroupBounded
  <2>1. Init => Members = {}
    BY DEF Init, Members
  <2> QED
    BY <2>1, FS_EmptySet, PipelineAssumption DEF GroupBounded
<1> QED
  BY <1>1, GroupStep, InvHolds, PTL DEF Spec

-----------------------------------------------------------------------------
(* Every reachable state is well typed, and the group within its limit.    *)
THEOREM TypeCorrect == Spec => []TypeOK
<1>1. Inv /\ GroupBounded => TypeOK
  BY DEF Inv, Types, GroupBounded, TypeOK
<1> QED
  BY <1>1, InvHolds, GroupHolds, PTL

(* What is written is a prefix of the sheet, in its order.                 *)
THEOREM OrderCorrect == Spec => []WrittenInOrder
<1>1. Inv => WrittenInOrder
  BY DEF Inv, Ordered
<1> QED
  BY <1>1, InvHolds, PTL

(* The filter returns nil only for a sheet that is written completely.     *)
THEOREM CompleteCorrect == Spec => []NilMeansComplete
<1>1. ASSUME Inv, result = "nil", writer # "new"
      PROVE  Len(output) = PartCount /\ \A i \in DOMAIN output : output[i].data
  <2>1. /\ Len(output) = PartCount
        /\ ~cancelled
        /\ \A u \in Urls : fetch[u] \in {"new", "ended"}
    BY <1>1, PipelineAssumption DEF Inv, Ends, Types, PartCount
  <2>2. ASSUME NEW i \in DOMAIN output, ~output[i].data PROVE FALSE
    <3>1. i \in Nat /\ i >= 1 /\ IsFile(i)
      BY <1>1, <2>2 DEF Inv, Types, Ordered
    <3>2. UrlOf(i) \in Urls /\ Signalled(UrlOf(i)) /\ UrlOf(i) \notin fetched
      BY <1>1, <2>2, <3>1, FilePart DEF Inv, Ordered, WrittenInOrder
    <3> QED
      BY <1>1, <2>1, <3>2 DEF Inv, Fetched, Signalled
  <2>3. \A i \in DOMAIN output : output[i].data \in BOOLEAN
    <3> DEFINE Item == [part : 1..(2 * N + 1), data : BOOLEAN]
    <3>1. output \in Seq(Item)
      BY <1>1 DEF Inv, Types
    <3> HIDE DEF Item
    <3>2. \A i \in DOMAIN output : output[i] \in Item
      BY <3>1
    <3> QED
      BY <3>2 DEF Item
  <2> QED
    BY <2>1, <2>2, <2>3
<1>2. Inv => NilMeansComplete
  BY <1>1 DEF NilMeansComplete
<1> QED
  BY <1>2, InvHolds, PTL
-----------------------------------------------------------------------------
(* The safety half of ReturnsUnlessFailed: nothing waits for ever but for  *)
(* the sheet, a file, the pipe or a writer that an error has ended, and    *)
(* nothing goes on for ever.                                               *)

(* The goroutines are not blocked: the guards of the filter's, the         *)
(* writer's and the fetching goroutines' steps, without those that wait    *)
(* for somebody else: the read of the sheet, the answer of a file server   *)
(* and the write to the pipe.                                              *)
CanMove ==
  \/ filter = "cutting" /\ next <= 2 * N + 1 /\ ~IsFile(next)
       /\ (next = 2 * N + 1 => tail = "more") /\ writer = "receiving"
  \/ filter = "cutting" /\ IsFile(next)
       /\ (UrlOf(next) \in unusable \/ Cardinality(Members) < Limit)
  \/ filter = "launched" /\ writer = "receiving"
  \/ filter = "cutting" /\ next = 2 * N + 1 /\ tail = "none"
  \/ filter = "cutting" /\ PastEnd
  \/ filter = "waiting" /\ Members = {}
  \/ writer = "receiving" /\ (closed \/ cancelled)
  \/ writer = "awaiting" /\ (Signalled(UrlOf(holding)) \/ cancelled)
  \/ \E u \in Urls : fetch[u] \in {"arrived", "failed"}

(* io.ReadAll of the sheet (fetchJS:68), and w.Write (fetchJS:123).        *)
SheetHangs == filter = "reading"
PipeHangs == writer = "writing" /\ filter # "returned"

Fetching == \E u \in Urls : fetch[u] = "fetching"

(* The error path that returns no error: fetchJS:99-104 ends the writer,   *)
(* and lines 135, 211 and 214 send to it.                                  *)
WriterGone == cancelled /\ writer = "ended" /\ filter \in {"cutting", "launched"}

StuckOnlyIf == result = "none" => CanMove \/ SheetHangs \/ Fetching \/ PipeHangs \/ WriterGone

(* With no goroutine of a fetch, the writer is the whole group.            *)
LEMMA GroupIsWriter ==
  ASSUME Inv, \A u \in Urls : fetch[u] \in {"new", "ended"}
  PROVE  /\ writer = "ended" => Members = {}
         /\ Cardinality(Members) < Limit
<1>1. Members = {} \/ Members = {0}
  BY DEF Members
<1>2. Cardinality({}) = 0 /\ Cardinality({0}) = 1
  BY FS_EmptySet, FS_Singleton
<1>3. writer = "ended" => Members = {}
  BY DEF Members
<1> QED
  BY <1>1, <1>2, <1>3, PipelineAssumption

(* The writer never waits for a file that nobody fetches.                  *)
LEMMA AwaitedIsLaunched ==
  ASSUME Inv, writer = "awaiting"
  PROVE  Signalled(UrlOf(holding)) \/ Fetching
<1>1. holding = next - 1 /\ IsFile(holding) /\ holding \in Nat /\ holding >= 1
  BY DEF Inv, HandedOver, Types, IsFile
<1>2. UrlOf(holding) \in Urls /\ holding = 2 * UrlOf(holding)
  BY <1>1, FilePart
<1>3. fetch[UrlOf(holding)] # "new"
  BY <1>1, <1>2, PipelineAssumption DEF Inv, Types, Launched, Urls
<1> QED
  BY <1>2, <1>3 DEF Inv, Types, Signalled, Fetching

LEMMA StuckNowhereElse == Inv => StuckOnlyIf
<1> SUFFICES ASSUME Inv, result = "none", ~SheetHangs, ~Fetching, ~PipeHangs, ~WriterGone
             PROVE  CanMove
  BY DEF StuckOnlyIf
<1>a. Types /\ filter # "returned"
  BY DEF Inv, Ends
<1>1. CASE \E u \in Urls : fetch[u] \in {"arrived", "failed"}
  BY <1>1 DEF CanMove
<1>2. filter # "reading" /\ writer # "writing"
  BY <1>a DEF SheetHangs, PipeHangs
<1>4. CASE writer = "awaiting"
  BY <1>4, AwaitedIsLaunched DEF CanMove
<1>5. CASE /\ filter # "reading" /\ writer \in {"receiving", "ended"}
           /\ ~ \E u \in Urls : fetch[u] \in {"arrived", "failed"}
  <2>1. \A u \in Urls : fetch[u] \in {"new", "ended"}
    BY <1>a, <1>5 DEF Types, Fetching
  <2>2. (writer = "ended" => Members = {}) /\ Cardinality(Members) < Limit
    BY <2>1, GroupIsWriter
  <2>3. CASE filter = "waiting"
    BY <1>5, <2>2, <2>3 DEF CanMove, Inv, Ends
  <2>4. CASE filter \in {"cutting", "launched"}
    <3>1. writer = "receiving"
      BY <1>5, <2>4 DEF WriterGone, Inv, Ends
    <3>2. CASE filter = "launched" \/ IsFile(next)
      BY <2>2, <2>4, <3>1, <3>2 DEF CanMove
    <3>3. CASE filter = "cutting" /\ ~IsFile(next) /\ next <= 2 * N + 1
      <4>1. CASE next = 2 * N + 1 => tail = "more"
        BY <3>1, <3>3, <4>1 DEF CanMove
      <4>2. CASE next = 2 * N + 1 /\ tail = "none"
        BY <3>3, <4>2 DEF CanMove
      <4>3. CASE next = 2 * N + 1 /\ tail = "one"
        <5>1. PastEnd
          BY <4>3, PipelineAssumption DEF PastEnd, PartCount
        <5> QED
          BY <3>3, <5>1 DEF CanMove
      <4> QED
        BY <1>a, <4>1, <4>2, <4>3 DEF Types
    <3>4. CASE filter = "cutting" /\ next > 2 * N + 1
      <4>1. next = 2 * N + 2 /\ tail = "more"
        BY <1>a, <3>4, PipelineAssumption DEF Types, Inv, Launched
      <4>2. PastEnd
        BY <4>1, PipelineAssumption DEF PastEnd, PartCount
      <4> QED
        BY <3>4, <4>2 DEF CanMove
    <3> QED
      BY <1>a, <2>4, <3>2, <3>3, <3>4, PipelineAssumption DEF Types
  <2> QED
    BY <1>a, <1>5, <2>3, <2>4 DEF Types
<1>6. writer = "new" => filter = "reading"
  BY <1>a DEF Inv, Types, HandedOver
<1> QED
  BY <1>a, <1>1, <1>2, <1>4, <1>5, <1>6 DEF Types

(* fontCSS blocks for ever in four ways only: on the server of the sheet,  *)
(* on the server of a file, on a pipe that nobody reads, and on a writer   *)
(* that an error has ended while parts are left to hand over.              *)
THEOREM NeverStuckElse == Spec => []StuckOnlyIf
BY StuckNowhereElse, InvHolds, PTL
-----------------------------------------------------------------------------
(* What is left to do: parts to hand over, steps of the filter and of the  *)
(* writer, and goroutines to launch, to be answered and to return.         *)
FilterRank ==
  CASE filter = "reading" -> 4
    [] filter = "cutting" -> 3
    [] filter = "launched" -> 2
    [] filter = "waiting" -> 1
    [] filter = "returned" -> 0

WriterRank ==
  CASE writer = "awaiting" -> 3
    [] writer = "writing" -> 2
    [] writer \in {"new", "receiving"} -> 1
    [] writer = "ended" -> 0

ToLaunch == {u \in Urls : fetch[u] = "new"}
ToAnswer == {u \in Urls : fetch[u] \in {"new", "fetching"}}
ToReturn == {u \in Urls : fetch[u] # "ended"}
FetchFuel == Cardinality(ToLaunch) + Cardinality(ToAnswer) + Cardinality(ToReturn)

Fuel == 4 * (2 * N + 2 - next) + FilterRank + WriterRank + FetchFuel

LEMMA FetchFuelType == FetchFuel \in Nat /\ FetchFuel' \in Nat
<1>1. IsFiniteSet(Urls)
  BY FS_Interval, PipelineAssumption DEF Urls
<1>2. /\ Cardinality(ToLaunch) \in Nat /\ Cardinality(ToLaunch') \in Nat
      /\ Cardinality(ToAnswer) \in Nat /\ Cardinality(ToAnswer') \in Nat
      /\ Cardinality(ToReturn) \in Nat /\ Cardinality(ToReturn') \in Nat
  BY <1>1, FS_Subset, FS_CardinalityType DEF ToLaunch, ToAnswer, ToReturn
<1> QED
  BY <1>2 DEF FetchFuel

(* A goroutine that is launched, is answered or returns uses up one unit.  *)
LEMMA FetchFuelFalls ==
  ASSUME Types, NEW u \in Urls, NEW s, fetch' = [fetch EXCEPT ![u] = s],
         \/ fetch[u] = "new" /\ s = "fetching"
         \/ fetch[u] = "fetching" /\ s \in {"arrived", "failed"}
         \/ fetch[u] \in {"arrived", "failed"} /\ s = "ended"
  PROVE  FetchFuel' = FetchFuel - 1
<1>1. IsFiniteSet(ToLaunch) /\ IsFiniteSet(ToAnswer) /\ IsFiniteSet(ToReturn)
  <2>1. IsFiniteSet(Urls)
    BY FS_Interval, PipelineAssumption DEF Urls
  <2> QED
    BY <2>1, FS_Subset DEF ToLaunch, ToAnswer, ToReturn
<1>2. ASSUME NEW S, IsFiniteSet(S), u \in S
      PROVE  Cardinality(S \ {u}) = Cardinality(S) - 1 /\ Cardinality(S) \in Nat
  BY <1>2, FS_RemoveElement, FS_CardinalityType
<1>3. /\ Cardinality(ToLaunch) \in Nat
      /\ Cardinality(ToAnswer) \in Nat
      /\ Cardinality(ToReturn) \in Nat
  BY <1>1, FS_CardinalityType
<1>4. CASE fetch[u] = "new" /\ s = "fetching"
  <2>1. ToLaunch' = ToLaunch \ {u} /\ ToAnswer' = ToAnswer /\ ToReturn' = ToReturn
    BY <1>4 DEF Types, ToLaunch, ToAnswer, ToReturn
  <2>2. Cardinality(ToLaunch \ {u}) = Cardinality(ToLaunch) - 1
    BY <1>1, <1>2, <1>4 DEF ToLaunch
  <2> QED
    BY <1>3, <2>1, <2>2 DEF FetchFuel
<1>5. CASE fetch[u] = "fetching" /\ s \in {"arrived", "failed"}
  <2>1. ToLaunch' = ToLaunch /\ ToAnswer' = ToAnswer \ {u} /\ ToReturn' = ToReturn
    BY <1>5 DEF Types, ToLaunch, ToAnswer, ToReturn
  <2>2. Cardinality(ToAnswer \ {u}) = Cardinality(ToAnswer) - 1
    BY <1>1, <1>2, <1>5 DEF ToAnswer
  <2> QED
    BY <1>3, <2>1, <2>2 DEF FetchFuel
<1>6. CASE fetch[u] \in {"arrived", "failed"} /\ s = "ended"
  <2>1. ToLaunch' = ToLaunch /\ ToAnswer' = ToAnswer /\ ToReturn' = ToReturn \ {u}
    BY <1>6 DEF Types, ToLaunch, ToAnswer, ToReturn
  <2>2. Cardinality(ToReturn \ {u}) = Cardinality(ToReturn) - 1
    BY <1>1, <1>2, <1>6 DEF ToReturn
  <2> QED
    BY <1>3, <2>1, <2>2 DEF FetchFuel
<1> QED
  BY <1>4, <1>5, <1>6

LEMMA FuelFalls ==
  ASSUME Inv, Next PROVE Fuel \in Nat /\ Fuel' \in Nat /\ Fuel' < Fuel
<1>a. Types /\ Types' /\ Moves
  BY TypesStep DEF Inv, Next, Step, Moves, Types
<1>b. PICK m \in Nat, n \in 1..(2 * N + 2), o \in 1..(2 * N + 2) :
             m = N /\ n = next /\ o = next'
  BY <1>a, PipelineAssumption DEF Types
<1>c. PICK f \in 0..4, g \in 0..4 : f = FilterRank /\ g = FilterRank'
  BY <1>a DEF Types, FilterRank
<1>d. PICK v \in 0..3, w \in 0..3 : v = WriterRank /\ w = WriterRank'
  BY <1>a DEF Types, WriterRank
<1>e. PICK p \in Nat, q \in Nat : p = FetchFuel /\ q = FetchFuel'
  BY FetchFuelType
<1>f. /\ Fuel = 4 * (2 * m + 2 - n) + f + v + p
      /\ Fuel' = 4 * (2 * m + 2 - o) + g + w + q
  BY <1>b, <1>c, <1>d, <1>e DEF Fuel
<1>g. Fuel \in Nat /\ Fuel' \in Nat
  <2>1. n <= 2 * m + 2 /\ o <= 2 * m + 2
    BY <1>b
  <2> QED
    BY <1>f, <2>1
<1>h. ASSUME 4 * n + g + w + q < 4 * o + f + v + p PROVE Fuel' < Fuel
  BY <1>f, <1>h
<1>i. ASSUME fetch' = fetch PROVE q = p
  BY <1>e, <1>i DEF FetchFuel, ToLaunch, ToAnswer, ToReturn
<1> SUFFICES 4 * n + g + w + q < 4 * o + f + v + p
  BY <1>g, <1>h
<1>1. CASE ReadSheet \/ ReadFails \/ RejectUrl \/ TailPanics \/ CloseChannel \/ WaitReturns
  <2>1. next' = next /\ FilterRank' < FilterRank /\ WriterRank' = WriterRank /\ fetch' = fetch
    BY <1>a, <1>1 DEF Types, Inv, HandedOver, FilterRank, WriterRank, ReadSheet, ReadFails,
                      RejectUrl, TailPanics, CloseChannel, WaitReturns
  <2>2. o = n /\ g < f /\ w = v /\ q = p
    BY <1>b, <1>c, <1>d, <1>i, <2>1
  <2> QED
    BY <2>2
<1>2. CASE SendText \/ SendFile
  <2>1. next' = next + 1 /\ fetch' = fetch
    BY <1>2 DEF SendText, SendFile, HandOver
  <2>2. FilterRank \in {2, 3} /\ FilterRank' = 3
    BY <1>2, <1>a DEF Types, FilterRank, SendText, SendFile
  <2>3. WriterRank = 1 /\ WriterRank' \in {2, 3}
    BY <1>2, <1>a DEF Types, WriterRank, SendText, SendFile, HandOver
  <2>4. o = n + 1 /\ g <= f + 1 /\ w <= v + 2 /\ q = p
    BY <1>b, <1>c, <1>d, <1>i, <2>1, <2>2, <2>3
  <2> QED
    BY <2>4
<1>3. CASE LaunchFetch
  <2>1. next' = next /\ FilterRank' < FilterRank /\ WriterRank' = WriterRank
    BY <1>3 DEF FilterRank, WriterRank, LaunchFetch
  <2>2. /\ UrlOf(next) \in Urls /\ next = 2 * UrlOf(next)
        /\ fetch' = [fetch EXCEPT ![UrlOf(next)] = "fetching"]
    BY <1>a, <1>3, FilePart, PipelineAssumption DEF Types, LaunchFetch
  <2>3. fetch[UrlOf(next)] = "new"
    BY <1>3, <2>2 DEF LaunchFetch, Inv, Launched
  <2>4. FetchFuel' = FetchFuel - 1
    BY <1>a, <2>2, <2>3, FetchFuelFalls
  <2>5. o = n /\ g < f /\ w = v /\ q = p - 1
    BY <1>b, <1>c, <1>d, <1>e, <2>1, <2>4
  <2> QED
    BY <2>5
<1>4. CASE Writer
  <2>1. next' = next /\ FilterRank' = FilterRank /\ fetch' = fetch
    BY <1>4 DEF Writer, Receive, PutOut, WriterCancelled, WriterEnds, AwaitFile, Write, WriteFails, FilterRank
  <2>2. WriterRank' < WriterRank
    BY <1>a, <1>4 DEF Types, Writer, Receive, PutOut, WriterCancelled, WriterEnds, AwaitFile, Write,
                      WriteFails, WriterRank
  <2>3. o = n /\ g = f /\ w < v /\ q = p
    BY <1>b, <1>c, <1>d, <1>i, <2>1, <2>2
  <2> QED
    BY <2>3
<1>5. ASSUME NEW u \in Urls, FileArrives(u) \/ FileFails(u) \/ FetchReturns(u)
      PROVE  4 * n + g + w + q < 4 * o + f + v + p
  <2>1. next' = next /\ FilterRank' = FilterRank /\ WriterRank' = WriterRank
    BY <1>5 DEF FileArrives, FileFails, FetchReturns, FilterRank, WriterRank
  <2>2. FetchFuel' = FetchFuel - 1
    BY <1>a, <1>5, FetchFuelFalls DEF FileArrives, FileFails, FetchReturns
  <2>3. o = n /\ g = f /\ w = v /\ q = p - 1
    BY <1>b, <1>c, <1>d, <1>e, <2>1, <2>2
  <2> QED
    BY <2>3
<1> QED
  BY <1>a, <1>1, <1>2, <1>3, <1>4, <1>5 DEF Moves, Filter, Read, Cut

(* Every step leaves less to do: with NeverStuckElse, fontCSS returns      *)
(* after finitely many steps or blocks in a way named there.               *)
THEOREM RunsDown ==
  Spec => [][Next => Fuel \in Nat /\ Fuel' \in Nat /\ Fuel' < Fuel]_vars
<1>1. Inv /\ [Next]_vars
        => [Next => Fuel \in Nat /\ Fuel' \in Nat /\ Fuel' < Fuel]_vars
  BY FuelFalls
<1> QED
  BY <1>1, InvHolds, PTL DEF Spec
=============================================================================
