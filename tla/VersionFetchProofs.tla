------------------------- MODULE VersionFetchProofs -------------------------
(* Theorems about VersionFetch for all sets of jobs, versions, archives    *)
(* and requests, and every limit on the goroutines of unzipDocs.           *)
EXTENDS VersionFetch, SequenceTheorems, TLAPS

-----------------------------------------------------------------------------
(* The operators on names and pages.                                       *)

(* The name a page is saved under is a path.                               *)
LEMMA SaveNameType ==
  ASSUME NEW kind, NEW name \in Seq(STRING)
  PROVE  SaveName(kind, name) \in Seq(STRING)
<1> DEFINE c == StripComponents(kind)
<1>1. c \in Nat
  BY DEF StripComponents
<1>2. CASE Len(name) > c
  <2>1. c + 1 \in 1..(Len(name) + 1) /\ Len(name) \in 0..Len(name)
    BY <1>1, <1>2, LenProperties
  <2>2. SubSeq(name, c + 1, Len(name)) \in Seq(STRING)
    BY <1>1, <1>2, <2>1, SubSeqProperties, LenProperties
  <2> QED
    BY <1>2, <2>2 DEF SaveName
<1>3. CASE ~(Len(name) > c)
  BY <1>3 DEF SaveName
<1> QED
  BY <1>2, <1>3

LEMMA PageOfType ==
  ASSUME NEW kind, NEW e \in Entry
  PROVE  PageOf(kind, e) \in PageFile
BY SaveNameType DEF PageOf, Entry, PageFile

(* The elements of a sequence, as the properties of the module write them. *)
Elements(s) == {s[n] : n \in 1..Len(s)}

(* Appending to a sequence adds one element to what it lists.              *)
LEMMA AppendElements ==
  ASSUME NEW S, NEW s \in Seq(S), NEW e \in S
  PROVE  /\ Append(s, e) \in Seq(S)
         /\ Elements(Append(s, e)) = Elements(s) \cup {e}
<1>1. /\ Append(s, e) \in Seq(S)
      /\ Len(s) \in Nat
      /\ Len(Append(s, e)) = Len(s) + 1
      /\ \A n \in 1..Len(s) : Append(s, e)[n] = s[n]
      /\ Append(s, e)[Len(s) + 1] = e
  BY AppendProperties
<1>2. \A n \in 1..Len(Append(s, e)) : n \in 1..Len(s) \/ n = Len(s) + 1
  BY <1>1
<1>3. ASSUME NEW x \in Elements(s) PROVE x \in Elements(Append(s, e))
  <2>1. PICK n \in 1..Len(s) : x = s[n]
    BY <1>3 DEF Elements
  <2>2. n \in 1..Len(Append(s, e)) /\ x = Append(s, e)[n]
    BY <1>1, <2>1
  <2> QED
    BY <2>2 DEF Elements
<1>4. e \in Elements(Append(s, e))
  <2>1. Len(s) + 1 \in 1..Len(Append(s, e))
    BY <1>1
  <2> QED
    BY <1>1, <2>1 DEF Elements
<1>5. ASSUME NEW x \in Elements(Append(s, e)) PROVE x \in Elements(s) \cup {e}
  <2>1. PICK n \in 1..Len(Append(s, e)) : x = Append(s, e)[n]
    BY <1>5 DEF Elements
  <2> QED
    BY <1>1, <1>2, <2>1 DEF Elements
<1> QED
  BY <1>1, <1>3, <1>4, <1>5

-----------------------------------------------------------------------------
(* Type correctness.                                                       *)

LEMMA TypeInit == FetchInit => TypeOK
BY DEF FetchInit, LedgerInit, TypeOK, Phases, WorkStates, Entries, ReplyKinds, Statuses

(* What each action of the ledger does to the ledger's variables.          *)
LEMMA LedgerTypes ==
  ASSUME TypeOK,
         \/ UNCHANGED <<status, overlap>>
         \/ ProcessExit
         \/ \E j \in Jobs : Post(j) \/ Begin(j) \/ End(j) \/ Die(j) \/ Coalesce(j)
  PROVE  /\ status' \in [Jobs -> Statuses]
         /\ overlap' \in [Jobs -> SUBSET Jobs]
<1>a. /\ status \in [Jobs -> Statuses]
      /\ overlap \in [Jobs -> SUBSET Jobs]
  BY DEF TypeOK
<1>1. CASE UNCHANGED <<status, overlap>>
  BY <1>a, <1>1
<1>2. CASE ProcessExit
  BY <1>a, <1>2 DEF ProcessExit, Statuses
<1>3. ASSUME NEW j \in Jobs, Post(j)
      PROVE  status' \in [Jobs -> Statuses] /\ overlap' \in [Jobs -> SUBSET Jobs]
  BY <1>a, <1>3 DEF Post, Statuses
<1>4. ASSUME NEW j \in Jobs, Begin(j)
      PROVE  status' \in [Jobs -> Statuses] /\ overlap' \in [Jobs -> SUBSET Jobs]
  BY <1>a, <1>4 DEF Begin, Statuses
<1>5. ASSUME NEW j \in Jobs, End(j) \/ Die(j) \/ Coalesce(j)
      PROVE  status' \in [Jobs -> Statuses] /\ overlap' \in [Jobs -> SUBSET Jobs]
  BY <1>a, <1>5 DEF End, Die, Coalesce, Statuses
<1> QED
  BY <1>1, <1>2, <1>3, <1>4, <1>5

(* The names of the actions, for the proofs that have a case for each.     *)
LEMMA Actions ==
  ASSUME [FetchNext]_fetchVars
  PROVE  \/ UNCHANGED fetchVars
         \/ \E j \in Jobs : PostByListing(j) \/ DropJob(j)
         \/ \E j \in Jobs : \/ BeginRun(j) \/ CheckFinds(j) \/ CheckFindsNothing(j)
                           \/ FetchFails(j) \/ Panic(j) \/ UnzipFails(j)
                           \/ \E a \in Delivered(j) : FetchRejects(j, a)
         \/ \E j \in Jobs : \E a \in Delivered(j) : FetchDelivers(j, a)
         \/ \E j \in Jobs : \E n \in Entries(j) : Launch(j, n) \/ EntryFails(j, n)
         \/ \E j \in Jobs : \E n \in Entries(j) : StorePage(j, n)
         \/ \E j \in Jobs : \E n \in Entries(j) : AppendPage(j, n)
         \/ \E j \in Jobs : PublishPages(j)
         \/ \E r \in Requests : AskForFetch(r)
         \/ \E r \in Requests : AskFindsNoFile(r)
         \/ \E r \in Requests : AskFindsFile(r)
         \/ \E r \in Requests : ReadPage(r)
         \/ Exit
BY DEF FetchNext, Runner, Reader, Crash

(* What a goroutine of unzipDocs works on is an entry of an archive.       *)
LEMMA EntryType ==
  ASSUME TypeOK, NEW j \in Jobs, NEW n \in Entries(j)
  PROVE  zip[j][n] \in Entry
<1>1. zip[j] \in Archives \/ zip[j] = <<>>
  BY DEF TypeOK
<1>2. zip[j] # <<>>
  BY DEF Entries
<1>3. zip[j] \in Seq(Entry)
  BY <1>1, <1>2, FetchAssumption DEF Entry
<1> QED
  BY <1>3, ElementOfSeq DEF Entries

LEMMA TypeStep == TypeOK /\ [FetchNext]_fetchVars => TypeOK'
<1> SUFFICES ASSUME TypeOK, [FetchNext]_fetchVars PROVE TypeOK'
  OBVIOUS
<1>a. /\ phase \in [Jobs -> Phases]
      /\ zip \in [Jobs -> Archives \cup {<<>>}]
      /\ DOMAIN work = Jobs
      /\ \A j \in Jobs : work[j] \in [Entries(j) -> WorkStates]
      /\ files \in [Jobs -> Seq(PageFile)]
      /\ DOMAIN pagesMeta \subseteq Shas
      /\ \A s \in DOMAIN pagesMeta : pagesMeta[s] \in Seq(PageFile)
      /\ pagesData \subseteq Bodies
      /\ reply \in [Requests -> [kind : ReplyKinds, body : Bodies \cup {NoBody}]]
  BY DEF TypeOK
<1>b. ASSUME \/ UNCHANGED <<status, overlap>>
             \/ ProcessExit
             \/ \E j \in Jobs : Post(j) \/ Begin(j) \/ End(j) \/ Die(j) \/ Coalesce(j)
      PROVE  status' \in [Jobs -> Statuses] /\ overlap' \in [Jobs -> SUBSET Jobs]
  BY <1>b, LedgerTypes
<1>c. ASSUME zip' = zip, work' = work
      PROVE  /\ DOMAIN work' = Jobs
             /\ \A j \in Jobs : work'[j] \in [Entries(j)' -> WorkStates]
  BY <1>a, <1>c DEF Entries
<1>d. ASSUME NEW r \in Requests, NEW kind \in ReplyKinds, NEW body \in Bodies \cup {NoBody},
             Answer(r, kind, body)
      PROVE  reply' \in [Requests -> [kind : ReplyKinds, body : Bodies \cup {NoBody}]]
  BY <1>a, <1>d DEF Answer
<1>e. ASSUME NEW j \in Jobs, NEW n \in Entries(j), NEW s \in WorkStates,
             Move(j, n, s), zip' = zip
      PROVE  /\ DOMAIN work' = Jobs
             /\ \A i \in Jobs : work'[i] \in [Entries(i)' -> WorkStates]
  BY <1>a, <1>e DEF Move, Entries
<1> USE DEF TypeOK
<1>1. CASE UNCHANGED fetchVars
  BY <1>1, <1>c DEF fetchVars
<1>2. ASSUME NEW j \in Jobs, PostByListing(j) \/ DropJob(j) PROVE TypeOK'
  BY <1>2, <1>a, <1>b, <1>c DEF PostByListing, DropJob, runnerVars, storeVars
<1>3. ASSUME NEW j \in Jobs,
             \/ BeginRun(j) \/ CheckFinds(j) \/ CheckFindsNothing(j) \/ FetchFails(j)
             \/ Panic(j) \/ UnzipFails(j) \/ \E a \in Delivered(j) : FetchRejects(j, a)
      PROVE  TypeOK'
  <2>1. status' \in [Jobs -> Statuses] /\ overlap' \in [Jobs -> SUBSET Jobs]
    BY <1>3, <1>b DEF BeginRun, CheckFinds, CheckFindsNothing, FetchFails, Panic, UnzipFails,
                      FetchRejects, Return
  <2>2. UNCHANGED <<zip, work, files, pagesMeta, pagesData, reply>>
    BY <1>3 DEF BeginRun, CheckFinds, CheckFindsNothing, FetchFails, Panic, UnzipFails,
                FetchRejects, Return, storeVars
  <2>3. phase' \in [Jobs -> Phases]
    BY <1>3, <1>a DEF BeginRun, CheckFinds, CheckFindsNothing, FetchFails, Panic, UnzipFails,
                      FetchRejects, Return, Phases
  <2> QED
    BY <2>1, <2>2, <2>3, <1>a, <1>c
<1>4. ASSUME NEW j \in Jobs, NEW a \in Delivered(j), FetchDelivers(j, a) PROVE TypeOK'
  <2>1. a \in Archives
    BY FetchAssumption DEF Delivered
  <2>2. zip' \in [Jobs -> Archives \cup {<<>>}]
    BY <1>4, <1>a, <2>1 DEF FetchDelivers
  <2>3. \A i \in Jobs : work'[i] \in [Entries(i)' -> WorkStates]
    <3>1. ASSUME NEW i \in Jobs, i # j PROVE work'[i] \in [Entries(i)' -> WorkStates]
      BY <1>4, <1>a, <3>1 DEF FetchDelivers, Entries, TypeOK
    <3>2. work'[j] \in [Entries(j)' -> WorkStates]
      <4>1. zip'[j] = a
        BY <1>4, <1>a DEF FetchDelivers
      <4>2. work'[j] = [n \in 1..Len(a) |-> "todo"]
        BY <1>4, <1>a DEF FetchDelivers
      <4> QED
        BY <4>1, <4>2 DEF Entries, WorkStates
    <3> QED
      BY <3>1, <3>2
  <2>4. files' \in [Jobs -> Seq(PageFile)]
    BY <1>4, <1>a DEF FetchDelivers
  <2> QED
    BY <1>4, <1>a, <1>b, <2>2, <2>3, <2>4 DEF FetchDelivers, storeVars, Phases
<1>5. ASSUME NEW j \in Jobs, NEW n \in Entries(j), Launch(j, n) \/ EntryFails(j, n)
      PROVE  TypeOK'
  <2>1. /\ DOMAIN work' = Jobs
        /\ \A i \in Jobs : work'[i] \in [Entries(i)' -> WorkStates]
    BY <1>5, <1>e DEF Launch, EntryFails, WorkStates
  <2> QED
    BY <1>5, <1>a, <1>b, <2>1 DEF Launch, EntryFails, storeVars
<1>6. ASSUME NEW j \in Jobs, NEW n \in Entries(j), StorePage(j, n) PROVE TypeOK'
  <2>1. /\ DOMAIN work' = Jobs
        /\ \A i \in Jobs : work'[i] \in [Entries(i)' -> WorkStates]
    BY <1>6, <1>e DEF StorePage, WorkStates
  <2>2. zip[j][n] \in Entry
    BY EntryType
  <2>3. pagesData' \subseteq Bodies
    BY <1>6, <1>a, <2>2 DEF StorePage, Entry
  <2> QED
    BY <1>6, <1>a, <1>b, <2>1, <2>3 DEF StorePage
<1>7. ASSUME NEW j \in Jobs, NEW n \in Entries(j), AppendPage(j, n) PROVE TypeOK'
  <2>1. /\ DOMAIN work' = Jobs
        /\ \A i \in Jobs : work'[i] \in [Entries(i)' -> WorkStates]
    BY <1>7, <1>e DEF AppendPage, WorkStates
  <2>2. zip[j][n] \in Entry
    BY EntryType
  <2>3. Append(files[j], PageOf(Via[j], zip[j][n])) \in Seq(PageFile)
    BY <1>a, <2>2, PageOfType, AppendElements
  <2>4. files' \in [Jobs -> Seq(PageFile)]
    BY <1>7, <1>a, <2>3 DEF AppendPage
  <2> QED
    BY <1>7, <1>a, <1>b, <2>1, <2>4 DEF AppendPage, storeVars
<1>8. ASSUME NEW j \in Jobs, PublishPages(j) PROVE TypeOK'
  <2>1. ShaOf[j] \in Shas /\ files[j] \in Seq(PageFile)
    BY <1>a, FetchAssumption
  <2>2. /\ DOMAIN pagesMeta' \subseteq Shas
        /\ \A s \in DOMAIN pagesMeta' : pagesMeta'[s] \in Seq(PageFile)
    BY <1>8, <1>a, <2>1 DEF PublishPages
  <2>3. status' \in [Jobs -> Statuses] /\ overlap' \in [Jobs -> SUBSET Jobs]
    BY <1>8, <1>b DEF PublishPages, Return
  <2> QED
    BY <1>8, <1>a, <1>c, <2>2, <2>3 DEF PublishPages, Return, Phases
<1>9. ASSUME NEW r \in Requests, AskForFetch(r) PROVE TypeOK'
  <2>1. Answer(r, "preparing", NoBody) /\ "preparing" \in ReplyKinds
    BY <1>9 DEF AskForFetch, ReplyKinds
  <2>2. status' \in [Jobs -> Statuses] /\ overlap' \in [Jobs -> SUBSET Jobs]
    BY <1>9, <1>b DEF AskForFetch
  <2> QED
    BY <1>9, <1>a, <1>c, <1>d, <2>1, <2>2 DEF AskForFetch, runnerVars, storeVars
<1>10. ASSUME NEW r \in Requests, AskFindsNoFile(r) PROVE TypeOK'
  <2>1. Answer(r, "notFound", NoBody) /\ "notFound" \in ReplyKinds
    BY <1>10 DEF AskFindsNoFile, ReplyKinds
  <2> QED
    BY <1>10, <1>a, <1>b, <1>c, <1>d, <2>1 DEF AskFindsNoFile, runnerVars, storeVars
<1>11. ASSUME NEW r \in Requests, AskFindsFile(r) PROVE TypeOK'
  <2>1. PICK n \in 1..Len(pagesMeta[AskedSha[r]]) :
               Answer(r, "holding", pagesMeta[AskedSha[r]][n].sha)
    BY <1>11 DEF AskFindsFile, Named
  <2>2. pagesMeta[AskedSha[r]][n] \in PageFile
    BY <1>11, <1>a DEF AskFindsFile
  <2>3. pagesMeta[AskedSha[r]][n].sha \in Bodies \cup {NoBody} /\ "holding" \in ReplyKinds
    BY <2>2 DEF PageFile, ReplyKinds
  <2> QED
    BY <1>11, <1>a, <1>b, <1>c, <1>d, <2>1, <2>3 DEF AskFindsFile, runnerVars, storeVars
<1>12. ASSUME NEW r \in Requests, ReadPage(r) PROVE TypeOK'
  <2>1. PICK k \in {"served", "preparing"}, b \in Bodies \cup {NoBody} : Answer(r, k, b)
    BY <1>12, <1>a DEF ReadPage
  <2>2. k \in ReplyKinds
    BY DEF ReplyKinds
  <2> QED
    BY <1>12, <1>a, <1>b, <1>c, <1>d, <2>1, <2>2 DEF ReadPage, runnerVars, storeVars
<1>13. CASE Exit
  <2>1. phase' \in [Jobs -> Phases]
    BY <1>13, <1>a DEF Exit, Phases
  <2>2. reply' \in [Requests -> [kind : ReplyKinds, body : Bodies \cup {NoBody}]]
    BY <1>13, <1>a DEF Exit, ReplyKinds
  <2> QED
    BY <1>13, <1>a, <1>b, <1>c, <2>1, <2>2 DEF Exit, storeVars
<1> QED
  BY Actions, <1>1, <1>2, <1>3, <1>4, <1>5, <1>6, <1>7, <1>8, <1>9, <1>10, <1>11,
     <1>12, <1>13

(* Every reachable state of the fetching and serving of pages is well      *)
(* typed.                                                                  *)
THEOREM TypeCorrect == FetchSpec => []TypeOK
BY TypeInit, TypeStep, PTL DEF FetchSpec

-----------------------------------------------------------------------------
(* What a runner in unzipDocs has done so far.  MetadataComplete and       *)
(* PublishedIsArchive are not inductive: that a published list is right    *)
(* rests on the list the runner has built, entry by entry, and on the      *)
(* contents it stored before it appended their names.                      *)

DonePages(j) ==
  {PageOf(Via[j], zip[j][n]) :
     n \in {m \in Entries(j) : work[j][m] = "done" /\ ~Ignored(Via[j], zip[j][m].name)}}

RunnerInv(j) ==
  phase[j] = "unzipping" =>
    /\ zip[j] = ArchiveOf[ShaOf[j]]
    /\ Via[j] = KindOf[ShaOf[j]]
    /\ \A n \in Entries(j) : work[j][n] \in {"stored", "done"} => zip[j][n].body \in pagesData
    /\ Elements(files[j]) = DonePages(j)

(* The contents of a published version are stored, entry by entry.         *)
BodiesStored ==
  \A s \in DOMAIN pagesMeta :
    \A n \in 1..Len(ArchiveOf[s]) : ArchiveOf[s][n].body \in pagesData

(* A request that holds a hash holds that of a page of its version.        *)
HeldIsPage(r) ==
  reply[r].kind = "holding" =>
    /\ AskedSha[r] \in DOMAIN pagesMeta
    /\ \E p \in PagesIn(KindOf[AskedSha[r]], ArchiveOf[AskedSha[r]]) :
         p.name = FileAsked(r) /\ p.sha = reply[r].body

(* A request that has not been answered carries no page.                   *)
NewIsEmpty(r) == reply[r].kind = "new" => reply[r].body = NoBody

FetchInv ==
  /\ TypeOK
  /\ \A j \in Jobs : RunnerInv(j)
  /\ BodiesStored
  /\ PublishedIsArchive
  /\ \A r \in Requests : HeldIsPage(r) /\ NewIsEmpty(r)

(* A runner keeps its invariant when it does not move.                     *)
LEMMA RunnerFrame ==
  ASSUME NEW j \in Jobs, RunnerInv(j), pagesData \subseteq pagesData',
         phase'[j] = "unzipping" => phase[j] = "unzipping",
         zip'[j] = zip[j], work'[j] = work[j], files'[j] = files[j]
  PROVE  RunnerInv(j)'
<1>1. DonePages(j)' = DonePages(j) /\ Entries(j)' = Entries(j)
  BY DEF DonePages, Entries
<1> QED
  BY <1>1 DEF RunnerInv, Elements

(* A goroutine that is launched, fails, or stores its page.                *)
LEMMA GoroutineMoves ==
  ASSUME TypeOK, NEW j \in Jobs, RunnerInv(j), NEW n \in Entries(j),
         phase[j] = "unzipping", pagesData \subseteq pagesData',
         NEW s \in {"reading", "failed", "stored"},
         s = "stored" => zip[j][n].body \in pagesData',
         work[j][n] \in {"todo", "reading"},
         Move(j, n, s), UNCHANGED <<phase, zip, files>>
  PROVE  RunnerInv(j)'
<1>1. /\ Entries(j)' = Entries(j)
      /\ work'[j][n] = s
      /\ \A m \in Entries(j) : m # n => work'[j][m] = work[j][m]
  BY DEF Move, Entries, TypeOK
<1>2. \A m \in Entries(j) : work'[j][m] = "done" <=> work[j][m] = "done"
  BY <1>1
<1>3. DonePages(j)' = DonePages(j)
  BY <1>1, <1>2 DEF DonePages
<1>4. \A m \in Entries(j) :
        work'[j][m] \in {"stored", "done"} => zip[j][m].body \in pagesData'
  BY <1>1 DEF RunnerInv
<1> QED
  BY <1>1, <1>3, <1>4 DEF RunnerInv, Elements

(* A goroutine that appends its page, or finds the name stripped away.     *)
LEMMA GoroutineAppends ==
  ASSUME TypeOK, NEW j \in Jobs, RunnerInv(j), NEW n \in Entries(j), AppendPage(j, n)
  PROVE  RunnerInv(j)'
<1> DEFINE page == PageOf(Via[j], zip[j][n])
           ign == Ignored(Via[j], zip[j][n].name)
<1>1. /\ phase[j] = "unzipping" /\ work[j][n] = "stored"
      /\ UNCHANGED <<phase, zip, pagesData>>
      /\ files' = IF ign THEN files ELSE [files EXCEPT ![j] = Append(files[j], page)]
  BY DEF AppendPage, storeVars
<1>2. /\ Entries(j)' = Entries(j)
      /\ work'[j][n] = "done"
      /\ \A m \in Entries(j) : m # n => work'[j][m] = work[j][m]
  BY DEF AppendPage, Move, Entries, TypeOK
<1>3. /\ zip[j] = ArchiveOf[ShaOf[j]] /\ Via[j] = KindOf[ShaOf[j]]
      /\ \A m \in Entries(j) : work[j][m] \in {"stored", "done"} => zip[j][m].body \in pagesData
      /\ Elements(files[j]) = DonePages(j)
  BY <1>1 DEF RunnerInv
<1>4. DonePages(j)' = IF ign THEN DonePages(j) ELSE DonePages(j) \cup {page}
  <2> DEFINE D == {m \in Entries(j) : work[j][m] = "done" /\ ~Ignored(Via[j], zip[j][m].name)}
             E == {m \in Entries(j) : work'[j][m] = "done" /\ ~Ignored(Via[j], zip[j][m].name)}
  <2>1. DonePages(j) = {PageOf(Via[j], zip[j][m]) : m \in D}
    BY DEF DonePages
  <2>2. DonePages(j)' = {PageOf(Via[j], zip[j][m]) : m \in E}
    BY <1>1, <1>2 DEF DonePages
  <2>3. E = IF ign THEN D ELSE D \cup {n}
    BY <1>1, <1>2
  <2> QED
    BY <2>1, <2>2, <2>3
<1>5. Elements(files'[j]) = DonePages(j)'
  <2>1. files[j] \in Seq(PageFile) /\ page \in PageFile
    BY EntryType, PageOfType DEF TypeOK
  <2>2. Elements(Append(files[j], page)) = Elements(files[j]) \cup {page}
    BY <2>1, AppendElements
  <2>3. files'[j] = IF ign THEN files[j] ELSE Append(files[j], page)
    BY <1>1 DEF TypeOK
  <2> QED
    BY <1>3, <1>4, <2>2, <2>3
<1>6. \A m \in Entries(j) : work'[j][m] \in {"stored", "done"} => zip[j][m].body \in pagesData
  BY <1>1, <1>2, <1>3
<1> QED
  BY <1>1, <1>2, <1>3, <1>5, <1>6 DEF RunnerInv, Elements

(* What is published holds every page of the archive, and only those.      *)
LEMMA PublishedAll ==
  ASSUME TypeOK, NEW j \in Jobs, RunnerInv(j), PublishPages(j)
  PROVE  /\ Elements(files[j]) = PagesIn(KindOf[ShaOf[j]], ArchiveOf[ShaOf[j]])
         /\ \A n \in 1..Len(ArchiveOf[ShaOf[j]]) :
              ArchiveOf[ShaOf[j]][n].body \in pagesData
<1>1. /\ phase[j] = "unzipping"
      /\ \A n \in Entries(j) : work[j][n] = "done"
  BY DEF PublishPages, AllReturned, NoneFailed
<1>2. /\ zip[j] = ArchiveOf[ShaOf[j]] /\ Via[j] = KindOf[ShaOf[j]]
      /\ \A n \in Entries(j) : zip[j][n].body \in pagesData
      /\ Elements(files[j]) = DonePages(j)
  BY <1>1 DEF RunnerInv
<1>3. DonePages(j) = PagesIn(Via[j], zip[j])
  BY <1>1 DEF DonePages, PagesIn, Entries
<1> QED
  BY <1>2, <1>3 DEF Entries

-----------------------------------------------------------------------------
(* The invariant is inductive: runners, buckets and requests in turn.      *)

LEMMA InvInit == FetchInit => FetchInv
<1> SUFFICES ASSUME FetchInit PROVE FetchInv
  OBVIOUS
<1>1. TypeOK
  BY TypeInit
<1>2. \A j \in Jobs : RunnerInv(j)
  BY DEF FetchInit, RunnerInv
<1>3. BodiesStored /\ PublishedIsArchive
  BY DEF FetchInit, BodiesStored, PublishedIsArchive
<1>4. \A r \in Requests : HeldIsPage(r) /\ NewIsEmpty(r)
  BY DEF FetchInit, HeldIsPage, NewIsEmpty
<1> QED
  BY <1>1, <1>2, <1>3, <1>4 DEF FetchInv

LEMMA RunnerStep ==
  ASSUME FetchInv, [FetchNext]_fetchVars, NEW i \in Jobs
  PROVE  RunnerInv(i)'
<1>a. TypeOK /\ RunnerInv(i)
  BY DEF FetchInv
<1>b. phase \in [Jobs -> Phases] /\ DOMAIN work = Jobs
  BY <1>a DEF TypeOK
<1>c. /\ zip \in [Jobs -> Archives \cup {<<>>}]
      /\ files \in [Jobs -> Seq(PageFile)]
  BY <1>a DEF TypeOK
<1>d. ASSUME phase'[i] = "unzipping" => phase[i] = "unzipping",
             zip' = zip, work' = work, files' = files, pagesData' = pagesData
      PROVE  RunnerInv(i)'
  BY <1>a, <1>d, RunnerFrame
<1>1. CASE UNCHANGED fetchVars
  BY <1>1, <1>d DEF fetchVars
<1>2. ASSUME NEW j \in Jobs, PostByListing(j) \/ DropJob(j) PROVE RunnerInv(i)'
  BY <1>2, <1>d DEF PostByListing, DropJob, runnerVars, storeVars
<1>3. ASSUME NEW j \in Jobs,
             \/ BeginRun(j) \/ CheckFinds(j) \/ CheckFindsNothing(j) \/ FetchFails(j)
             \/ Panic(j) \/ UnzipFails(j) \/ \E a \in Delivered(j) : FetchRejects(j, a)
      PROVE  RunnerInv(i)'
  BY <1>3, <1>b, <1>d DEF BeginRun, CheckFinds, CheckFindsNothing, FetchFails, Panic, UnzipFails,
                          FetchRejects, Return, storeVars
<1>4. ASSUME NEW j \in Jobs, NEW a \in Delivered(j), FetchDelivers(j, a) PROVE RunnerInv(i)'
  <2>1. CASE i # j
    <3>1. /\ phase'[i] = phase[i] /\ zip'[i] = zip[i]
          /\ work'[i] = work[i] /\ files'[i] = files[i] /\ pagesData' = pagesData
      BY <1>4, <1>b, <1>c, <2>1 DEF FetchDelivers, storeVars
    <3> QED
      BY <1>a, <3>1, RunnerFrame
  <2>2. CASE i = j
    <3>1. a = ArchiveOf[ShaOf[j]] /\ Via[j] = KindOf[ShaOf[j]]
      BY <1>4, FetchAssumption DEF FetchDelivers, Delivered, HashMatches
    <3>2. /\ zip'[j] = a /\ files'[j] = <<>>
          /\ \A n \in 1..Len(a) : work'[j][n] = "todo"
      BY <1>4, <1>b, <1>c DEF FetchDelivers
    <3>3. Elements(files'[j]) = {}
      BY <3>2 DEF Elements
    <3>4. DonePages(j)' = {}
      BY <3>2 DEF DonePages, Entries
    <3> QED
      BY <2>2, <3>1, <3>2, <3>3, <3>4 DEF RunnerInv, Entries, Elements
  <2> QED
    BY <2>1, <2>2
<1>5. ASSUME NEW j \in Jobs, NEW n \in Entries(j),
             Launch(j, n) \/ EntryFails(j, n) \/ StorePage(j, n)
      PROVE  RunnerInv(i)'
  <2>1. /\ phase[j] = "unzipping" /\ work[j][n] \in {"todo", "reading"}
        /\ pagesData \subseteq pagesData' /\ UNCHANGED <<phase, zip, files>>
        /\ \E s \in {"reading", "failed", "stored"} :
             Move(j, n, s) /\ (s = "stored" => zip[j][n].body \in pagesData')
    BY <1>5 DEF Launch, EntryFails, StorePage, storeVars
  <2>2. CASE i # j
    <3>1. work'[i] = work[i]
      BY <1>b, <2>1, <2>2 DEF Move
    <3> QED
      BY <1>a, <2>1, <3>1, RunnerFrame
  <2>3. CASE i = j
    BY <1>a, <2>1, <2>3, GoroutineMoves
  <2> QED
    BY <2>2, <2>3
<1>6. ASSUME NEW j \in Jobs, NEW n \in Entries(j), AppendPage(j, n) PROVE RunnerInv(i)'
  <2>1. CASE i # j
    <3>1. /\ phase' = phase /\ zip' = zip /\ pagesData' = pagesData
          /\ work'[i] = work[i] /\ files'[i] = files[i]
      BY <1>6, <1>b, <1>c, <2>1 DEF AppendPage, Move, storeVars
    <3> QED
      BY <1>a, <3>1, RunnerFrame
  <2>2. CASE i = j
    BY <1>6, <1>a, <2>2, GoroutineAppends
  <2> QED
    BY <2>1, <2>2
<1>7. ASSUME NEW j \in Jobs, PublishPages(j) PROVE RunnerInv(i)'
  BY <1>7, <1>b, <1>d DEF PublishPages, Return
<1>8. ASSUME NEW r \in Requests,
             AskForFetch(r) \/ AskFindsNoFile(r) \/ AskFindsFile(r) \/ ReadPage(r)
      PROVE  RunnerInv(i)'
  BY <1>8, <1>d DEF AskForFetch, AskFindsNoFile, AskFindsFile, ReadPage, runnerVars, storeVars
<1>9. CASE Exit
  BY <1>9, <1>b, <1>d DEF Exit, storeVars
<1> QED
  BY Actions, <1>1, <1>2, <1>3, <1>4, <1>5, <1>6, <1>7, <1>8, <1>9

(* What a step does to the buckets: contents are only added, and metadata  *)
(* changes by PublishPages alone.                                          *)
LEMMA StoresStep ==
  ASSUME FetchInv, [FetchNext]_fetchVars
  PROVE  /\ pagesData \subseteq pagesData'
         /\ \/ pagesMeta' = pagesMeta
            \/ \E j \in Jobs : PublishPages(j)
<1>1. CASE UNCHANGED fetchVars
  BY <1>1 DEF fetchVars
<1>2. ASSUME NEW j \in Jobs, PostByListing(j) \/ DropJob(j)
      PROVE  pagesData' = pagesData /\ pagesMeta' = pagesMeta
  BY <1>2 DEF PostByListing, DropJob, storeVars
<1>3. ASSUME NEW j \in Jobs,
             \/ BeginRun(j) \/ CheckFinds(j) \/ CheckFindsNothing(j) \/ FetchFails(j)
             \/ Panic(j) \/ UnzipFails(j) \/ \E a \in Delivered(j) : FetchRejects(j, a)
      PROVE  pagesData' = pagesData /\ pagesMeta' = pagesMeta
  BY <1>3 DEF BeginRun, CheckFinds, CheckFindsNothing, FetchFails, Panic, UnzipFails,
              FetchRejects, storeVars
<1>4. ASSUME NEW j \in Jobs, NEW a \in Delivered(j), FetchDelivers(j, a)
      PROVE  pagesData' = pagesData /\ pagesMeta' = pagesMeta
  BY <1>4 DEF FetchDelivers, storeVars
<1>5. ASSUME NEW j \in Jobs, NEW n \in Entries(j),
             Launch(j, n) \/ EntryFails(j, n) \/ StorePage(j, n) \/ AppendPage(j, n)
      PROVE  pagesData \subseteq pagesData' /\ pagesMeta' = pagesMeta
  BY <1>5 DEF Launch, EntryFails, StorePage, AppendPage, storeVars
<1>6. ASSUME NEW j \in Jobs, PublishPages(j) PROVE pagesData' = pagesData
  BY <1>6 DEF PublishPages
<1>7. ASSUME NEW r \in Requests,
             AskForFetch(r) \/ AskFindsNoFile(r) \/ AskFindsFile(r) \/ ReadPage(r)
      PROVE  pagesData' = pagesData /\ pagesMeta' = pagesMeta
  BY <1>7 DEF AskForFetch, AskFindsNoFile, AskFindsFile, ReadPage, storeVars
<1>8. CASE Exit
  BY <1>8 DEF Exit, storeVars
<1> QED
  BY Actions, <1>1, <1>2, <1>3, <1>4, <1>5, <1>6, <1>7, <1>8

LEMMA PublishedStep ==
  ASSUME FetchInv, [FetchNext]_fetchVars
  PROVE  /\ BodiesStored' /\ PublishedIsArchive'
         /\ DOMAIN pagesMeta \subseteq DOMAIN pagesMeta'
<1>a. BodiesStored /\ PublishedIsArchive
  BY DEF FetchInv
<1>1. CASE pagesMeta' = pagesMeta
  BY <1>a, <1>1, StoresStep DEF BodiesStored, PublishedIsArchive
<1>2. ASSUME NEW j \in Jobs, PublishPages(j)
      PROVE  /\ BodiesStored' /\ PublishedIsArchive'
             /\ DOMAIN pagesMeta \subseteq DOMAIN pagesMeta'
  <2>1. /\ DOMAIN pagesMeta' = DOMAIN pagesMeta \cup {ShaOf[j]}
        /\ pagesMeta'[ShaOf[j]] = files[j]
        /\ \A s \in DOMAIN pagesMeta : s # ShaOf[j] => pagesMeta'[s] = pagesMeta[s]
        /\ pagesData' = pagesData
    BY <1>2 DEF PublishPages
  <2>2. /\ Elements(files[j]) = PagesIn(KindOf[ShaOf[j]], ArchiveOf[ShaOf[j]])
        /\ \A n \in 1..Len(ArchiveOf[ShaOf[j]]) : ArchiveOf[ShaOf[j]][n].body \in pagesData
    BY <1>2, PublishedAll DEF FetchInv
  <2>3. BodiesStored'
    BY <1>a, <2>1, <2>2 DEF BodiesStored
  <2>4. ASSUME NEW s \in DOMAIN pagesMeta'
        PROVE  Elements(pagesMeta'[s]) = PagesIn(KindOf[s], ArchiveOf[s])
    <3>1. CASE s = ShaOf[j]
      BY <2>1, <2>2, <3>1
    <3>2. CASE s # ShaOf[j]
      BY <1>a, <2>1, <3>2 DEF PublishedIsArchive, Elements
    <3> QED
      BY <3>1, <3>2
  <2> QED
    BY <2>1, <2>3, <2>4 DEF PublishedIsArchive, Elements
<1> QED
  BY <1>1, <1>2, StoresStep

(* What a step does to the requests.                                       *)
LEMMA RequestsStep ==
  ASSUME FetchInv, [FetchNext]_fetchVars
  PROVE  \/ reply' = reply
         \/ \E r \in Requests : \/ AskForFetch(r) \/ AskFindsNoFile(r)
                               \/ AskFindsFile(r) \/ ReadPage(r)
         \/ Exit
<1>1. CASE UNCHANGED fetchVars
  BY <1>1 DEF fetchVars
<1>2. ASSUME NEW j \in Jobs, PostByListing(j) \/ DropJob(j) \/ PublishPages(j)
      PROVE  reply' = reply
  BY <1>2 DEF PostByListing, DropJob, PublishPages
<1>3. ASSUME NEW j \in Jobs,
             \/ BeginRun(j) \/ CheckFinds(j) \/ CheckFindsNothing(j) \/ FetchFails(j)
             \/ Panic(j) \/ UnzipFails(j) \/ \E a \in Delivered(j) : FetchRejects(j, a) \/ FetchDelivers(j, a)
      PROVE  reply' = reply
  BY <1>3 DEF BeginRun, CheckFinds, CheckFindsNothing, FetchFails, Panic, UnzipFails,
              FetchRejects, FetchDelivers
<1>4. ASSUME NEW j \in Jobs, NEW n \in Entries(j),
             Launch(j, n) \/ EntryFails(j, n) \/ StorePage(j, n) \/ AppendPage(j, n)
      PROVE  reply' = reply
  BY <1>4 DEF Launch, EntryFails, StorePage, AppendPage
<1> QED
  BY Actions, <1>1, <1>2, <1>3, <1>4

LEMMA HeldStep ==
  ASSUME FetchInv, [FetchNext]_fetchVars, NEW q \in Requests
  PROVE  HeldIsPage(q)' /\ NewIsEmpty(q)'
<1>a. HeldIsPage(q) /\ NewIsEmpty(q) /\ DOMAIN pagesMeta \subseteq DOMAIN pagesMeta'
  BY PublishedStep DEF FetchInv
<1>b. reply \in [Requests -> [kind : ReplyKinds, body : Bodies \cup {NoBody}]]
  BY DEF FetchInv, TypeOK
<1>c. ASSUME reply'[q] = reply[q] \/ reply'[q].kind \notin {"new", "holding"}
      PROVE  HeldIsPage(q)' /\ NewIsEmpty(q)'
  BY <1>a, <1>c DEF HeldIsPage, NewIsEmpty, FileAsked
<1>1. CASE reply' = reply
  BY <1>1, <1>c
<1>2. ASSUME NEW r \in Requests, AskForFetch(r) \/ AskFindsNoFile(r) \/ ReadPage(r)
      PROVE  HeldIsPage(q)' /\ NewIsEmpty(q)'
  BY <1>2, <1>b, <1>c DEF AskForFetch, AskFindsNoFile, ReadPage, Answer
<1>3. ASSUME NEW r \in Requests, AskFindsFile(r)
      PROVE  HeldIsPage(q)' /\ NewIsEmpty(q)'
  <2>1. CASE q # r
    <3>1. reply'[q] = reply[q]
      BY <1>3, <1>b, <2>1 DEF AskFindsFile, Answer
    <3> QED
      BY <1>c, <3>1
  <2>2. CASE q = r
    <3>1. PICK n \in Named(AskedSha[q], FileAsked(q)) :
                 Answer(q, "holding", pagesMeta[AskedSha[q]][n].sha)
      BY <1>3, <2>2 DEF AskFindsFile
    <3>2. /\ AskedSha[q] \in DOMAIN pagesMeta
          /\ pagesMeta' = pagesMeta
      BY <1>3, <2>2 DEF AskFindsFile, storeVars
    <3>3. /\ n \in 1..Len(pagesMeta[AskedSha[q]])
          /\ pagesMeta[AskedSha[q]][n].name = FileAsked(q)
      BY <3>1 DEF Named
    <3>4. pagesMeta[AskedSha[q]][n]
            \in PagesIn(KindOf[AskedSha[q]], ArchiveOf[AskedSha[q]])
      BY <3>2, <3>3 DEF FetchInv, PublishedIsArchive
    <3>5. reply'[q].kind = "holding" /\ reply'[q].body = pagesMeta[AskedSha[q]][n].sha
      BY <1>b, <3>1 DEF Answer
    <3> QED
      BY <3>2, <3>3, <3>4, <3>5 DEF HeldIsPage, NewIsEmpty, FileAsked
  <2> QED
    BY <2>1, <2>2
<1>4. CASE Exit
  BY <1>4, <1>b, <1>c DEF Exit
<1> QED
  BY RequestsStep, <1>1, <1>2, <1>3, <1>4

LEMMA InvStep == FetchInv /\ [FetchNext]_fetchVars => FetchInv'
BY TypeStep, RunnerStep, PublishedStep, HeldStep DEF FetchInv

LEMMA InvHolds == FetchSpec => []FetchInv
BY InvInit, InvStep, PTL DEF FetchSpec

(* The pages published under a version are those of its archive.           *)
THEOREM PublishedCorrect == FetchSpec => []PublishedIsArchive
<1>1. FetchInv => PublishedIsArchive
  BY DEF FetchInv
<1> QED
  BY InvHolds, <1>1, PTL

(* Published metadata names no page whose content is not stored.           *)
THEOREM MetadataCorrect == FetchSpec => []MetadataComplete
<1>1. FetchInv => MetadataComplete
  <2> SUFFICES ASSUME FetchInv, NEW s \in DOMAIN pagesMeta,
                      NEW n \in 1..Len(pagesMeta[s])
               PROVE  pagesMeta[s][n].sha \in pagesData
    BY DEF MetadataComplete
  <2>1. pagesMeta[s][n] \in PagesIn(KindOf[s], ArchiveOf[s])
    BY DEF FetchInv, PublishedIsArchive
  <2>2. PICK m \in 1..Len(ArchiveOf[s]) : pagesMeta[s][n] = PageOf(KindOf[s], ArchiveOf[s][m])
    BY <2>1 DEF PagesIn
  <2>3. ArchiveOf[s][m].body \in pagesData
    BY DEF FetchInv, BodiesStored
  <2> QED
    BY <2>2, <2>3 DEF PageOf
<1> QED
  BY InvHolds, <1>1, PTL

-----------------------------------------------------------------------------
(* Refinement: the cache is a PageSite.                                    *)

(* What a reader has been told, a hash that is only held left out.         *)
Told(r) == IF reply[r].kind = "holding" THEN [kind |-> "new", body |-> NoBody] ELSE reply[r]

LEMMA SiteInitOK == FetchInit => Site!SiteInit
BY DEF FetchInit, Site!SiteInit

LEMMA SiteStutter ==
  ASSUME DOMAIN pagesMeta' = DOMAIN pagesMeta, \A r \in Requests : Told(r)' = Told(r)
  PROVE  UNCHANGED Site!siteVars
BY DEF Site!siteVars, Told

LEMMA SiteStep ==
  FetchInv /\ [FetchNext]_fetchVars => [Site!SiteNext]_(Site!siteVars)
<1> SUFFICES ASSUME FetchInv, [FetchNext]_fetchVars
             PROVE  [Site!SiteNext]_(Site!siteVars)
  OBVIOUS
<1>a. reply \in [Requests -> [kind : ReplyKinds, body : Bodies \cup {NoBody}]]
  BY DEF FetchInv, TypeOK
<1>1. CASE reply' = reply
  <2>1. \A r \in Requests : Told(r)' = Told(r)
    BY <1>1 DEF Told
  <2>2. CASE pagesMeta' = pagesMeta
    BY <2>1, <2>2, SiteStutter
  <2>3. ASSUME NEW j \in Jobs, PublishPages(j) PROVE Site!Publish(ShaOf[j])
    <3>1. DOMAIN pagesMeta' = DOMAIN pagesMeta \cup {ShaOf[j]}
      BY <2>3 DEF PublishPages
    <3> QED
      BY <2>1, <3>1 DEF Site!Publish, Told
  <2>4. \A j \in Jobs : ShaOf[j] \in Shas
    BY FetchAssumption
  <2> QED
    BY <2>2, <2>3, <2>4, StoresStep DEF Site!SiteNext
<1>2. ASSUME NEW r \in Requests, AskForFetch(r) PROVE Site!TellToWait(r)
  BY <1>2, <1>a DEF AskForFetch, Answer, storeVars, Site!TellToWait, Site!Tell
<1>3. ASSUME NEW r \in Requests, AskFindsNoFile(r) PROVE Site!TellNotFound(r)
  <2>1. \A p \in PagesIn(KindOf[AskedSha[r]], ArchiveOf[AskedSha[r]]) : p.name # FileAsked(r)
    BY <1>3 DEF AskFindsNoFile, FetchInv, PublishedIsArchive, Named
  <2>2. AskedSha[r] \in Shas
    BY FetchAssumption
  <2> QED
    BY <1>3, <1>a, <2>1, <2>2
       DEF AskFindsNoFile, Answer, storeVars, Site!TellNotFound, Site!Tell
<1>4. ASSUME NEW r \in Requests, AskFindsFile(r) PROVE UNCHANGED Site!siteVars
  <2>1. pagesMeta' = pagesMeta
    BY <1>4 DEF AskFindsFile, storeVars
  <2>2. /\ reply[r].kind = "new" /\ reply'[r].kind = "holding"
        /\ \A q \in Requests : q # r => reply'[q] = reply[q]
    BY <1>4, <1>a DEF AskFindsFile, Answer
  <2>3. reply[r] = [kind |-> "new", body |-> NoBody]
    BY <1>a, <2>2 DEF FetchInv, NewIsEmpty
  <2>4. \A q \in Requests : Told(q)' = Told(q)
    BY <2>2, <2>3 DEF Told
  <2> QED
    BY <2>1, <2>4, SiteStutter
<1>5. ASSUME NEW r \in Requests, ReadPage(r) PROVE Site!Serve(r)
  <2>1. /\ reply[r].kind = "holding"
        /\ AskedSha[r] \in DOMAIN pagesMeta
    BY <1>5 DEF ReadPage, FetchInv, HeldIsPage
  <2>2. PICK p \in PagesIn(KindOf[AskedSha[r]], ArchiveOf[AskedSha[r]]) :
               p.name = FileAsked(r) /\ p.sha = reply[r].body
    BY <2>1 DEF FetchInv, HeldIsPage
  <2>3. reply[r].body \in pagesData
    <3>1. PICK n \in 1..Len(ArchiveOf[AskedSha[r]]) :
                 p = PageOf(KindOf[AskedSha[r]], ArchiveOf[AskedSha[r]][n])
      BY <2>2 DEF PagesIn
    <3> QED
      BY <2>1, <2>2, <3>1 DEF FetchInv, BodiesStored, PageOf
  <2>4. /\ reply' = [reply EXCEPT ![r] = [kind |-> "served", body |-> p.sha]]
        /\ pagesMeta' = pagesMeta
    BY <1>5, <2>2, <2>3 DEF ReadPage, Answer, storeVars
  <2>5. AskedSha[r] \in Shas
    BY FetchAssumption
  <2>6. Site!Tell(r, "served", p.sha)
    BY <1>a, <2>1, <2>4 DEF Site!Tell
  <2> QED
    BY <2>1, <2>2, <2>5, <2>6 DEF Site!Serve
<1>6. ASSUME Exit PROVE Site!Disconnect
  <2> DEFINE R == {r \in Requests : reply[r].kind = "holding"}
  <2>1. R \in SUBSET {r \in Requests : Told(r).kind = "new"}
    BY DEF Told
  <2>2. pagesMeta' = pagesMeta
    BY <1>6 DEF Exit, storeVars
  <2>3. \A r \in Requests :
          Told(r)' = IF r \in R THEN [kind |-> "dropped", body |-> NoBody] ELSE Told(r)
    BY <1>6, <1>a DEF Exit, Told
  <2> QED
    BY <2>1, <2>2, <2>3 DEF Site!Disconnect, Told
<1> QED
  BY RequestsStep, <1>1, <1>2, <1>3, <1>4, <1>5, <1>6 DEF Site!SiteNext

(* The fetching and serving of pages, with its overlapping runs, its       *)
(* goroutines, its failures and its crashes, implements PageSite.          *)
THEOREM FetchKeepsSite == FetchSpec => KeepsSite
<1>1. FetchInit => Site!SiteInit
  BY SiteInitOK
<1>2. FetchInv /\ [FetchNext]_fetchVars => [Site!SiteNext]_(Site!siteVars)
  BY SiteStep
<1> QED
  BY <1>1, <1>2, InvHolds, PTL DEF FetchSpec, KeepsSite, Site!SiteSpec
-----------------------------------------------------------------------------
(* The jobs are those of JobLedger.                                        *)

(* A request posts, the runner begins, ends or panics, an exit loses: no   *)
(* step does to a job what the queue does not promise.                     *)
LEMMA FetchMovesLedger == [FetchNext]_fetchVars => [LedgerNext]_ledgerVars
<1> SUFFICES ASSUME [FetchNext]_fetchVars PROVE LedgerNext \/ UNCHANGED ledgerVars
  OBVIOUS
<1>1. CASE UNCHANGED fetchVars
  BY <1>1 DEF fetchVars, ledgerVars
<1>2. ASSUME NEW j \in Jobs, PostByListing(j) \/ DropJob(j) PROVE LedgerNext
  BY <1>2 DEF PostByListing, DropJob, LedgerNext
<1>3. ASSUME NEW j \in Jobs, BeginRun(j) PROVE LedgerNext
  BY <1>3 DEF BeginRun, LedgerNext
<1>4. ASSUME NEW j \in Jobs,
             \/ CheckFinds(j) \/ FetchFails(j) \/ Panic(j) \/ UnzipFails(j) \/ PublishPages(j)
             \/ \E a \in Delivered(j) : FetchRejects(j, a)
      PROVE  LedgerNext
  BY <1>4 DEF CheckFinds, FetchFails, Panic, UnzipFails, PublishPages, FetchRejects, Return,
              LedgerNext
<1>5. ASSUME NEW j \in Jobs,
             CheckFindsNothing(j) \/ \E a \in Delivered(j) : FetchDelivers(j, a)
      PROVE  UNCHANGED ledgerVars
  BY <1>5 DEF CheckFindsNothing, FetchDelivers, ledgerVars
<1>6. ASSUME NEW j \in Jobs,
             \E n \in Entries(j) : \/ Launch(j, n) \/ EntryFails(j, n)
                                   \/ StorePage(j, n) \/ AppendPage(j, n)
      PROVE  UNCHANGED ledgerVars
  BY <1>6 DEF Launch, EntryFails, StorePage, AppendPage, ledgerVars
<1>7. ASSUME NEW r \in Requests, AskForFetch(r) PROVE LedgerNext
  BY <1>7 DEF AskForFetch, LedgerNext
<1>8. ASSUME NEW r \in Requests, AskFindsNoFile(r) \/ AskFindsFile(r) \/ ReadPage(r)
      PROVE  UNCHANGED ledgerVars
  BY <1>8 DEF AskFindsNoFile, AskFindsFile, ReadPage, ledgerVars
<1>9. CASE Exit
  BY <1>9 DEF Exit, LedgerNext
<1> QED
  BY <1>1, <1>2, <1>3, <1>4, <1>5, <1>6, <1>7, <1>8, <1>9, Actions

(* The jobs of the fetching are jobs of JobLedger, of the promise that the *)
(* queue of database/queue.go keeps: whatever the runners, the readers and *)
(* the exits do, each is run once at most, and coalesced only into a run   *)
(* of its queue and version that it has met, in progress or panicked.      *)
THEOREM FetchUsesLedger == FetchSpec => LedgerSpec
<1>1. FetchInit => LedgerInit
  BY DEF FetchInit
<1> QED
  BY <1>1, FetchMovesLedger, PTL DEF FetchSpec, LedgerSpec
=============================================================================
