---------------------------- MODULE VersionFetch ----------------------------
(***************************************************************************)
(* Fetching the pages of a version and serving them: the three runners     *)
(* fetchVersionFromPackages, -Releases and -Branches with unzipDocs        *)
(* (taskFetchVersion.go), the buckets "pages-meta" and "pages-data", and   *)
(* the half of requestPageData that reads them (tasks.go:51-77).           *)
(*                                                                         *)
(* The jobs are those of JobLedger, which DedupQueue implements: runs of   *)
(* one version may overlap, panic, be cut off by a process exit, or never  *)
(* come.                                                                   *)
(*                                                                         *)
(* A path is the sequence of its components: "repo/css/" is <<"repo",      *)
(* "css", "">>.  A page's content stands for its SHA-256 and an archive    *)
(* for its own: distinct contents have distinct hashes.  Each Get and Set  *)
(* of a bucket is one bbolt transaction, hence one action.                 *)
(***************************************************************************)
EXTENDS Naturals, Sequences, FiniteSets

CONSTANTS Jobs,       \* fetchVersion jobs, each with an identity
          Shas,       \* the values of types.Version.SHA
          ShaOf,      \* the version each job is for
          Via,        \* the kind of the queue a job was posted to
          KindOf,     \* where a version comes from
          Bodies,     \* contents of pages
          Archives,   \* zip archives: sequences of [name, body] entries
          ArchiveOf,  \* the archive a version stands for
          UnzipLimit, \* errgroup limit (5 in the code)
          Requests,   \* HTTP requests, each with an identity
          AskedSha,   \* the version a request has resolved to
          AskedFile,  \* the path a request has asked for
          NoBody      \* no page

Kinds == {"branch", "release", "package"}

ASSUME FetchAssumption ==
  /\ ShaOf \in [Jobs -> Shas]
  /\ Via \in [Jobs -> Kinds]
  /\ KindOf \in [Shas -> Kinds]
  /\ \A a \in Archives : a \in Seq([name : Seq(STRING), body : Bodies])
  /\ ArchiveOf \in [Shas -> Archives]
  /\ UnzipLimit \in Nat \ {0}
  /\ AskedSha \in [Requests -> Shas]
  /\ AskedFile \in [Requests -> Seq(STRING) \ {<<>>}]
  /\ NoBody \notin Bodies

VARIABLES
  status, overlap,  \* the ledger of the jobs
  phase,      \* how far the runner of each job has come
  zip,        \* the archive in the runner's temporary file
  work,       \* the goroutine of each entry of that archive
  files,      \* the slice that the goroutines append to
  pagesMeta,  \* bucket "pages-meta": a function from the published versions
  pagesData,  \* bucket "pages-data": the contents stored under their hash
  reply       \* how far each request has come, and what it was told

runnerVars == <<phase, zip, work, files>>
storeVars == <<pagesMeta, pagesData>>
fetchVars == <<status, overlap, phase, zip, work, files, pagesMeta, pagesData, reply>>

(* Every queue has a deduplication store of its own.                       *)
INSTANCE JobLedger WITH
  Keys <- Kinds \X Shas,
  KeyOf <- [j \in Jobs |-> <<Via[j], ShaOf[j]>>]

-----------------------------------------------------------------------------
(* Names of files.                                                         *)

(* unzipStripComponents(1): only the archives of branches have a directory *)
(* around their files.                                                     *)
StripComponents(kind) == IF kind = "branch" THEN 1 ELSE 0

(* A name with too few components is kept as it is.                        *)
SaveName(kind, name) ==
  LET c == StripComponents(kind)
  IN  IF Len(name) > c THEN SubSeq(name, c + 1, Len(name)) ELSE name

(* "file ignored": what is left of the stripped directory itself.          *)
Ignored(kind, name) == StripComponents(kind) > 0 /\ SaveName(kind, name) = <<"">>

PageOf(kind, entry) == [name |-> SaveName(kind, entry.name), sha |-> entry.body]

(* The pages an archive consists of.                                       *)
PagesIn(kind, a) ==
  {PageOf(kind, a[n]) : n \in {m \in 1..Len(a) : ~Ignored(kind, a[m].name)}}

(* requestPageData: a directory, and the root, stand for its index.html.   *)
FileAsked(r) ==
  LET f == AskedFile[r]
  IN  IF f[Len(f)] = "" THEN [f EXCEPT ![Len(f)] = "index.html"] ELSE f

-----------------------------------------------------------------------------
Phases == {"idle", "checking", "fetching", "unzipping", "over"}
WorkStates == {"todo", "reading", "stored", "done", "failed"}

FetchInit ==
  /\ LedgerInit
  /\ phase = [j \in Jobs |-> "idle"]
  /\ zip = [j \in Jobs |-> <<>>]
  /\ work = [j \in Jobs |-> <<>>]
  /\ files = [j \in Jobs |-> <<>>]
  /\ pagesMeta = [s \in {} |-> <<>>]
  /\ pagesData = {}
  /\ reply = [r \in Requests |-> [kind |-> "new", body |-> NoBody]]

(* fetchRepoFrom*: a job for each version of a listing.                    *)
PostByListing(j) ==
  /\ Post(j)
  /\ UNCHANGED <<runnerVars, storeVars, reply>>

(* The queue drops the job in favour of another run of it, be it in        *)
(* progress or dead of a panic.                                            *)
DropJob(j) ==
  /\ Coalesce(j)
  /\ UNCHANGED <<runnerVars, storeVars, reply>>

(* The queue calls the runner.                                             *)
BeginRun(j) ==
  /\ Begin(j)
  /\ phase' = [phase EXCEPT ![j] = "checking"]
  /\ UNCHANGED <<zip, work, files, storeVars, reply>>

(* The runner returns, with an error or without.                           *)
Return(j) ==
  /\ End(j)
  /\ phase' = [phase EXCEPT ![j] = "over"]
  /\ UNCHANGED <<zip, work, files>>

(* "version already fetched".                                              *)
CheckFinds(j) ==
  /\ phase[j] = "checking"
  /\ ShaOf[j] \in DOMAIN pagesMeta
  /\ Return(j)
  /\ UNCHANGED <<storeVars, reply>>

CheckFindsNothing(j) ==
  /\ phase[j] = "checking"
  /\ ShaOf[j] \notin DOMAIN pagesMeta
  /\ phase' = [phase EXCEPT ![j] = "fetching"]
  /\ UNCHANGED <<status, overlap, zip, work, files, storeVars, reply>>

(* What Gitea may deliver.  A package is asked for by the name of its      *)
(* version, where the file may have been replaced; a commit and an         *)
(* attachment are asked for by the version's own identity.                 *)
Delivered(j) ==
  IF Via[j] = "package" THEN Archives
  ELSE IF Via[j] = KindOf[ShaOf[j]] THEN {ArchiveOf[ShaOf[j]]} ELSE {}

NoHashCheck(j, a) == TRUE  \* variant: the check is commented out for packages too

(* "sha256 mismatch", which only the runner for packages looks for.        *)
HashMatches(j, a) ==
  Via[j] = "package" => KindOf[ShaOf[j]] = "package" /\ a = ArchiveOf[ShaOf[j]]

(* The release runner reads Version.Extra, which only the listing of       *)
(* releases fills: after a change of the repository's topic it is nil.     *)
LacksExtra(j) == Via[j] = "release" /\ KindOf[ShaOf[j]] # "release"

(* The failed type assertion on Version.Extra in the release runner.  The  *)
(* pool recovers: the run is over, the mark of its key stays, and all else *)
(* goes on.                                                                *)
Panic(j) ==
  /\ phase[j] = "fetching"
  /\ LacksExtra(j)
  /\ Die(j)
  /\ phase' = [phase EXCEPT ![j] = "over"]
  /\ UNCHANGED <<zip, work, files, storeVars, reply>>

(* An error before the unzipping: request, status, length, temporary file. *)
FetchFails(j) ==
  /\ phase[j] = "fetching"
  /\ ~LacksExtra(j)
  /\ Return(j)
  /\ UNCHANGED <<storeVars, reply>>

(* The archive is in the temporary file, its hash is wrong.                *)
FetchRejects(j, a) ==
  /\ phase[j] = "fetching"
  /\ a \in Delivered(j)
  /\ ~HashMatches(j, a)
  /\ Return(j)
  /\ UNCHANGED <<storeVars, reply>>

(* The archive is in the temporary file, unzipDocs begins.                 *)
FetchDelivers(j, a) ==
  /\ phase[j] = "fetching"
  /\ a \in Delivered(j)
  /\ HashMatches(j, a)
  /\ phase' = [phase EXCEPT ![j] = "unzipping"]
  /\ zip' = [zip EXCEPT ![j] = a]
  /\ work' = [work EXCEPT ![j] = [n \in 1..Len(a) |-> "todo"]]
  /\ files' = [files EXCEPT ![j] = <<>>]
  /\ UNCHANGED <<status, overlap, storeVars, reply>>

-----------------------------------------------------------------------------
(* unzipDocs: one goroutine per entry, UnzipLimit of them at a time.       *)

Entries(j) == 1..Len(zip[j])
Active(j) == {n \in Entries(j) : work[j][n] \in {"reading", "stored"}}
Move(j, n, s) == work' = [work EXCEPT ![j] = [work[j] EXCEPT ![n] = s]]

(* eg.Go, which blocks at the limit, in the order of zr.File.              *)
Launch(j, n) ==
  /\ phase[j] = "unzipping"
  /\ work[j][n] = "todo"
  /\ \A m \in 1..(n - 1) : work[j][m] # "todo"
  /\ Cardinality(Active(j)) < UnzipLimit
  /\ Move(j, n, "reading")
  /\ UNCHANGED <<status, overlap, phase, zip, files, storeVars, reply>>

(* Variant: what could not be read is stored as an empty page.             *)
EntryFailsStored(j, n) ==
  /\ phase[j] = "unzipping"
  /\ work[j][n] = "reading"
  /\ pagesData' = pagesData \cup {NoBody}
  /\ Move(j, n, "stored")
  /\ UNCHANGED <<status, overlap, phase, zip, files, pagesMeta, reply>>

(* Open, Copy or PagesData().Set fails; the other goroutines go on.        *)
EntryFails(j, n) ==
  /\ phase[j] = "unzipping"
  /\ work[j][n] = "reading"
  /\ Move(j, n, "failed")
  /\ UNCHANGED <<status, overlap, phase, zip, files, storeVars, reply>>

StorePage(j, n) ==
  /\ phase[j] = "unzipping"
  /\ work[j][n] = "reading"
  /\ pagesData' = pagesData \cup {zip[j][n].body}
  /\ Move(j, n, "stored")
  /\ UNCHANGED <<status, overlap, phase, zip, files, pagesMeta, reply>>

(* Under filesMux: record the page, unless its name is stripped away.      *)
AppendPage(j, n) ==
  /\ phase[j] = "unzipping"
  /\ work[j][n] = "stored"
  /\ files' = IF Ignored(Via[j], zip[j][n].name) THEN files
              ELSE [files EXCEPT ![j] = Append(@, PageOf(Via[j], zip[j][n]))]
  /\ Move(j, n, "done")
  /\ UNCHANGED <<status, overlap, phase, zip, storeVars, reply>>

(* eg.Wait                                                                 *)
AllReturned(j) == \A n \in Entries(j) : work[j][n] \in {"done", "failed"}
NoneFailed(j) == \A n \in Entries(j) : work[j][n] # "failed"

(* An entry failed, or PagesMetadata().Set does.                           *)
UnzipFails(j) ==
  /\ phase[j] = "unzipping"
  /\ AllReturned(j)
  /\ Return(j)
  /\ UNCHANGED <<storeVars, reply>>

(* Variant: what was unzipped is published although an entry failed.       *)
PublishPartly(j) ==
  /\ phase[j] = "unzipping"
  /\ AllReturned(j)
  /\ pagesMeta' = [s \in DOMAIN pagesMeta \cup {ShaOf[j]} |->
                     IF s = ShaOf[j] THEN files[j] ELSE pagesMeta[s]]
  /\ Return(j)
  /\ UNCHANGED <<pagesData, reply>>

(* Variant: the metadata is set before the goroutines have returned.       *)
PublishEarly(j) ==
  /\ phase[j] = "unzipping"
  /\ NoneFailed(j)
  /\ pagesMeta' = [s \in DOMAIN pagesMeta \cup {ShaOf[j]} |->
                     IF s = ShaOf[j]
                       THEN [n \in Entries(j) |-> PageOf(Via[j], zip[j][n])]
                       ELSE pagesMeta[s]]
  /\ Return(j)
  /\ UNCHANGED <<pagesData, reply>>

(* PagesMetadata().Set, which makes the version visible.                   *)
PublishPages(j) ==
  /\ phase[j] = "unzipping"
  /\ AllReturned(j)
  /\ NoneFailed(j)
  /\ pagesMeta' = [s \in DOMAIN pagesMeta \cup {ShaOf[j]} |->
                     IF s = ShaOf[j] THEN files[j] ELSE pagesMeta[s]]
  /\ Return(j)
  /\ UNCHANGED <<pagesData, reply>>

-----------------------------------------------------------------------------
(* The process exits: the goroutines, the ring and the connections are     *)
(* gone, the buckets are not.                                              *)
Exit ==
  /\ ProcessExit
  /\ phase' = [j \in Jobs |-> IF phase[j] = "idle" THEN "idle" ELSE "over"]
  /\ reply' = [r \in Requests |->
                 IF reply[r].kind = "holding"
                   THEN [kind |-> "dropped", body |-> NoBody] ELSE reply[r]]
  /\ UNCHANGED <<zip, work, files, storeVars>>

(* log.Fatal, a kill, a power cut.                                         *)
Crash == (\E j \in Jobs : status[j] # "new") /\ Exit

-----------------------------------------------------------------------------
(* requestPageData, once the version is resolved.                          *)

Answer(r, kind, body) ==
  reply' = [reply EXCEPT ![r] = [kind |-> kind, body |-> body]]

(* No metadata: enqueue a job and show the preparation page.  The bound on *)
(* the number of jobs is in the choice of j.                               *)
AskForFetch(r) ==
  /\ reply[r].kind = "new"
  /\ AskedSha[r] \notin DOMAIN pagesMeta
  /\ \E j \in Jobs : ShaOf[j] = AskedSha[r] /\ Post(j)
  /\ Answer(r, "preparing", NoBody)
  /\ UNCHANGED <<runnerVars, storeVars>>

Named(s, f) == {n \in 1..Len(pagesMeta[s]) : pagesMeta[s][n].name = f}

(* "file not found"                                                        *)
AskFindsNoFile(r) ==
  /\ reply[r].kind = "new"
  /\ AskedSha[r] \in DOMAIN pagesMeta
  /\ Named(AskedSha[r], FileAsked(r)) = {}
  /\ Answer(r, "notFound", NoBody)
  /\ UNCHANGED <<status, overlap, runnerVars, storeVars>>

(* The metadata names the file: the hash at its first place is held for    *)
(* the next transaction.                                                   *)
AskFindsFile(r) ==
  /\ reply[r].kind = "new"
  /\ AskedSha[r] \in DOMAIN pagesMeta
  /\ \E n \in Named(AskedSha[r], FileAsked(r)) :
       /\ \A m \in Named(AskedSha[r], FileAsked(r)) : n <= m
       /\ Answer(r, "holding", pagesMeta[AskedSha[r]][n].sha)
  /\ UNCHANGED <<status, overlap, runnerVars, storeVars>>

(* PagesData().Get: without the page the reader is told to wait.           *)
ReadPage(r) ==
  /\ reply[r].kind = "holding"
  /\ IF reply[r].body \in pagesData THEN Answer(r, "served", reply[r].body)
     ELSE Answer(r, "preparing", NoBody)
  /\ UNCHANGED <<status, overlap, runnerVars, storeVars>>

-----------------------------------------------------------------------------
Runner(j) ==
  \/ BeginRun(j) \/ CheckFinds(j) \/ CheckFindsNothing(j) \/ FetchFails(j)
  \/ \E a \in Delivered(j) : FetchRejects(j, a) \/ FetchDelivers(j, a)
  \/ \E n \in Entries(j) : \/ Launch(j, n) \/ EntryFails(j, n)
                           \/ StorePage(j, n) \/ AppendPage(j, n)
  \/ UnzipFails(j) \/ PublishPages(j) \/ Panic(j)

Reader(r) == AskForFetch(r) \/ AskFindsNoFile(r) \/ AskFindsFile(r) \/ ReadPage(r)

FetchNext ==
  \/ \E j \in Jobs : PostByListing(j) \/ DropJob(j) \/ Runner(j)
  \/ \E r \in Requests : Reader(r)
  \/ Crash

FetchSpec == FetchInit /\ [][FetchNext]_fetchVars

-----------------------------------------------------------------------------
ReplyKinds == {"new", "holding", "preparing", "served", "notFound", "dropped"}
Entry == [name : Seq(STRING), body : Bodies]
PageFile == [name : Seq(STRING), sha : Bodies]

(* Type correctness.                                                       *)
TypeOK ==
  /\ status \in [Jobs -> Statuses]
  /\ overlap \in [Jobs -> SUBSET Jobs]
  /\ phase \in [Jobs -> Phases]
  /\ zip \in [Jobs -> Archives \cup {<<>>}]
  /\ DOMAIN work = Jobs
  /\ \A j \in Jobs : work[j] \in [Entries(j) -> WorkStates]
  /\ files \in [Jobs -> Seq(PageFile)]
  /\ DOMAIN pagesMeta \subseteq Shas
  /\ \A s \in DOMAIN pagesMeta : pagesMeta[s] \in Seq(PageFile)
  /\ pagesData \subseteq Bodies
  /\ reply \in [Requests -> [kind : ReplyKinds, body : Bodies \cup {NoBody}]]

(* Published metadata names no page whose content is not stored, whatever  *)
(* failed, overlapped or was cut off on the way: otherwise a reader would  *)
(* see the preparation page for ever, since no job would fetch the version *)
(* again (taskFetchVersion.go:66-73, tasks.go:77).                         *)
MetadataComplete ==
  \A s \in DOMAIN pagesMeta :
    \A n \in 1..Len(pagesMeta[s]) : pagesMeta[s][n].sha \in pagesData

(* The pages published under a version are those of the archive the        *)
(* version stands for, although a package may be replaced at its URL       *)
(* between the listing and the download (taskFetchVersion.go:127-147).     *)
PublishedIsArchive ==
  \A s \in DOMAIN pagesMeta :
    {pagesMeta[s][n] : n \in 1..Len(pagesMeta[s])} = PagesIn(KindOf[s], ArchiveOf[s])

(* The cache keeps the promise of PageSite.                                *)
Site == INSTANCE PageSite WITH
  AskedFile <- [r \in Requests |-> FileAsked(r)],
  PagesOf <- [s \in Shas |-> PagesIn(KindOf[s], ArchiveOf[s])],
  published <- DOMAIN pagesMeta,
  reply <- [r \in Requests |-> IF reply[r].kind = "holding"
                                 THEN [kind |-> "new", body |-> NoBody] ELSE reply[r]]

KeepsSite == Site!SiteSpec
=============================================================================
