# pages-server: specifications, model checking and proofs

This directory is a verification development of `pages-server`, a Go program
that serves documentation sites out of Gitea repositories. It holds TLA+
modules translated from the source, TLC configurations that check them on small
instances, and proofs, checked by TLAPS, that hold for every value of the
constants. `PROJECT.json` lists components, runs, mutants, hazards, findings and
theorems, and says for each definition which lines of the source it models.

## 1. The system

A reader asks for `/{owner}/{repo}[@version]/{path}`. The server checks with the
reader's own token that the repository is visible to them, finds out from its
topics whether its pages are branches, releases or packages, looks the version
up in a cached listing and the page in a cached archive, and answers. Nothing is
fetched while the reader waits: what is missing is asked of a job queue, and the
reader sees a preparation page.

| component | state | operations | talks to |
|---|---|---|---|
| Job queue (`database/queue.go`) | six in-memory rings with two workers each, one deduplication store per queue (syncmap, in memory) | `Enqueue`; the consumer function: skip as too old, skip as busy, mark, run, unmark | called by the hook, by requests and by listing runners; calls the runners |
| Listing runners (`taskFetchRepoFrom*.go`) | bucket `repo-pages` | list all pages of Gitea, sort, store, enqueue a job per version | Gitea, buckets, queue |
| Version runners and unzip (`taskFetchVersion.go`) | buckets `pages-meta`, `pages-data`, a temporary file | check, download, verify, unzip with up to five goroutines, publish | Gitea, buckets |
| Page requests (`main.go:232-316`, `tasks.go`, `taskFetch.go`) | none of its own | access check, topics, version, metadata, page; enqueue what is missing | Gitea, buckets, queue |
| Web hook (`main.go:149-165`) | none | enqueue a listing of packages | queue |
| Paging (`gitea.go`) | a loop over the pages of a list that Gitea goes on changing | `allGiteaPages` | Gitea |
| Buckets (`database/database.go`, `sharedbbolt`) | one bbolt file shared by four buckets, users' sessions in memory | `Get`, `Set`, `Delete`, `Close` | everything |
| Login and sessions (`auth.go`, `database.go:162-252`) | a signed session id in the browser's cookie, sessions in memory | `/login`, `/callback`, `/logout`, the middlewares that find session and user | browsers, Gitea, buckets |
| User tokens (`main.go:377-444`) | bucket `users` | authenticate, refresh the token, build a client | Gitea, buckets |
| Font bundler (`templates/fetchJS/main.go`) | a pipeline of goroutines, at build time | `fontCSS`: cut the sheet, fetch files, write in order | web servers |
| Topics (`types_enum.go`, `main.go:245-291`) | none | `ParseRepoType`, the loop over topics | Gitea |
| Dark mode button (`templates/index.js`, one line) | per page: body, layer, button, timers; `localStorage`, shared by all pages | load, click, two timer callbacks | the browser |
| Templates, command line, constants | none | rendering, flags | - |

### What is hard about it

* **Two workers, one check.** The consumer reads the deduplication entry
  (`queue.go:94`) and marks it (`:105`) in two accesses; it stamps the entry when
  a run *ends* (`:114`); an error deletes an entry that may mark another run
  (`:109`). A mark that is left behind blocks its key until the next restart: no
  return path leaves one, but a panic of the runner does, because the pool recovers
  it and nothing is deferred.
* **Time limits that do not stop anything.** The pool frees a worker after 60
  minutes, and the runner goes on, since no runner looks at its context.
* **Restarts.** Ring and deduplication store are in memory, the buckets are not,
  and some errors end the process (`log.Fatal`). A failed type assertion does not: the
  pool recovers it, and the deduplication store lives on with the dead run's mark.
* **Publication.** Pages are stored one by one, by concurrent goroutines of
  possibly overlapping runs; the metadata that makes them visible must not come
  first, and must not name what was not stored. A package may be replaced at its
  URL between listing and download.
* **Freshness.** After the first listing nothing but a web hook refreshes it. A
  lost hook, a job dropped for an older run, a failed run or two racing runs leave
  it behind Gitea; so does the deletion of the last version, for which a runner stores
  nothing.
* **Paging of moving lists**, with an entry of the deduplication, a file query per
  entry, and a date of "now" for `gh-pages` in between.
* **Topic and hook disagree.** A request posts to the queue of the repository's
  topic, the hook always to the queue for packages; what one lists, the other's
  runner may be unable to fetch, or panic over (`taskFetchVersion.go:205`).
* **Tokens with one life.** Gitea retires a refresh token when it issues the next
  one. Tabs of one user refresh at the same time, answers are lost, the process
  exits between issue and store, and the HTTP client refreshes by itself.
* **Logins across restarts and tabs.** Cookies and states are signed and survive
  the process, sessions do not; tabs share one cookie; a callback may arrive in
  another browser than the login began in.
* **Half a change per click.** The dark mode button does half of its work in a
  timer, on pages that share their memory of the choice.
* **A pipeline with a limit.** The writer occupies one place of the group whose
  limit blocks the filter; the filter does not watch the context that an error
  cancels.

### What makes each component correct

* *Queue*: a job is run, or coalesced into a run of its key that it met, or that died
  of a panic; only a panic leaves a mark without a run; two runs of a key overlap only
  after a race of their checks; every queued job is decided although runners hang.
* *Version runners and requests*: what is published is the whole archive the
  version stands for, and readers are answered from it and from nothing else.
* *Listings*: a listing is exact if Gitea stands still; what is missed or doubled
  is explained by a change; the stored one is out of date only for named reasons.
* *Requests*: exactly one type, at most one job, and only one that is wanted, and none
  for a repository the reader cannot see.
* *Sessions and tokens*: a request acts only for an account that approved a login in
  that very browser; a stored token is dead only for a named reason; the login page
  leads to the page in the end.
* *The server as a whole*: a reader who reloads is shown a page, through failures
  and restarts, unless a named obstacle lasts.
* *Dark mode*: pages at rest are wholly dark or wholly light and start as the user
  last chose.
* *Font bundler*: written in order, complete if no error is returned, and it
  returns unless something failed, or the sheet, a file or the pipe hangs.

## 2. Modules

| module | models | constants |
|---|---|---|
| `JobLedger` | abstract: what the queue promises (`Post`, `Begin`, `End`, `Die`, `Coalesce`, `ProcessExit`) | jobs, keys |
| `DedupQueue` | `queue.go`: clock, ring, slots, deduplication store | jobs, keys, `PoolSize`, `MaxClock` |
| `PageSite` | abstract: what the cache promises a reader | versions, requests |
| `VersionFetch` | the three version runners, `unzipDocs`, the buckets `pages-*`, the second half of `requestPageData`; its jobs are those of `JobLedger` | jobs, versions, archives, `UnzipLimit`, requests |
| `VersionFetchProofs` | theorems about `VersionFetch` | |
| `RepoRefresh` | a repository of packages in Gitea, its hooks, the listing runner, the bucket `repo-pages`; EXTENDS `DedupQueue` | `MaxRevision` and those of `DedupQueue` |
| `RepoRefreshProofs` | theorems about `DedupQueue`, and about `RepoRefresh`, which extends it | |
| `RepoListing` | the steps of one listing for all three kinds: `allGiteaPages`, filters, files, sorting | entries, `PageSize`, `MaxChanges` |
| `RepoListingProofs` | theorems about `RepoListing` | |
| `PageRequest` | one request up to the version it is for: access, topics, version, jobs | `MaxTopics`, `MaxListed` |
| `PageRequestProofs` | theorems about `PageRequest` | |
| `Sessions` | `auth.go`, the session and user middlewares, `authenticatedGiteaClient`; Gitea's tokens | tabs, browsers, accounts, `MaxTrouble` |
| `SessionsProofs` | theorems about `Sessions` | |
| `PagesServer` | topic, hook, reader, listing runners, version runners and buckets together, for repositories of every kind | kinds, `MaxVersion`, `MaxRuns`, `MaxTrouble` |
| `PagesServerProofs` | theorems about `PagesServer` | |
| `DarkMode` | the widget at the end of `templates/index.js` | pages |
| `DarkModeProofs` | theorems about `DarkMode` | |
| `FontPipeline` | `fontCSS` | `N` urls, `Limit` |
| `FontPipelineProofs` | theorems about `FontPipeline` | |
| `MC*` | instances for TLC | |

How they fit together: `DedupQueue` implements `JobLedger`; `VersionFetch` is
built on `JobLedger` instead of the queue, so that what is shown of it holds for
any queue that keeps that promise (overlapping runs included), and implements
`PageSite`. `RepoRefresh` composes the concrete queue with the listing runner,
because staleness depends on the very skips the ledger abstracts from.
`RepoRefresh` takes a listing as one moment, `RepoListing` opens that moment up: a list
of one page is missed from or doubled by nothing (`MissedOnlyIfLeft`,
`DoubledOnlyIfCame`), so for it the moment is real.
`PageRequest` ends where the readers of `VersionFetch` begin. `PagesServer` puts the
parts together as the other modules show them to be: the queue coalesces as
`JobLedger` says, a version is published whole or not at all as `PageSite` says,
and a listing has one moment as in `RepoRefresh`; what it adds is that hook and
topic choose the queue separately, and the reader. `Sessions` is what stands before
every request of `PageRequest`: its `GiteaAnswers` is that module's access check.

### State and actions

*DedupQueue.* `stage[j]` is the program counter of the consumer function for
message `j`; every message has its own identity although the code knows only its
text. `dedup` is the syncmap store, `fifo` and `slots` the pool. One action per
access of the store: `SkipTooOld`, `SkipBusy` and `Clear` are the three results
of the `Get` of line 94; `Start` is the `Set` of line 105 and the call of the
runner; `Finish` and `Fail` are the `Set` of line 114 and the `Delete` of line
109, and `Panic` is neither: the slot is free, the mark stays. `during` and `after` are
history: the holders of the key's mark (runs in progress, and runs that panicked) when
the job was posted, and the runs begun while it waited; `raced` has the keys that two
jobs have found free before either had marked them.

*VersionFetch.* `phase[j]` follows the runner; `work[j][n]` is the goroutine of
entry `n`, between `eg.Go`, the `Set` of the page and the append under the mutex. `Panic` is the ledger's `Die`: the
run is over, its jobs may be dropped in its favour, everything else goes on.
`pagesMeta` and `pagesData` are the buckets. A reader reads metadata and page in
two transactions (`AskFindsFile`, `ReadPage`). Paths are sequences of components,
so stripping a directory is a real operation on them; a content stands for its
hash.

*RepoRefresh.* `gitea[k]` counts revisions, `bare` has the repositories without any
version, `repoPages[k]` is the revision that is cached, `hooks[k]` counts hooks under way.
`DeleteLast` empties a repository; `ListNothing` then returns without a `Set`.
`StoreListing` may return an error behind its `Set`, when a version's job cannot be posted. `HookArrives` enqueues whatever is
known, `RequestUnknown` only for an unknown repository, as in the code.
`rivals` and `lostHooks` are history. Jobs for versions, which a listing posts,
go to other queues: they are `PostByListing` in `VersionFetch`.

*RepoListing.* `kind` says which of the three runners it is. `todo` is what is left of the page in hand, with the dates as
they were when it was read; `Add`, `Delete` and `PushTo` change Gitea's list in
any place between any two steps, and name the entry by its place, as the list has no
entry twice. What is added or pushed may bear any date, since a branch is dated by the
clock of whoever committed. `StoreSorted` picks any newest version, because
`slices.SortFunc` is not stable.

*PageRequest.* Inputs (topics, version asked for, stored listing, metadata) are
chosen in `Init`, and the handler runs to its end. Gitea may refuse at each call,
a store may fail, and so may `Enqueue`.

*Sessions.* `tab[t]` is a tab or the handler of its request, with the token and the
session id the handler holds. `cookie`, `sessions` and `users` are the browser's
cookie, the syncmap and the bucket; `valid` is the one token per account that Gitea
would refresh. Between `Token()` (`RefreshToken`) and the `Set` of line 425
(`SaveToken`) everything else may happen; so between `Exchange`, `StoreSession` and
`StoreUser` in `/callback`. `ClientRefreshes` is the client of line 433. `approved`
and `why` are history: who approved a login in a browser since its logout, and what
has happened to an account's tokens since the stored one was last known to be good.

*PagesServer.* `listed` is the latest version of the stored listing with its kind,
`published` what can be served, `listRun` what each listing run has read. A posted
job waits or is coalesced into a run in progress (`PostList`, `PostFetch`).
`Deliverable` says which fetch can succeed, `LacksExtra` which panics; `Panic` puts the
job among the `dead`, which the queue drops (`SkipFetch`) until `Kill`. `foreign` is history: a listing of another kind than the topic
has been asked for, by a hook or because the topic changed.

*DarkMode.* One action per load, per direction of a click and per timer callback.
`stored` is the string in `localStorage` ("null", "true", "false"); `choice` is
history. The source is one minified line, and all definitions map to it.

*FontPipeline.* A send on the unbuffered channel is one action of filter and
writer together (`HandOver`). `cancelled` is the context of the errgroup.
`close(fs.c)` comes before the goroutine's error is recorded, so a writer may
run on with a part that has no data; two actions show that.

## 3. Runs

The instances are finite: jobs, requests, changes, troubles and clock ticks are
bounded. In `dedup_queue`, `fetch_pages`, the refresh, listing, request and font runs the
system really stops when they are used up, and deadlock checking is off
(`CHECK_DEADLOCK FALSE`); where stopping early would be wrong, a liveness property
says so. `sessions`, `login_loop`, `dark_mode` and `pages_server` never stop (a
reader may always reload), and deadlock is checked.

| run | distinct states | what it asks |
|---|---|---|
| `dedup_queue` | 442 000 | marks, skips and overlaps have the reasons they should, a key that panicked stays dead; the queue implements `JobLedger`; every queued job is decided, although runners hang |
| `fetch_pages` | 2.1 million | overlapping fetches of a replaced package with two files of one name, a branch, and a panic in the wrong queue: published means complete and verified, readers see `PageSite` |
| `refresh_stale` | 5.5 million | a listing is stale only for five reasons, and goes back only after a race |
| `refresh_latest` | violation | the cached listing is behind although nothing failed |
| `listing_paging` | 1.1 million | exact if Gitea is quiet, misses and doubles are explained, the latest version is right, the loop ends |
| `request_version` | 187 000 | type and job of a request |
| `request_topics` | violation | the documented topic `pages-packages` has no type |
| `sessions` | 1.03 million | two tabs of one browser or two: dead tokens are explained, sessions act for who approved, the login page is left |
| `login_loop` | violation | a reader with a dead token presses the login button for ever |
| `pages_server` | 484 000 | the reader of a repository of releases or packages is served in the end, or a named obstacle lasts |
| `dark_mode` | 446 | three pages, clicked, reloaded and left to their timers |
| `font_bundle` | 91 000 | five files on a group of five: order, completeness, and the filter returns unless something failed or hangs |

### Properties

* `MarkHasHolder` (queue): a mark has a run in progress behind it, or one that
  panicked in this process. `DeadKeyStaysDead`: a key that such a run has left marked is
  never revived but by a restart. `SkipJustified`: a job is dropped only if at some moment
  after it was posted a run of its key was in progress, or lay panicked.
  `OverlapOnlyByRace`: what the queue is for; two runs of a key are in progress together
  only if two jobs read the store before either had marked it. `EveryJobDecided`:
  liveness. `KeepsLedger`: refinement.
* `MetadataComplete`, `PublishedIsArchive` (versions): nothing is visible that is
  not stored, and nothing is published that is not the version's archive.
  `KeepsSite`: refinement, readers included.
* `StaleOnlyIf` (listings): the converse of a promise the code does not keep; it
  lists *all* the ways in which a listing can stay behind. `NeverOlderAlone`: a
  listing goes back only where two runs raced.
* `QuietListingExact`, `MissedOnlyIfLeft`, `DoubledOnlyIfCame`, `LatestIsNewest`,
  `GhPagesIsLatest`, `ListingEnds` (one listing).
* `TopicsDecideType` compares the loop over the topics with a definition that
  only looks at the list, for the types the code knows; `PostsWanted` (requests).
* `GhPagesIsLatest` (one listing): gh-pages comes first unless a branch bears a date that
  lay in the future when the listing began.
* `DeadTokenExplained` (sessions): the stored token of an account is the one Gitea
  would refresh, or a handler is about to store that one, unless the grant was
  withdrawn, a new token was lost before it was stored, or two were issued while
  one was not stored: every way in which two tabs, a restart and a lost answer can
  lose a user's token. `OnlyOwnAccount`: whatever tabs, answers, callbacks and
  restarts do in between. `LoginComesIn`: liveness.
* `ReaderServed` (the server): liveness through failures, kills, lost hooks and lost
  jobs; its exception `Stuck` is a repository that has nothing, or a stored listing
  that names a version which is gone or of another kind. `OtherKindExplained`,
  `DeadKeyExplained`: only a hook or a change of the topic leads there, and to a version
  whose jobs are dropped after a panic.
* `PageAtRestAgrees`, `LoadFollowsChoice`, `ButtonComesBack` (dark mode).
* `WrittenInOrder`, `NilMeansComplete`, `ReturnsUnlessFailed` (font bundler).

Every property of a passing run has a mutant in `PROJECT.json`: an operator beside
the original, marked "Variant", that changes the code the way a plausible mistake
would. TLC finds the property violated when it takes the original's place.

### Bounds, and why they are enough

* *Queue.* Three jobs of one key are the smallest number with a running job, a second
  one past the check, and a third that meets both. Keys share nothing but the slots,
  and the two slots, the code's number, are already contended by three jobs. The
  clock reads 0 to 2: equal stamps, a later one, and one later still; the code only
  compares stamps. The proofs hold for any number of jobs and keys.
* *Versions.* A package and a branch; two jobs for the package, whose file can be
  replaced, one for the branch, and one for the package in the queue for releases. The
  package has two entries of one name, so that goroutines of one run and of two overlap,
  one entry fails beside the other, and readers may see either; the branch has a
  file in a directory that is stripped away. The entry of that directory itself, releases
  that succeed, and longer archives are left to the proofs. `UnzipLimit` is 2 with two
  entries where the code has 5: what matters is that entries overlap. The two jobs are
  interchangeable (`JobSymmetry`).
* *Listings in the queue.* One repository (repositories share nothing but the
  slots, whose contention `dedup_queue` covers), three jobs, two pushes or
  deletions, clock 0 to 1: a run before, during and after a push.
* *One listing.* Pages of two, up to four entries, two changes: an entry can cross
  the edge of a page in either direction, and the last page can be full, partly
  filled or vanish. Gitea's page has 100. Dates lie before, at and behind the server's clock.
* *Requests.* All lists of up to three of five topics (three known, one unknown
  with the prefix, one without), all listings of up to two versions.
* *Sessions.* Two tabs, placed in one browser or in two, and one account with two
  troubles: enough for two overlapping refreshes, for one lost answer and a restart, for
  a logout during a login, and for a callback in the other browser. A second account
  matters only where accounts could be confused, which `OnlyOwnAccount` is proved not
  to happen for any number of them. Ids and tokens are bounded by the
  troubles: a new one is made only for a login without a session or an expired token.
* *Server.* Two kinds, releases and packages: the kind the hook posts, and the one
  whose runner panics over the other's versions. Two versions, so that one may replace
  another or be of another kind. One run of a listing at a time and one trouble: two
  racing runs are the subject of `RepoRefresh`, and `ReaderServed` must hold behind
  the last trouble. The proofs hold for any bounds.
* *Dark mode.* Three pages: two that disagree and one that is opened.
* *Fonts.* Five files and the code's limit of five, so the group is full with one
  file to go.

### Fairness

* `DedupQueue`: the Go scheduler runs the pool's goroutines, and the pool's timer
  fires: weak fairness of `Take`, `Consume` and `Timeout` for each job. *None* for
  the runner (`Finish`, `Fail`, `Panic`): `http.DefaultClient` has no time limit, so a
  download may hang for ever, and `EveryJobDecided` holds nevertheless.
* `RepoListing`: weak fairness of the runner's own steps; Gitea answers or refuses.
* `Sessions`: weak fairness of each handler (`Serve`: the server runs it, Gitea answers)
  and of each reader (`Read`: the button in front of them is pressed, a login is
  approved). That readers go on is an assumption about the environment, under which
  `LoginComesIn` says that the server strands nobody. None for the troubles.
* `PagesServer`: weak fairness of the reader's reload, of each listing run and of each
  fetch. Here runners are assumed to come to an end: a download that hangs for ever
  does keep a reader waiting, and `EveryJobDecided` shows what of the queue survives
  that. None for pushes, hooks, kills and failures.
* `DarkMode`: weak fairness of the timers of a page, which a browser runs.
* `FontPipeline`: weak fairness of the filter once it has the sheet (`Cut`), of the
  writer while it waits (`Receive`), and of a fetching goroutine that has its answer.
  None for the sheet, for the answer of a file, nor for the pipe, which blocks until
  somebody reads it: the property leaves those out by name.

## 4. Findings

Three runs show where the code does not do what a line of the repository says of it.

1. `refresh_latest`: README line 20 says the server caches the latest version; the
   job that the hook posts during an older run is dropped, and nothing asks again.
2. `login_loop`: README line 18 says every valid Gitea user is authenticated with
   Gitea, and the button of the login page says "Log in with Gitea". A reader whose
   session names a token Gitea no longer takes is shown the login page, but the button
   asks for `/_auth/login?redirect=...`, which sends whoever has a session back to
   the page (`auth.go:88-91`). They never reach Gitea until they log out, the server
   restarts or the cookie ends.
3. `request_topics`: README line 10 says that a repository with the topic
   `pages-packages` is served from its packages. `ParseRepoType` knows `branch`, `release`
   and `package` (`types_enum.go:25`), so the loop of `main.go:251-264` has no type for it,
   and the request is refused.

Observations, visible in the models and without a run of their own:

* The check of `queue.go:94` and the mark of `:105` are two accesses: two runs of one
  key may overlap. `JobLedger` allows it, and the modules above it are checked with
  overlapping runs.
* A run stamps its entry when it ends (`queue.go:114`), so a job posted while it ran is
  dropped as "older than the last run"; this is what makes `refresh_latest` possible.
* A panicking runner leaves its key marked: `queue.go:105-114` defers nothing, and the
  pool recovers the panic. Until the next restart every job of that key is dropped, with
  the log line "another job is still running" (`queue.go:101`), while none is.
  `DeadKeyStaysDead` states it, and `DeadKeyExplained` how the server comes to it.
* A hook for a repository whose topic is not packages lists it as packages
  (`main.go:153`); its readers then see a package if one of that name exists, or a
  preparation page for ever, and a release repository's runner panics
  (`taskFetchVersion.go:205`), after which that version is not even tried. `PagesServer` shows that this is the only way there but
  for a change of the topic.
* When the last `docs.zip` of a known repository is deleted, the runner returns without a
  `Set` (`taskFetchRepoFromPackages.go:96-99`): the stored listing stays as it was.
* A branch whose last commit is dated ahead of the server's clock is the latest version,
  before `gh-pages` (`taskFetchRepoFromBranch.go:63-68`).
* A read error of the style sheet yields an empty result without an error
  (`ReadFails`), and a sheet that ends with its last `url(...)` panics (`TailPanics`).
  After an error of the group the filter may block for ever; this is why
  `ReturnsUnlessFailed` has its third case.

## 5. Proofs

Each theorem is proved for every value of the constants, from the named
assumptions of its module alone (`QueueAssumption`, `FetchAssumption`,
`RefreshAssumption`, `ListingAssumption`, `PipelineAssumption`, `RequestAssumption`,
`SessionsAssumption`, `PagesAssumption`; TLC evaluates each of them).

*RepoRefreshProofs, the queue.* `TypeCorrect`; `MarkCorrect`; `SkipCorrect`; `OverlapCorrect`;
`DeadCorrect`; `QueueKeepsLedger`; `QueueNeverStuck`. `SkipJustified` is not inductive: that a run was met has to
follow from a mark (`MarkHasHolder` gives a run, in progress or panicked, and `RunsAreSeen`
says the waiting job has it in its history) or from a time stamp (`LaterStampIsSeen`: a
stamp that is later than the job's was written by a run the job has seen, which
rests on `StampsInThePast`). `OverlapOnlyByRace` needs `OneUnlessRaced`: without a race a
key has one job past the check, and while that runs the key is marked; so a second job
can pass the check only before the mark is set. `DeadCorrect` needs little more than the types: with
nobody past the check, no action can touch the mark. `QueueInv` is the conjunction; with it each step of
the queue is a step of the ledger or a stutter. `QueueNeverStuck` follows from it, too:
a queued job is in the ring, and a slot that is taken is held by a job in progress, which
can go on or be timed out; so the queue is never blocked while a job waits.

*VersionFetchProofs.* `TypeCorrect`; `PublishedCorrect`; `MetadataCorrect`;
`FetchKeepsSite`; `FetchUsesLedger`. `FetchInv` says of every run in hand that the archive of an
unzipping run is the one the version stands for, that what its goroutines have
appended is exactly what the finished entries yield, and that whatever is appended
is stored; so that at publication "all goroutines returned, none failed" gives
both properties at once. For the refinement it adds that a held hash comes from
published metadata. `FetchUsesLedger` says that the module adds nothing to what
`JobLedger` lets a job do, whatever runners, readers, panics and exits come between.

*RepoRefreshProofs, the listings.* `RefreshUsesQueue`: the composition is a behaviour of the
queue, so `QueueInv` carries over; `RefreshTypeCorrect`; `StaleCorrect`;
`NeverOlderCorrect`; `DroppedForRun`. The inductive invariant `RefreshInv` has at its core
`Covered`: every listed repository is up to date, or a hook is under way, or one of
the five reasons has come about, or some job is *obliged*, that is, queued or
running early enough that its listing will have the latest revision.
`OneUnlessRival`, `StoredNotNewer` and `StoredCurrent` carry it through the store, and
`Unread` says that a run holds no revision before it has read one, which a bare repository
never lets it do. `DroppedForRun` says what `SkipJustified` says without its
history variables: whenever a job has been dropped, the runner of another job of its
repository has been called. `RefreshKeepsLedger` is a corollary: the refresh of listings
keeps the promise of `JobLedger` with its hooks and restarts.

*RepoListingProofs.* `TypeCorrect`; `ExactCorrect`; `MissedCorrect`; `DoubledCorrect`;
`NewestCorrect`; `GhPagesCorrect`; `ListingNears`. `ListingInv` describes a loop whose list
changes under it. `BetweenPages`: nothing is in hand between two pages nor after the last
one, nothing is collected before the first, and the last page says that no more follow.
`NoneMissed`: as long as nothing has left its place, or if there is but one page, a wanted
entry that was not touched and that the runner has been past is collected or in hand.
`NoneDoubled`: as long as nothing has come in, or on the first page, no entry is collected
or in hand twice; `NoneAhead`, which keeps it so, says that none of them stands at a place
still to be read. They are stated apart because each depends on other changes of the list:
a growing list misses nothing, a shrinking one repeats nothing. `NoneStrange`: what is
collected is wanted, and an untouched entry that is collected or in hand is still in the
list. `DatesFit`: an untouched entry has the date it began with and is collected
with it, and gh-pages is collected with one no earlier than the beginning. `LatestCollected`: what is stored is a
newest collected one. The lemmas under them say what `InsertAt`, `RemoveAt` and `Tail`
leave of a sequence without repetitions, and which entries change their side of the edge
between two pages.
`ListingNears` is the safety half of `ListingEnds`: every step of the runner lowers `Fuel`,
the steps it has left if Gitea's list stays as it is.

*FontPipelineProofs.* `TypeCorrect` (with the limit of the group, by
cardinalities); `OrderCorrect`; `CompleteCorrect`; `NeverStuckElse`; `RunsDown`. The invariant `Inv` relates the
part the filter is at to what has been handed over and written (`HandedOver`), to
the goroutines that exist (`Launched`), and a part without data to an error that is
or will be recorded (`Fetched`, `Ends`): nil is returned when nobody is left to
record one. `NeverStuckElse` and `RunsDown` are the safety half of `ReturnsUnlessFailed`,
for any number of files: unless the server of the sheet or of a file owes an answer, the
writer waits for somebody to read the pipe, or an error has ended it while parts are left
to hand over, one of the goroutines can take a step
(`CanMove`, the disjunction of their guards); and every step lowers `Fuel`, so there are
finitely many. The limit matters here: the writer counts against it, so it takes a limit
of at least two for the filter not to wait for the writer and the writer for the filter.

*PageRequestProofs.* `TypeCorrect`; `PostsCorrect`; `TopicsCorrect`.
`RequestInv` says what the variables of the loop amount to: one type so far has one
place among the topics behind (`TypesSeen`), and an error is left exactly by the last
pages- topic (`ErrorSeen`). At the end of the loop (`LoopFinds`) that is the definition
that looks at the whole list, and a posted job inherits it.

*SessionsProofs.* `TypeCorrect`; `TokenCorrect`; `AccountCorrect`. `SessionsInv` has,
beside the types, three parts. `Ids`: a session id is in the cookie of one browser only,
and an id that an answer of `/login` still brings is known to nobody else. `Own`: a
session that a cookie names belongs to an account that approved a login in that
browser; it needs `Ids`, because a callback stores its session whatever the cookie
has become. `Books`: an account without a named reason is `Clean`, that is, nobody holds
an unstored token and the stored one is valid, or one handler holds the valid one.

*PagesServerProofs.* `TypeCorrect`; `KindCorrect`; `DeadKeyCorrect`. As long as no listing
of another kind has been asked for, everything under way - waiting jobs, runs, the stored
listing, fetches - is of the topic's kind, and no key is dead (`OnlyTopic`), and what a listing run has read
is of its queue's kind (`RunsOfTheirKind`).

*DarkModeProofs.* `TypeCorrect`; `RestCorrect`; `ChoiceCorrect`; `ButtonHasTimer`, the
safety half of `ButtonComesBack`. A page is at rest, grows
dark or shrinks to light (`PagesFit`), with the one timer that fits; what is stored is
the choice (`StoredIsChoice`).

Only model-checked: the liveness properties `EveryJobDecided`, `ListingEnds`,
`ReturnsUnlessFailed`, `LoginComesIn`, `ReaderServed` and `ButtonComesBack`, because TLAPS
has no rules for fairness and ENABLED here. For four of them the part that needs neither
is proved, as said above: that nothing is blocked (`QueueNeverStuck`, `NeverStuckElse`,
`ButtonHasTimer`), stated with the guards of the actions written out, or that a variant
falls (`ListingNears`, `RunsDown`). Every safety property and every refinement that a
passing run checks is a theorem.

## 6. Abstractions, and what they assume

* Reading the clock and writing the store is one step; so are stamping a job and
  pushing it, because nobody can tell them apart.
* golang-queue recovers a panic of the consumer function, as its version in `go.mod` does,
  and logs it: the process goes on.
* The dates of branches come from the clocks of those who committed, those of packages and
  releases from Gitea's: the models assume nothing about how they lie to the server's.
* The wall clock does not go back. If it does, the code skips the jobs of a key
  until the clock has caught up; the hazard is listed and not modelled.
* `ParseJob` does not fail on what `Job()` made; encoding a job does not fail.
* A `Get` or `Set` of a bucket is one bbolt transaction, atomic and durable.
* SHA-256 does not collide. A commit, and a release's attachment, does not change
  under its identity; a package's file may.
* Gitea's paging, golang-queue's pool, errgroup and script's pipes are external, and
  modelled from how the code uses them: marked so in `PROJECT.json`.
* Wording, logging, templates, headers and MIME types are left out, and so are
  the parentheses that `fontCSS` drops around a file.

* A handler reads session and user in one step (`Sessions`); Gitea retires all earlier
  refresh tokens of a user when it issues one, which is what storing the new token is
  for. Signatures and their verification are taken to work.
* A hook may come at any time in `PagesServer`, so lost and repeated hooks are included;
  a run reads a listing at one moment; the identity of a version is its number, whole.
* The transition of the dark mode layer ends before its timer fires; a click on a disabled
  button does not reach the listener, as browsers have it.

Not modelled: `Queue.Close` and the closing of the shared database handle (nothing calls
them); a wall clock that is set back; the inside of the minified libraries in front of the
widget; templates and the command line, which keep no state. Errors of the shared handle
beyond a failing `Get` or `Set` do not show in any other component.

## 7. State of the development

Done: queue, ledger, version fetches, page site, listings with the queue, the steps of a
listing, requests, sessions and tokens, the server as a whole, the dark mode button, the
font pipeline, and the proofs above. What would come next:

1. `PagesServer` as a refinement of `PageSite` and `JobLedger` instead of an
   account of them, and two racing listing runs in its instance.
2. Variants for `EveryJobDecided` and `LoginComesIn`, as `ListingNears` and `RunsDown`
   are for their loops.
3. A clock that is set back in `DedupQueue`.
