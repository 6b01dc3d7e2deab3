# Gitna: specifications, model checking and proofs

Gitna is a local Git workbench: a Go process that serves a web client on a
loopback port, keeps one *route* per opened folder, and behind each route a
*backend* (adapter, mutation queue, watcher, search index, server) that comes
and goes with use. This directory holds TLA+ modules of the parts of it whose
correctness depends on order, the TLC instances that check them, and proofs of
the properties that matter most. Source paths below are relative to the
repository.

## 1. Inventory

| Component | State it keeps | Operations | Module |
|---|---|---|---|
| Mutation queue (`internal/gitx/operations.go`) | job channel, stopping channel, admission lock, what each job's caller will hear | `Do`, `enqueue`, `run`, `Stop` | `MutationQueue`, `SerialExecutor` |
| Folder registry (`internal/app/folder_registry.go`) | routes, entries (session, capability, pending refresh, generation, leases, subscribers, dormancy timer, transition), `closing` | `ensureActive`, `acquireServer`/`release`, `subscribersChanged`, `retire`, `openFolder`, `shutdown` | `FolderRegistry` |
| Folder session (`internal/app/folder_session.go`, `app.go`) | adapter capability, watcher and its setup, observed directories | `startWatcher`, `refresh`, `switchTo`, `observeDirectory`, `stop`, `close` | `FolderRegistry`, `EventStream`, `WatchSet` |
| Folder catalog (`internal/folder/catalog.go`) | recent folders, the file, last error | `Record`, `RecordDeferred`, `Remove`, `Flush` | `FolderCatalog` |
| Events (`internal/watch`, `internal/server/sse.go`) | dirty kinds, debounce timers, watched directories, the budget, subscribers | emit, compact, dispatch, observe, lease, subscribe, close | `EventStream`, `WatchSet` |
| Search index, content search (`internal/app/folder_search.go`, `content_search.go`) | index file, the build under way, readers, retired files | build, search, invalidate, close | `SearchIndex`, `ContentSearch` |
| Directory index (`internal/app/folder_directory_index.go`) | an LRU of listings being built or ready, their files | page, build, evict, invalidate, close | `DirectoryIndex` |
| Server reads and patches (`internal/server/routes_*.go`, `patch_identity.go`) | the generation | snapshot, directory, graph and review pages, patches with an identity | `RepositoryClient`, `Explorer`, `History`, `ReviewView`, `HunkActions` |
| Working-tree files, draft journal, PDF previews (`internal/gitx`, `internal/drafts`, `internal/server/pdf_previews.go`) | files; records with revisions; grants | read, save, create, rename; put, delete; lease, renew, release, expire | `Documents`, `DraftBackups`, `PDFPreview` |
| Client: connection (`web/src/diffshub/gitna/repository.tsx`, `web/src/lib/api.ts`) | snapshot, generation, stream, timers | refresh, reconcile, mutate, reconnect, retry | `RepositoryClient` |
| Client: reads of the store (`repository.tsx`) | the lazy tree, the graph, lists | pages, refreshes, walks, last reads | `Explorer`, `History`, `LatestReads` |
| Client: what draws them (`DiffsHubFileTree.tsx`, `SourceControlWorkflow.tsx`, `graph-lanes.ts`) | the tree's model, sections and filters, the graph's tab stop and lanes | reconcile, expand, reveal, filter, drag, menus | `LazyTree`, `SourceSections`, `GraphPane`, `GraphLanes` |
| Client: documents (`GitnaReviewUI.tsx`, `documents.ts`) | tabs, editor, bases, drafts, dialogs, backups | edit, save, close, Save As, rename, recover | `Documents`, `DraftBackups` |
| Client: navigation (`main.tsx`, `GitnaReviewUI.tsx`, `DiffsHubHeader.tsx`, `GitnaHome.tsx`) | the session history, the mounted folder, recent folders | switch, Home, back and forward, pick, remove | `FolderSwitch`, `FolderPicker` |
| Client: Source Control (`SourceControlWorkflow.tsx`, `repository.tsx`) | lists, dialogs, questions, message, banner | every Git operation | `SourceControl` |
| Client: review (`GitnaReviewUI.tsx`, `reviewAdapter.ts`, `diffsHubDataAccumulator.ts`, `DiffsHubViewer.tsx`) | pages, items and their ids, hunks | load, next page, select, stage a hunk | `ReviewView`, `ReviewItems`, `HunkActions` |
| Client: search, palette, Markdown (`FindInFilesPanel.tsx`, `GitnaCommandPalette.tsx`, `markdownWorkerClient.ts`) | query, stream, rows; the worker's revisions | search, cancel, repeat, page; parse | `ContentSearch`, `Palette`, `MarkdownPreview` |
| npm launcher (`npm/gitna/lib/install.mjs`) | the cache's executable and notices | download, verify, extract, rename, start | `NpmInstall` |
| Git commands, HTTP server, process entry, appearance, scripts | none, or none with an order | one process or request each | not modelled, section 5 |

What is hard here: a request may arrive while its backend is being activated,
refreshed or retired; callers go away while their job runs on; timers fire
while they are being cancelled; shutdown meets all of it; events are coalesced,
dropped and overtaken; answers computed from one generation reach a client that
has seen another, or whose user has meanwhile asked for something else; a dialog
is dismissed while its work goes on. `PROJECT.json` lists each such hazard at
its line, with the property that would catch it, or the reason there is none.

The web client and the server share no memory. They meet in requests, whose
answers may be late, lost or out of order; in the generation, which every
successful mutation and every watcher event advances and which the snapshot, the
pages of a review and a patch's identity carry; and in the stream of events,
which tells the client to read again. On the server the adapter, the indexes and
the watcher of one folder share the session, which the registry creates,
refreshes and stops.

## 2. How the project is arranged

The core (mutation queue, registry, catalog, event stream, the client's
connection) has one module and one or more instances per component, because its
properties are about long interleavings and, in part, about progress. The parts
around it are checked together by one run, `workbench`: `MCWorkbench` instantiates
each of their modules, and in a behaviour one of them, the `focus`, is awake
while the variables of all others are `Off`. That loses nothing: each of these
modules contains its own surroundings (the folder on disk, the generation, git,
the server's answers, other programs), which may move at any moment and so do
whatever the other parts could make them do. A product would only multiply
independent moves.

`MCWorkbench` EXTENDS the modules of the parts that are proved, so that their
constants have their values in its `.cfg` and their theorems can be cited of its
specification; it instantiates the others with their values in the module.

Composition, where parts do share state:

* `MutationQueue` implements `SerialExecutor` (proved); `FolderRegistry` uses
  serial executors for its backends' queues.
* `GraphPane` EXTENDS `History`: the pane is checked on the store it draws.
* `ReviewView`, `HunkActions`, `Explorer` and `SearchIndex` contain both ends of
  the exchange that they are about: what the server keeps and what the client
  does with it.

Proved so far: every safety property of the core (queue, registry, catalog, event
stream, the client's store), and of the parts around it the editor with its
drafts, the folder switch, the recent folders, Source Control's lists and questions,
the hunks, the graph's tab stop, the answers to queries, the launcher (section 5).

## 3. The core

### MutationQueue, SerialExecutor

`MutationQueue` follows `operations.go` step by step: a submitter takes the
admission lock, checks `stopping`, and either sends, or is woken by the stop,
or by its context; `Do` then waits for the job's answer or the context. The
worker takes a job, skips it if its context has ended, runs it, answers. `Stop`
closes `stopping`, takes the admission lock for writing and closes the job
channel. The lock's writer preference is that of `sync.RWMutex`.
`SerialExecutor` is what the rest of the program relies on: accepted jobs run
one at a time in the order of acceptance, each at most once, none is accepted
after close. `ImplementsSerialExecutor` is the refinement, checked and proved.

| Run | Instance | Shows |
|---|---|---|
| `queue` | 3 callers, 1 place, jobs that may take for ever; fairness | no send on the closed channel, true answers, refinement; `Stop` returns while a job runs and the channel is full; every call returns and a stopped queue drains if jobs end |

Three callers and one place are the smallest instance in which one job runs,
one waits in the channel and one submitter blocks in its send.
`MutationQueueProofs` proves all safety properties, and that no job runs twice
and a drain is complete, for any callers and any capacity. The inductive
invariant ties each caller's program counter to what the queue, the worker and
the job's record may then be; `NoSendOnClosedQueue` needs it because only the
holder's read lock, not the check, keeps the channel open. The liveness
properties are model-checked only.

### FolderRegistry

An action is a section under an entry's lock, or what is done with the lock
released between two of them. `pc` of a request is its place in `ensureActive`,
`acquireServer` and its handler; `transition[r]` names who will close the
entry's transition channel; `dormancy` and `stale` are the timer's handle and a
superseded callback; `jobs[b]` is a backend's mutation queue, which by the
refinement above may be taken to be a serial executor. Backends are identities
that are used again after they closed. `shutdown` has its four loops, the first
over a list that comes from a map in any order.

| Run | Instance | Shows |
|---|---|---|
| `registry_safety` | 1 route, 3 requests, 1 open, 2 backends | one live backend, leases that keep it, timers only while idle, generations that advance over a revival, no lost open |
| `registry_shutdown` | 2 routes, 2 requests, 1 open; fairness | a complete shutdown that ends if jobs end; requests end; streams are disconnected even if jobs do not |
| `registry_watcher` | 1 route, 2 requests, 2 opens, 2 flips of the folder | a disagreement, below |

Bounds: `MaxGeneration` stops generations (a timer is then not fired either, so
that a revival can always count on); `MaxFlips` the changes on disk; a request
and an open happen once each. Two backends suffice to see two of one route at
once. Fairness: every goroutine that can step does (the Go scheduler), a
stream's handler ends once its hub has closed, and, where stated, jobs end
(every mutation has a deadline of its own). `ShutdownEnds` and `EveryRequestEnds`
also take for granted that the catalog's `Flush` in a session's `stop`
(`folder_session.go:400`) returns, which `OpeningNeverHangs` shows it may not. Timers, contexts that end, arrivals
and changes on disk are not fair: nothing makes them happen.

A capability switch whose caller's context ended while the queue ran it is
where the code disagrees with its tests. `WatcherMatchesCapability`
(`registry_watcher`): the switch is applied but its replacement watcher is never
started, and the next refresh takes it for done. For the same reason
`RefreshNotLost` leaves out a backend that was once left such a switch: it may
be applied after a later open.

`FolderRegistryProofs` proves the five invariants of these runs and
`RevivalAdvancesGeneration`, for any routes, requests, openers, backends and
length of the queues. None of them is inductive: whether a route has one backend
depends on who is in the middle of changing it. The invariant says, part by part,

* `Ownership`, `KnownRoutes`: a transition under way has one owner, a request at a
  step where it holds it or the retirement, and only of a route that exists;
* `BackendsHaveHomes`: a backend that is not closed is its route's session, the
  one the retirement took from its route, or the one a request is about to
  publish, which is what `OneBackendPerRoute` comes down to;
* `Leases`: an entry's counters are the numbers of requests that hold a lease or
  a stream (cardinalities of sets that one request enters or leaves at a time),
  and with `TimerOnlyWhenIdle` no timer is set beside them;
* `Callers`, `OneJobEach`: a job in a queue is its caller's, who waits for it, or
  orphaned; `Refreshes` follows a wanted capability through them;
* `Generations`: a route's next backend starts above what the last one answered;
* `OpenUntilClosing`, `Shutdown`: each of shutdown's loops still has before it
  every route that is not yet in the state the loop brings about.

### FolderCatalog

The list (`recent`, with a version that counts its changes), the file, and the
three locks; a step ends where the code must wait for a lock or for the disk.
`Record` and `Remove` write the file with both locks held; `RecordDeferred`
leaves it to a goroutine (`persister`), which copies the list under its lock and
writes without it. A write happens as a whole (a rename) or fails; `Remove`
falls back on its previous list when it does. The process may be killed between
any two steps and read the file again. Paths and times are abstracted.

| Run | Instance | Shows |
|---|---|---|
| `catalog` | 3 folders, 2 callers, a list of 2 that is full, 2 changes; fairness | the file follows the list, never goes back to an older one, what was removed stays removed across failures and crashes, calls return |
| `catalog_open` | 1 folder, 2 callers that open and flush, 3 changes | a deadlock, below |

The list is full at the start, so a third folder pushes one out. It has two
places, the least for which the code cuts it: `record` tests the length only
after a folder that it keeps (`Limit >= 2` is assumed; the code has 20). Each
caller has one goroutine under way, so two callers make two deferred writes overlap.
Fairness is strong because `sync.Mutex` hands the lock to whoever waits longest.

`OpeningNeverHangs`: a deferred record waits for the schedule lock with the list
locked; a flush holds that lock while it waits for an earlier record's
goroutine; that goroutine needs the list. `CallsReturn` holds of every other state.

`FolderCatalogProofs` proves the three invariants and `FileNeverGoesBack`, for any
folders, callers, changes and `Limit`. The inductive invariant says who holds
each lock at which step (`MuIsHeld`, `PersistMuIsHeld`, `CallsInPlace`), that no
list that is about to be written is older than the file (`Versions`), which the
copy under the list's lock and the write under the file's lock give together,
and that a removed folder is in none of the lists that could still become the
list or the file: those that a caller holds to fall back on, a goroutine's copy,
the file itself (`RemovedEverywhere`).

### EventStream

One session's way from the kernel to an open stream: a watcher's setup, its
debounce timers and its emit buffer, the forwarding goroutine, the session's
event channel, the hub and one subscriber's buffer; and `stop`, in its order.
A watcher walks the tree while the tree changes, so a change may come before a
directory is watched; the fallback scan compares fingerprints. An overflow of
the kernel's queue is a change of every kind. The hub takes an event and
dispatches it in one step, since both happen under its lock. Buffers have
`Capacity` places: 2, the least into which `Compacted` fits, so that every
buffer really overflows.

| Run | Instance | Shows |
|---|---|---|
| `events` | 1 stream, 2 setups, 1 change | no change is lost, no send on a closed channel, no watcher stays open |
| `events_arrive` | 1 stream, 1 setup, 1 change; fairness | an open stream hears of every change; `stop` returns, or stands in the catalog's `Flush` for good |

Fairness: strong for a send that competes with the session's context (Go's
`select` chooses at random), weak for the rest; subscribers need not leave.
The liveness instance has one setup: with two TLC does not finish. `stop` calls the
catalog's `Flush` between the setups and the watcher (`StopFlushes`); it is not
fair, because `FolderCatalog` has a run in which it never returns, and `StopEnds`
says that nothing else keeps `stop` from closing the hub. A change here is one
that git's status shows: the fallback scan compares fingerprints of it
(`watch/repository.go:794`), so a second edit of a file that was modified already,
missed by the watcher, is not found and is left out.

`EventStreamProofs` proves the four invariants for any subscribers, setups,
changes and any `Capacity` from 2. The inductive invariant: a setup's step and its
watcher's state agree (`SetupsAgree`), what is installed is live
(`InstalledIsLive`), `stop` closes nothing before what could send on it is gone
(`StopOrder`), each live watcher is in the hands of one that will close it
(`LiveAreHeld`), and every kind a stream was not told of is at a watcher, in a
buffer on the way, or will be reported by a setup that still reconciles
(`Told`); the lemma on `Compacted` says that compaction drops no kind. The proof
corrected two statements that TLC could not tell were false on two setups: with
four, two watchers may be live at once, and with three the setup that will
reconcile need not be the last one; `WatchersAreReleased` and `NothingLost` now
speak of every setup.

### RepositoryClient

The server's generation, the three-attempt snapshot read (`handleSnapshot`),
mutations, and the client's store. `reader` is the one snapshot read under way
(`refreshPromise`, `refreshAgain`), `client.recon` the one reconciliation
(`reconciliationPromise`) with its turns, `client.pending` the intent that joins
it, `client.timer` the coalescing timer of events, `client.due` and
`client.armed` the deadline of a retry and its timer, `client.ready` readiness
in the current epoch, `client.initial` what became of `refreshCurrentFolder`.
The continuations that run at once when a promise settles are part of the step
that settles it (`Follows`). A generation stands for a known state of the disk:
`base[g]` is the version when the generation became `g`.

The Explorer and Git reads that follow a snapshot are one step with one outcome
(`Explorer`, `History` and `LatestReads` have them in full); a partial turn may
also wait for the graph that an event asked for, and any turn may be widened by a
folder that has become, or is no longer, a repository (`Extras`, chosen freely); a graph event is an
event of the partial scope, `unreachable` is `reconnecting` with a notice, and
answers that end the session (403, 404) are left out.

| Run | Instance | Shows |
|---|---|---|
| `client` | 1 change, 1 action of the user, 1 fault; fairness | snapshots belong to their generation, a client at rest shows the disk, one that is not connected goes on by itself, and it ends connected and current |
| `client_stranded` | 1 action, 1 fault | a disagreement, below |
| `client_unwatched` | 1 change, 1 action, no watcher | a disagreement, below |

A fault makes a read fail or a stream end, and the theorems below cover any
number of them; a change, a mutation and their events advance the generation often
enough to use up the three attempts. Fairness: requests are answered (they have deadlines),
timers fire, a browser that tries again connects; the user, the disk and faults
owe nothing.

* `OpenNeverStrandsRecovery`: a refresh by hand that joins a probe before the
  first open counts as the catch-up of the open, which clears the retry timer
  and starts nothing; the view stays in `reconciling`. `NeverStranded` and
  `BecomesCurrent` hold of every other state.
* `RefreshShowsWhatItRead`: without a watcher no event advances the generation,
  so a refresh by hand reads the changed folder and drops it.
* `QuietIsCurrent` leaves out one window, `missed`: the stream opens while a
  refresh that began before it is under way or has succeeded, and an event fell
  between. It needs a watcher that runs for another view, or the retained one.

`RepositoryClientProofs` proves the four invariants for any number of changes,
actions and faults; `QuietIsCurrent` under the hypothesis `Watching`, since
without a watcher nothing reports what other programs change. For
`StampIsTruthful` the inductive invariant says what the reader holds at each step
(what it has read is not older than its generation's version, and not newer than
the next one's once it is stamped) and that generations stand for versions in
order. For the other two it says

* what the store knows of its stream (`Well`): it is open exactly when the client
  thinks so, and lost unless it is open or about to be, a connected view has an
  open stream, and an intent waits only for a turn under way;
* that a view that is not connected has a reconciliation, a timer or a stream
  under way (`Going`), which is `NeverStranded`;
* where a change is that is not shown (`OnWay`): while the stream is open and the
  store takes what it shows for current, or will when its turn succeeds, the
  change is still to be reported, in the inbox, asked for by a timer or a pending
  intent, or the read under way is one that will show it or fail. At rest none
  of these is left, so the disk is shown.

`Settled`, `Ended`, `Started` and the other operators of the store have lemmas of
their own; `FollowsWell` and `FollowsOnWay` carry the invariant over whatever runs
at once when a promise settles.

## 4. The workbench run

`MCWorkbench` checks eight properties, each a conjunction over the parts it is
about; a part's own property is defined, with its reasons, at the end of its
module. The run is one of safety: the modules' steps are those of an
event loop and of handlers under locks, and what must eventually happen is
stated as what holds *at rest*, when nothing is under way. Deadlock is not
checked, since a part stops when its bounds are used up.

| Property | Parts |
|---|---|
| `ReadsAreCurrent` | `Explorer`, `History`, `LatestReads`, `SearchIndex`, `DirectoryIndex`, `WatchSet` |
| `NothingTypedIsLost` | `Documents`, `DraftBackups` |
| `NothingIsTakenAway` (of steps) | `DraftBackups`, `SourceControl`, `HunkActions`, `GraphPane` |
| `AddressMatchesWorkbench` | `FolderSwitch` |
| `ListsSettle` | `SourceControl`, `FolderPicker` |
| `ReviewSettles` | `ReviewView`, `ReviewItems`, `HunkActions` |
| `AnswersMatchQueries` | `ContentSearch`, `Palette`, `PDFPreview`, `MarkdownPreview`, `NpmInstall` |
| `SidebarFollowsStore` | `LazyTree`, `SourceSections`, `GraphPane`, `GraphLanes` |

The instance of each focus, and why it is large enough:

| Focus | Bounds | The case they are for |
|---|---|---|
| `explorer` | two directories, three names, pages of one, three requests, one restart of the epoch, two states of the disk | a directory that takes two pages, changes between them, and is refreshed while it is walked |
| `history` | two histories, pages of one commit, two further requests, one break | HEAD moves between page, count and details |
| `pane` | the same histories, pages of two, three requests, two acts of the user | a refresh cuts the rows under the tab stop, which come back |
| `reads` | each of the eight lists, two reads of two targets, three states, one loss | a slow answer behind a newer read |
| `documents` | two files, one on disk, an untitled document, three texts, four acts | typing during a save, a rename onto a file that has a draft, a prompt over both |
| `drafts` | two documents, two texts, room for one record, two edits, one reload | a full journal, a backup that arrives after its page was loaded again |
| `switch` | two folders, the default one's Home URL, four moves | a traverse that is taken back while a switch is answered |
| `picker` | three recent folders, four acts | a list that is older than a removal |
| `control` | one file, five sets of operations that bear on each other, three steps, one act of another program | stash rows that move, a discard in two parts, a merge that stops |
| `review` | two reviews of up to three files at two generations, four acts, one loss | pages of two generations, a selected path on the next page |
| `search` | two queries, four files with a limit of two, four acts, one fault | a batch of the old query, a cut answer, a folder still being indexed |
| `palette` | two queries of each kind, pages of one, five acts, one fault | a further page after the generation moved |
| `filetree` | a directory in a directory, four disks, six acts, one fault | an answer after its directory is gone, a directory that is deleted and made again |
| `sections` | three paths, one hidden, one folder, one division of the space, three acts | a reveal under filters and in both views |
| `hunks` | three diffs, two hunks of equal content among them, three acts, two changes, one fault | a hunk that moved to another place |
| `items` | every review of up to four files on one page or up to two on each of two, of four names, some called like ids | a name that equals another file's suffixed id |
| `lanes` | every history of five commits, merges of up to three parents, loaded in every division into pages | a lane that runs through the last row of a page |
| `pdf` | one view, one place, a lease of two units, three units of time, two acts, one loss | a renewal that is answered after the view closed |
| `markdown` | two texts, six acts, one crash | a worker that dies with text waiting |
| `index` | two builds, two searches, one piece, one invalidation, one fault | a file replaced under its reader |
| `listings` | two directories, three pages, room for one, one change, one context that ends | an eviction of what is being read |
| `watches` | root and two directories, limits of two and three, a shared budget of two, two watchers, four acts | a watcher that is replaced while directories are listed, a place lost to another folder |
| `launcher` | two launchers, three starts | two renames of one executable, a kill at any step |

A bound on acts counts what the user, another program or a fault does; the
program's own steps are never bounded. Names of bounds begin with `Max`, except
where a constant is the bound of a resource in the code (`CacheLimit`,
`FrameLimit`, `WatchBudget`, `MaxGrants`, `MaxRecords`).

### The store's reads

* `Explorer`: `tree` is the store's listings by directory with the pages read,
  `calls` the requests with the lane each holds, `refresh` the refresh of all
  loaded directories, `walker` the walk that loads a path before a file is
  opened. A step of the client is the code between two awaits; what a settled
  promise makes run comes first (`Idle`). `RefreshIsAuthoritative`: no listing
  that began before a refresh stands in for it. `UnavailableIsTrue` is about a
  walk that nothing disturbed: one that met a restart may say it of a file that
  is there, and the next click corrects it.
* `History`: `graph` is the first page, what was added and the count, `fetches`
  the pages asked for. A request that was given up may still be answered: what
  keeps its answer out is the request's number. `PrefixOfOneTip`, `TotalOfTip`.
* `LatestReads`: the eight lists that are read as a whole; they differ in what
  they check when an answer comes (`kind` chooses). `LastReadIsShown` leaves out
  a list whose read was given up without another (`dropped`).
* `GraphPane`: the tab stop, pinned rows, the reveal, the next page by
  scrolling. `HeldAreShown`, `RevealedOnce`, and `ActiveIsKept` of steps.
* `GraphLanes`: the pure algorithm of `graph-lanes.ts`, a page at a time, against
  what a graph must show: the lines that enter a row are those of the parents to
  come, and each is drawn in one column without a gap (`EdgesAreDrawn`).
* `LazyTree`: the effect that brings the tree's model (an external component) to
  the store's listings, and the loads that expansion starts. `ListingsAreDrawn`
  promises nothing of a directory that was deleted and made again (`returned`): the
  subscription that has seen it open does not load it a second time.
* `SourceSections`: rows under filters and views, menus, drag, division of
  space. `RequestsNamePaths` leaves out the header's menu in the list view, where
  the code takes a row's name for a path (`SourceControlWorkflow.tsx:1849`) and
  the server refuses; `RevealedIsShown`; `CountIsHonest`.

### Documents, drafts, folders

* `Documents`: `disk`, `tabs`, `edits` (bases, drafts and the live editor), `op`
  (the save or rename under way), `dialog`; `ghost` remembers what was typed
  where. A hash stands for its text, as the server compares it. A dialog is
  modal, but its work goes on when it is dismissed: `TypedIsKept` leaves
  out the document whose Save As was dismissed while it ran, whose answer drops
  the draft with what was typed since (`dismissed`), and two files with drafts
  that a rename makes one after another program deleted the first, of whose drafts
  one is kept (`met`). It says nothing of what *other* programs
  wrote: a clean file's editor is not updated with its base, and the next save
  overwrites them (`GitnaReviewUI.tsx:288`).
* `DraftBackups`: the page's timers, requests that overtake each other and
  outlive the page, the journal's revisions and quota, recovery; the two deletes of
  a discard, with the lookup between them. A document that
  is discarded while its backup is on its way is offered again: nothing is lost
  by it, so no property forbids it.
* `FolderSwitch`: the session history with its entries and pending popstates,
  the mounted folder, Home, the question about drafts. `AddressMatchesBench`
  is about rest: between a traverse and the effect that takes it back they differ.
  It leaves out pages on which a navigation or a second traverse came in between
  (`crossed`): the popstate handler knows the move that takes back by a flag only.
* `FolderPicker`: the list read from the server, the combobox and Home's list.

### Source Control and review

* `SourceControl`: `git` is what the operations do to a repository, as far as
  the lists and questions depend on it (external; every state the operations
  refuse is refused there), `lists` what the client shows, `mutation` the one
  under way with what the user answered, `screen` the dialogs and the message.
  `ListsFollowGit` allows a list that another program changed or that says that its
  read failed. A row of a dialog is taken from the list as it is read again under it. `LostOnlyAsAsked` is about steps: a stash, an untracked file or an
  unmerged branch goes only if the user was asked about that one.
* `ReviewView`: loads and further pages of a target at a generation, the 409 that
  starts over, the viewer's items. `ReviewIsCoherent`, `ReviewSettles`.
* `ReviewItems`: ids and paths of the items as pages arrive, over every small
  review (`PathsLeadToItems`): the run enumerates inputs of a pure algorithm.
* `HunkActions`: the menu's read of hunks, the patch with its identity, the
  server's comparison and git. Other programs change the file before the
  generation says so. `AppliedAsShown` leaves out a change between the
  comparison and git (`drift`), which only git's context can detect. An answer is
  lost only after the server has finished: a connection that breaks while a patch
  is validated or queued is left out.

### Search, palette, previews

* `ContentSearch`: pause, stream, frames, batches, cancellation, the repeated
  search of a folder under indexing. `FilesAreOfQuery`.
* `Palette`: rows of commits and files, pages, what Enter does. A further page
  that is of a newer generation may repeat commits or leave some out; the active
  row is one of what is shown.
* `PDFPreview`: leases with a clock; client and server run on one machine.
  `PreviewsAreGranted` lets a grant outlive its view only where an answer was
  lost: it then waits for its expiry.
* `MarkdownPreview`: the worker runs one revision and holds one; it may die at
  any moment. An error that follows a crash ends with the next edit.

### Indexes, watches, launcher

* `SearchIndex`: a builder publishes its file piece by piece, readers scan what
  is written, invalidation and the session's end retire files, and the last
  reader removes them. What is read after the session's end is not spoken of.
  The builder's read of the repository and its lock are one step.
* `DirectoryIndex`: listings under construction with those that wait, eviction,
  invalidation; a build fails when its first caller's context ends or the disk fails,
  and answers all that waited with that error.
* `WatchSet`: the session's list of observed directories with its replay into a
  new watcher, the watcher's own list, the budget shared with other folders.
  A page comes from the cached listing until an event that is forwarded, a setup or
  an operation drops it (`cached`; `DirectoryIndex` has the cache itself).
  `WatchesAreHeld` leaves out two directories: one that changed between the scan
  of its listing and its watch, which the cache goes on serving, however often it
  is asked, until the next event or setup drops it (`raced`, `app.go:101`); and
  one that was removed and created again while listed (`reborn`,
  `watch/repository.go:211`).
* `NpmInstall`: the launchers' steps over one cache; a rename replaces or refuses,
  depending on the system. `StartsTheRelease` leaves out notices that a killed
  launcher was replacing: nothing repairs them.

## 5. What is proved, what is checked, what is left out

Proved with TLAPS, for every value of the constants:

| Component | Proved | Assumed of the constants |
|---|---|---|
| Queue | types, `NoSendOnClosedQueue`, `AnswersAreTruthful`, at-most-once, a complete drain, the refinement of `SerialExecutor` | `Capacity \in Nat \ {0}`, `None` is no caller |
| Registry | types, `OneBackendPerRoute`, `LeaseKeepsBackend`, `RefreshNotLost`, `ShutdownIsComplete`, `RevivalAdvancesGeneration` | the names differ, the bounds are numbers, there is a backend |
| Catalog | types with the list's bound, `SavedWhenQuiet`, `RemovedStaysRemoved`, `FileNeverGoesBack` | `Limit >= 2`, the loaded lists are lists |
| Event stream | types with the buffers' bound, `NoSendOnClosedSource`, `WatchersAreReleased`, `NothingLost` | `Capacity >= 2`, `None` is no setup and no change |
| Client's store | types, `StampIsTruthful`, `NeverStranded`; with a watcher `QuietIsCurrent` | types of the bounds, `None` is no scope, intent or reconciliation |
| Folder switch | `AddressMatchesBench` | folders are positive numbers, the default is one |
| Draft backups | `DirtyIsBackedUp`, `BackupAdvances` of steps | documents are positive numbers |
| Documents | `TypedIsKept` | the names differ, the empty text is a text |
| Recent folders | `RemovedIsNotListed` | the first list has a folder once at most |
| Graph section | `ActiveIsKept` of steps | nothing |
| Source Control | `ListsFollowGit`, `LostOnlyAsAsked` of steps | nothing |
| Hunks | `OfferedHunksAreValid`, `AppliedAsShown` of steps | nothing |
| Content search | `FilesAreOfQuery` | the matches are those of at least one query, each at as many generations |
| Palette | `PaletteIsTruthful` | the queries of the two kinds differ, a page has a place |
| PDF previews | `PreviewsAreGranted` | the lease and the number of grants are numbers |
| Launcher | `StartsTheRelease` | nothing |
| Markdown preview | `PreviewIsOfText` | texts are positive numbers |

Each follows from an inductive invariant; those of the core are in the module
`...Proofs` of their component and described with it. Those of the parts are in
`EditingProofs` (folder switch, backups, documents, recent folders, the graph's tab
stop) and `AnswersProofs` (search, palette, PDF, launcher, Markdown, Source Control,
hunks), which prove each part's property of the part as a specification of its own.
`WorkbenchProofs` puts them together: the focus never changes, a step is one of its
part, and so the run's properties `NothingTypedIsLost`, `AddressMatchesWorkbench`,
`ListsSettle`, `AnswersMatchQueries` and `NothingIsTakenAway` hold of `MCWorkbench`
for any values of those parts' constants. The bounds on changes, acts and faults are
constants like the others: the theorems hold for any. The invariants say

* folder switch (`AddressOK`): which of the moves that the browser still owes are
  the page's own, so that the entry it will be at is that of the mounted folder;
* backups (`DraftsInv`): a dirty document has a timer, a request or a failure of
  its current revision (`TimersAreCurrent`, `DirtyIsOnItsWay`), revisions that were
  not yet given out are nowhere (`Unused`), so what overtakes what does not matter
  to the journal, which takes the newer one;
* documents (`DocsInv`): each text that may become a base or the disk, in a load,
  in a save or rename under way (`OpIsSound`, `LoadsHeld`), has been in the file it
  will be held for (`DiskHeld`, `BaseHeld`), and what was typed last is the draft;
* recent folders (`PickerInv`): a folder that is gone is neither in the catalog nor in
  an answer that will still be shown; a list that may have it is that of the removal
  whose row waits, or was superseded (`GoneIsGone`, `RemovalsRead`);
* graph section (`PaneInv`): its types only; that a step leaves the tab stop follows
  from how rows replace rows;
* Source Control (`ControlInv`): a list that is not the repository's is being read,
  failed or was changed by others (`ListsFollow`), and what a question or a request
  names by its row is still in that row, unless another program moved the rows
  (`QuestionOK`, `MutationOK`);
* hunks (`HunksInv`): the diff in the menu, the one being read and the one in a patch
  under way are those of their identity's generation, or the file has changed since
  (`HeaderOK`, `ReadOK`, `PatchOK`);
* search (`SearchInv`): the panel, the batch and what the stream still has to send
  make up, in order, what the query finds at the stream's generation;
* palette (`PaletteInv`): the pages shown and the one under way are of the query in
  the box, and no answer to an older one is waited for;
* PDF (`PreviewInv`): tokens are given once, each grant is its view's, in a message
  to it, on its way back, or a loss that was counted, and a view believes in no
  lease for longer than its server does;
* launcher (`LInv`): one launcher is followed from the verified archive to what it
  starts, and the one answerable for notices that are not whole is named;
* Markdown (`MInv`): which of the worker's two revisions the effect waits for.

Proving for any bounds found what small instances had hidden, and the models and
properties say it now: a navigation between a refused traverse and its popstate
leaves address and folder apart for good (`crossed`, `main.tsx:95`); a rename may
meet the draft of a file that another program deleted (`met`); a further page of
commits may be of another generation than the first (`Palette`); a directory made
again is not loaded (`returned`); a dialog's row is read while its list is
(`SourceControl`).

Only model-checked, on the instances above:

* liveness under fairness, which is out of the prover's reach: `CallsReturn`, the
  progress of queue, registry, shutdown and `stop`, the arrival of events,
  `BecomesCurrent`;
* the other parts of the workbench run: `ReadsAreCurrent`, `SidebarFollowsStore`,
  and `ReviewSettles` but for the hunks. Their modules are instantiated by
  `MCWorkbench`, and a theorem cannot be cited through INSTANCE; what their
  invariants need has not been written;
* the pure algorithms (`GraphLanes`, `ReviewItems`), whose recursive definitions
  are compared with what they promise over bounded inputs: what a recursive
  definition computes for every input needs induction over data.

Known behaviour that no property forbids, besides the exceptions above, because
nothing in the repository promises otherwise or the next request corrects it:

* an idle backend without a dormancy timer after an activation without a lease
  (`folder_registry.go:295`); a capability read before the lock (`:219`);
* a batched mutation that fails after some batches does not advance the
  generation (`routes_mutate.go:194`), nor does git's own failure (`:289`);
* a waiting watcher setup that is cancelled lets two others run at once
  (`folder_session.go:169`); the fallback scan's first fingerprint comes after
  the watches (`watch/repository.go:718`);
* a click on a commit overtaken by a slower one (`repository.tsx:2026`), a
  comparison that was given up beside its new target (`:2522`), a directory that
  left the listing while it was read keeps the spinner (`:744`);
* a loading screen that stays after an alias of the default folder
  (`GitnaReviewUI.tsx:1531`), an answer of Home that navigates away (`:1450`);
* a commit killed at its deadline counts as refused (`routes_mutate.go:115`), one
  that git refused as uncertain (`repository.tsx:2500`);
* equal versions of an item after a collapse (`GitnaReviewUI.tsx:883`), a slow
  command that closes a palette opened since (`GitnaCommandPalette.tsx:465`),
  rows of a removed child until the next listing (`DiffsHubFileTree.tsx:463`);
* readers of the name index counted across generations (`folder_search.go:53`),
  a listing built with its first caller's context (`folder_directory_index.go:95`)
  and its cancellation answered as a timeout (`routes_read.go:424`).

Not modelled:

* what `git` does beyond what the client's lists depend on, and the arguments
  and output of its commands (`internal/gitx`): one process per call, no state;
* request checks of the HTTP server, process entry, embedded assets, release
  scripts: no shared state and no order;
* themes, fonts and widths: settings, of which two tabs overwrite each other's;
* path canonicalisation, symbolic links, clocks, sizes and formats: data that no
  property tells apart;
* the recursive watches of a repository and which event of its metadata means
  what; alias routes of the registry; expiry and damaged records of the journal;
  undo, media and the order of tabs; annotations and scrolling of a review.
