----------------------------- MODULE MCWorkbench -----------------------------
(***************************************************************************)
(* The parts of Gitna around its core: those of the web client with the    *)
(* server's answers, the server's indexes and watches, and the npm         *)
(* launcher.  They run beside each other and meet in what each module      *)
(* names as its surroundings: the store's generation, the folder's disk,   *)
(* the answers of the server.  The surroundings are part of each module    *)
(* and may move at any time, so the product of all of them would show      *)
(* nothing that one of them does not: in a behaviour of this module one    *)
(* part, the focus, is awake, and the others' variables are Off.           *)
(***************************************************************************)
EXTENDS Integers, Sequences, FiniteSets, Documents, DraftBackups, FolderSwitch, FolderPicker,
  SourceControl, HunkActions, GraphPane, ContentSearch, Palette, PDFPreview, MarkdownPreview, NpmInstall

CONSTANT Components   \* the parts looked at

VARIABLES
  focus,
  server, tree, calls, refresh, walker, listed,
  kind, world, asks, list,
  generations, target, loading, paging, review, viewer, viewActs,
  fs, store, rendered, shownTree, applied, watched, treeLoads, treeActs,
  worktree, sections, menuAt, shares, request, sectionActs,
  pages, index, codeView,
  parents, rows,
  searchIndex, builders, indexFiles, lookups, indexActs,
  directoryCache, listingsOf, listingFiles, pagesOf, folderActs,
  folderDirs, listedDirs, watchSession, watchSets, watchBudget

explorerPart == <<server, tree, calls, refresh, walker, listed>>
historyPart == <<remote, graph, fetches, details>>
panePart == <<pane, openings, paneActs>>
readsPart == <<kind, world, asks, list>>
documentsPart == <<disk, tabs, edits, loads, op, dialog, ghost>>
draftsPart == <<documents, timers, requests, journal, recovery, used>>
switchPart == <<browser, page, bench, opening, title, tab, moves>>
pickerPart == <<recents, shown, listings, place, form, pick, rowFocus, picks>>
controlPart == <<git, lists, mutation, screen, told>>
reviewPart == <<generations, target, loading, paging, review, viewer, viewActs>>
searchPart == <<folder, panel, answer, searchTimers, dropped, searchActs>>
palettePart == <<served, box, commits, finds, asked, operation, paletteActs>>
filetreePart == <<fs, store, rendered, shownTree, applied, watched, treeLoads, treeActs>>
sectionsPart == <<worktree, sections, menuAt, shares, request, sectionActs>>
hunksPart == <<file, header, diffRead, patch, hunkActs>>
itemsPart == <<pages, index, codeView>>
lanesPart == <<parents, rows>>
pdfPart == <<now, grants, views, messages, previewActs>>
markdownPart == <<source, preview, parser, markdownActs>>
indexPart == <<searchIndex, builders, indexFiles, lookups, indexActs>>
listingsPart == <<directoryCache, listingsOf, listingFiles, pagesOf, folderActs>>
watchesPart == <<folderDirs, listedDirs, watchSession, watchSets, watchBudget>>
launcherPart == <<cache, launchers>>

workbenchVars ==
  <<focus, explorerPart, historyPart, panePart, readsPart, documentsPart, draftsPart, switchPart,
    pickerPart, controlPart, reviewPart, searchPart, palettePart, filetreePart, sectionsPart,
    hunksPart, itemsPart, lanesPart, pdfPart, markdownPart, indexPart, listingsPart,
    watchesPart, launcherPart>>

(***************************************************************************)
(* The instances                                                           *)
(***************************************************************************)

\* A folder with two entries and a page of one; the directory with the file to
\* open goes away.
ExplorerTrees ==
  << [d \in {0, 1} |-> IF d = 0 THEN {1, 2} ELSE {3}], [d \in {0} |-> {2}] >>
\* A commit is added to a history of two; pages of one commit, or of two.
TwoHistories == << <<2, 1>>, <<3, 2, 1>> >>
ThreeRecents == <<1, 2, 3>>
\* Operations that bear on each other.
OperationSessions ==
  { {"stage", "unstage", "discard", "commit", "fetch"},
    {"stash-push", "stash-pop", "stash-drop", "stash-apply"},
    {"merge", "resolve", "merge-continue", "merge-abort", "delete-branch", "create-branch"},
    {"push", "push-upstream", "commit"},
    {"create-tag", "delete-tag"} }
\* Files come and go between two generations of two reviews.
TwoReviews == << << <<1, 2, 3>>, <<1, 3>> >>, << <<2>>, <<2, 3>> >> >>
\* The second generation of the first query has more files than the server sends.
TwoQueries == << << <<1, 2>>, <<2, 3, 4>> >>, << <<3>>, <<>> >> >>
QueryHits == [c1 |-> 3, c2 |-> 1, f1 |-> 2, f2 |-> 1]
\* A directory in a directory; both go away.
TreeWithin == [p \in 1..5 |-> CASE p \in {1, 5} -> 0 [] p \in {2, 3} -> 1 [] p = 4 -> 2]
TreeDisks == << 1..5, {1, 2, 5}, {5}, {1, 2, 5} >>
SectionPaths == {<<"", "a">>, <<"d", "a">>, <<"", ".h">>}
\* Two hunks of equal content are among them.
HunkDiffs == { <<"x", "y">>, <<"y", "x">>, <<"x", "x">> }
\* Files on one page and on two, some of them called like an id of another.
ReviewFiles == { <<1>>, <<1, 101>>, <<1, 102>>, <<1, 103>> } \X {"deleted", "change"}
FilesOf(s) == [i \in DOMAIN s |-> [path |-> s[i][1], type |-> s[i][2]]]
FileLists(n) == UNION {[1..m -> ReviewFiles] : m \in 0..n}
PathsOf(s) == {s[i][1] : i \in DOMAIN s}
ReviewPages ==
  { <<FilesOf(s)>> : s \in FileLists(4) } \union
  { <<FilesOf(t[1]), FilesOf(t[2])>> :
      t \in {u \in FileLists(2) \X FileLists(2) : PathsOf(u[1]) \intersect PathsOf(u[2]) = {}} }
\* The histories of five commits, with merges of two and, at the newest, of three.
ParentLists(from, most) ==
  {s \in UNION {[1..n -> from..5] : n \in 0..most} :
     \A i, j \in DOMAIN s : i # j => s[i] # s[j]}
FiveCommits ==
  { <<a, b, c, d, <<>> >> : a \in ParentLists(2, 3), b \in ParentLists(3, 2),
                            c \in ParentLists(4, 2), d \in ParentLists(5, 1) }

Tree == INSTANCE Explorer WITH
  Dirs <- {0, 1}, ParentOf <- [d \in {1} |-> 0], Path <- <<1, 3>>,
  Trees <- ExplorerTrees, Calls <- 1..3, PageSize <- 1, Workers <- 4, MaxEpoch <- 1
Graph == INSTANCE History WITH
  Histories <- TwoHistories, Opened <- {1}, Fetches <- 1..2,
  GraphPage <- 1, MaxRequests <- 2, MaxBreaks <- 1
Latest == INSTANCE LatestReads WITH
  ReadKinds <- {"folders", "branches", "stashes", "tags", "conflicts", "compare",
  "search", "count"}, Asks <- 1..2, Targets <- {"t1", "t2"},
  MaxWorld <- 3, MaxReads <- 2, MaxLosses <- 1
Review == INSTANCE ReviewView WITH
  Reviews <- TwoReviews, MaxViewActs <- 4, MaxViewLosses <- 1
Model == INSTANCE LazyTree WITH
  TreeDirs <- {1, 2}, Within <- TreeWithin, DiskTrees <- TreeDisks,
  MaxTreeActs <- 6, MaxTreeFaults <- 1, tree <- shownTree
Sections == INSTANCE SourceSections WITH
  Paths <- SectionPaths, Folders <- {"", "d"}, HiddenPaths <- {<<"", ".h">>},
  MinPane <- 8, PaneShares <- <<52, 28, 20>>, MaxSectionActs <- 3
Items == INSTANCE ReviewItems WITH
  PageLists <- ReviewPages
Lanes == INSTANCE GraphLanes WITH
  LaneHistories <- FiveCommits, Loaded <- 5
Names == INSTANCE SearchIndex WITH
  Builds <- 1..2, Lookups <- 1..2, Chunks <- 1, MaxInvalidations <- 1, MaxIndexFaults <- 1
Directory == INSTANCE DirectoryIndex WITH
  Directories <- {1, 2}, Pages <- 1..3, CacheLimit <- 1, MaxFolderChanges <- 1, MaxContextEnds <- 1
Watches == INSTANCE WatchSet WITH
  SubDirs <- {1, 2}, WatchLimits <- {2, 3}, WatchBudget <- 2, Watchers <- {1, 2}, MaxWatchActs <- 4

(***************************************************************************)
(* One part is awake                                                       *)
(***************************************************************************)

Off == "off"

Init ==
  /\ focus \in Components
  /\ IF focus = "explorer" THEN Tree!ExplorerInit
     ELSE server = Off /\ tree = Off /\ calls = Off /\ refresh = Off /\ walker = Off /\ listed = Off
  /\ CASE focus = "history" -> Graph!HistoryInit
       [] focus = "pane" -> PaneInit
       [] OTHER -> remote = Off /\ graph = Off /\ fetches = Off /\ details = Off
  /\ IF focus = "pane" THEN TRUE ELSE pane = Off /\ openings = Off /\ paneActs = Off
  /\ IF focus = "reads" THEN Latest!ReadsInit
     ELSE kind = Off /\ world = Off /\ asks = Off /\ list = Off
  /\ IF focus = "documents" THEN DocumentsInit
     ELSE disk = Off /\ tabs = Off /\ edits = Off /\ loads = Off
          /\ op = Off /\ dialog = Off /\ ghost = Off
  /\ IF focus = "drafts" THEN DraftsInit
     ELSE documents = Off /\ timers = Off /\ requests = Off /\ journal = Off
          /\ recovery = Off /\ used = Off
  /\ IF focus = "switch" THEN SwitchInit
     ELSE browser = Off /\ page = Off /\ bench = Off /\ opening = Off
          /\ title = Off /\ tab = Off /\ moves = Off
  /\ IF focus = "picker" THEN PickerInit
     ELSE recents = Off /\ shown = Off /\ listings = Off /\ place = Off /\ form = Off
          /\ pick = Off /\ rowFocus = Off /\ picks = Off
  /\ IF focus = "control" THEN ControlInit
     ELSE git = Off /\ lists = Off /\ mutation = Off /\ screen = Off /\ told = Off
  /\ IF focus = "review" THEN Review!ViewInit
     ELSE generations = Off /\ target = Off /\ loading = Off /\ paging = Off
          /\ review = Off /\ viewer = Off /\ viewActs = Off
  /\ IF focus = "search" THEN SearchInit
     ELSE folder = Off /\ panel = Off /\ answer = Off /\ searchTimers = Off
          /\ dropped = Off /\ searchActs = Off
  /\ IF focus = "palette" THEN PaletteInit
     ELSE served = Off /\ box = Off /\ commits = Off /\ finds = Off
          /\ asked = Off /\ operation = Off /\ paletteActs = Off
  /\ IF focus = "filetree" THEN Model!TreeInit
     ELSE fs = Off /\ store = Off /\ rendered = Off /\ shownTree = Off /\ applied = Off
          /\ watched = Off /\ treeLoads = Off /\ treeActs = Off
  /\ IF focus = "sections" THEN Sections!SectionsInit
     ELSE worktree = Off /\ sections = Off /\ menuAt = Off /\ shares = Off
          /\ request = Off /\ sectionActs = Off
  /\ IF focus = "hunks" THEN HunksInit
     ELSE file = Off /\ header = Off /\ diffRead = Off /\ patch = Off /\ hunkActs = Off
  /\ IF focus = "items" THEN Items!ItemsInit
     ELSE pages = Off /\ index = Off /\ codeView = Off
  /\ IF focus = "lanes" THEN Lanes!LanesInit
     ELSE parents = Off /\ rows = Off
  /\ IF focus = "pdf" THEN PreviewInit
     ELSE now = Off /\ grants = Off /\ views = Off /\ messages = Off /\ previewActs = Off
  /\ IF focus = "markdown" THEN MarkdownInit
     ELSE source = Off /\ preview = Off /\ parser = Off /\ markdownActs = Off
  /\ IF focus = "index" THEN Names!IndexInit
     ELSE searchIndex = Off /\ builders = Off /\ indexFiles = Off /\ lookups = Off /\ indexActs = Off
  /\ IF focus = "listings" THEN Directory!DirectoryInit
     ELSE directoryCache = Off /\ listingsOf = Off /\ listingFiles = Off
          /\ pagesOf = Off /\ folderActs = Off
  /\ IF focus = "watches" THEN Watches!WatchInit
     ELSE folderDirs = Off /\ listedDirs = Off /\ watchSession = Off
          /\ watchSets = Off /\ watchBudget = Off
  /\ IF focus = "launcher" THEN LauncherInit
     ELSE cache = Off /\ launchers = Off

Next ==
  \/ /\ focus = "explorer" /\ Tree!ExplorerNext
     /\ UNCHANGED <<focus, historyPart, panePart, readsPart, documentsPart, draftsPart, switchPart,
                   pickerPart, controlPart, reviewPart, searchPart, palettePart, filetreePart,
                   sectionsPart, hunksPart, itemsPart, lanesPart, pdfPart, markdownPart,
                   indexPart, listingsPart, watchesPart, launcherPart>>
  \/ /\ focus = "history" /\ Graph!HistoryNext
     /\ UNCHANGED <<focus, explorerPart, panePart, readsPart, documentsPart, draftsPart, switchPart,
                   pickerPart, controlPart, reviewPart, searchPart, palettePart, filetreePart,
                   sectionsPart, hunksPart, itemsPart, lanesPart, pdfPart, markdownPart,
                   indexPart, listingsPart, watchesPart, launcherPart>>
  \/ /\ focus = "pane" /\ PaneNext
     /\ UNCHANGED <<focus, explorerPart, readsPart, documentsPart, draftsPart, switchPart, pickerPart,
                   controlPart, reviewPart, searchPart, palettePart, filetreePart, sectionsPart,
                   hunksPart, itemsPart, lanesPart, pdfPart, markdownPart, indexPart,
                   listingsPart, watchesPart, launcherPart>>
  \/ /\ focus = "reads" /\ Latest!ReadsNext
     /\ UNCHANGED <<focus, explorerPart, historyPart, panePart, documentsPart, draftsPart, switchPart,
                   pickerPart, controlPart, reviewPart, searchPart, palettePart, filetreePart,
                   sectionsPart, hunksPart, itemsPart, lanesPart, pdfPart, markdownPart,
                   indexPart, listingsPart, watchesPart, launcherPart>>
  \/ /\ focus = "documents" /\ DocumentsNext
     /\ UNCHANGED <<focus, explorerPart, historyPart, panePart, readsPart, draftsPart, switchPart,
                   pickerPart, controlPart, reviewPart, searchPart, palettePart, filetreePart,
                   sectionsPart, hunksPart, itemsPart, lanesPart, pdfPart, markdownPart,
                   indexPart, listingsPart, watchesPart, launcherPart>>
  \/ /\ focus = "drafts" /\ DraftsNext
     /\ UNCHANGED <<focus, explorerPart, historyPart, panePart, readsPart, documentsPart, switchPart,
                   pickerPart, controlPart, reviewPart, searchPart, palettePart, filetreePart,
                   sectionsPart, hunksPart, itemsPart, lanesPart, pdfPart, markdownPart,
                   indexPart, listingsPart, watchesPart, launcherPart>>
  \/ /\ focus = "switch" /\ SwitchNext
     /\ UNCHANGED <<focus, explorerPart, historyPart, panePart, readsPart, documentsPart, draftsPart,
                   pickerPart, controlPart, reviewPart, searchPart, palettePart, filetreePart,
                   sectionsPart, hunksPart, itemsPart, lanesPart, pdfPart, markdownPart,
                   indexPart, listingsPart, watchesPart, launcherPart>>
  \/ /\ focus = "picker" /\ PickerNext
     /\ UNCHANGED <<focus, explorerPart, historyPart, panePart, readsPart, documentsPart, draftsPart,
                   switchPart, controlPart, reviewPart, searchPart, palettePart, filetreePart,
                   sectionsPart, hunksPart, itemsPart, lanesPart, pdfPart, markdownPart,
                   indexPart, listingsPart, watchesPart, launcherPart>>
  \/ /\ focus = "control" /\ ControlNext
     /\ UNCHANGED <<focus, explorerPart, historyPart, panePart, readsPart, documentsPart, draftsPart,
                   switchPart, pickerPart, reviewPart, searchPart, palettePart, filetreePart,
                   sectionsPart, hunksPart, itemsPart, lanesPart, pdfPart, markdownPart,
                   indexPart, listingsPart, watchesPart, launcherPart>>
  \/ /\ focus = "review" /\ Review!ViewNext
     /\ UNCHANGED <<focus, explorerPart, historyPart, panePart, readsPart, documentsPart, draftsPart,
                   switchPart, pickerPart, controlPart, searchPart, palettePart, filetreePart,
                   sectionsPart, hunksPart, itemsPart, lanesPart, pdfPart, markdownPart,
                   indexPart, listingsPart, watchesPart, launcherPart>>
  \/ /\ focus = "search" /\ SearchNext
     /\ UNCHANGED <<focus, explorerPart, historyPart, panePart, readsPart, documentsPart, draftsPart,
                   switchPart, pickerPart, controlPart, reviewPart, palettePart, filetreePart,
                   sectionsPart, hunksPart, itemsPart, lanesPart, pdfPart, markdownPart,
                   indexPart, listingsPart, watchesPart, launcherPart>>
  \/ /\ focus = "palette" /\ PaletteNext
     /\ UNCHANGED <<focus, explorerPart, historyPart, panePart, readsPart, documentsPart, draftsPart,
                   switchPart, pickerPart, controlPart, reviewPart, searchPart, filetreePart,
                   sectionsPart, hunksPart, itemsPart, lanesPart, pdfPart, markdownPart,
                   indexPart, listingsPart, watchesPart, launcherPart>>
  \/ /\ focus = "filetree" /\ Model!TreeNext
     /\ UNCHANGED <<focus, explorerPart, historyPart, panePart, readsPart, documentsPart, draftsPart,
                   switchPart, pickerPart, controlPart, reviewPart, searchPart, palettePart,
                   sectionsPart, hunksPart, itemsPart, lanesPart, pdfPart, markdownPart,
                   indexPart, listingsPart, watchesPart, launcherPart>>
  \/ /\ focus = "sections" /\ Sections!SectionsNext
     /\ UNCHANGED <<focus, explorerPart, historyPart, panePart, readsPart, documentsPart, draftsPart,
                   switchPart, pickerPart, controlPart, reviewPart, searchPart, palettePart,
                   filetreePart, hunksPart, itemsPart, lanesPart, pdfPart, markdownPart,
                   indexPart, listingsPart, watchesPart, launcherPart>>
  \/ /\ focus = "hunks" /\ HunksNext
     /\ UNCHANGED <<focus, explorerPart, historyPart, panePart, readsPart, documentsPart, draftsPart,
                   switchPart, pickerPart, controlPart, reviewPart, searchPart, palettePart,
                   filetreePart, sectionsPart, itemsPart, lanesPart, pdfPart, markdownPart,
                   indexPart, listingsPart, watchesPart, launcherPart>>
  \/ /\ focus = "items" /\ Items!ItemsNext
     /\ UNCHANGED <<focus, explorerPart, historyPart, panePart, readsPart, documentsPart, draftsPart,
                   switchPart, pickerPart, controlPart, reviewPart, searchPart, palettePart,
                   filetreePart, sectionsPart, hunksPart, lanesPart, pdfPart, markdownPart,
                   indexPart, listingsPart, watchesPart, launcherPart>>
  \/ /\ focus = "lanes" /\ Lanes!LanesNext
     /\ UNCHANGED <<focus, explorerPart, historyPart, panePart, readsPart, documentsPart, draftsPart,
                   switchPart, pickerPart, controlPart, reviewPart, searchPart, palettePart,
                   filetreePart, sectionsPart, hunksPart, itemsPart, pdfPart, markdownPart,
                   indexPart, listingsPart, watchesPart, launcherPart>>
  \/ /\ focus = "pdf" /\ PreviewNext
     /\ UNCHANGED <<focus, explorerPart, historyPart, panePart, readsPart, documentsPart, draftsPart,
                   switchPart, pickerPart, controlPart, reviewPart, searchPart, palettePart,
                   filetreePart, sectionsPart, hunksPart, itemsPart, lanesPart, markdownPart,
                   indexPart, listingsPart, watchesPart, launcherPart>>
  \/ /\ focus = "markdown" /\ MarkdownNext
     /\ UNCHANGED <<focus, explorerPart, historyPart, panePart, readsPart, documentsPart, draftsPart,
                   switchPart, pickerPart, controlPart, reviewPart, searchPart, palettePart,
                   filetreePart, sectionsPart, hunksPart, itemsPart, lanesPart, pdfPart,
                   indexPart, listingsPart, watchesPart, launcherPart>>
  \/ /\ focus = "index" /\ Names!IndexNext
     /\ UNCHANGED <<focus, explorerPart, historyPart, panePart, readsPart, documentsPart, draftsPart,
                   switchPart, pickerPart, controlPart, reviewPart, searchPart, palettePart,
                   filetreePart, sectionsPart, hunksPart, itemsPart, lanesPart, pdfPart,
                   markdownPart, listingsPart, watchesPart, launcherPart>>
  \/ /\ focus = "listings" /\ Directory!DirectoryNext
     /\ UNCHANGED <<focus, explorerPart, historyPart, panePart, readsPart, documentsPart, draftsPart,
                   switchPart, pickerPart, controlPart, reviewPart, searchPart, palettePart,
                   filetreePart, sectionsPart, hunksPart, itemsPart, lanesPart, pdfPart,
                   markdownPart, indexPart, watchesPart, launcherPart>>
  \/ /\ focus = "watches" /\ Watches!WatchNext
     /\ UNCHANGED <<focus, explorerPart, historyPart, panePart, readsPart, documentsPart, draftsPart,
                   switchPart, pickerPart, controlPart, reviewPart, searchPart, palettePart,
                   filetreePart, sectionsPart, hunksPart, itemsPart, lanesPart, pdfPart,
                   markdownPart, indexPart, listingsPart, launcherPart>>
  \/ /\ focus = "launcher" /\ LauncherNext
     /\ UNCHANGED <<focus, explorerPart, historyPart, panePart, readsPart, documentsPart, draftsPart,
                   switchPart, pickerPart, controlPart, reviewPart, searchPart, palettePart,
                   filetreePart, sectionsPart, hunksPart, itemsPart, lanesPart, pdfPart,
                   markdownPart, indexPart, listingsPart, watchesPart>>

Spec == Init /\ [][Next]_workbenchVars

(***************************************************************************)
(* What must hold                                                          *)
(***************************************************************************)

\* The store's reads: a refresh that succeeded is not older than its request, a
\* file is not called unavailable while it is there, the pages of the graph are
\* one history with its own count, and a list at rest is its last read's answer.
\* The server reads an index of names or a listing only while its file is
\* there and none the worse for what was invalidated, and leaves no file behind; what is shown
\* of an ordinary folder is watched.
ReadsAreCurrent ==
  /\ focus = "explorer" => Tree!RefreshIsAuthoritative /\ Tree!UnavailableIsTrue
  /\ focus = "history" => Graph!PrefixOfOneTip /\ Graph!TotalOfTip
  /\ focus = "pane" => PrefixOfOneTip /\ TotalOfTip
  /\ focus = "reads" => Latest!LastReadIsShown
  /\ focus = "index" => Names!SearchReadsOneIndex
  /\ focus = "listings" => Directory!PagesAreCurrent
  /\ focus = "watches" => Watches!WatchesAreHeld

\* What was typed is in the draft or has been in the file; what was typed into a
\* document without a file is in the journal once its backup has arrived.
NothingTypedIsLost ==
  /\ focus = "documents" => TypedIsKept
  /\ focus = "drafts" => DirtyIsBackedUp

\* No step takes away what was not given up: a backup never goes back to an older
\* revision, git loses nothing that the user was not asked about, a hunk is applied
\* to the diff it was chosen from, and new rows around it leave the tab stop of the
\* graph on its commit.
NothingIsTakenAway ==
  [][/\ focus = "drafts" => BackupAdvances
     /\ focus = "control" => LostOnlyAsAsked
     /\ focus = "hunks" => AppliedAsShown
     /\ focus = "pane" => ActiveIsKept]_workbenchVars

\* The address, the history's entry and the workbench are of one folder.
AddressMatchesWorkbench == focus = "switch" => AddressMatchesBench

\* After an operation every list shows the repository, or says why not; a folder
\* whose removal was answered is not offered again.
ListsSettle ==
  /\ focus = "control" => ListsFollowGit
  /\ focus = "picker" => RemovedIsNotListed

\* A review is one generation of one target, and at rest the newest of the one
\* that is selected; its paths lead to its items; and the hunks that are offered for
\* a file are those the server will take.
ReviewSettles ==
  /\ focus = "review" => Review!ReviewIsCoherent /\ Review!ReviewSettles
  /\ focus = "items" => Items!PathsLeadToItems
  /\ focus = "hunks" => OfferedHunksAreValid

\* What is shown is what was asked for: the results in the search panel and in the
\* palette are of the query in the box, a PDF is one that the server serves, the
\* preview of a document is of its text, and the launcher starts the release.
AnswersMatchQueries ==
  /\ focus = "search" => FilesAreOfQuery
  /\ focus = "palette" => PaletteIsTruthful
  /\ focus = "pdf" => PreviewsAreGranted
  /\ focus = "markdown" => PreviewIsOfText
  /\ focus = "launcher" => StartsTheRelease

\* What the sidebar draws is what the store has: directories, rows, the revealed
\* file and commit, the count, the lines of the graph; and what its menus ask for
\* names what is there.
SidebarFollowsStore ==
  /\ focus = "filetree" => Model!ListingsAreDrawn
  /\ focus = "sections" =>
       Sections!RequestsNamePaths /\ Sections!RevealedIsShown /\ Sections!CountIsHonest
  /\ focus = "pane" => HeldAreShown /\ RevealedOnce
  /\ focus = "lanes" => Lanes!EdgesAreDrawn

=============================================================================
