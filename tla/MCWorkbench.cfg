SPECIFICATION Spec
CONSTANTS
  Components = {
    "explorer", "history", "pane", "reads", "documents", "drafts", "switch",
    "picker", "control", "review", "search", "palette", "filetree", "sections",
    "hunks", "items", "lanes", "pdf", "markdown", "index", "listings", "watches",
    "launcher" }
  Histories <- TwoHistories
  Opened = {1}
  Fetches = {1}
  GraphPage = 2
  MaxRequests = 3
  MaxBreaks = 0
  MaxPaneActs = 2
  Files = {"a", "b"}
  OnDisk = {"a"}
  Untitled = "u"
  Texts = {"t0", "t1", "t2"}
  Empty = "t0"
  No = "no"
  MaxActs = 4
  Docs = {1, 2}
  DraftTexts = {0, 1}
  MaxRecords = 1
  MaxEdits = 2
  MaxReloads = 1
  Folders = {1, 2}
  Default = 1
  FirstRoutes = {0, 1}
  MaxMoves = 4
  RecentFolders = {1, 2, 3}
  FirstRecents <- ThreeRecents
  CurrentFolder = 3
  MaxPicks = 4
  ChangedFiles = {1}
  Sessions <- OperationSessions
  MaxSteps = 3
  MaxMeddles = 1
  Matches <- TwoQueries
  FrameLimit = 2
  MaxSearchActs = 4
  MaxSearchFaults = 1
  CommitQueries = {"c1", "c2"}
  FileQueries = {"f1", "f2"}
  Hits <- QueryHits
  HitsPerPage = 1
  MaxPaletteActs = 5
  MaxPaletteFaults = 1
  FileDiffs <- HunkDiffs
  MaxHunkActs = 3
  MaxHunkChanges = 2
  MaxHunkFaults = 1
  Views = {1}
  LeaseTime = 2
  MaxGrants = 1
  MaxTime = 3
  MaxPreviewActs = 2
  MaxPreviewLosses = 1
  MarkdownTexts = {1, 2}
  MaxMarkdownActs = 6
  MaxMarkdownFaults = 1
  Launchers = {1, 2}
  MaxLaunches = 3
INVARIANTS
  ReadsAreCurrent
  NothingTypedIsLost
  AddressMatchesWorkbench
  ListsSettle
  ReviewSettles
  AnswersMatchQueries
  SidebarFollowsStore
PROPERTY NothingIsTakenAway
CHECK_DEADLOCK FALSE
