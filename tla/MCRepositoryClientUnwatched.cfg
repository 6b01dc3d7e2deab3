SPECIFICATION FairSpec
CONSTANTS
  Watching = FALSE
  MaxChanges = 1
  MaxActs = 1
  MaxFaults = 0
  None = None
PROPERTY RefreshShowsWhatItRead
CHECK_DEADLOCK FALSE
