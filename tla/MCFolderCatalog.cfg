SPECIFICATION FairSpec
CONSTANTS
  f1 = f1
  f2 = f2
  f3 = f3
  Folders = {f1, f2, f3}
  Callers = {c1, c2}
  Limit = 2
  Loaded <- FullList
  Calls <- CallKinds
  MaxChanges = 2
INVARIANTS
  TypeOK
  SavedWhenQuiet
  RemovedStaysRemoved
PROPERTIES
  FileNeverGoesBack
  CallsReturn
