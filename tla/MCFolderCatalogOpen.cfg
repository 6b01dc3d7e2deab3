SPECIFICATION FairSpec
CONSTANTS
  f1 = f1
  f2 = f2
  f3 = f3
  Folders = {f1}
  Callers = {c1, c2}
  Limit = 2
  Loaded <- NoList
  Calls <- OpensAndFlushes
  MaxChanges = 3
PROPERTIES
  OpeningNeverHangs
