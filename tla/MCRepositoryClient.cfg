SPECIFICATION FairSpec
CONSTANTS
  Watching = TRUE
  MaxChanges = 1
  MaxActs = 1
  MaxFaults = 1
  None = None
INVARIANTS
  TypeOK
  StampIsTruthful
  QuietIsCurrent
  NeverStranded
PROPERTY BecomesCurrent
CHECK_DEADLOCK FALSE
