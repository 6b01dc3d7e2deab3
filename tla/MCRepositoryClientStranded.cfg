SPECIFICATION Spec
CONSTANTS
  Watching = TRUE
  MaxChanges = 0
  MaxActs = 1
  MaxFaults = 1
  None = None
INVARIANT OpenNeverStrandsRecovery
CHECK_DEADLOCK FALSE
