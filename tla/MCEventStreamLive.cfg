SPECIFICATION FairSpec
CONSTANTS
  Subscribers = {s1}
  Capacity = 2
  MaxSetups = 1
  MaxChanges = 1
  GitSetups = {1}
  None = None
PROPERTIES
  ChangesArrive
  StopEnds
