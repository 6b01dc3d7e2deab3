SPECIFICATION Spec
CONSTANTS
  Subscribers = {s1}
  Capacity = 2
  MaxSetups = 2
  MaxChanges = 1
  GitSetups = {2}
  None = None
INVARIANTS
  TypeOK
  NothingLost
  NoSendOnClosedSource
  WatchersAreReleased
