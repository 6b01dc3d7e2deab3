SPECIFICATION FairSpec
CONSTANTS
  Routes = {r1, r2}
  Initial = r1
  Requests = {q1, q2}
  Openers = {o1}
  Backends = {b1, b2}
  Retirer = Retirer
  None = None
  MaxJobs = 1
  MaxGeneration = 1
  MaxFlips = 0
INVARIANT
  ShutdownIsComplete
PROPERTIES
  ShutdownEnds
  EveryRequestEnds
  StreamsAreDisconnected
