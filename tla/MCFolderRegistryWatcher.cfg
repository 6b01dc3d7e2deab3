SPECIFICATION Spec
CONSTANTS
  Routes = {r1}
  Initial = r1
  Requests = {q1, q2}
  Openers = {o1, o2}
  Backends = {b1, b2}
  Retirer = Retirer
  None = None
  MaxJobs = 2
  MaxGeneration = 2
  MaxFlips = 2
SYMMETRY Symmetry
INVARIANTS
  WatcherMatchesCapability
