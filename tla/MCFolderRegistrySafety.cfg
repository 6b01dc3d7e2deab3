SPECIFICATION Spec
CONSTANTS
  Routes = {r1}
  Initial = r1
  Requests = {q1, q2, q3}
  Openers = {o1}
  Backends = {b1, b2}
  Retirer = Retirer
  None = None
  MaxJobs = 2
  MaxGeneration = 2
  MaxFlips = 1
SYMMETRY Symmetry
INVARIANTS
  TypeOK
  OneBackendPerRoute
  LeaseKeepsBackend
  RefreshNotLost
PROPERTY
  RevivalAdvancesGeneration
