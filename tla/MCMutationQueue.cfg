SPECIFICATION FairSpec
CONSTANTS
  Callers = {c1, c2, c3}
  Capacity = 1
  None = None
INVARIANTS
  TypeOK
  NoSendOnClosedQueue
  AnswersAreTruthful
PROPERTIES
  ImplementsSerialExecutor
  StopNeverWaitsForTheJob
  DrainEnds
  EveryCallReturns
