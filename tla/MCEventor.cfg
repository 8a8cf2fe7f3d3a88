CONSTANTS
  p1 = p1
  p2 = p2
  Producers <- MCProducers
  MaxPerProducer = 2
SPECIFICATION FairSpec
INVARIANTS
  LockInv
  NoLostWakeup
  OrderInv
PROPERTIES
  ImplementsExecutor
  EveryFunctorRuns
  UnloopEndsLoop
