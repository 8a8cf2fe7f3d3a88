CONSTANTS
  a1 = a1
  a2 = a2
  w1 = w1
  w2 = w2
  Adders <- MCAdders
  Workers <- MCWorkers
  MaxPerAdder = 2
  QueueSize = 1
SPECIFICATION PoolFairSpec
INVARIANTS
  QueueInv
  TasksExactlyOnceInOrder
  StopRunsWhatWasAdded
PROPERTIES
  EveryTaskRuns
  EveryPushReturns
CHECK_DEADLOCK FALSE
