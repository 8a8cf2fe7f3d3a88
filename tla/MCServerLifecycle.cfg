CONSTANTS
  N = 2
  SignalThreads = {0, 2}
  MaxSignals = 2
  MaxConns = 1
SPECIFICATION FairSpec
INVARIANTS
  ExitInv
  OrdinaryStopIsSafe
PROPERTIES
  StopEnds
  ConnectionsServed
CHECK_DEADLOCK FALSE
