SPECIFICATION FairSpec
CONSTANT MaxPackets = 2
INVARIANTS UseInv ReturnIsClean CleanupFaults
PROPERTY CameraStopEnds
CHECK_DEADLOCK FALSE
