CONSTANTS
  c1 = c1
  c2 = c2
  c3 = c3
  Conns <- OneConn
  LoopOf <- OneLoop
  Dialogue <- AnyRequests
  CamKcpInit = {"null", "wild"}
SPECIFICATION FairSpec
INVARIANTS
  ReleaseInv
  UpdateUsesLiveKcp
PROPERTIES
  ReleaseEnds
CHECK_DEADLOCK FALSE
