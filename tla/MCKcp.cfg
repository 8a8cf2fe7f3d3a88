CONSTANTS
  Hops <- BothHops
  SndWnd = 2
  RcvWnd = 2
  FastResend = 1
  FastLimit = 1
  SnMod = 10
  FirstSns <- NewOrWrapping
  MaxPackets = 3
  DataCap = 2
  AckCap = 2
SPECIFICATION Spec
INVARIANTS
  WindowInv
  AcknowledgedIsHeld
PROPERTIES
  ImplementsChannel
  NeverBack
CHECK_DEADLOCK FALSE
