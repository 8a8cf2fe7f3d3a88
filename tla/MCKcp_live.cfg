CONSTANTS
  Hops <- BothHops
  SndWnd = 2
  RcvWnd = 2
  FastResend = 1
  FastLimit = 1
  SnMod = 10
  FirstSns <- NewOrWrapping
  MaxPackets = 3
  DataCap = 2
  AckCap = 1
SPECIFICATION LiveSpec
PROPERTIES
  AllAccepted
CHECK_DEADLOCK FALSE
