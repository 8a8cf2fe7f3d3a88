CONSTANTS
  c1 = c1
  c2 = c2
  c3 = c3
  Conns <- ThreeConns
  LoopOf <- OwnLoop
  Dialogue <- UdpCamera
  CamKcpInit = {"null", "wild"}
SYMMETRY AlikeCameras
SPECIFICATION Spec
INVARIANTS
  OnlyWildKcpFails
  NoUdpLeft
  RegistryInv
CHECK_DEADLOCK FALSE
