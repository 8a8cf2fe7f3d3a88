CONSTANTS
  v1 = v1
  Viewers <- OneViewer
  Cams = {1, 2}
SPECIFICATION Spec
INVARIANTS
  SessionInv
  GoneViewerIsClean
  JoinCannotDeadlock
CHECK_DEADLOCK FALSE
