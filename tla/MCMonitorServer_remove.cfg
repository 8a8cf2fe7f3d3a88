CONSTANTS
  v1 = v1
  Viewers <- OneViewer
  Cams = {1}
SPECIFICATION FairSpec
PROPERTIES
  RemoveCamEnds
CHECK_DEADLOCK FALSE
