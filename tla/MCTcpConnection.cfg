CONSTANTS
  Requests <- OneWithBody
  MaxFrames = 2
  MaxPayload = 2
SPECIFICATION FairSpec
INVARIANTS
  StreamInv
  AnswerIsThere
  TransportSurvives
PROPERTIES
  GoneIsClosed
CHECK_DEADLOCK FALSE
