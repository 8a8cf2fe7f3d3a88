CONSTANTS
  a = a
  Streams <- OneStream
  SeqMod = 8
  MaxSeqGap = 3
  MaxFuBufferSize = 3
  MaxFragments = 4
  MaxUnits = 5
  MaxLoss = 4
SPECIFICATION Spec
INVARIANTS
  FrameInv
  FreshIsNotDuplicate
  WholeUnitIsKept
CHECK_DEADLOCK FALSE
