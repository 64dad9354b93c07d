CONSTANTS
  NoSegment = NoSegment
  MaxEvents = 3
  MaxSegFrames = 1
  MaxStarts = 3

SPECIFICATION Spec

INVARIANT NoLossOfUnacked

CHECK_DEADLOCK FALSE
