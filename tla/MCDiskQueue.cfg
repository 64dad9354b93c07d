CONSTANTS
  NoSegment = NoSegment
  MaxEvents = 5
  MaxSegFrames = 2
  MaxStarts = 4

SPECIFICATION Spec

INVARIANT TypeOK
PROPERTY NoRedeliveryOfPersistedAck
PROPERTY DeliveryInOrder

CHECK_DEADLOCK FALSE
