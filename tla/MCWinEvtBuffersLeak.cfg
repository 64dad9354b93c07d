CONSTANTS
  Items <- MCItems
  ChanInitLen = 2
  PubInitLen = 2
  RenderBufLens = {0, 4}
  MsgNeeds = {1, 2, 3}
  XmlNeeds = {2, 5, 9}
  MaxHandles = 2
  MaxRead = 2

SPECIFICATION Spec

INVARIANT NoHandleLeak


CHECK_DEADLOCK FALSE
