CONSTANTS
  CR = CR
  LF = LF
  Text = Text
  Bytes = {0, 9, 10, 15, 16, 127, 171, 255}
  MaxBin = 2
  MaxText = 5
  PtrWidth = 4
  MaxBuf = 3

SPECIFICATION Spec

INVARIANT BinaryToStringIsUpperHex
INVARIANT LineEndingsNormalised
INVARIANT OffsetAddressesBuffer
