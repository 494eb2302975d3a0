CONSTANTS
  U32Max = 3
  Conf <- TwoByteFrames
  AcceptCap = 1
  WireCap = 1
  MaxOpens <- OneClientStream
  MaxBytes = 4
  WriteSizes = {3}
  ReadSizes = {1}
  AppOps <- FloodOps
  LinkMayFail = FALSE
  ForeignFrames <- NobodyForeign
SPECIFICATION Spec
INVARIANTS
  ReceiveBufferBounded
CHECK_DEADLOCK FALSE
