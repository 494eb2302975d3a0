CONSTANTS
  U32Max = 3
  Conf <- OneByteFrames
  AcceptCap = 1
  WireCap = 1
  MaxOpens <- NoStream
  MaxBytes = 1
  WriteSizes = {1}
  ReadSizes = {1}
  AppOps <- AcceptOps
  LinkMayFail = FALSE
  ForeignFrames <- NobodyForeign
SPECIFICATION FairSpec
PROPERTIES
  AcceptReturns
CHECK_DEADLOCK FALSE
