CONSTANTS
  U32Max = 3
  Conf <- OneByteFrames
  AcceptCap = 1
  WireCap = 1
  MaxOpens <- TwoClientStreams
  MaxBytes = 1
  WriteSizes = {1}
  ReadSizes = {1}
  AppOps <- ClosingOps
  LinkMayFail = TRUE
  ForeignFrames <- NobodyForeign
SPECIFICATION Spec
INVARIANTS
  TypeOK
  EofIsTruthful
  GoneTaskMeansClosed
  WaitersAreSuspended
CHECK_DEADLOCK FALSE
