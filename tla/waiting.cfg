CONSTANTS
  U32Max = 3
  Conf <- Mismatched
  AcceptCap = 1
  WireCap = 1
  MaxOpens <- OneClientStream
  MaxBytes = 2
  WriteSizes = {1, 2}
  ReadSizes = {1}
  AppOps <- WaitingOps
  LinkMayFail = FALSE
  ForeignFrames <- NobodyForeign
SPECIFICATION Spec
INVARIANTS
  GoneTaskMeansClosed
  WaitersAreSuspended
  NobodyReturnsTokens
CHECK_DEADLOCK FALSE
