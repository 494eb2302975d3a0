CONSTANTS
  U32Max = 3
  Conf <- OneByteFrames
  AcceptCap = 1
  WireCap = 0
  MaxOpens <- OneClientStream
  MaxBytes = 1
  WriteSizes = {1}
  ReadSizes = {1}
  AppOps <- LiveOps
  LinkMayFail = TRUE
  ForeignFrames <- NobodyForeign
SPECIFICATION FairSpec
PROPERTIES
  EventuallyDelivered
  FinEventuallyHandled
  BrokenLinkCloses
CHECK_DEADLOCK FALSE
