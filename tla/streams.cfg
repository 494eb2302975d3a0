CONSTANTS
  U32Max = 3
  Conf <- OneByteFrames
  AcceptCap = 1
  WireCap = 1
  MaxOpens <- OneAndWrap
  MaxBytes = 2
  WriteSizes = {1}
  ReadSizes = {1}
  AppOps <- StreamsOps
  LinkMayFail = FALSE
  ForeignFrames <- ForeignClient
SPECIFICATION Spec
INVARIANTS
  DataHasReceiver
  DeliveredInOrder
  AcceptQueueExact
  OpenNeverCollides
CHECK_DEADLOCK FALSE
