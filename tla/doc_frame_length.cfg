CONSTANTS
  Configs <- LargeConfigs
  Ids <- OneId
  Payloads <- LargePayloads
  Updates = {}
  ForeignItems = {}
  PieceSizes = {70000}
  MayHangup = FALSE
  MaxFrames = 1
SPECIFICATION Spec
INVARIANTS
  DecodedInOrder
CHECK_DEADLOCK FALSE
