CONSTANTS
  Configs <- SmallConfigs
  Ids <- TwoIds
  Payloads <- ShortPayloads
  Updates <- OneUpdate
  ForeignItems <- Malformed
  PieceSizes = {1, 7, 34}
  MayHangup = TRUE
  MaxFrames = 2
SPECIFICATION FairSpec
INVARIANTS
  OnBoundary
  FailureHasCause
PROPERTIES
  ImplementsFrameFifo
  EventuallyDecoded
CHECK_DEADLOCK FALSE
