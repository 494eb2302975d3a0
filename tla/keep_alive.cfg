CONSTANTS
  Configs <- SmallConfigs
  MaxDelay = 1
  MaxSkew = 2
  MayStall <- ClientOnly
  MayDie <- ServerOnly
SPECIFICATION Spec
INVARIANTS
  SilenceIsNoticed
  IdleStaysUp
PROPERTIES
  TimeoutIsSilence
CHECK_DEADLOCK FALSE
