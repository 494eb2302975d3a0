CONSTANTS
  Configs <- OneConfig
  MaxDelay = 1
  MaxSkew = 0
  MayStall <- ClientOnly
  MayDie <- ServerOnly
SPECIFICATION Spec
INVARIANTS
  DeadPeerDetected
CHECK_DEADLOCK FALSE
