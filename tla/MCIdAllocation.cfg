CONSTANTS
  U32Max = 15
  MaxCalls = 12
SPECIFICATION Spec
INVARIANTS
  TypeOK
  FreshUntilOverflow
  EndsDisjoint
CHECK_DEADLOCK FALSE
