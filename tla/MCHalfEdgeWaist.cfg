SPECIFICATION Spec
CONSTANTS
  Starts <- Shrinking
  Limits = 1
INVARIANTS
  ValidAfterPasses
CHECK_DEADLOCK FALSE
