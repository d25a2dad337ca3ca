SPECIFICATION Spec
CONSTANTS
  Starts <- Fronts
  Limits = 1
INVARIANTS
  TypeOK
  MeshValid
PROPERTIES
  LowValenceGuarded
  ImplementsSurface
  Completes
CHECK_DEADLOCK FALSE
