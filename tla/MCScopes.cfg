\* Four scopes, two names, two types.
SPECIFICATION Spec
CONSTANTS
  Names = {x, y}
  Types = {TYPEDEF_NAME, IDENTIFIER}
  Identifier = IDENTIFIER
  Absent = Absent
  MaxScopes = 4
INVARIANTS
  TypeOK
  ReusedEmpty
PROPERTIES
  ImplementsNest
CHECK_DEADLOCK FALSE
