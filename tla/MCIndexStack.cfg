\* Limits that increments meet exactly, cut short and overshoot, below the largest value
\* of the type and at it, where sums wrap.  A stack that was destroyed is followed by
\* another one.
SPECIFICATION Spec
CONSTANTS
  IndexMax = 4
  Limits = {3, 4}
  Increments = {0, 2, 3}
INVARIANTS
  TypeOK
  WrapOnlyAtTheEnd
  ListsAreInverse
  AttributesInUse
  SweepKeepsHeld
  GrowthAgrees
PROPERTY
  ImplementsPool
CHECK_DEADLOCK FALSE
