\* One array of two blocks is enough to see destroy leave one of them.
SPECIFICATION Spec
CONSTANTS
  IndexMax = 4
  HMESH_MAX_NBLOCKS = 3
  Increment = 2
  Arrays = {a1}
  Blocks = {b1, b2}
  NULL = NULL
  Garbage = Garbage
SYMMETRY Interchangeable
INVARIANT
  DestroyReleasesAll
CHECK_DEADLOCK FALSE
