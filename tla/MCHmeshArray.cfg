\* Two arrays of up to three blocks over a pool of three blocks; the stack grows
\* from two indices to three.
SPECIFICATION Spec
CONSTANTS
  IndexMax = 4
  HMESH_MAX_NBLOCKS = 3
  Increment = 2
  Arrays = {a1, a2}
  Blocks = {b1, b2, b3}
  NULL = NULL
  Garbage = Garbage
SYMMETRY Interchangeable
INVARIANTS
  MemFollowsStack
  BlocksHaveOneOwner
PROPERTY
  OnlyMisreadsStray
CHECK_DEADLOCK FALSE
