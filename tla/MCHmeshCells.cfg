\* Points on a line: three default attributes and room for three scalars,
\* the first of which makes the stack of attributes grow; blocks of two nodes, six
\* of them, the fourth of which makes the stack of blocks grow, and no seventh: the
\* sum that should give it wraps.
SPECIFICATION Spec
CONSTANTS
  IndexMax = 8
  k = 0
  K = 0
  D = 1
  HMESH_MAX_NVARS = 6
  HMESH_MAX_NBLOCKS = 8
  Increment = 3
  BlockSize = 2
  Names = {x, y, z}
  Default = Default
  NULL = NULL
  Garbage = Garbage
INVARIANTS
  TypeOK
  AttributesCoverMap
  NodesNeverShared
  NamesDistinct
PROPERTY
  NodesAdvance
CHECK_DEADLOCK FALSE
