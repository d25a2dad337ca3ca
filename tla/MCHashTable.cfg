\* From two buckets to eight: the second and the third insertion may double the
\* table.
SPECIFICATION Spec
CONSTANTS
  a = a
  b = b
  c = c
  d = d
  Keys <- Names
  Hash <- Hashes
  LongKeys = {d}
  Symbols = {t, u}
  N = 1
  MaxBits = 3
  MaxInserts = 4
  Absent = Absent
  Unbound = Unbound
INVARIANTS
  NodesInTheirBuckets
PROPERTY
  ImplementsMap
CHECK_DEADLOCK FALSE
