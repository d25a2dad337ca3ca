\* Blocks of ten words, or of five when malloc () fails once; pages of five: two
\* nodes and a word over, or two strings and a word over; no request larger than
\* a page.
SPECIFICATION Spec
CONSTANTS
  BlockWords = 10
  PageWords = 5
  Requests = {2}
  NodeSizes = {2, 3}
  Strings = {2}
  MaxBlocks = 2
  MaxPools = 2
  MallocMayFail = TRUE
INVARIANTS
  PartsSound
  NodesFreeOnce
CHECK_DEADLOCK FALSE
