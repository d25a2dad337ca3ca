\* Messages of 7 and of 60 characters, errmsg of 12, an Array that grows by 37:
\* it grows before a header, before a message and between the two pieces.
SPECIFICATION Spec
CONSTANTS
  Messages = {short, long}
  Size <- MCSize
  ErrmsgSize = 12
  Step = 37
  MaxLen = 110
  short = short
  long = long
INVARIANTS
  Room
PROPERTY
  ImplementsLog
