SPECIFICATION Spec
CONSTANTS
  Grammars <- AllGrammars
  Code = Code
INVARIANTS
  TypeOK
  FlagsFromBelow
  ShortOnlyTwiceBack
  StackFits
PROPERTIES
  Completes
CHECK_DEADLOCK FALSE
