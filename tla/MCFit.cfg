SPECIFICATION Spec
CONSTANTS
  MaxAnswers = 6
  MaxLen = 9
  MaxExtra = 2
CHECK_DEADLOCK FALSE
INVARIANTS
  TypeOK
  CutsClosely
  CutIsMarked
PROPERTY
  Closer
