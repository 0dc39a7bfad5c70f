SPECIFICATION Spec
CONSTANTS
  NULL = NULL
  w1 = w1
  b1 = b1
  b2 = b2
  Window <- MCWindow
  Buffer <- MCBuffer
  Size <- MCSizes
  MaxImport = 2
INVARIANTS
  RecommitSurvives
CHECK_DEADLOCK FALSE
