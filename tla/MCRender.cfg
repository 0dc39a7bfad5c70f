SPECIFICATION Spec
CONSTANTS
  NULL = NULL
  w1 = w1
  b1 = b1
  b2 = b2
  Window <- MCWindow
  Buffer <- MCBuffer
  Size <- MCSizes
  MaxImport = 3
INVARIANTS
  SafeUntilReimport
  WholeFrames
  
PROPERTIES
  TurnsAreAtomic
  NewestShown
CHECK_DEADLOCK FALSE
