SPECIFICATION SearchSpec
CONSTANTS
  NULL = NULL
  Display <- MCDisplay
INVARIANTS
  ReturnsStrictest
  NoFishMeansSameLayout
  AbortsOnlyWithoutTrueColor
PROPERTY SearchEnds
CHECK_DEADLOCK FALSE
