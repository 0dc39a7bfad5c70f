SPECIFICATION Spec
CONSTANTS
  r1 = r1
  Region <- MCOneRegion
  Limit <- MCLimit
  Rect <- MCGrid
PROPERTIES
  Promised
CHECK_DEADLOCK FALSE
