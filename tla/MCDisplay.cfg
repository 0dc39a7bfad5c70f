SPECIFICATION Spec
CONSTANTS
  NoCrtc = NoCrtc
  Server <- MCAll
  Area <- MCArea
  Length <- MCLength
  Text <- MCText
  MaxChanges = 1
INVARIANTS
  ScreensFound
  DefaultRight
  ShapedIfNoCompositor
  MakesRight
  StaysUp
PROPERTIES
  StartsUp
CHECK_DEADLOCK FALSE
