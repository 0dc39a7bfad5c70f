SPECIFICATION Spec
CONSTANTS
  ShmBuffer <- MCShmBuffer
  ByteBits = 2
  Junk = Junk
INVARIANTS
  TypeOK
  TightIsRight
  NoJunkUnlessFished
  BitsCountPixels
  RegularIsSafe
  ShapeTransposed
CHECK_DEADLOCK FALSE
