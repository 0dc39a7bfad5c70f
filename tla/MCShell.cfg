SPECIFICATION Spec
CONSTANTS
  NULL = NULL
  c1 = c1
  c2 = c2
  s1 = s1
  s2 = s2
  b1 = b1
  b2 = b2
  sh1 = sh1
  sh2 = sh2
  t1 = t1
  Client <- MCOneClient
  Surface <- MCOneSurface
  Buffer <- MCTwoBuffers
  Owner <- MCOneOwner
  BufferInfo <- MCInfo
  Role <- MCRole
  RoleCrash <- MCRoleCrash
  Title <- MCTitle
  XDisplay <- MCFishDisplay
  XHasShm = TRUE
  XHasRender = FALSE
  IsCompositing = FALSE
  HasMotifAtom = TRUE
  Position <- MCOrigin
  Scale <- NoArgument
  Transform <- NoArgument
  Rect <- NoArgument
  Region <- NoArgument
  Callback <- NoArgument
INVARIANTS
  FormatRemembered
  VisualKnown
  ConversionOwned
  TypedIffWindow
  WindowHasImage
PROPERTIES
  WindowKept
  OrphanStaysBare
CHECK_DEADLOCK FALSE
