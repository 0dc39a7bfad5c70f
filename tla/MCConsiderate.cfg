SPECIFICATION ConsiderateSpec
CONSTANTS
  NULL = NULL
  c1 = c1
  c2 = c2
  s1 = s1
  s2 = s2
  b1 = b1
  b2 = b2
  sh1 = sh1
  sh2 = sh2
  t1 = t1
  Client <- MCTwoClients
  Surface <- MCTwoSurfaces
  Buffer <- MCTwoBuffers
  Owner <- MCTwoOwners
  BufferInfo <- MCTallInfo
  Role <- MCRole
  RoleCrash <- MCRoleCrash
  Title <- NoArgument
  XDisplay <- MCStrictDisplay
  XHasShm = TRUE
  XHasRender = FALSE
  IsCompositing = FALSE
  HasMotifAtom = TRUE
  Position <- MCPositions
  Scale <- NoArgument
  Transform <- NoArgument
  Rect <- NoArgument
  Region <- NoArgument
  Callback <- NoArgument

  
PROPERTIES
  ThreadUndisturbed
CHECK_DEADLOCK FALSE
