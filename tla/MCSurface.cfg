SPECIFICATION SurfaceSpec
CONSTANTS
  NULL = NULL
  c1 = c1
  s1 = s1
  b1 = b1
  region1 = region1
  callback1 = callback1
  Client <- MCClient
  Surface <- MCSurfaces
  Buffer <- MCBuffer
  Owner <- MCOwner
  BufferInfo <- MCBufferInfo
  Role <- None
  RoleCrash <- None
  XDisplay <- MCDisplay
  XHasShm = TRUE
  XHasRender = FALSE
  Position <- MCPosition
  Scale <- MCScale
  Transform <- MCTransform
  Rect <- MCRect
  Region <- MCRegion
  Callback <- MCCallback
  MaxChanged = 4
CONSTRAINT FewChanged
INVARIANTS
  SurfaceTypeOK
PROPERTIES
  DoubleBuffered
CHECK_DEADLOCK FALSE
