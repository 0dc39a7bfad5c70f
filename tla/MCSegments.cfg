SPECIFICATION Spec
CONSTANTS
  Surface = {s1, s2}
  Limit = 4
  MaxImport = 6
  MaxRun = 3
INVARIANTS
  TypeOK
  ImageUsable
  OneLeftPerRun
  LeaksReplaced
CHECK_DEADLOCK FALSE
