CONSTANTS
  BlockCount = 6
  Window = 4
  PerBlock = 2
  InlineMax = 1
  Names = {n1, n2}
  NoName = NoName
  MaxSize = 5
  Announced = {2, 5}
  Starts = {3}
  MaxOps = 4
  MaxLosses = 1
  MaxBad = 1
  BadFirst = FALSE
SPECIFICATION AllocSpec
INVARIANTS AllocTypeOK FilesIntact NoSpaceIsReal
CHECK_DEADLOCK FALSE
PROPERTIES CallsReturn
