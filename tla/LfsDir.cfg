CONSTANTS
  R0 = R0
  R1 = R1
  Spare = {b1, b2, b3, b4}
  NFiles = 2
  Slots = 2
  Half = 1
  Cycles = 3
  RevBits = 3
  MaxOps = 3
  MaxLosses = 1
  MaxBad = 1
SPECIFICATION Spec
INVARIANTS ListSound
PROPERTIES AtomicOps
CHECK_DEADLOCK FALSE
SYMMETRY SpareSymmetry
