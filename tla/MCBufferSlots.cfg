CONSTANTS
  Threads = {a, b}
  NumSlots = 2
  MaxRefs = 1
  DWORDs = 80
  WORDs = 48
  DSBSIZE_MIN = 4
  DSBSIZE_MAX = 60
  DSBFREQUENCY_MIN = 2
  DSBFREQUENCY_MAX = 3
  PrimaryBufSize = 41
SPECIFICATION Spec
SYMMETRY ThreadSymmetry
INVARIANTS TypeOK BuffersAreExact
CHECK_DEADLOCK FALSE
