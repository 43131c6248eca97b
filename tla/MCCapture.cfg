CONSTANTS
  Threads = {a, b}
  Stoppers = {a}
  Align = 2
  Sizes = {2, 3, 8}
  Ahead = 1
  Slack = 1
  Offsets = {0, 5, 99}
  StopOffset = 99
  MaxSamples = 9
  MaxRefs = 1
  DWORDs = 64
  WORDs = 16
  DSBSIZE_MIN = 4
  DSBSIZE_MAX = 60
SPECIFICATION Spec
INVARIANTS TypeOK RingHoldsLatest MarkersAreExact ReadableIsIntact StoppedIsQuiet
PROPERTY StopReturns
