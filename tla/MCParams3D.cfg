CONSTANTS
  Buffers = {b1, b2}
  Spatial = {"Position"}
  Plain = {"MinDistance"}
  Listening = {"DopplerFactor"}
  Values = {zero, one}
  Default = one
  Zero = zero
  Parked = Parked
  Listener = Listener
  Nothing = Nothing
  MaxBusy = 3
  TopBit = 131072
SPECIFICATION Spec
SYMMETRY Symmetry
VIEW View
INVARIANTS TypeOK AlFollowsImmediate
PROPERTY ImplementsSettings
CHECK_DEADLOCK FALSE
