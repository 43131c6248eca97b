CONSTANTS
  o1 = o1
  o2 = o2
  b1 = b1
  b2 = b2
  b3 = b3
  b4 = b4
  Objects <- MCObjects
  Buffers <- MCBuffers
  Parent <- MCParent
  MaxHw = 2
  MaxSw = 1
  MinSources = 128
  MaxHwSources = 128
  GroupSize = 64
SPECIFICATION Spec
SYMMETRY MCSymmetry
INVARIANTS TypeOK CountersExact CountersBounded VoicesAreBacked
PROPERTIES PlayingKeepsVoice ImplementsVoicePool
