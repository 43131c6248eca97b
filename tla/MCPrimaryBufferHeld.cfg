CONSTANTS
  Threads = {a, b}
  Creators = {a, b}
  Buggy = {}
  NumSlots = 0
  MaxRefs = 1
  MaxListenerRefs = 1
SPECIFICATION Spec
INVARIANT HeldIsInitialized
