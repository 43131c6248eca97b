CONSTANTS
  Threads = {a, b}
  Creators = {a, b}
  Buggy = {a, b}
  NumSlots = 2
  MaxRefs = 2
  MaxListenerRefs = 1
SPECIFICATION Spec
SYMMETRY ThreadSymmetry
INVARIANTS TypeOK CountsAreExact EmuFollowsLevel OlderBuffersAreLost StoppedIsReset
