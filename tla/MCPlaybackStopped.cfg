CONSTANTS
  Size = 3
  NotifySets <- MCNotifySets
SPECIFICATION Spec
INVARIANT StoppedHitAll
