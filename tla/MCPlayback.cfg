CONSTANTS
  Size = 3
  NotifySets <- MCNotifySets
SPECIFICATION Spec
INVARIANT TypeOK
PROPERTIES NothingSpurious NothingMissed PositionKept PositionWasReal
