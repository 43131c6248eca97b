CONSTANTS
  Size = 3
  NotifySets <- MCNotifySets
SPECIFICATION Spec
PROPERTY StopHoldsPosition
