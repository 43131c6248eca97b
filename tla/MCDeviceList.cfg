CONSTANTS
  Objects = {o1, o2, o3}
  Guids = {g1, g2}
  Devices = {d1, d2, d3}
  None = None
  NULL = NULL
  Primary = Primary
  a = a
  b = b
  c = c
SPECIFICATION EntrySpec
INVARIANTS EntryTypeOK ListExact RefsExact HeldIsAlive HandlesExact
PROPERTY UnusedIsFreed
CHECK_DEADLOCK FALSE
