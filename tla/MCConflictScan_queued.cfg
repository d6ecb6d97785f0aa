SPECIFICATION Spec
CONSTANTS
  i1 = i1
  i2 = i2
  i3 = i3
  s1 = s1
  s2 = s2
  Items <- ThreeItems
  Scans <- TwoScans
  MaxUpdates = 1
CHECK_DEADLOCK FALSE
INVARIANTS
  ConfirmedIsQueued
