SPECIFICATION Spec
CONSTANTS
  j1 = j1
  j2 = j2
  w1 = w1
  w2 = w2
  i1 = i1
  c1 = c1
  k1 = k1
  k2 = k2
  None = None
CHECK_DEADLOCK FALSE
PROPERTIES EventuallySettled StoredVersionBecomesCurrent
