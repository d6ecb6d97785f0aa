SPECIFICATION Spec
CONSTANTS
  s1 = s1
  s2 = s2
  s3 = s3
  c1 = c1
  c2 = c2
  k1 = k1
  k2 = k2
  None = None
  Sources = {s1, s2, s3}
  Contents = {c1, c2}
  Calls = {k1, k2}
  MaxRequests = 4
  MaxFaults = 1
SYMMETRY Interchangeable
INVARIANTS TypeOK SameBytesSameSource IngestedIsIndexed RemovedLeavesNothing
