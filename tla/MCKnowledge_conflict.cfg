SPECIFICATION Spec
CONSTANTS
  i1 = i1
  i2 = i2
  c1 = c1
  k1 = k1
  k2 = k2
  None = None
  Items = {i1}
  Candidates = {c1}
  Calls = {k1, k2}
  MaxRequests = 5
  MaxFaults = 1
INVARIANTS ConflictIsTransient
