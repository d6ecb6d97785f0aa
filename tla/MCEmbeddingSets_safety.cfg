SPECIFICATION Spec
CONSTANTS
  e1 = e1
  e2 = e2
  e3 = e3
  m1 = m1
  m2 = m2
  i1 = i1
  o1 = o1
  None = None
  Sets = {e1, e2, e3}
  Models = {m1, m2}
  DefaultModel = m1
  Chunks = {1, 2}
  Ingests = {i1}
  Operators = {o1}
  BatchSize = 1
  MaxIds = 4
  MaxCommands = 3
  MaxFaults = 1
SYMMETRY Interchangeable
INVARIANTS TypeOK ReadyIsComplete ActiveIsServed RollbackOffersPrevious ServedIsKept
