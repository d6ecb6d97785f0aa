SPECIFICATION SpecBoth
CONSTANTS
  d1 = d1
  d2 = d2
  Deliveries = {d1, d2}
  Concurrency = 2
  MaxOverruns = 1
  MaxRefusals = 1
  MaxReopens = 1
CHECK_DEADLOCK FALSE
INVARIANTS TypeOK NothingSkipped ReopenCompletes NothingLeftBehind
PROPERTIES NothingHangs
