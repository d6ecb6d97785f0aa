SPECIFICATION Spec
CONSTANTS
  j1 = j1
  w1 = w1
  w2 = w2
  None = None
  Jobs <- OneJob
  Workers <- TwoWorkers
  Callbacks <- OneJob
  MaxAttempts = 2
  SweepLimit = 1
  Overrun = TRUE
  MaxCrashes = 1
  MaxLosses = 1
  MaxDuplicates = 1
  ClaimBound = 3
SYMMETRY WorkerSymmetry
CHECK_DEADLOCK FALSE
INVARIANTS
  TypeOK
  SettledOncePerClaim
  AnnouncedWasSettled
  PipelineRunsBounded
  TrailBacksOutcome
PROPERTIES
  SettledByLastClaimant
  LedgerSpec
