SPECIFICATION SpecOfAll
CONSTANTS
  MaxDepth = 2
  MaxIters = 2
  NestedIters = 1
  SubBudget = 2
  MaxBlocks = 2
  CpuFrames = 3
  h1 = h1
  k1 = k1
  k2 = k2
  None = None
  MaxRequests = 3
  Hosts = {h1}
  Keys = {k1, k2}
  KeysOf <- Repeats
  Skew <- NoSkew
  Limit = 2
  Window = 2
  TimeToLive = 2
  Cap = 1
  MaxTime = 2
  MaxFaults = 1
  Records = {w1}
  Admins = {a1, a2}
  Page = 1
  MaxSources = 2
  MaxEvents = 4
  Chunks = {c1, c2, c3}
  MaxQueries = 1
  PerQueryK = 2
  TopK = 2
  OverFetch = 1
  RrfK = 60
  Unit = 3782
  RerankN = 1
  MaxChanges = 1
  MaxPosts = 4
  ChunkSettings <- Overlaps
  Texts <- ShortTexts
CHECK_DEADLOCK FALSE
INVARIANTS
  TypesOfAll
  TranscriptWellFormed
  NoChildLeft
  RetriesRunOnce
  BudgetHolds
  PurgeErases
  ReportsOwnWork
  HitsAreLive
  BetterStaysAhead
  AnswersAreKept
  TextIsCovered
PROPERTIES
  AnswerEnds
