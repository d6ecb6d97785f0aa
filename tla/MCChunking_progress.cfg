SPECIFICATION ChunkSpec
CONSTANTS
  ChunkSettings <- Overlaps
  Texts <- OneParagraph
CHECK_DEADLOCK FALSE
INVARIANTS
  ForwardProgress
