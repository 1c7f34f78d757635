CONSTANTS
  IndexTopK = 2
  CandidateChunk = 2
  QueryBlock = 2
  NegInf <- MCNegInf
  Scores <- MCScores
  Inputs <- MCInputs
  Cadences <- MCCadences
  Affinity <- MCAffinity
  TopK = 2
  PoolSize = 3
  ChunkSizes = {1, 2}
  Calls <- MCCalls
  Coarse <- MCCoarse
  Fine <- MCFine
  IndexPools <- MCIndexPools
  IndexChunk = 2
  NONE = NONE
SPECIFICATION RetrievalSpec
INVARIANTS
  RunningTopK
  AttendsExact
  SelectionExact
  ReadsThisMemory
  RetrievalExact
CHECK_DEADLOCK FALSE
