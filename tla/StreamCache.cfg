CONSTANTS
  NumLayers = 3
  Ratio <- MCRatio
  Window = 3
  Start = 0
  Offload = TRUE
  ChunkSizes = {1, 2, 3, 5}
  MaxTokens = 9
  NONE = NONE
SPECIFICATION Spec
INVARIANTS
  LocalWindowExact
  GroupsConserved
  
  LayersInStep
PROPERTIES
  HistoryAppendOnly
  CachedEqualsFullHistory
