CONSTANTS
  Sources <- MCSources
  Cycle <- MCCycle
  BlockTokens = 2
  Corpora <- MCCorpora
  Similar <- MCSimilar
  SequenceLength = 3
  TrainTokens = 11
  ValidationTokens = 7
  MaxFaults = 2
  NONE = NONE
SPECIFICATION FairSpec
INVARIANTS
  CompositionExact
  TokensConserved
  NoTextTwice
PROPERTIES
  ReplayIdentical
  BatchAnswered
CHECK_DEADLOCK FALSE
