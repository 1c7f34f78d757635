CONSTANTS
  Sources <- MCSources
  Cycle <- MCCycle
  BlockTokens = 2
  Corpora <- MCExhausted
  Similar <- MCSimilar
  SequenceLength = 3
  TrainTokens = 9
  ValidationTokens = 4
  MaxFaults = 0
  NONE = NONE
SPECIFICATION FairSpec
PROPERTY BatchAnswered
CHECK_DEADLOCK FALSE
