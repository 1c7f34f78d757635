CONSTANTS
  Exports = {1, 2}
  Pids = {7, 8}
  States <- MCStates
  GroupSize = 3
  SensitiveNames <- MCSensitive
  SafeName <- MCSafeName
  ModelNames <- MCModelNames
  LinearModules <- MCLinear
  MaxKills = 1
  NONE = NONE
  MaxHours = 2
  StageHours = {1, 2}
  Marks = {m1}
  RowBound = 2
  MeterBound = 2
  DistillKills = 2
  Nothing = Nothing
  TornFile = TornFile
  NumOptions = 3
  Screens <- MCScreens
  OneKV = {1, 2}
  Weight <- MCWeight
  BlockTokens = 2
  SequenceLength = 3
  CorpusSeed = 7
  TrainTokens = 10
  ValidationTokens = 5
  Interval = 2
  Losses = {1, 2}
  Seed = 7
  ScreenKills = 2
  Missing = Missing
  Torn = Torn
  Partial = Partial
  Whole = Whole
SPECIFICATION ArtifactsSpec
INVARIANTS
  SameCorruption
CHECK_DEADLOCK FALSE
