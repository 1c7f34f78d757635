CONSTANTS
  Interval = 2
  MaxCheckpoints = 2
  LastStep = 5
  Archive = TRUE
  KillAt <- OutsideCommit
  MaxFaults = 3
  TORN = TORN
  NONE = NONE
SPECIFICATION FairSpec
INVARIANTS
  AlwaysResumable
  ResumedWhole
  PreemptionLosesNothing
  NewestRetained
  TmpOwned
PROPERTIES
  ImplementsDurableProgress
  
