CONSTANTS
  Interval = 2
  MaxCheckpoints = 1
  LastStep = 5
  Archive = FALSE
  KillAt <- Everywhere
  MaxFaults = 2
  TORN = TORN
  NONE = NONE
SPECIFICATION Spec
INVARIANT AlwaysResumable
