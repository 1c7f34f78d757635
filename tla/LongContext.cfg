CONSTANTS
  Lengths <- MCLengths
  Chunks = {1, 2, 3}
  Intervals = {1, 2, 3, 4}
  Pixels = {TRUE, FALSE}
  Ratio <- MCRatio
  Scaled = {3}
  NONE = NONE
SPECIFICATION FairSpec
INVARIANTS
  GradientsExact
  GraphBounded
  ReplayFaithful
PROPERTIES
  ImplementsSequenceLoss
  Terminates
CHECK_DEADLOCK FALSE
