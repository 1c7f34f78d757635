CONSTANTS
  Lengths <- MCLengths
  Chunks = {1, 2, 3}
  Intervals = {4}
  Pixels = {FALSE}
  Ratio <- MCRatio
  Scaled = {3}
  NONE = NONE
SPECIFICATION Spec
INVARIANT GradientIndependentOfInterval
CHECK_DEADLOCK FALSE
