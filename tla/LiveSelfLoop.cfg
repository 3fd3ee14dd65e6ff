SPECIFICATION MCSpec
CONSTANTS
  a = a
  x = x
  p = p
  c = c
  NoValue = NoValue
  Filtered = {c}
  Trivial = FALSE
  Shapes = {"selfloop"}
  Graph <- MCGraph
INVARIANTS
  LiveAcrossCallsRecorded
CHECK_DEADLOCK FALSE
