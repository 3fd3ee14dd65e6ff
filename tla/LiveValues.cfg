SPECIFICATION MCSpec
CONSTANTS
  a = a
  x = x
  p = p
  c = c
  NoValue = NoValue
  Filtered = {c}
  Trivial = TRUE
  Shapes = {"diamond", "selfloop", "loop", "nest", "siblings", "triple"}
  Graph <- MCGraph
INVARIANTS
  LiveSetsPrecise
  LiveSetsComplete
  RecordedAreDefined
CHECK_DEADLOCK FALSE
