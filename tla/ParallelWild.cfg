SPECIFICATION Spec
CONSTANTS
  Master = m
  Workers = {w1, w2, w3, w4}
  Threads = {m, w1, w2, w3, w4}
  QueueSize = 2
  None = None
  MaxRegions = 3
  MaxTeam = 3
  Tasks <- MCTasks
  Cores <- AnyCores
  Programs <- WildPrograms
  Body <- NestedBody
  CreateMayFail = TRUE
INVARIANTS
  OneThreadEnds
CHECK_DEADLOCK FALSE
