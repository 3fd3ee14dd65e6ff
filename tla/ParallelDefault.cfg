SPECIFICATION FairSpec
CONSTANTS
  Master = m
  Workers = {w1, w2}
  Threads = {m, w1, w2}
  QueueSize = 2
  None = None
  MaxRegions = 1
  MaxTeam = 3
  Tasks <- MCTasks
  Cores <- ThreeCores
  Programs <- OneRegion
  Body <- EmptyBody
  CreateMayFail = FALSE
INVARIANT RegionsJoined
CHECK_DEADLOCK FALSE
