SPECIFICATION FairSpec
CONSTANTS
  Master = m
  Workers = {w1, w2, w3}
  Threads = {m, w1, w2, w3}
  QueueSize = 3
  None = None
  MaxRegions = 2
  MaxTeam = 4
  Tasks <- MCTasks
  Cores <- TwoCores
  Programs <- GrowingPrograms
  Body <- MasterBody
  CreateMayFail = FALSE
INVARIANTS
  IInv
  RegionsJoined
  BarrierSeparates
  WorkersSeeTheirRegion
  HandlesKept
PROPERTIES
  ProgramExits
