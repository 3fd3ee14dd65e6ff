SPECIFICATION FairSpec
CONSTANTS
  Workers = {w1, w2}
  QueueSize = 2
  Tasks = {a, b, c}
  None = None
INVARIANTS
  IInv
  NoSleeperMissesWork
  FreedMeansQuiet
PROPERTIES
  ImplementsQueue
  AcceptedTasksRun
  DestroyReturns
