SPECIFICATION FairSpec
CONSTANTS
  Threads = {0, 1, 2}
  Width = 7
  Loops <- MCLoops
INVARIANTS
  IterationsPartitioned
  LastFlag
  ReductionComplete
  PrivateKept
PROPERTIES
  TeamFinishes
