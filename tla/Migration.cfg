SPECIFICATION FairSpec
CONSTANTS
  Threads = {t}
  Arch = {x86, arm}
  MAX_STACK_SIZE = 8
  B_STACK_OFFSET = 4
  Argv = 1
  Top = 100
  Sizes = {8, 12}
  Unset = Unset
  Callbacks = {k1, k2}
  NULL = NULL
  Dead = Dead
  MaxDepth = 3
  MaxNest = 2
INVARIANTS
  IInv
  ShimDataValid
  CallbackBeforeResuming
  RewritesFreeMemory
  BoundsMatchFrames
PROPERTIES
  RequestsHonoured
CHECK_DEADLOCK FALSE
