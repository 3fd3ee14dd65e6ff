SPECIFICATION Spec
CONSTANTS
  Site <- MCSite
  SiteAddr <- MCSiteAddr
  FnAddr <- MCFnAddr
  ConstBits = 8
  Functions = {"walk", "count", "plain", "vector"}
  Start = "start"
  Shim = "shim"
  MaxCalls = 3
  MaxPointers = 2
  SrcBase = 200
  DestBase = 160
  Half = 40
INVARIANTS
  ReturnsThroughItsCalls
  LiveValuesCarried
  PointersReified
PROPERTIES
  SourceUntouched
