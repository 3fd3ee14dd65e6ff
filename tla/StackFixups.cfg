SPECIFICATION FairSpec
CONSTANTS
  Site <- MCSite
  SiteAddr <- MCSiteAddr
  FnAddr <- MCFnAddr
  ConstBits = 8
  Functions = {"walk", "count", "plain"}
  Start = "start"
  Shim = "shim"
  MaxCalls = 2
  MaxPointers = 2
  SrcBase = 200
  DestBase = 160
  Half = 40
PROPERTY
  RewriteEnds
