SPECIFICATION Spec
CONSTANTS
  Builds = {TRUE, FALSE}
  NearMax = 1000
  from <- FunctionAt
  fromsize = 100
  Buffers <- AllBuffers
  BufferSizes = {8, 46, 64, 90}
  MinSizes = {2, 5, 6, 14}
  Targets <- ModuleTargets
  PlainSizes <- Lengths
INVARIANT TypeOK
INVARIANT SavedCodeFits
INVARIANT ProxyFits
INVARIANT HeadMoved
INVARIANT LeavesAsHeadDoes
INVARIANT FarConditionalKept
CHECK_DEADLOCK FALSE
