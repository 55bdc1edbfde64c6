SPECIFICATION Spec
CONSTANTS
  Builds = {TRUE}
  NearMax = 1000
  from <- FunctionAt
  fromsize = 100
  Buffers <- FarBuffers
  BufferSizes = {64}
  MinSizes = {14}
  Targets <- ModuleTargets
  PlainSizes <- Lengths
INVARIANT FarProxyFits
CHECK_DEADLOCK FALSE
