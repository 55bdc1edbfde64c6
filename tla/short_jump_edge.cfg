SPECIFICATION Spec
CONSTANTS
  Builds = {FALSE}
  NearMax = 1000
  from <- FunctionAt
  fromsize = 100
  Buffers = {1870}
  BufferSizes = {64}
  MinSizes = {5}
  Targets <- ModuleTargets
  PlainSizes <- Lengths
INVARIANT TailReachesRest
CHECK_DEADLOCK FALSE
