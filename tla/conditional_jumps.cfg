SPECIFICATION Spec
CONSTANTS
  Builds = {FALSE}
  NearMax = 1000
  from <- FunctionAt
  fromsize = 100
  Buffers <- FarBuffers
  BufferSizes = {64}
  MinSizes = {5}
  Targets <- ModuleTargets
  PlainSizes <- Lengths
INVARIANT ConditionalKept
CHECK_DEADLOCK FALSE
