SPECIFICATION FSpec
CONSTANTS
  Builds = {TRUE, FALSE}
  NearMax = 1000
  from <- FunctionAt
  fromsize = 100
  Buffers <- AllBuffers
  BufferSizes = {46, 90}
  MinSizes = {2, 5, 6, 14}
  Targets <- ModuleTargets
  PlainSizes <- HeadLengths
  Behind <- Rests
  Skips = {0, 1, 2, 15, 16}
INVARIANT FTypeOK
INVARIANT FilterFits
INVARIANT FilteredCallResumes
INVARIANT RegistersKept
CHECK_DEADLOCK FALSE
