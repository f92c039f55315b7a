SPECIFICATION MapSpec
CONSTANTS
  PageSize = 2
  AddrMax = 7
  Kernels <- FixtureKernels
INVARIANT WellFormedKernelsAreMapped
CHECK_DEADLOCK FALSE
