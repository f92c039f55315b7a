SPECIFICATION Spec
CONSTANTS
  PageSize = 2
  AddrMax = 7
  Kernels <- MCKernels
  ExpectedMachine = "expected"
  MaxOptionsSize = 8
  NoCmdline = NoCmdline
  MaxSections = 3
  Ukis <- MCPair
  NoUki = NoUki
  NoKernel = NoKernel
  KeyOption <- MCKeyOption
  Inherited <- MCInherited
  MaxAttempts = 2
INVARIANT KernelFindsItsInitrd
CHECK_DEADLOCK FALSE
