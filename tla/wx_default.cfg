SPECIFICATION ProtectSpec
CONSTANTS
  PageSize = 2
  AddrMax = 11
  Kernels <- TwoPages
  DefaultNX = FALSE
INVARIANT ProtectedKernelIsWX
CHECK_DEADLOCK FALSE
