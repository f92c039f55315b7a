SPECIFICATION Spec
CONSTANTS
  PageSize = 2
  AddrMax = 9
  Kernels <- FarEntry
  DefaultNX = TRUE
  Cmdlines <- NoLine
  Inherited <- MCInherited
  MaxOptionsSize = 6
  NoCmdline = NoCmdline
INVARIANT EntryWithinImage
CHECK_DEADLOCK FALSE
