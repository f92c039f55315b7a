SPECIFICATION ProtectSpec
CONSTANTS
  PageSize = 2
  AddrMax = 11
  Kernels <- MCKernels
  DefaultNX = TRUE
INVARIANTS
  ProtectTypeOK
  WriteXorExecute
  ReportedSectionsAreProtected
  FailedSectionsAreRolledBack
  ChangesStayInsideImage
  DataStaysWritable
CHECK_DEADLOCK FALSE
