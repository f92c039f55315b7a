SPECIFICATION MapSpec
CONSTANTS
  PageSize = 2
  AddrMax = 7
  Kernels <- MCKernels
INVARIANTS
  MapTypeOK
  WritesStayInsideImage
  ReadsStayInsideFile
  LastSectionWins
CHECK_DEADLOCK FALSE
