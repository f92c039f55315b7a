SPECIFICATION Spec
CONSTANTS
  PageSize = 2
  AddrMax = 9
  Kernels <- MCKernels
  DefaultNX = TRUE
  Cmdlines <- MCCmdlines
  Inherited <- MCInherited
  MaxOptionsSize = 6
  NoCmdline = NoCmdline
INVARIANTS
  TypeOK
  NobodyHoldsLoadedImage
  LoadedImageIsWhole
  CompatibleEntryFaultsOnlyAfterWarning
  AttributesMatchTheLog
  GivesUpForAReason
PROPERTIES
  NoWriteToReadOnlyPage
  StartAdvances
  ImplementsHandover
CHECK_DEADLOCK FALSE
