SPECIFICATION Spec
CONSTANTS
  PageSize = 2
  AddrMax = 7
  Kernels <- MCKernels
  ExpectedMachine = "expected"
  MaxOptionsSize = 8
  NoCmdline = NoCmdline
  MaxSections = 3
  Ukis <- MCUkis
  NoUki = NoUki
  NoKernel = NoKernel
  KeyOption <- MCKeyOption
  Inherited <- MCInherited
  MaxAttempts = 2
INVARIANTS
  TypeOK
  PcrReplays
  MeasuredBeforeUse
  OnlySupportedKernelsRun
  KernelGetsItsOwnUki
  KernelReadsItsCmdline
PROPERTIES
  EveryStartEnds
  MainAdvances
CHECK_DEADLOCK FALSE
