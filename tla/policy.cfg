SPECIFICATION Spec
CONSTANTS
  Bases <- MCBases
  Keys <- MCKeys
  MaxOptionsSize = 4096
  NoCmdline = NoCmdline
  Inherited <- MCInherited
INVARIANTS
  TypeOK
  BaseReachesKernel
  KeyReachesKernel
  UnreadableKeyStopsBoot
CHECK_DEADLOCK FALSE
