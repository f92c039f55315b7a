SPECIFICATION Spec
CONSTANTS
  Paths <- MCPaths
  Guids = {g1, g2}
  Absent = Absent
  Other = Other
  MayFail = TRUE
INVARIANTS
  TypeOK
  ExistingValuesSurvive
CHECK_DEADLOCK FALSE
