SPECIFICATION Spec
CONSTANTS
  Paths <- MCPaths
  Guids = {g1, g2}
  Absent = Absent
  Other = Other
  MayFail = FALSE
INVARIANT FirmwareIsExported
CHECK_DEADLOCK FALSE
