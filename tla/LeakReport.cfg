SPECIFICATION Spec
CONSTANTS
  NULL = NULL
  Hd = Hd
  Records = {r1, r2}
  Blocks = {1, 2}
INVARIANT
  ReportNamesAll
CHECK_DEADLOCK FALSE
