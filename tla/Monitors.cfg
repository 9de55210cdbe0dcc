SPECIFICATION MCSpec
CONSTANTS
  NULL = NULL
  Clients = {c1, c2}
  Threads = {r1, r2}
  Slots = {s1, s2, s3}
  Filters <- MCFilters
  Messages <- MCMessages
  MaxFilters = 2
  Traced = {w1, w2}
  TRACE_N = 2
  MAX_THR = 2
  IdxWrap = 4
  MaxMarks = 4
  Maps <- MCMaps
  PCs = {1, 3, 4, 6}
  Loggers = {w1, w2}
  Levels = {3, 7}
  Default = 6
  MaxCalls = 2
INVARIANTS
  NlmonListsOwned NlmonFiltersExact TracerDumpSound LocalTimeSound LogSound
PROPERTIES
  CallsEnd
CHECK_DEADLOCK FALSE
