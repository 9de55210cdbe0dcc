SPECIFICATION FairSpec
CONSTANTS
  Timers = {t1, t2}
  Persist = {t1}
  Delays = {0}
  Period = 1
  MaxTimeout = 1
  MaxBatch = 1
  MaxLate = 1
  Clients = {c1}
  NoOne = NoOne
  Pooled = TRUE
  Signals = FALSE
  EarlyDeinit = FALSE
  LateAdds = FALSE
PROPERTIES LoopEnds TimerServed DeinitEnds
