SPECIFICATION Spec
CONSTANTS
  Timers = {t1}
  Persist = {}
  Delays = {0}
  Period = 1
  MaxTimeout = 2
  MaxBatch = 1
  MaxLate = 2
  Clients = {c1}
  NoOne = NoOne
  Pooled = FALSE
  Signals = FALSE
  EarlyDeinit = FALSE
  LateAdds = FALSE
INVARIANT NoOversleep
