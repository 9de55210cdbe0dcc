SPECIFICATION Spec
CONSTANTS
  Timers = {t1, t2}
  Persist = {t1}
  Delays = {0, 2}
  Period = 1
  MaxTimeout = 2
  MaxBatch = 2
  MaxLate = 2
  Clients = {c1, c2}
  NoOne = NoOne
  Pooled = FALSE
  Signals = TRUE
  EarlyDeinit = FALSE
  LateAdds = FALSE
SYMMETRY ClientSymmetry
INVARIANTS OversleepNeedsFlag NoDispatchAfterFree
