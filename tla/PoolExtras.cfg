CONSTANTS
  Events = {e1, e2, e3}
  NoEvent = NoEvent
  NumWorkers = 1
  MaxMult = 3
  ExtraTasks = 1
  TriggerRounds = 1
  ExtraEnabled = TRUE
  SlowExtras = FALSE
  Spurious = TRUE
  CreateFails = TRUE
SPECIFICATION Spec
SYMMETRY EventSymmetry
INVARIANTS InPoolOnce CountersExact WorkerBound IdleIsIdle NoUseAfterFree
