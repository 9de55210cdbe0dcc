CONSTANTS
  Events = {e1, e2}
  NoEvent = NoEvent
  NumWorkers = 1
  MaxMult = 2
  ExtraTasks = 1
  TriggerRounds = 3
  ExtraEnabled = TRUE
  SlowExtras = FALSE
  Spurious = FALSE
  CreateFails = TRUE
SPECIFICATION FairSpec
PROPERTIES IdleReached DestroyEnds TaskServed
