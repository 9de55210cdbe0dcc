CONSTANTS
  Slots = {s1, s2}
  Events = {e1, e2}
  NULL = NULL
  Kinds <- MixedKinds
  Clients = {c1}
  ClientOps <- SafeClientOps
  CbOps <- SafeCbOps
  Exclusive = TRUE
  Pooled = FALSE
SPECIFICATION FairSpec
INVARIANTS RefExact NoUseAfterFree SlotsExact NoLeak ActiveExact
PROPERTY FreeCompletes
