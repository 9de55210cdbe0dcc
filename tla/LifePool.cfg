CONSTANTS
  Slots = {s1, s2}
  Events = {e1, e2}
  NULL = NULL
  Kinds <- PoolKinds
  Clients = {c1}
  ClientOps <- PoolClientOps
  CbOps <- PoolCbOps
  Exclusive = FALSE
  Pooled = TRUE
SPECIFICATION Spec
SYMMETRY Symmetry
INVARIANTS RefExact NoUseAfterFree
