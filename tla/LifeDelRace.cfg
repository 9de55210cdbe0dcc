CONSTANTS
  Slots = {s1}
  Events = {e1}
  NULL = NULL
  Kinds <- OneShot
  Clients = {c1}
  ClientOps <- ArmAndDel
  CbOps <- NoOps
  Exclusive = TRUE
  Pooled = FALSE
SPECIFICATION Spec
SYMMETRY Symmetry
INVARIANT RefcountAssertion
