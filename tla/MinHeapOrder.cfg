CONSTANTS
  Nodes = {n1, n2, n3, n4, n5, n6, n7}
  NULL = NULL
  Keys = {0, 1, 2}
  Capacity = 6
  IdxMod = 7
  RekeyFull = FALSE
SPECIFICATION Spec
SYMMETRY NodeSymmetry
INVARIANTS TypeOK HeapOrder IndexMap
PROPERTIES ImplementsPriorityQueue
