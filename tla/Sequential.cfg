SPECIFICATION Spec
CONSTANTS
  NULL = NULL
  LIST_POISON1 = LIST_POISON1
  LIST_POISON2 = LIST_POISON2
  Stale = Stale
  Outside = Outside
  Heads = {h1, h2}
  Entries = {e1, e2, e3}
  Items = {i1, i2, i3}
  Deq = Deq
  Arr = Arr
  Hd = Hd
  Records = {r1, r2, r3}
  HtNodes = {t1, t2, t3}
  SlNodes = {s1, s2, s3, s4}
  UvNodes = {n1, n2, n3, n4, n5, n6}
INVARIANTS
  ListsAreSequences DequeSound TableSound ArraySound LeakRecordsExact UvHeapSound
  LinkDumpSound ArpListingSound DhcpCaptureSound
CHECK_DEADLOCK FALSE
