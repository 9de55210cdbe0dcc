------------------------------- MODULE UvHeap -------------------------------
(***************************************************************************)
(* minheap/heap-inl.h: libuv's binary heap of linked nodes, the second     *)
(* heap beside minheap.c.  heap holds the pointers of all nodes and min.   *)
(* A call is one step, then every swap of its loops is one; at is the node *)
(* that sinks or rises (newnode in heap_insert, child in heap_remove).     *)
(***************************************************************************)
EXTENDS Naturals, FiniteSets

CONSTANTS Nodes, Keys, NULL
VARIABLES heap, nelts, key, phase, at

vars == <<heap, nelts, key, phase, at>>

less_than(a, b) == key[a] < key[b]
Nowhere == [n \in Nodes |-> NULL]

\* heap_init
Init ==
  /\ heap = [left |-> Nowhere, right |-> Nowhere, parent |-> Nowhere, min |-> NULL]
  /\ nelts = 0 /\ key = Nowhere /\ phase = "idle" /\ at = NULL

\* A slip: the sibling keeps its old parent.
SwapForgetsSibling(h, p, c) ==
  LET a == [h EXCEPT !.left[p] = h.left[c], !.right[p] = h.right[c], !.parent[p] = c,
                     !.left[c] = h.left[p], !.right[c] = h.right[p], !.parent[c] = h.parent[p]]
      b == IF a.left[c] = c THEN [a EXCEPT !.left[c] = p] ELSE [a EXCEPT !.right[c] = p]
      e == [b EXCEPT !.parent = [n \in Nodes |-> IF n \in {b.left[p], b.right[p]} THEN p ELSE @[n]]]
      g == e.parent[c]
  IN  IF g = NULL THEN [e EXCEPT !.min = c]
      ELSE IF e.left[g] = p THEN [e EXCEPT !.left[g] = c] ELSE [e EXCEPT !.right[g] = c]

\* The structures of parent and child change places, then their neighbours follow.
heap_node_swap(h, p, c) ==
  LET a == [h EXCEPT !.left[p] = h.left[c], !.right[p] = h.right[c], !.parent[p] = c,
                     !.left[c] = h.left[p], !.right[c] = h.right[p], !.parent[c] = h.parent[p]]
      onLeft == a.left[c] = c
      b == IF onLeft THEN [a EXCEPT !.left[c] = p] ELSE [a EXCEPT !.right[c] = p]
      sibling == IF onLeft THEN b.right[c] ELSE b.left[c]
      d == IF sibling = NULL THEN b ELSE [b EXCEPT !.parent[sibling] = c]
      e == [d EXCEPT !.parent = [n \in Nodes |-> IF n \in {d.left[p], d.right[p]} THEN p ELSE @[n]]]
      g == e.parent[c]
  IN  IF g = NULL THEN [e EXCEPT !.min = c]
      ELSE IF e.left[g] = p THEN [e EXCEPT !.left[g] = c] ELSE [e EXCEPT !.right[g] = c]

\* The node that the path of n leads to from min, a bit of n per level: the n-th
\* node in level order.
AtPath ==
  LET node[n \in 1..(Cardinality(Nodes) + 1)] ==
        IF n = 1 THEN heap.min
        ELSE IF node[n \div 2] = NULL THEN NULL
        ELSE IF n % 2 = 1 THEN heap.right[node[n \div 2]] ELSE heap.left[node[n \div 2]]
  IN  node

\* *p = x, where p is the pointer that the path of n ends at.
SetAt(h, n, x) ==
  IF n = 1 THEN [h EXCEPT !.min = x]
  ELSE IF n % 2 = 1 THEN [h EXCEPT !.right[AtPath[n \div 2]] = x] ELSE [h EXCEPT !.left[AtPath[n \div 2]] = x]

InHeap == {n \in Nodes : \E i \in 1..nelts : AtPath[i] = n}

heap_insert(node, k) ==
  LET n == nelts + 1
      parent == IF n = 1 THEN NULL ELSE AtPath[n \div 2]
      fresh == [heap EXCEPT !.left[node] = NULL, !.right[node] = NULL, !.parent[node] = parent]
  IN  /\ phase = "idle"
      /\ key' = [key EXCEPT ![node] = k]
      /\ heap' = SetAt(fresh, n, node)
      /\ nelts' = n /\ phase' = "up" /\ at' = node

\* The links of a node outside the heap are not read again: heap_insert writes them.
Dead(h, n) == [h EXCEPT !.left[n] = NULL, !.right[n] = NULL, !.parent[n] = NULL]

\* The last node takes the place of the removed one.
heap_remove(node) ==
  LET child == AtPath[nelts]
      cut == SetAt(heap, nelts, NULL)
      l == cut.left[node]
      r == cut.right[node]
      h == [cut EXCEPT !.left[child] = l, !.right[child] = r,
                       !.parent = [n \in Nodes |-> IF n = child THEN cut.parent[node]
                                                   ELSE IF n \in {l, r} THEN child ELSE @[n]]]
      g == cut.parent[node]
      moved == IF g = NULL THEN [h EXCEPT !.min = child]
               ELSE IF h.left[g] = node THEN [h EXCEPT !.left[g] = child]
               ELSE [h EXCEPT !.right[g] = child]
  IN  /\ phase = "idle" /\ nelts > 0
      /\ nelts' = nelts - 1 /\ key' = [key EXCEPT ![node] = NULL]
      /\ IF child = node
         THEN /\ heap' = Dead(IF child = cut.min THEN [cut EXCEPT !.min = NULL] ELSE cut, node)
              /\ UNCHANGED <<phase, at>>
         ELSE heap' = Dead(moved, node) /\ phase' = "down" /\ at' = child

\* A slip: the right child is not considered.
SmallestLeft(c) ==
  IF heap.left[c] # NULL /\ less_than(heap.left[c], c) THEN heap.left[c] ELSE c

smallest(c) ==
  LET s == IF heap.left[c] # NULL /\ less_than(heap.left[c], c) THEN heap.left[c] ELSE c
  IN  IF heap.right[c] # NULL /\ less_than(heap.right[c], s) THEN heap.right[c] ELSE s

WalkDown ==
  /\ phase = "down"
  /\ IF smallest(at) = at THEN phase' = "up" /\ UNCHANGED heap
     ELSE heap' = heap_node_swap(heap, at, smallest(at)) /\ UNCHANGED phase
  /\ UNCHANGED <<nelts, key, at>>

WalkUp ==
  /\ phase = "up"
  /\ IF heap.parent[at] # NULL /\ less_than(at, heap.parent[at])
     THEN heap' = heap_node_swap(heap, heap.parent[at], at) /\ UNCHANGED <<phase, at>>
     ELSE phase' = "idle" /\ at' = NULL /\ UNCHANGED heap
  /\ UNCHANGED <<nelts, key>>

heap_dequeue == nelts > 0 /\ heap_remove(heap.min)

Next ==
  \/ \E n \in Nodes \ InHeap, k \in Keys : heap_insert(n, k)
  \/ \E n \in InHeap : heap_remove(n)
  \/ heap_dequeue
  \/ WalkDown
  \/ WalkUp

Spec == Init /\ [][Next]_vars

\* "It's always a complete binary tree": at every swap the first nelts places in
\* level order hold different nodes, each points back to its parent, and the
\* places behind them are empty, so that the next path leads to a free place.
CompleteTree ==
  /\ \A i \in 1..nelts : /\ AtPath[i] \in Nodes
                         /\ heap.parent[AtPath[i]] = IF i = 1 THEN NULL ELSE AtPath[i \div 2]
  /\ Cardinality(InHeap) = nelts
  /\ \A i \in 1..(Cardinality(Nodes) + 1) : i > nelts => AtPath[i] = NULL

\* Between calls no node is less than its parent, although the node that replaces
\* a removed one may come from another subtree and has to rise instead of sink.
TreeOrder ==
  phase = "idle" => \A i \in 2..nelts : ~less_than(AtPath[i], AtPath[i \div 2])
=============================================================================
