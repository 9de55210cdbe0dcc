----------------------------- MODULE MCMinHeap -----------------------------
(* Model of MinHeap for TLC: the nodes are interchangeable.                 *)
EXTENDS MinHeap, TLC

NodeSymmetry == Permutations(Nodes)
=============================================================================
