---------------------------- MODULE MCWorkerPool ----------------------------
(* Model of WorkerPool for TLC: symmetry and mutants.                       *)
EXTENDS WorkerPool

EventSymmetry == Permutations(Events)
=============================================================================
