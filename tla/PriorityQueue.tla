--------------------------- MODULE PriorityQueue ---------------------------
(***************************************************************************)
(* What minheap.h promises: a set of nodes of bounded size, ordered by     *)
(* their keys.  An insert adds a node or changes the key of a present one, *)
(* an extract removes a node no other node is smaller than, a delete       *)
(* removes the given node.                                                 *)
(***************************************************************************)
EXTENDS Integers, FiniteSets

CONSTANTS Nodes, NULL, Keys, Capacity

VARIABLES content, key, ret

vars == <<content, key, ret>>

IsMin(n) == n \in content /\ \A m \in content : key[n] <= key[m]

Init == content = {} /\ key \in [Nodes -> Keys] /\ ret = NULL

Insert(n, k) ==
  /\ n \in content \/ Cardinality(content) < Capacity
  /\ content' = content \cup {n}
  /\ key' = [key EXCEPT ![n] = k]
  /\ ret' = "ok"

\* A full queue takes no new node.  The key field is the caller's.
Refuse(n, k) ==
  /\ n \notin content
  /\ Cardinality(content) >= Capacity
  /\ key' = [key EXCEPT ![n] = k]
  /\ ret' = "error"
  /\ UNCHANGED content

ExtractMin ==
  /\ UNCHANGED key
  /\ \/ content = {} /\ ret' = NULL /\ UNCHANGED content
     \/ \E n \in content :
          IsMin(n) /\ ret' = n /\ content' = content \ {n}

Delete(n) == content' = content \ {n} /\ ret' = NULL /\ UNCHANGED key

Next ==
  \/ \E n \in Nodes, k \in Keys : Insert(n, k) \/ Refuse(n, k)
  \/ ExtractMin
  \/ \E n \in Nodes : Delete(n)

Spec == Init /\ [][Next]_vars
=============================================================================
