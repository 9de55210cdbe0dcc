------------------------------ MODULE MinHeap ------------------------------
(***************************************************************************)
(* minheap/minheap.c: the intrusive 4-ary min-heap that holds the timers   *)
(* of an event base.  Every node carries its key and its own position in   *)
(* the array (idx, stored plus one so that 0 means "not in the heap").     *)
(*                                                                         *)
(* One operation runs at a time (uevent.c calls the heap under base_mut),  *)
(* so an operation is: one step that does everything up to the first       *)
(* sift, then one step per iteration of the sift loops.                    *)
(***************************************************************************)
EXTENDS Integers

CONSTANTS
  Nodes,      \* the minheap_node_t objects of the callers
  NULL,       \* the null pointer
  Keys,       \* the keys callers use (uint64_t times)
  Capacity,   \* capacity given to mh_create
  IdxMod,     \* 2^16: minheap_node_t.idx is a uint16_t
  RekeyFull   \* may a caller re-insert a present node into a full heap?

ASSUME CapacityAssumption == Capacity \in Nat \ {0}
ASSUME IdxModAssumption == IdxMod \in Nat \ {0, 1}
ASSUME KeysAssumption == Keys \subseteq Nat
ASSUME NodesAssumption == NULL \notin Nodes
ASSUME RekeyFullAssumption == RekeyFull \in BOOLEAN

VARIABLES
  arr,        \* minheap->arr
  size,       \* minheap->size
  key, idx,   \* the two fields of every node
  ret,        \* what the last operation returns
  phase,      \* "idle", or the sift loop that is running: "up", "down", or
              \* "updown": the mh_sift_up that a mh_sift_down will follow
  hole, node, \* hole and new_node / node of the running sift (-1, NULL: none)
  start       \* the index the running sift was called with

vars == <<arr, size, key, idx, ret, phase, hole, node, start>>
sift == <<phase, hole, node, start>>

Slots == 0 .. Capacity - 1

\* Definitions marked "Mutant" are the plausible mistakes the properties are
\* tested against; no action uses them.

mh_parent(i) == (i - 1) \div 4

\* The value mh_map_set stores for position i, and the one mh_map_get reads.
mh_map_set(i) == (i + 1) % IdxMod
mh_map_get(n) == idx[n] - 1

mh_get_min == IF size = 0 THEN NULL ELSE arr[0]

mh_create ==
  /\ arr = [i \in Slots |-> NULL]
  /\ size = 0
  /\ key \in [Nodes -> Keys]
  /\ idx = [n \in Nodes |-> 0]
  /\ ret = NULL
  /\ phase = "idle" /\ hole = -1 /\ node = NULL /\ start = -1

-----------------------------------------------------------------------------
(* Entering a sift.  The conjuncts read arr' and size', which the calling  *)
(* action has set; the early return of both sifts is the ELSE branch.      *)

ToIdle == phase' = "idle" /\ hole' = -1 /\ node' = NULL /\ start' = -1

CallSift(p, i) ==
  IF i >= 0 /\ i < size'
  THEN phase' = p /\ hole' = i /\ node' = arr'[i] /\ start' = i
  ELSE ToIdle

-----------------------------------------------------------------------------
(* The operations, up to their first sift.                                 *)

\* Mutant of InsertFull: the refusal is reported as success.
InsertFullSilent(n, k) ==
  /\ phase = "idle"
  /\ size >= Capacity
  /\ RekeyFull \/ idx[n] = 0
  /\ key' = [key EXCEPT ![n] = k]
  /\ ret' = "ok"
  /\ UNCHANGED <<arr, size, idx, sift>>

\* mh_insert, heap full: refused before the node is looked up.  The caller
\* has already written the new key into the node.
InsertFull(n, k) ==
  /\ phase = "idle"
  /\ size >= Capacity
  /\ RekeyFull \/ idx[n] = 0
  /\ key' = [key EXCEPT ![n] = k]
  /\ ret' = "error"
  /\ UNCHANGED <<arr, size, idx, sift>>

\* Mutant of InsertUpdate: the sift down after the sift up is forgotten.
InsertUpdateUpOnly(n, k) ==
  /\ phase = "idle"
  /\ size < Capacity
  /\ mh_map_get(n) >= 0
  /\ key' = [key EXCEPT ![n] = k]
  /\ ret' = "ok"
  /\ UNCHANGED <<arr, size, idx>>
  /\ CallSift("up", mh_map_get(n))

\* mh_insert of a node that is in the heap: sift up, then sift down, from
\* the node's old position.
InsertUpdate(n, k) ==
  /\ phase = "idle"
  /\ size < Capacity
  /\ mh_map_get(n) >= 0
  /\ key' = [key EXCEPT ![n] = k]
  /\ ret' = "ok"
  /\ UNCHANGED <<arr, size, idx>>
  /\ CallSift("updown", mh_map_get(n))

InsertNew(n, k) ==
  /\ phase = "idle"
  /\ size < Capacity
  /\ mh_map_get(n) < 0
  /\ key' = [key EXCEPT ![n] = k]
  /\ size' = size + 1
  /\ arr' = [arr EXCEPT ![size] = n]
  /\ idx' = [idx EXCEPT ![n] = mh_map_set(size)]
  /\ ret' = "ok"
  /\ CallSift("up", size)

mh_insert(n, k) == InsertFull(n, k) \/ InsertUpdate(n, k) \/ InsertNew(n, k)

\* Mutant of mh_extract_min: the test for an empty heap is missing.
extract_unchecked ==
  /\ phase = "idle"
  /\ size' = size - 1
  /\ arr' = [arr EXCEPT ![0] = NULL]
  /\ idx' = [n \in Nodes |-> IF n = arr[0] THEN 0 ELSE idx[n]]
  /\ ret' = mh_get_min
  /\ UNCHANGED <<key, sift>>

mh_extract_min ==
  /\ phase = "idle"
  /\ UNCHANGED key
  /\ ret' = mh_get_min
  /\ \/ /\ size = 0
        /\ UNCHANGED <<arr, size, idx, sift>>
     \/ /\ size = 1
        /\ size' = 0
        /\ arr' = [arr EXCEPT ![0] = NULL]
        /\ idx' = [idx EXCEPT ![arr[0]] = 0]
        /\ UNCHANGED sift
     \/ /\ size > 1
        /\ size' = size - 1
        /\ arr' = [arr EXCEPT ![0] = arr[size - 1], ![size - 1] = NULL]
        /\ idx' = [idx EXCEPT ![arr[0]] = 0,
                              ![arr[size - 1]] = mh_map_set(0)]
        /\ CallSift("down", 0)

mh_delete_node(n) ==
  /\ phase = "idle"
  /\ UNCHANGED <<key>>
  /\ ret' = NULL
  /\ LET i == mh_map_get(n) IN
     \/ /\ size = 0 \/ i < 0
        /\ UNCHANGED <<arr, size, idx, sift>>
     \/ /\ size > 0 /\ i = size - 1
        /\ size' = size - 1
        /\ arr' = [arr EXCEPT ![i] = NULL]
        /\ idx' = [idx EXCEPT ![n] = 0]
        /\ UNCHANGED sift
     \/ /\ size > 0 /\ i >= 0 /\ i # size - 1
        /\ size' = size - 1
        /\ arr' = [arr EXCEPT ![i] = arr[size - 1], ![size - 1] = NULL]
        /\ idx' = [idx EXCEPT ![n] = 0, ![arr[size - 1]] = mh_map_set(i)]
        /\ CallSift("updown", i)

-----------------------------------------------------------------------------
(* The sift loops, one iteration per step.                                 *)

\* Mutant of MoveTo: the moved node is not told its new position.
MoveUnmapped(i) ==
  /\ arr' = [arr EXCEPT ![hole] = arr[i]]
  /\ hole' = i
  /\ UNCHANGED <<size, key, idx, ret, phase, node, start>>

\* "heap[hole] = heap[i]; mh_map_set(heap[hole], hole); hole = i".
MoveTo(i) ==
  /\ arr' = [arr EXCEPT ![hole] = arr[i]]
  /\ idx' = [idx EXCEPT ![arr[i]] = mh_map_set(hole)]
  /\ hole' = i
  /\ UNCHANGED <<size, key, ret, phase, node, start>>

\* "heap[hole] = node; mh_map_set(heap[hole], hole)" after the loop.
PlaceNode ==
  /\ arr' = [arr EXCEPT ![hole] = node]
  /\ idx' = [idx EXCEPT ![node] = mh_map_set(hole)]
  /\ UNCHANGED <<size, key, ret>>

RisesAbove(i) == i > 0 /\ key[node] < key[arr[mh_parent(i)]]

SiftUpMove ==
  /\ phase \in {"up", "updown"}
  /\ RisesAbove(hole)
  /\ MoveTo(mh_parent(hole))

SiftUpPlace ==
  /\ phase \in {"up", "updown"}
  /\ ~RisesAbove(hole)
  /\ PlaceNode
  /\ IF phase = "updown" THEN CallSift("down", start) ELSE ToIdle

\* Mutant of Children: the last of the four children is not looked at.
ThreeChildren(i) == {c \in Slots : c < size /\ 4 * i + 1 <= c /\ c <= 4 * i + 3}
Children(i) == {c \in Slots : c < size /\ 4 * i + 1 <= c /\ c <= 4 * i + 4}

\* The child the four comparisons of mh_sift_down choose: the least key,
\* the first of them on a tie.
IsMinChild(c, i) ==
  /\ c \in Children(i)
  /\ \A d \in Children(i) :
       key[arr[c]] < key[arr[d]] \/ (key[arr[c]] = key[arr[d]] /\ c <= d)

SiftDownMove ==
  /\ phase = "down"
  /\ \E c \in Children(hole) :
       /\ IsMinChild(c, hole)
       /\ key[arr[c]] < key[node]
       /\ MoveTo(c)

SiftDownPlace ==
  /\ phase = "down"
  /\ \A c \in Children(hole) : key[arr[c]] >= key[node]
  /\ PlaceNode
  /\ ToIdle

-----------------------------------------------------------------------------
Init == mh_create

Next ==
  \/ \E n \in Nodes, k \in Keys : mh_insert(n, k)
  \/ mh_extract_min
  \/ \E n \in Nodes : mh_delete_node(n)
  \/ SiftUpMove \/ SiftUpPlace
  \/ SiftDownMove \/ SiftDownPlace

Spec == Init /\ [][Next]_vars

-----------------------------------------------------------------------------
(* Properties.                                                             *)

\* Types of the fields of minheap_t and minheap_node_t (idx is unsigned and
\* never reaches IdxMod) and of the locals of the sifts.
TypeOK ==
  /\ arr \in [Slots -> Nodes \cup {NULL}]
  /\ size \in 0 .. Capacity
  /\ key \in [Nodes -> Keys]
  /\ idx \in [Nodes -> 0 .. IdxMod - 1]
  /\ ret \in Nodes \cup {NULL, "ok", "error"}
  /\ phase \in {"idle", "up", "updown", "down"}
  /\ hole \in Slots \cup {-1}
  /\ start \in Slots \cup {-1}
  /\ node \in Nodes \cup {NULL}

\* Between operations no node has a smaller key than its parent: both sifts
\* together repair whatever an insert, an update in place or a removal from
\* the middle did (mh_sift_up, mh_sift_down and the order they run in).
HeapOrder ==
  phase = "idle" =>
    \A i \in 1 .. size - 1 : key[arr[mh_parent(i)]] <= key[arr[i]]

\* Between operations the idx fields and the array are inverse: a node in
\* the array knows its position, a node outside has idx 0.  mh_delete_node
\* and the update path of mh_insert trust idx blindly.
IndexMap ==
  phase = "idle" =>
    /\ \A i \in 0 .. size - 1 : arr[i] \in Nodes /\ idx[arr[i]] = i + 1
    /\ \A n \in Nodes : idx[n] # 0 => idx[n] <= size /\ arr[idx[n] - 1] = n

\* The nodes in the heap: the array with the hole filled by the node that
\* is being sifted.
Content == {IF i = hole THEN node ELSE arr[i] : i \in 0 .. size - 1}

PQ == INSTANCE PriorityQueue WITH content <- Content

\* The array heap implements the priority queue of minheap.h: in particular
\* mh_extract_min returns a node of least key, and an update keeps the set.
ImplementsPriorityQueue == PQ!Spec
=============================================================================
