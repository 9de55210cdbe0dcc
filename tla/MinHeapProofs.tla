--------------------------- MODULE MinHeapProofs ---------------------------
(***************************************************************************)
(* Proof, for every capacity, node set and key set, that the 4-ary heap of *)
(* minheap.c keeps its order and its index fields, and that it implements  *)
(* PriorityQueue.  The two hypotheses are necessary: positions fit in the  *)
(* uint16_t idx, and nobody re-keys a node of a full heap.                 *)
(*                                                                         *)
(* Inside a sift the heap has a hole: HeapInv says what holds around it.   *)
(***************************************************************************)
EXTENDS MinHeap, FiniteSetTheorems, WellFoundedInduction, TLAPS

IdxFits == Capacity < IdxMod

\* The hole, the sifted node and the start index exist exactly inside a sift.
HoleInv ==
  IF phase = "idle"
  THEN hole = -1 /\ node = NULL /\ start = -1
  ELSE hole \in 0 .. size - 1 /\ start \in 0 .. size - 1 /\ node \in Nodes

\* Outside the hole the array and the idx fields are inverse.
MapInv ==
  /\ \A i \in 0 .. size - 1 : i # hole =>
       arr[i] \in Nodes /\ arr[i] # node /\ idx[arr[i]] = i + 1
  /\ \A n \in Nodes : idx[n] # 0 /\ n # node =>
       idx[n] <= size /\ idx[n] - 1 # hole /\ arr[idx[n] - 1] = n

\* Every parent and child that are not the hole are in order ...
OrderInv ==
  \A i \in 1 .. size - 1 : i # hole /\ mh_parent(i) # hole =>
    key[arr[mh_parent(i)]] <= key[arr[i]]

\* ... and so are the parent of the hole and the children of the hole.
BridgeInv ==
  \A c \in 1 .. size - 1 : hole > 0 /\ mh_parent(c) = hole =>
    key[arr[mh_parent(hole)]] <= key[arr[c]]

\* While sifting up, the node is below the children of the hole, except
\* perhaps at the start of a sift that a sift down will follow.
UpInv ==
  phase = "up" \/ (phase = "updown" /\ hole # start) =>
    \A c \in 1 .. size - 1 : mh_parent(c) = hole => key[node] <= key[arr[c]]

\* While sifting down, the node is above the parent of the hole.
DownInv ==
  phase = "down" /\ hole > 0 => key[arr[mh_parent(hole)]] <= key[node]

HeapInv ==
  TypeOK /\ HoleInv /\ MapInv /\ OrderInv /\ BridgeInv /\ UpInv /\ DownInv

-----------------------------------------------------------------------------

\* mh_parent inverts mh_left_child: the children of h are 4h+1 .. 4h+4.
LEMMA ParentChild ==
  ASSUME NEW c \in Nat \ {0}
  PROVE  /\ mh_parent(c) \in Nat
         /\ mh_parent(c) < c
         /\ \A h \in Nat : mh_parent(c) = h <=> 4 * h + 1 <= c /\ c <= 4 * h + 4
BY DEF mh_parent

\* No position of the heap wraps in the uint16_t field.
LEMMA MapSet ==
  ASSUME IdxFits, NEW i \in Slots
  PROVE  mh_map_set(i) = i + 1 /\ mh_map_set(i) \in 1 .. IdxMod - 1
BY CapacityAssumption, IdxModAssumption DEF IdxFits, Slots, mh_map_set

\* The empty heap mh_create returns satisfies the invariant.
LEMMA InitHeapInv == Init => HeapInv
<1> SUFFICES ASSUME Init PROVE HeapInv
  OBVIOUS
<1> USE CapacityAssumption, IdxModAssumption DEF Init, mh_create, Slots
<1>1. TypeOK
  BY DEF TypeOK
<1>2. HoleInv /\ MapInv
  BY DEF HoleInv, MapInv
<1>3. OrderInv /\ BridgeInv /\ UpInv /\ DownInv
  BY DEF OrderInv, BridgeInv, UpInv, DownInv
<1> QED BY <1>1, <1>2, <1>3 DEF HeapInv

-----------------------------------------------------------------------------
(* The operations up to their first sift, from a heap without a hole.      *)

\* mh_insert of a full heap returns -1 and leaves the heap as it is.
LEMMA InsertFullStep ==
  ASSUME IdxFits, ~RekeyFull, HeapInv,
         NEW n \in Nodes, NEW k \in Keys, InsertFull(n, k)
  PROVE  HeapInv'
<1> USE CapacityAssumption, IdxModAssumption, KeysAssumption
<1>0. /\ phase = "idle" /\ hole = -1 /\ idx[n] = 0
      /\ key' = [key EXCEPT ![n] = k] /\ ret' = "error"
      /\ UNCHANGED <<arr, size, idx, phase, hole, node, start>>
  BY NodesAssumption DEF InsertFull, HeapInv, HoleInv, sift
<1>1. \A i \in 0 .. size - 1 : arr[i] \in Nodes /\ arr[i] # n
  BY <1>0 DEF HeapInv, TypeOK, MapInv
<1>2. TypeOK'
  BY <1>0 DEF HeapInv, TypeOK
<1>3. HoleInv' /\ MapInv'
  BY <1>0 DEF HeapInv, HoleInv, MapInv
<1>4. OrderInv'
  <2> SUFFICES ASSUME NEW i \in 1 .. size - 1
               PROVE  key'[arr[mh_parent(i)]] <= key'[arr[i]]
    BY <1>0 DEF OrderInv
  <2>1. mh_parent(i) \in 0 .. size - 1 /\ mh_parent(i) # hole /\ i # hole
    BY <1>0, ParentChild DEF HeapInv, TypeOK
  <2> QED BY <1>0, <1>1, <2>1 DEF HeapInv, TypeOK, OrderInv
<1>5. BridgeInv' /\ UpInv' /\ DownInv'
  BY <1>0 DEF BridgeInv, UpInv, DownInv
<1> QED BY <1>2, <1>3, <1>4, <1>5 DEF HeapInv

\* What HeapInv says between operations.
LEMMA IdleFacts ==
  ASSUME HeapInv, phase = "idle"
  PROVE  /\ hole = -1 /\ node = NULL /\ start = -1
         /\ \A i \in 0 .. size - 1 : arr[i] \in Nodes /\ idx[arr[i]] = i + 1
         /\ \A n \in Nodes : idx[n] # 0 =>
              idx[n] - 1 \in 0 .. size - 1 /\ arr[idx[n] - 1] = n
         /\ \A i \in 1 .. size - 1 :
              mh_parent(i) \in 0 .. size - 1 /\ key[arr[mh_parent(i)]] <= key[arr[i]]
<1>1. hole = -1 /\ node = NULL /\ start = -1
  BY DEF HeapInv, HoleInv
<1>2. \A i \in 0 .. size - 1 : arr[i] \in Nodes /\ idx[arr[i]] = i + 1
  BY <1>1 DEF HeapInv, MapInv
<1>3. \A n \in Nodes : idx[n] # 0 =>
        idx[n] - 1 \in 0 .. size - 1 /\ arr[idx[n] - 1] = n
  BY <1>1, IdxModAssumption, NodesAssumption DEF HeapInv, MapInv, TypeOK
<1>4. ASSUME NEW i \in 1 .. size - 1
      PROVE  mh_parent(i) \in 0 .. size - 1 /\ key[arr[mh_parent(i)]] <= key[arr[i]]
  <2>1. mh_parent(i) \in 0 .. size - 1
    BY ParentChild DEF HeapInv, TypeOK
  <2> QED BY <1>1, <2>1 DEF HeapInv, OrderInv
<1> QED BY <1>1, <1>2, <1>3, <1>4

\* mh_insert of a node that is in the heap opens a hole at its position.
LEMMA InsertUpdateStep ==
  ASSUME IdxFits, HeapInv,
         NEW n \in Nodes, NEW k \in Keys, InsertUpdate(n, k)
  PROVE  HeapInv'
<1> USE CapacityAssumption, IdxModAssumption, KeysAssumption
<1> DEFINE i == idx[n] - 1
<1>0. phase = "idle" /\ size < Capacity /\ size \in Nat
  BY DEF InsertUpdate, HeapInv, TypeOK
<1>1. i \in 0 .. size - 1 /\ arr[i] = n
  BY <1>0, IdleFacts DEF InsertUpdate, mh_map_get, HeapInv, TypeOK
<1>2. /\ phase' = "updown" /\ hole' = i /\ start' = i /\ node' = n
      /\ key' = [key EXCEPT ![n] = k] /\ ret' = "ok"
      /\ arr' = arr /\ size' = size /\ idx' = idx
  <2>1. i >= 0 /\ i < size
    BY <1>0, <1>1
  <2> QED BY <1>1, <2>1 DEF InsertUpdate, mh_map_get, CallSift
<1> HIDE DEF i
<1>3. \A j \in 0 .. size - 1 : j # i => arr[j] \in Nodes /\ arr[j] # n
  BY <1>0, <1>1, IdleFacts
<1>4. TypeOK'
  BY <1>1, <1>2 DEF HeapInv, TypeOK, Slots
<1>5. HoleInv'
  BY <1>1, <1>2 DEF HoleInv
<1>6. MapInv'
  BY <1>0, <1>1, <1>2, <1>3, IdleFacts DEF MapInv, HeapInv, TypeOK
<1>7. OrderInv'
  BY <1>0, <1>1, <1>2, <1>3, IdleFacts DEF OrderInv, HeapInv, TypeOK
<1>8. BridgeInv'
  <2> SUFFICES ASSUME NEW c \in 1 .. size - 1, i > 0, mh_parent(c) = i
               PROVE  key'[arr[mh_parent(i)]] <= key'[arr[c]]
    BY <1>2 DEF BridgeInv
  <2>1. /\ mh_parent(i) \in 0 .. size - 1 /\ mh_parent(i) # i /\ c # i
        /\ key[arr[mh_parent(i)]] <= key[arr[i]]
        /\ key[arr[i]] <= key[arr[c]]
    BY <1>0, <1>1, IdleFacts, ParentChild DEF HeapInv, TypeOK
  <2>2. /\ arr[mh_parent(i)] \in Nodes /\ arr[mh_parent(i)] # n
        /\ arr[c] \in Nodes /\ arr[c] # n
    BY <2>1, <1>3
  <2>3. /\ key'[arr[mh_parent(i)]] = key[arr[mh_parent(i)]]
        /\ key'[arr[c]] = key[arr[c]]
        /\ key[arr[mh_parent(i)]] \in Nat /\ key[arr[c]] \in Nat /\ key[arr[i]] \in Nat
    BY <1>1, <1>2, <2>2 DEF HeapInv, TypeOK
  <2> QED BY <2>1, <2>3
<1>9. UpInv' /\ DownInv'
  BY <1>2 DEF UpInv, DownInv
<1> QED BY <1>4, <1>5, <1>6, <1>7, <1>8, <1>9 DEF HeapInv

\* mh_insert of a new node opens a hole at the end of the array.
LEMMA InsertNewStep ==
  ASSUME IdxFits, HeapInv,
         NEW n \in Nodes, NEW k \in Keys, InsertNew(n, k)
  PROVE  HeapInv'
<1> USE CapacityAssumption, IdxModAssumption, KeysAssumption
<1>0. phase = "idle" /\ size \in Slots /\ size \in Nat /\ idx[n] = 0
  BY DEF InsertNew, HeapInv, TypeOK, mh_map_get, Slots
<1>1. /\ phase' = "up" /\ hole' = size /\ start' = size /\ node' = n
      /\ key' = [key EXCEPT ![n] = k] /\ ret' = "ok" /\ size' = size + 1
      /\ arr' = [arr EXCEPT ![size] = n]
      /\ idx' = [idx EXCEPT ![n] = size + 1]
      /\ size + 1 \in 0 .. IdxMod - 1
  <2>1. mh_map_set(size) = size + 1 /\ size + 1 \in 0 .. IdxMod - 1
    BY <1>0, MapSet
  <2>2. /\ size' = size + 1 /\ arr' = [arr EXCEPT ![size] = n]
        /\ size >= 0 /\ size < size' /\ arr'[size] = n
    BY <1>0 DEF InsertNew, HeapInv, TypeOK
  <2> QED BY <2>1, <2>2 DEF InsertNew, CallSift
<1>2. \A j \in 0 .. size - 1 :
        arr'[j] = arr[j] /\ arr[j] \in Nodes /\ arr[j] # n /\ idx[arr[j]] = j + 1
  BY <1>0, <1>1, IdleFacts DEF HeapInv, TypeOK
<1>3. TypeOK'
  BY <1>0, <1>1 DEF HeapInv, TypeOK, Slots
<1>4. HoleInv'
  BY <1>0, <1>1 DEF HoleInv
<1>5. MapInv'
  BY <1>0, <1>1, <1>2, IdleFacts DEF MapInv, HeapInv, TypeOK
<1>6. \A c \in 1 .. size : mh_parent(c) \in 0 .. size - 1
  BY <1>0, ParentChild
<1>7. OrderInv'
  BY <1>0, <1>1, <1>2, <1>6, IdleFacts DEF OrderInv, HeapInv, TypeOK
<1>8. BridgeInv' /\ UpInv' /\ DownInv'
  BY <1>0, <1>1, <1>6 DEF BridgeInv, UpInv, DownInv
<1> QED BY <1>3, <1>4, <1>5, <1>7, <1>8 DEF HeapInv

\* Removing the last position needs no sift.
LEMMA RemoveLastStep ==
  ASSUME HeapInv, phase = "idle", NEW n \in Nodes,
         size > 0, arr[size - 1] = n,
         size' = size - 1, arr' = [arr EXCEPT ![size - 1] = NULL],
         idx' = [idx EXCEPT ![n] = 0], key' = key,
         ret' \in Nodes \cup {NULL}, UNCHANGED sift
  PROVE  HeapInv'
<1> USE CapacityAssumption, IdxModAssumption
<1>0. size - 1 \in Slots /\ size - 1 \in Nat /\ size \in Nat
  BY DEF HeapInv, TypeOK, Slots
<1>1. UNCHANGED <<phase, hole, node, start>>
  BY DEF sift
<1>2. \A j \in 0 .. size - 2 :
        arr'[j] = arr[j] /\ arr[j] \in Nodes /\ arr[j] # n /\ idx[arr[j]] = j + 1
  BY <1>0, IdleFacts DEF HeapInv, TypeOK
<1>3. TypeOK'
  BY <1>0, <1>1 DEF HeapInv, TypeOK, Slots
<1>4. HoleInv'
  BY <1>1 DEF HeapInv, HoleInv
<1>5. MapInv'
  BY <1>0, <1>1, <1>2, IdleFacts, NodesAssumption DEF MapInv, HeapInv, TypeOK
<1>6. OrderInv'
  <2> SUFFICES ASSUME NEW i \in 1 .. size - 2
               PROVE  key[arr'[mh_parent(i)]] <= key[arr'[i]]
    BY <1>0 DEF OrderInv
  <2>1. mh_parent(i) \in 0 .. size - 2
    BY <1>0, ParentChild
  <2> QED BY <1>0, <1>2, <2>1, IdleFacts
<1>7. BridgeInv' /\ UpInv' /\ DownInv'
  BY <1>1, IdleFacts DEF BridgeInv, UpInv, DownInv
<1> QED BY <1>3, <1>4, <1>5, <1>6, <1>7 DEF HeapInv

\* Any other position i is filled by the last node, which is then sifted.
\* Filled(i) describes that state position by position.
Filled(i) ==
  /\ size' = size - 1
  /\ \A j \in 0 .. size - 2 : j # i => arr'[j] = arr[j]
  /\ \A x \in Nodes : x # arr[size - 1] =>
       idx'[x] = IF x = arr[i] THEN 0 ELSE idx[x]
  /\ key' = key
  /\ hole' = i /\ node' = arr[size - 1] /\ start' = i

\* A hole at i that the last node will fill: the index fields agree.
LEMMA FilledMap ==
  ASSUME HeapInv, phase = "idle", NEW i \in 0 .. size - 2, Filled(i)
  PROVE  /\ MapInv'
         /\ arr[i] \in Nodes /\ arr[size - 1] \in Nodes
         /\ \A j \in 0 .. size - 2 : j # i => arr[j] \in Nodes /\ arr[j] # arr[size - 1]
<1> DEFINE m == arr[size - 1]
           n == arr[i]
<1>0. size \in Nat /\ i \in Nat /\ i < size - 1
  BY DEF HeapInv, TypeOK
<1>1. m \in Nodes /\ n \in Nodes /\ m # n /\ idx[m] = size /\ idx[n] = i + 1
  BY <1>0, IdleFacts
<1>2. \A j \in 0 .. size - 2 : j # i =>
        arr[j] \in Nodes /\ arr[j] # n /\ arr[j] # m /\ idx[arr[j]] = j + 1
  BY <1>0, <1>1, IdleFacts
<1>3. \A x \in Nodes : x # m => idx'[x] = IF x = n THEN 0 ELSE idx[x]
  BY DEF Filled
<1>4. \A j \in 0 .. size - 2 : j # i => arr'[j] = arr[j]
  BY DEF Filled
<1>5. node' = m /\ hole' = i /\ size' = size - 1
  BY DEF Filled
<1>6. \A x \in Nodes : idx[x] # 0 => idx[x] - 1 \in 0 .. size - 1 /\ arr[idx[x] - 1] = x
  BY IdleFacts
<1>7. \A x \in Nodes : idx[x] \in Nat
  BY IdxModAssumption DEF HeapInv, TypeOK
<1>8. arr[i] = n /\ arr[size - 1] = m
  OBVIOUS
<1> HIDE DEF m, n
<1>9. ASSUME NEW x \in Nodes, idx'[x] # 0, x # m
      PROVE  idx'[x] <= size - 1 /\ idx'[x] - 1 # i /\ arr'[idx'[x] - 1] = x
  <2>1. x # n /\ idx'[x] = idx[x]
    BY <1>3, <1>9
  <2>2. idx[x] - 1 \in 0 .. size - 1 /\ arr[idx[x] - 1] = x
    BY <1>6, <1>9, <2>1
  <2>3. idx[x] - 1 # size - 1 /\ idx[x] - 1 # i
    BY <1>8, <1>9, <2>1, <2>2
  <2>4. idx[x] - 1 \in 0 .. size - 2 /\ idx[x] <= size - 1
    BY <1>0, <1>7, <2>2, <2>3
  <2> QED BY <1>4, <2>1, <2>2, <2>3, <2>4
<1>10. \A j \in 0 .. size - 2 : j # i =>
         arr'[j] \in Nodes /\ arr'[j] # m /\ idx'[arr'[j]] = j + 1
  BY <1>2, <1>3, <1>4
<1>11. MapInv'
  <2>1. size' - 1 = size - 2
    BY <1>0, <1>5
  <2> QED BY <1>5, <1>9, <1>10, <2>1 DEF MapInv
<1> QED BY <1>1, <1>2, <1>8, <1>11

\* A hole at i that the last node will fill: the other pairs stay in order.
LEMMA FilledOrder ==
  ASSUME HeapInv, phase = "idle", NEW i \in 0 .. size - 2, Filled(i)
  PROVE  OrderInv' /\ BridgeInv'
<1>0. /\ size \in Nat /\ i \in Nat /\ i < size - 1
      /\ size' - 1 = size - 2 /\ hole' = i /\ key' = key
  BY DEF HeapInv, TypeOK, Filled
<1>1. \A j \in 0 .. size - 2 : j # i => arr'[j] = arr[j]
  BY DEF Filled
<1>2. \A c \in 1 .. size - 2 : key[arr[mh_parent(c)]] <= key[arr[c]]
  BY <1>0, IdleFacts
<1>3. \A c \in 1 .. size - 2 : mh_parent(c) \in 0 .. size - 2 /\ mh_parent(c) # c
  BY <1>0, ParentChild
<1>4. \A j \in 0 .. size - 2 : key[arr[j]] \in Nat
  <2>1. \A j \in 0 .. size - 2 : arr[j] \in Nodes
    BY <1>0, IdleFacts
  <2> QED BY <2>1, KeysAssumption DEF HeapInv, TypeOK
<1>5. OrderInv'
  BY <1>0, <1>1, <1>2, <1>3 DEF OrderInv
<1>6. BridgeInv'
  <2> SUFFICES ASSUME NEW c \in 1 .. size - 2, i > 0, mh_parent(c) = i
               PROVE  key[arr'[mh_parent(i)]] <= key[arr'[c]]
    BY <1>0 DEF BridgeInv
  <2>1. i \in 1 .. size - 2 /\ c \in 0 .. size - 2 /\ c # i
    BY <1>0, <1>3
  <2>2. mh_parent(i) \in 0 .. size - 2 /\ mh_parent(i) # i
    BY <1>3, <2>1
  <2>3. key[arr[mh_parent(i)]] <= key[arr[i]] /\ key[arr[i]] <= key[arr[c]]
    BY <1>2, <2>1
  <2>4. arr'[mh_parent(i)] = arr[mh_parent(i)] /\ arr'[c] = arr[c]
    BY <1>1, <2>1, <2>2
  <2>5. /\ key[arr[mh_parent(i)]] \in Nat /\ key[arr[c]] \in Nat
        /\ key[arr[i]] \in Nat
    BY <1>4, <2>1, <2>2
  <2> QED BY <2>3, <2>4, <2>5
<1> QED BY <1>5, <1>6

\* Removing an inner position opens a hole there for the last node.
LEMMA RemoveStep ==
  ASSUME IdxFits, HeapInv, phase = "idle", size > 1,
         NEW i \in 0 .. size - 2, NEW p \in {"updown", "down"},
         p = "down" => i = 0,
         size' = size - 1,
         arr' = [arr EXCEPT ![i] = arr[size - 1], ![size - 1] = NULL],
         idx' = [idx EXCEPT ![arr[i]] = 0, ![arr[size - 1]] = mh_map_set(i)],
         key' = key, ret' \in Nodes \cup {NULL},
         phase' = p, hole' = i, node' = arr[size - 1], start' = i
  PROVE  HeapInv'
<1> USE CapacityAssumption, IdxModAssumption
<1>0. /\ i \in Slots /\ size - 1 \in Slots /\ size \in Nat /\ i < size - 1
      /\ mh_map_set(i) = i + 1 /\ i + 1 \in 0 .. IdxMod - 1
  BY MapSet DEF HeapInv, TypeOK, Slots
<1>1. Filled(i)
  BY <1>0 DEF Filled, HeapInv, TypeOK, Slots
<1>2. arr[i] \in Nodes /\ arr[size - 1] \in Nodes
  BY <1>1, FilledMap
<1>3. TypeOK'
  <2>1. arr' \in [Slots -> Nodes \cup {NULL}]
    BY <1>2 DEF HeapInv, TypeOK
  <2>2. idx' \in [Nodes -> 0 .. IdxMod - 1]
    <3> DEFINE f == [idx EXCEPT ![arr[i]] = 0]
    <3>1. f \in [Nodes -> 0 .. IdxMod - 1]
      <4>1. idx \in [Nodes -> 0 .. IdxMod - 1] /\ 0 \in 0 .. IdxMod - 1
        BY DEF HeapInv, TypeOK
      <4> QED BY <4>1
    <3>2. idx' = [f EXCEPT ![arr[size - 1]] = i + 1]
      BY <1>0
    <3> HIDE DEF f
    <3> QED BY <1>0, <3>1, <3>2
  <2>3. size' \in 0 .. Capacity
    BY <1>0 DEF HeapInv, TypeOK
  <2> QED BY <1>0, <1>2, <2>1, <2>2, <2>3 DEF HeapInv, TypeOK
<1>4. HoleInv'
  BY <1>0, <1>2 DEF HoleInv
<1>5. UpInv' /\ DownInv'
  BY <1>0 DEF UpInv, DownInv
<1> QED BY <1>1, <1>3, <1>4, <1>5, FilledMap, FilledOrder DEF HeapInv

\* mh_delete_node, up to its first sift, keeps the invariant.
LEMMA DeleteStep ==
  ASSUME IdxFits, HeapInv, NEW n \in Nodes, mh_delete_node(n)
  PROVE  HeapInv'
<1> DEFINE i == mh_map_get(n)
<1>0. phase = "idle" /\ key' = key /\ ret' = NULL /\ size \in Nat /\ idx[n] \in Nat
  BY IdxModAssumption DEF mh_delete_node, HeapInv, TypeOK
<1>1. CASE UNCHANGED <<arr, size, idx, sift>>
  BY <1>0, <1>1 DEF HeapInv, TypeOK, HoleInv, MapInv, OrderInv, BridgeInv,
                    UpInv, DownInv, sift
<1>2. CASE /\ size > 0 /\ i = size - 1
           /\ size' = size - 1
           /\ arr' = [arr EXCEPT ![i] = NULL]
           /\ idx' = [idx EXCEPT ![n] = 0]
           /\ UNCHANGED sift
  <2>1. arr[size - 1] = n
    BY <1>0, <1>2, IdleFacts DEF mh_map_get
  <2> QED BY <1>0, <1>2, <2>1, RemoveLastStep
<1>3. CASE /\ size > 0 /\ i >= 0 /\ i # size - 1
           /\ size' = size - 1
           /\ arr' = [arr EXCEPT ![i] = arr[size - 1], ![size - 1] = NULL]
           /\ idx' = [idx EXCEPT ![n] = 0, ![arr[size - 1]] = mh_map_set(i)]
           /\ CallSift("updown", i)
  <2>1. i \in 0 .. size - 1 /\ arr[i] = n
    BY <1>0, <1>3, IdleFacts DEF mh_map_get
  <2>2. i \in 0 .. size - 2 /\ size > 1 /\ i \in Slots /\ size - 1 \in Slots
    BY <1>0, <1>3, <2>1, CapacityAssumption DEF HeapInv, TypeOK, Slots
  <2>3. arr'[i] = arr[size - 1]
    <3>1. arr \in [Slots -> Nodes \cup {NULL}] /\ i # size - 1
      BY <1>3 DEF HeapInv, TypeOK
    <3> HIDE DEF i
    <3> QED BY <1>3, <2>2, <3>1
  <2>4. phase' = "updown" /\ hole' = i /\ node' = arr[size - 1] /\ start' = i
    <3>1. i < size'
      BY <1>0, <1>3, <2>2
    <3> QED BY <1>3, <2>3, <3>1 DEF CallSift
  <2> HIDE DEF i
  <2> QED BY <1>0, <1>3, <2>1, <2>2, <2>4, RemoveStep
<1> QED BY <1>1, <1>2, <1>3 DEF mh_delete_node

\* mh_extract_min, up to its sift down, keeps the invariant.
LEMMA ExtractStep ==
  ASSUME IdxFits, HeapInv, mh_extract_min
  PROVE  HeapInv'
<1>0. phase = "idle" /\ key' = key /\ size \in Nat
  BY DEF mh_extract_min, HeapInv, TypeOK
<1>1. ret' \in Nodes \cup {NULL}
  BY CapacityAssumption DEF mh_extract_min, mh_get_min, HeapInv, TypeOK, Slots
<1>2. CASE UNCHANGED <<arr, size, idx, sift>>
  BY <1>0, <1>1, <1>2 DEF HeapInv, TypeOK, HoleInv, MapInv, OrderInv, BridgeInv,
                          UpInv, DownInv, sift
<1>3. CASE /\ size = 1
           /\ size' = 0
           /\ arr' = [arr EXCEPT ![0] = NULL]
           /\ idx' = [idx EXCEPT ![arr[0]] = 0]
           /\ UNCHANGED sift
  <2>1. size - 1 = 0 /\ size > 0 /\ size' = size - 1 /\ arr[0] \in Nodes
    BY <1>0, <1>3, IdleFacts
  <2> QED BY <1>0, <1>1, <1>3, <2>1, RemoveLastStep
<1>4. CASE /\ size > 1
           /\ size' = size - 1
           /\ arr' = [arr EXCEPT ![0] = arr[size - 1], ![size - 1] = NULL]
           /\ idx' = [idx EXCEPT ![arr[0]] = 0,
                                 ![arr[size - 1]] = mh_map_set(0)]
           /\ CallSift("down", 0)
  <2>1. 0 \in 0 .. size - 2 /\ 0 \in Slots /\ size - 1 # 0
    BY <1>0, <1>4, CapacityAssumption DEF Slots
  <2>2. arr'[0] = arr[size - 1]
    BY <1>4, <2>1 DEF HeapInv, TypeOK
  <2>3. phase' = "down" /\ hole' = 0 /\ node' = arr[size - 1] /\ start' = 0
    <3>1. 0 >= 0 /\ 0 < size'
      BY <1>0, <1>4
    <3> QED BY <1>4, <2>2, <3>1 DEF CallSift
  <2> QED BY <1>0, <1>1, <1>4, <2>1, <2>3, RemoveStep
<1> QED BY <1>2, <1>3, <1>4 DEF mh_extract_min

-----------------------------------------------------------------------------
(* The sift loops.                                                         *)

\* Facts about the hole that both loops use.
LEMMA HoleFacts ==
  ASSUME HeapInv, phase # "idle"
  PROVE  /\ size \in Nat /\ hole \in 0 .. size - 1 /\ start \in 0 .. size - 1
         /\ hole \in Slots /\ node \in Nodes /\ key[node] \in Nat
         /\ \A j \in 0 .. size - 1 : j \in Slots
         /\ \A j \in 0 .. size - 1 : j # hole =>
              /\ arr[j] \in Nodes /\ arr[j] # node /\ idx[arr[j]] = j + 1
              /\ key[arr[j]] \in Nat
         /\ \A c \in 1 .. size - 1 :
              mh_parent(c) \in 0 .. size - 1 /\ mh_parent(c) < c
<1>1. /\ size \in Nat /\ hole \in 0 .. size - 1 /\ start \in 0 .. size - 1
      /\ hole \in Slots /\ node \in Nodes
      /\ \A j \in 0 .. size - 1 : j \in Slots
  BY CapacityAssumption DEF HeapInv, HoleInv, TypeOK, Slots
<1>2. \A n \in Nodes : key[n] \in Nat
  BY KeysAssumption DEF HeapInv, TypeOK
<1>3. \A j \in 0 .. size - 1 : j # hole =>
        arr[j] \in Nodes /\ arr[j] # node /\ idx[arr[j]] = j + 1
  BY DEF HeapInv, MapInv
<1>4. \A c \in 1 .. size - 1 : mh_parent(c) \in 0 .. size - 1 /\ mh_parent(c) < c
  BY <1>1, ParentChild
<1> QED BY <1>1, <1>2, <1>3, <1>4

\* Moving the node of position i into the hole keeps the index fields right.
LEMMA MoveMap ==
  ASSUME IdxFits, HeapInv, phase # "idle",
         NEW i \in 0 .. size - 1, i # hole, MoveTo(i)
  PROVE  TypeOK' /\ HoleInv' /\ MapInv'
<1> DEFINE m == arr[i]
<1>1. /\ m \in Nodes /\ m # node /\ idx[m] = i + 1
      /\ mh_map_set(hole) = hole + 1 /\ hole + 1 \in 0 .. IdxMod - 1
      /\ hole \in Slots /\ size \in Nat /\ hole \in 0 .. size - 1 /\ i \in Slots
  BY HoleFacts, MapSet, IdxModAssumption
<1>2. /\ arr' = [arr EXCEPT ![hole] = m]
      /\ idx' = [idx EXCEPT ![m] = hole + 1]
      /\ hole' = i
      /\ UNCHANGED <<size, key, ret, phase, node, start>>
      /\ arr[i] = m
  BY <1>1 DEF MoveTo
<1> HIDE DEF m
<1>3. TypeOK'
  BY <1>1, <1>2 DEF HeapInv, TypeOK
<1>4. HoleInv'
  BY <1>1, <1>2 DEF HeapInv, HoleInv
<1>5. \A j \in 0 .. size - 1 : j # hole => arr'[j] = arr[j]
  BY <1>1, <1>2 DEF HeapInv, TypeOK
<1>6. arr'[hole] = m /\ idx'[m] = hole + 1
  BY <1>1, <1>2 DEF HeapInv, TypeOK
<1>7. \A x \in Nodes : x # m => idx'[x] = idx[x]
  BY <1>1, <1>2 DEF HeapInv, TypeOK
<1>8. \A j \in 0 .. size - 1 : j # i =>
        arr'[j] \in Nodes /\ arr'[j] # node /\ idx'[arr'[j]] = j + 1
  <2> SUFFICES ASSUME NEW j \in 0 .. size - 1, j # i, j # hole
               PROVE  arr'[j] \in Nodes /\ arr'[j] # node /\ idx'[arr'[j]] = j + 1
    BY <1>1, <1>6
  <2>1. arr[j] \in Nodes /\ arr[j] # node /\ idx[arr[j]] = j + 1
    BY HoleFacts
  <2> QED BY <1>1, <1>5, <1>7, <2>1
<1>9. ASSUME NEW x \in Nodes, idx'[x] # 0, x # node
      PROVE  idx'[x] <= size /\ idx'[x] - 1 # i /\ arr'[idx'[x] - 1] = x
  <2>1. CASE x = m
    BY <1>1, <1>6, <2>1
  <2>2. CASE x # m
    <3>1. /\ idx'[x] = idx[x] /\ idx[x] <= size /\ idx[x] - 1 # hole
          /\ arr[idx[x] - 1] = x
      BY <1>7, <1>9, <2>2 DEF HeapInv, MapInv
    <3>2. idx[x] - 1 \in 0 .. size - 1 /\ idx[x] - 1 # i
      BY <1>1, <1>2, <1>9, <2>2, <3>1, IdxModAssumption DEF HeapInv, TypeOK
    <3> QED BY <1>5, <3>1, <3>2
  <2> QED BY <2>1, <2>2
<1>10. MapInv'
  BY <1>2, <1>8, <1>9 DEF MapInv
<1> QED BY <1>3, <1>4, <1>10

\* The array a move leaves, position by position.
LEMMA MoveArr ==
  ASSUME HeapInv, phase # "idle", NEW i \in 0 .. size - 1, i # hole, MoveTo(i)
  PROVE  /\ arr'[hole] = arr[i]
         /\ \A j \in 0 .. size - 1 : j # hole => arr'[j] = arr[j]
         /\ hole' = i /\ UNCHANGED <<size, key, phase, node, start>>
<1>1. hole \in Slots /\ \A j \in 0 .. size - 1 : j \in Slots
  BY HoleFacts
<1> QED BY <1>1 DEF MoveTo, HeapInv, TypeOK

\* One round of the loop of mh_sift_up keeps the invariant.
LEMMA SiftUpMoveStep ==
  ASSUME IdxFits, HeapInv, SiftUpMove
  PROVE  HeapInv'
<1> DEFINE i == mh_parent(hole)
<1>0. /\ phase \in {"up", "updown"} /\ phase # "idle" /\ hole > 0
      /\ key[node] < key[arr[i]] /\ MoveTo(i)
  BY DEF SiftUpMove, RisesAbove
<1>1. i \in 0 .. size - 1 /\ i # hole /\ i < hole /\ hole \in 1 .. size - 1
  BY <1>0, HoleFacts
<1>2. /\ arr'[hole] = arr[i]
      /\ \A j \in 0 .. size - 1 : j # hole => arr'[j] = arr[j]
      /\ hole' = i /\ UNCHANGED <<size, key, phase, node, start>>
  BY <1>0, <1>1, MoveArr
<1>3. TypeOK' /\ HoleInv' /\ MapInv'
  BY <1>0, <1>1, MoveMap
<1>4. \A c \in 1 .. size - 1 : mh_parent(c) \in 0 .. size - 1 /\ mh_parent(c) < c
  BY <1>0, HoleFacts
<1>5. /\ key[node] \in Nat
      /\ \A j \in 0 .. size - 1 : j # hole => key[arr[j]] \in Nat
  BY <1>0, HoleFacts
<1>6. \A c \in 1 .. size - 1 : c # hole /\ mh_parent(c) # hole =>
        key[arr[mh_parent(c)]] <= key[arr[c]]
  BY DEF HeapInv, OrderInv
<1>7. \A c \in 1 .. size - 1 : mh_parent(c) = hole => key[arr[i]] <= key[arr[c]]
  BY <1>0 DEF HeapInv, BridgeInv
<1>8. mh_parent(hole) = i
  OBVIOUS
<1> HIDE DEF i
\* Children of the old hole now hang below the moved node.
<1>9. OrderInv'
  <2> SUFFICES ASSUME NEW c \in 1 .. size - 1, c # i, mh_parent(c) # i
               PROVE  key[arr'[mh_parent(c)]] <= key[arr'[c]]
    BY <1>2 DEF OrderInv
  <2>1. c # hole /\ c \in 0 .. size - 1 /\ mh_parent(c) \in 0 .. size - 1
    BY <1>4, <1>8
  <2>2. CASE mh_parent(c) = hole
    BY <1>2, <1>7, <2>1, <2>2
  <2>3. CASE mh_parent(c) # hole
    BY <1>2, <1>6, <2>1, <2>3
  <2> QED BY <2>2, <2>3
\* The children of the new hole are the moved node and its old siblings,
\* which lie above the parent of the new hole and below the sifted node.
<1>10. ASSUME NEW c \in 1 .. size - 1, mh_parent(c) = i
       PROVE  key[arr[i]] <= key[arr'[c]] /\ key[arr'[c]] \in Nat /\ key[arr[i]] \in Nat
  <2>1. c \in 0 .. size - 1 /\ key[arr[i]] \in Nat
    BY <1>1, <1>5
  <2>2. CASE c = hole
    BY <1>2, <2>1, <2>2
  <2>3. CASE c # hole
    BY <1>1, <1>2, <1>5, <1>6, <1>10, <2>1, <2>3
  <2> QED BY <2>2, <2>3
<1>11. BridgeInv'
  <2> SUFFICES ASSUME NEW c \in 1 .. size - 1, i > 0, mh_parent(c) = i
               PROVE  key[arr'[mh_parent(i)]] <= key[arr'[c]]
    BY <1>2 DEF BridgeInv
  <2>1. /\ i \in 1 .. size - 1 /\ mh_parent(i) \in 0 .. size - 1
        /\ mh_parent(i) # hole
    BY <1>1, <1>4
  <2>2. arr'[mh_parent(i)] = arr[mh_parent(i)] /\ key[arr[mh_parent(i)]] \in Nat
    BY <1>2, <1>5, <2>1
  <2>3. key[arr[mh_parent(i)]] <= key[arr[i]]
    BY <1>1, <1>6, <2>1
  <2>4. key[arr[i]] <= key[arr'[c]] /\ key[arr'[c]] \in Nat /\ key[arr[i]] \in Nat
    BY <1>10
  <2> QED BY <2>2, <2>3, <2>4
<1>12. UpInv'
  <2> SUFFICES ASSUME NEW c \in 1 .. size - 1, mh_parent(c) = i
               PROVE  key[node] <= key[arr'[c]]
    BY <1>2 DEF UpInv
  <2> QED BY <1>0, <1>5, <1>10 DEF i
<1>13. DownInv'
  BY <1>0, <1>2 DEF DownInv
<1> QED BY <1>3, <1>9, <1>11, <1>12, <1>13 DEF HeapInv

\* One round of the loop of mh_sift_down keeps the invariant.
LEMMA SiftDownMoveStep ==
  ASSUME IdxFits, HeapInv, SiftDownMove
  PROVE  HeapInv'
<1>0. phase = "down" /\ phase # "idle"
  BY DEF SiftDownMove
<1>1. PICK i \in Children(hole) :
        IsMinChild(i, hole) /\ key[arr[i]] < key[node] /\ MoveTo(i)
  BY DEF SiftDownMove
<1>2. \A c \in 1 .. size - 1 : mh_parent(c) \in 0 .. size - 1 /\ mh_parent(c) < c
  BY <1>0, HoleFacts
<1>3. /\ size \in Nat /\ hole \in 0 .. size - 1 /\ hole \in Nat
      /\ \A j \in 0 .. size - 1 : j \in Slots
  BY <1>0, HoleFacts
<1>4. \A c \in 1 .. size - 1 : mh_parent(c) = hole <=> c \in Children(hole)
  <2> SUFFICES ASSUME NEW c \in 1 .. size - 1
               PROVE  mh_parent(c) = hole <=> c \in Children(hole)
    OBVIOUS
  <2>1. mh_parent(c) = hole <=> 4 * hole + 1 <= c /\ c <= 4 * hole + 4
    BY <1>3, ParentChild
  <2>2. c < size /\ c \in Slots
    BY <1>3
  <2> QED BY <2>1, <2>2 DEF Children
<1>5. i \in 1 .. size - 1 /\ i \in 0 .. size - 1 /\ i # hole /\ mh_parent(i) = hole
  <2>1. i \in 1 .. size - 1
    BY <1>3, CapacityAssumption DEF Children, Slots
  <2> QED BY <1>1, <1>2, <1>3, <1>4, <2>1
<1>6. /\ arr'[hole] = arr[i]
      /\ \A j \in 0 .. size - 1 : j # hole => arr'[j] = arr[j]
      /\ hole' = i /\ UNCHANGED <<size, key, phase, node, start>>
  BY <1>0, <1>1, <1>5, MoveArr
<1>7. TypeOK' /\ HoleInv' /\ MapInv'
  BY <1>0, <1>1, <1>5, MoveMap
<1>8. /\ key[node] \in Nat
      /\ \A j \in 0 .. size - 1 : j # hole => key[arr[j]] \in Nat
  BY <1>0, HoleFacts
<1>9. \A c \in 1 .. size - 1 : c # hole /\ mh_parent(c) # hole =>
        key[arr[mh_parent(c)]] <= key[arr[c]]
  BY DEF HeapInv, OrderInv
<1>10. hole > 0 => key[arr[mh_parent(hole)]] <= key[arr[i]]
  BY <1>5 DEF HeapInv, BridgeInv
<1>11. \A c \in 1 .. size - 1 : mh_parent(c) = hole => key[arr[i]] <= key[arr[c]]
  <2> SUFFICES ASSUME NEW c \in 1 .. size - 1, mh_parent(c) = hole
               PROVE  key[arr[i]] <= key[arr[c]]
    OBVIOUS
  <2>1. c \in Children(hole) /\ c \in 0 .. size - 1 /\ c # hole
    BY <1>2, <1>3, <1>4
  <2>2. key[arr[i]] < key[arr[c]] \/ key[arr[i]] = key[arr[c]]
    BY <1>1, <2>1 DEF IsMinChild
  <2>3. key[arr[i]] \in Nat /\ key[arr[c]] \in Nat
    BY <1>5, <1>8, <2>1
  <2> QED BY <2>2, <2>3
<1>12. OrderInv'
  <2> SUFFICES ASSUME NEW c \in 1 .. size - 1, c # i, mh_parent(c) # i
               PROVE  key[arr'[mh_parent(c)]] <= key[arr'[c]]
    BY <1>6 DEF OrderInv
  <2>1. c \in 0 .. size - 1 /\ mh_parent(c) \in 0 .. size - 1 /\ mh_parent(c) # c
    BY <1>2
  <2>2. CASE c = hole
    <3>1. arr'[c] = arr[i] /\ arr'[mh_parent(c)] = arr[mh_parent(c)]
      BY <1>6, <2>1, <2>2
    <3> QED BY <1>10, <2>2, <3>1
  <2>3. CASE mh_parent(c) = hole
    <3>1. arr'[c] = arr[c] /\ arr'[mh_parent(c)] = arr[i]
      BY <1>6, <2>1, <2>3
    <3> QED BY <1>11, <2>3, <3>1
  <2>4. CASE c # hole /\ mh_parent(c) # hole
    BY <1>6, <1>9, <2>1, <2>4
  <2> QED BY <2>2, <2>3, <2>4
<1>13. BridgeInv'
  <2> SUFFICES ASSUME NEW c \in 1 .. size - 1, mh_parent(c) = i
               PROVE  key[arr'[hole]] <= key[arr'[c]]
    BY <1>5, <1>6 DEF BridgeInv
  <2>1. c \in 0 .. size - 1 /\ c # hole /\ mh_parent(c) # hole
    BY <1>2, <1>5
  <2> QED BY <1>6, <1>9, <2>1
<1>14. UpInv'
  BY <1>0, <1>6 DEF UpInv
<1>15. DownInv'
  <2>1. key[arr'[hole]] <= key[node]
    BY <1>1, <1>5, <1>6, <1>8
  <2> QED BY <1>5, <1>6, <2>1 DEF DownInv
<1> QED BY <1>7, <1>12, <1>13, <1>14, <1>15 DEF HeapInv

\* Once the node is in the hole the index fields are right everywhere.
LEMMA PlaceMap ==
  ASSUME IdxFits, HeapInv, phase # "idle", PlaceNode
  PROVE  /\ arr' \in [Slots -> Nodes \cup {NULL}]
         /\ idx' \in [Nodes -> 0 .. IdxMod - 1]
         /\ arr'[hole] = node
         /\ \A j \in 0 .. size - 1 : j # hole => arr'[j] = arr[j]
         /\ \A j \in 0 .. size - 1 : arr'[j] \in Nodes /\ idx'[arr'[j]] = j + 1
         /\ \A x \in Nodes : idx'[x] # 0 =>
              idx'[x] - 1 \in 0 .. size - 1 /\ arr'[idx'[x] - 1] = x
         /\ size' = size /\ key' = key /\ ret' = ret
<1>1. /\ node \in Nodes /\ mh_map_set(hole) = hole + 1
      /\ hole + 1 \in 0 .. IdxMod - 1 /\ hole \in Slots
      /\ size \in Nat /\ hole \in 0 .. size - 1
      /\ \A j \in 0 .. size - 1 : j \in Slots
  BY HoleFacts, MapSet, IdxModAssumption
<1>2. /\ arr' = [arr EXCEPT ![hole] = node]
      /\ idx' = [idx EXCEPT ![node] = hole + 1]
      /\ size' = size /\ key' = key /\ ret' = ret
  BY <1>1 DEF PlaceNode
<1>3. /\ arr' \in [Slots -> Nodes \cup {NULL}]
      /\ idx' \in [Nodes -> 0 .. IdxMod - 1]
  BY <1>1, <1>2 DEF HeapInv, TypeOK
<1>4. arr'[hole] = node /\ idx'[node] = hole + 1
  BY <1>1, <1>2 DEF HeapInv, TypeOK
<1>5. \A j \in 0 .. size - 1 : j # hole => arr'[j] = arr[j]
  BY <1>1, <1>2 DEF HeapInv, TypeOK
<1>6. \A x \in Nodes : x # node => idx'[x] = idx[x]
  BY <1>1, <1>2 DEF HeapInv, TypeOK
<1>7. \A j \in 0 .. size - 1 : j # hole =>
        arr[j] \in Nodes /\ arr[j] # node /\ idx[arr[j]] = j + 1
  BY HoleFacts
<1>8. \A j \in 0 .. size - 1 : arr'[j] \in Nodes /\ idx'[arr'[j]] = j + 1
  BY <1>1, <1>4, <1>5, <1>6, <1>7
<1>9. ASSUME NEW x \in Nodes, idx'[x] # 0
      PROVE  idx'[x] - 1 \in 0 .. size - 1 /\ arr'[idx'[x] - 1] = x
  <2>1. CASE x = node
    BY <1>1, <1>4, <2>1
  <2>2. CASE x # node
    <3>1. /\ idx'[x] = idx[x] /\ idx[x] <= size /\ idx[x] - 1 # hole
          /\ arr[idx[x] - 1] = x
      BY <1>6, <1>9, <2>2 DEF HeapInv, MapInv
    <3>2. idx[x] - 1 \in 0 .. size - 1
      BY <1>1, <1>9, <3>1, IdxModAssumption DEF HeapInv, TypeOK
    <3> QED BY <1>5, <3>1, <3>2
  <2> QED BY <2>1, <2>2
<1> QED BY <1>2, <1>3, <1>4, <1>5, <1>8, <1>9

\* Returning from a sift with every pair in order.
LEMMA ReturnStep ==
  ASSUME IdxFits, HeapInv, phase # "idle", PlaceNode, ToIdle,
         \A c \in 1 .. size - 1 : key[arr'[mh_parent(c)]] <= key[arr'[c]]
  PROVE  HeapInv'
<1>1. phase' = "idle" /\ hole' = -1 /\ node' = NULL /\ start' = -1
  BY DEF ToIdle
<1>2. TypeOK'
  BY <1>1, PlaceMap DEF HeapInv, TypeOK
<1>3. HoleInv'
  BY <1>1 DEF HoleInv
<1>4. MapInv'
  <2>1. \A j \in 0 .. size - 1 : arr'[j] \in Nodes /\ idx'[arr'[j]] = j + 1
    BY PlaceMap
  <2>2. \A x \in Nodes : idx'[x] # 0 =>
          idx'[x] <= size /\ idx'[x] - 1 # -1 /\ arr'[idx'[x] - 1] = x
    <3> SUFFICES ASSUME NEW x \in Nodes, idx'[x] # 0
                 PROVE  /\ idx'[x] <= size /\ idx'[x] - 1 # -1
                        /\ arr'[idx'[x] - 1] = x
      OBVIOUS
    <3>1. /\ idx'[x] - 1 \in 0 .. size - 1 /\ arr'[idx'[x] - 1] = x
          /\ idx' \in [Nodes -> 0 .. IdxMod - 1]
      BY PlaceMap
    <3>2. idx'[x] \in Int /\ size \in Int
      BY <3>1, IdxModAssumption DEF HeapInv, TypeOK
    <3> QED BY <3>1, <3>2
  <2>3. size' = size
    BY PlaceMap
  <2> QED BY <1>1, <2>1, <2>2, <2>3, NodesAssumption DEF MapInv
<1>5. OrderInv' /\ BridgeInv' /\ UpInv' /\ DownInv'
  BY <1>1, PlaceMap DEF OrderInv, BridgeInv, UpInv, DownInv
<1> QED BY <1>2, <1>3, <1>4, <1>5 DEF HeapInv

\* Pairs that the placed node forms, with its parent and with its children.
LEMMA PlaceOrder ==
  ASSUME IdxFits, HeapInv, phase # "idle", PlaceNode,
         hole > 0 => key[arr[mh_parent(hole)]] <= key[node],
         NEW c \in 1 .. size - 1,
         mh_parent(c) = hole => key[node] <= key[arr[c]]
  PROVE  key[arr'[mh_parent(c)]] <= key[arr'[c]]
<1>1. /\ c \in 0 .. size - 1 /\ mh_parent(c) \in 0 .. size - 1
      /\ mh_parent(c) # c /\ hole \in 0 .. size - 1
  BY HoleFacts
<1>2. /\ arr'[hole] = node
      /\ \A j \in 0 .. size - 1 : j # hole => arr'[j] = arr[j]
  BY PlaceMap
<1>3. CASE c = hole
  BY <1>1, <1>2, <1>3
<1>4. CASE mh_parent(c) = hole
  BY <1>1, <1>2, <1>4
<1>5. CASE c # hole /\ mh_parent(c) # hole
  BY <1>1, <1>2, <1>5 DEF HeapInv, OrderInv
<1> QED BY <1>3, <1>4, <1>5

\* mh_sift_down ends in a heap without a hole.
LEMMA SiftDownPlaceStep ==
  ASSUME IdxFits, HeapInv, SiftDownPlace
  PROVE  HeapInv'
<1>0. phase = "down" /\ phase # "idle" /\ PlaceNode /\ ToIdle
  BY DEF SiftDownPlace
<1>1. hole > 0 => key[arr[mh_parent(hole)]] <= key[node]
  BY <1>0 DEF HeapInv, DownInv
<1>2. ASSUME NEW c \in 1 .. size - 1, mh_parent(c) = hole
      PROVE  key[node] <= key[arr[c]]
  <2>1. /\ size \in Nat /\ hole \in Nat /\ c \in 0 .. size - 1 /\ c # hole
        /\ c \in Slots /\ c < size
    BY <1>0, <1>2, HoleFacts
  <2>2. 4 * hole + 1 <= c /\ c <= 4 * hole + 4
    BY <1>2, <2>1, ParentChild
  <2>3. key[arr[c]] >= key[node]
    BY <2>1, <2>2 DEF SiftDownPlace, Children
  <2>4. key[node] \in Nat /\ key[arr[c]] \in Nat
    BY <1>0, <2>1, HoleFacts
  <2> QED BY <2>3, <2>4
<1>3. \A c \in 1 .. size - 1 : key[arr'[mh_parent(c)]] <= key[arr'[c]]
  BY <1>0, <1>1, <1>2, PlaceOrder
<1> QED BY <1>0, <1>3, ReturnStep

\* The sift up of an update or a removal is over: the sift down starts where
\* it started, on whatever node is there now.
LEMMA EnterDownStep ==
  ASSUME IdxFits, HeapInv, phase # "idle", PlaceNode, CallSift("down", start),
         hole > 0 => key[arr[mh_parent(hole)]] <= key[node],
         hole # start =>
           \A c \in 1 .. size - 1 : mh_parent(c) = hole => key[node] <= key[arr[c]]
  PROVE  HeapInv'
<1>0. /\ start \in 0 .. size - 1 /\ size \in Nat /\ start \in Slots
      /\ hole \in 0 .. size - 1
  BY HoleFacts
<1>1. /\ phase' = "down" /\ hole' = start /\ node' = arr'[start] /\ start' = start
      /\ size' = size /\ key' = key
  <2>1. size' = size /\ key' = key
    BY PlaceMap
  <2>2. start >= 0 /\ start < size'
    BY <1>0, <2>1
  <2> QED BY <2>1, <2>2 DEF CallSift
<1>2. \A j \in 0 .. size - 1 : arr'[j] \in Nodes /\ idx'[arr'[j]] = j + 1
  BY PlaceMap
<1>3. \A x \in Nodes : idx'[x] # 0 =>
        idx'[x] - 1 \in 0 .. size - 1 /\ arr'[idx'[x] - 1] = x
  BY PlaceMap
<1>4. \A x \in Nodes : idx'[x] \in Nat
  BY PlaceMap, IdxModAssumption
<1>5. TypeOK'
  BY <1>0, <1>1, <1>2, PlaceMap DEF HeapInv, TypeOK
<1>6. HoleInv'
  BY <1>0, <1>1, <1>2 DEF HoleInv
<1>7. MapInv'
  <2>1. \A j \in 0 .. size - 1 : j # start => arr'[j] # arr'[start]
    BY <1>0, <1>2
  <2>2. \A x \in Nodes : idx'[x] # 0 /\ x # arr'[start] =>
          idx'[x] <= size /\ idx'[x] - 1 # start /\ arr'[idx'[x] - 1] = x
    BY <1>0, <1>3, <1>4
  <2> QED BY <1>1, <1>2, <2>1, <2>2 DEF MapInv
<1>8. \A c \in 1 .. size - 1 :
        mh_parent(c) \in 0 .. size - 1 /\ mh_parent(c) < c /\ c \in 0 .. size - 1
  BY <1>0, HoleFacts
<1>9. \A j \in 0 .. size - 1 : key[arr'[j]] \in Nat
  BY <1>2, KeysAssumption DEF HeapInv, TypeOK
<1>10. \A c \in 1 .. size - 1 : hole # start \/ mh_parent(c) # hole =>
         key[arr'[mh_parent(c)]] <= key[arr'[c]]
  BY PlaceOrder
<1>11. OrderInv'
  <2> SUFFICES ASSUME NEW c \in 1 .. size - 1, c # start, mh_parent(c) # start
               PROVE  key[arr'[mh_parent(c)]] <= key[arr'[c]]
    BY <1>1 DEF OrderInv
  <2> QED BY <1>10
<1>12. BridgeInv'
  <2> SUFFICES ASSUME NEW c \in 1 .. size - 1, start > 0, mh_parent(c) = start
               PROVE  key[arr'[mh_parent(start)]] <= key[arr'[c]]
    BY <1>1 DEF BridgeInv
  <2>1. /\ start \in 1 .. size - 1 /\ mh_parent(start) \in 0 .. size - 1
        /\ mh_parent(start) # start /\ c # start /\ c \in 0 .. size - 1
    BY <1>0, <1>8
  <2>2. CASE hole = start
    <3>1. \A j \in 0 .. size - 1 : j # hole => arr'[j] = arr[j]
      BY PlaceMap
    <3>2. arr'[mh_parent(start)] = arr[mh_parent(start)] /\ arr'[c] = arr[c]
      BY <2>1, <2>2, <3>1
    <3> QED BY <2>2, <3>2 DEF HeapInv, BridgeInv
  <2>3. CASE hole # start
    <3>1. /\ key[arr'[mh_parent(start)]] <= key[arr'[start]]
          /\ key[arr'[start]] <= key[arr'[c]]
      BY <1>10, <2>1, <2>3
    <3>2. /\ key[arr'[mh_parent(start)]] \in Nat /\ key[arr'[start]] \in Nat
          /\ key[arr'[c]] \in Nat
      BY <1>9, <2>1, <1>0
    <3> QED BY <3>1, <3>2
  <2> QED BY <2>2, <2>3
<1>13. UpInv'
  BY <1>1 DEF UpInv
<1>14. DownInv'
  <2> SUFFICES ASSUME start > 0
               PROVE  key[arr'[mh_parent(start)]] <= key[arr'[start]]
    BY <1>1 DEF DownInv
  <2>1. start \in 1 .. size - 1 /\ mh_parent(start) # start
    BY <1>0, <1>8
  <2> QED BY <1>10, <2>1
<1> QED BY <1>5, <1>6, <1>7, <1>11, <1>12, <1>13, <1>14 DEF HeapInv

\* mh_sift_up ends in a heap without a hole, or in the sift down it precedes.
LEMMA SiftUpPlaceStep ==
  ASSUME IdxFits, HeapInv, SiftUpPlace
  PROVE  HeapInv'
<1>0. phase \in {"up", "updown"} /\ phase # "idle" /\ PlaceNode
  BY DEF SiftUpPlace
<1>1. hole > 0 => key[arr[mh_parent(hole)]] <= key[node]
  <2> SUFFICES ASSUME hole > 0 PROVE key[arr[mh_parent(hole)]] <= key[node]
    OBVIOUS
  <2>1. hole \in 1 .. size - 1
    BY <1>0, HoleFacts
  <2>2. key[arr[mh_parent(hole)]] \in Nat /\ key[node] \in Nat
    BY <1>0, <2>1, HoleFacts
  <2>3. ~(key[node] < key[arr[mh_parent(hole)]])
    BY DEF SiftUpPlace, RisesAbove
  <2> QED BY <2>2, <2>3
<1>2. CASE phase = "up"
  <2>1. \A c \in 1 .. size - 1 : key[arr'[mh_parent(c)]] <= key[arr'[c]]
    BY <1>0, <1>1, <1>2, PlaceOrder DEF HeapInv, UpInv
  <2> QED BY <1>0, <1>2, <2>1, ReturnStep DEF SiftUpPlace
<1>3. CASE phase = "updown"
  <2>1. hole # start =>
          \A c \in 1 .. size - 1 : mh_parent(c) = hole => key[node] <= key[arr[c]]
    BY <1>3 DEF HeapInv, UpInv
  <2> QED BY <1>0, <1>1, <1>3, <2>1, EnterDownStep DEF SiftUpPlace
<1> QED BY <1>0, <1>2, <1>3

-----------------------------------------------------------------------------
(* The theorems.                                                           *)

\* Every step of every heap operation keeps the invariant.
LEMMA NextHeapInv ==
  ASSUME IdxFits, ~RekeyFull, HeapInv, [Next]_vars
  PROVE  HeapInv'
<1>1. CASE UNCHANGED vars
  BY <1>1 DEF vars, HeapInv, TypeOK, HoleInv, MapInv, OrderInv, BridgeInv,
              UpInv, DownInv
<1>2. CASE \E n \in Nodes, k \in Keys : mh_insert(n, k)
  BY <1>2, InsertFullStep, InsertUpdateStep, InsertNewStep DEF mh_insert
<1>3. CASE mh_extract_min
  BY <1>3, ExtractStep
<1>4. CASE \E n \in Nodes : mh_delete_node(n)
  BY <1>4, DeleteStep
<1>5. CASE SiftUpMove
  BY <1>5, SiftUpMoveStep
<1>6. CASE SiftUpPlace
  BY <1>6, SiftUpPlaceStep
<1>7. CASE SiftDownMove
  BY <1>7, SiftDownMoveStep
<1>8. CASE SiftDownPlace
  BY <1>8, SiftDownPlaceStep
<1> QED BY <1>1, <1>2, <1>3, <1>4, <1>5, <1>6, <1>7, <1>8 DEF Next

\* The state of minheap.c around a running sift, for every capacity that
\* fits idx: the inductive invariant the other theorems rest on.
THEOREM HeapInvariant ==
  ASSUME IdxFits, ~RekeyFull
  PROVE  Spec => []HeapInv
<1>1. Init => HeapInv
  BY InitHeapInv
<1>2. HeapInv /\ [Next]_vars => HeapInv'
  BY NextHeapInv
<1> QED BY <1>1, <1>2, PTL DEF Spec

\* Type correctness of the heap, of its hole and of the idx fields.
THEOREM TypeCorrect ==
  ASSUME IdxFits, ~RekeyFull
  PROVE  Spec => []TypeOK
<1>1. HeapInv => TypeOK
  BY DEF HeapInv
<1> QED BY <1>1, HeapInvariant, PTL

\* Whenever no operation is running, mh_insert, mh_delete_node and
\* mh_extract_min have left every node at or above its parent's key.
THEOREM OrderCorrect ==
  ASSUME IdxFits, ~RekeyFull
  PROVE  Spec => []HeapOrder
<1>1. HeapInv => HeapOrder
  BY IdleFacts DEF HeapOrder
<1> QED BY <1>1, HeapInvariant, PTL

\* Whenever no operation is running, the idx field mh_map_get reads is the
\* position of the node, and 0 exactly for the nodes outside the heap.
THEOREM IndexCorrect ==
  ASSUME IdxFits, ~RekeyFull
  PROVE  Spec => []IndexMap
<1>1. HeapInv => IndexMap
  <2> SUFFICES ASSUME HeapInv, phase = "idle" PROVE IndexMap
    BY DEF IndexMap
  <2>1. size \in Nat /\ \A n \in Nodes : idx[n] \in Nat
    BY IdxModAssumption DEF HeapInv, TypeOK
  <2> QED BY <2>1, IdleFacts DEF IndexMap
<1> QED BY <1>1, HeapInvariant, PTL

-----------------------------------------------------------------------------
(* The refinement of PriorityQueue.                                        *)

LEMMA LeastNatural ==
  ASSUME NEW A \in SUBSET Nat, A # {}
  PROVE  \E m \in A : \A n \in A : m <= n
<1>1. PICK m \in A : \A n \in A : ~(<<n, m>> \in OpToRel(<, Nat))
  BY NatLessThanWellFounded, WFMin
<1>2. \A n \in A : <<n, m>> \in OpToRel(<, Nat) <=> n < m
  BY DEF OpToRel
<1>3. \A n \in A : ~(n < m)
  BY <1>1, <1>2
<1>4. \A n \in A : m <= n
  BY <1>3
<1> QED BY <1>4

\* The nodes in the heap are the sifted one and those with a position.
ContentInv ==
  /\ Content \subseteq Nodes
  /\ \A n \in Nodes : n \in Content <=> n = node \/ idx[n] # 0
  /\ Cardinality(Content) = size

LEMMA ContentFacts == HeapInv => ContentInv
<1> SUFFICES ASSUME HeapInv PROVE ContentInv
  OBVIOUS
<1> USE CapacityAssumption, IdxModAssumption, NodesAssumption
<1>a. size \in Nat /\ idx \in [Nodes -> Nat] /\ hole \in Int
  BY DEF HeapInv, TypeOK, Slots
<1>b. (hole = -1 /\ node = NULL) \/ (hole \in 0 .. size - 1 /\ node \in Nodes)
  BY DEF HeapInv, HoleInv
<1>c. /\ \A i \in 0 .. size - 1 : i # hole => arr[i] \in Nodes /\ arr[i] # node /\ idx[arr[i]] = i + 1
      /\ \A n \in Nodes : idx[n] # 0 /\ n # node =>
           idx[n] <= size /\ idx[n] - 1 # hole /\ arr[idx[n] - 1] = n
  BY DEF HeapInv, MapInv
<1> DEFINE F(i) == IF i = hole THEN node ELSE arr[i]
           C == {F(i) : i \in 0 .. size - 1}
           f == [i \in 0 .. size - 1 |-> F(i)]
<1>1. \A i \in 0 .. size - 1 : F(i) \in Nodes
  BY <1>b, <1>c
<1>2. \A i, j \in 0 .. size - 1 : F(i) = F(j) => i = j
  BY <1>a, <1>b, <1>c
<1>3. C \subseteq Nodes
  BY <1>1
<1>4. ASSUME NEW n \in Nodes PROVE n \in C <=> n = node \/ idx[n] # 0
  <2>1. CASE n = node
    BY <1>b, <2>1
  <2>2. CASE n # node /\ idx[n] # 0
    <3>1. idx[n] - 1 \in 0 .. size - 1 /\ F(idx[n] - 1) = n
      BY <1>a, <1>c, <2>2
    <3> QED BY <2>2, <3>1
  <2>3. CASE n # node /\ idx[n] = 0
    BY <1>a, <1>c, <2>3
  <2> QED BY <2>1, <2>2, <2>3
<1>5. Content = C
  BY DEF Content
<1> HIDE DEF F
<1>6. f \in Bijection(0 .. size - 1, C)
  <2>1. f \in [0 .. size - 1 -> C]
    OBVIOUS
  <2>2. \A i, j \in 0 .. size - 1 : f[i] = f[j] => i = j
    BY <1>2
  <2>3. \A c \in C : \E i \in 0 .. size - 1 : f[i] = c
    OBVIOUS
  <2> HIDE DEF f, C
  <2> QED BY <2>1, <2>2, <2>3 DEF Bijection, Injection, Surjection, IsInjective
<1>7. IsFiniteSet(0 .. size - 1) /\ Cardinality(0 .. size - 1) = size
  <2>1. 0 \in Int /\ size - 1 \in Int
    BY <1>a
  <2>2. /\ IsFiniteSet(0 .. size - 1)
        /\ Cardinality(0 .. size - 1) = IF 0 > size - 1 THEN 0 ELSE (size - 1) - 0 + 1
    BY <2>1, FS_Interval
  <2> QED BY <1>a, <2>2
<1>8. ExistsBijection(0 .. size - 1, C)
  BY <1>6 DEF ExistsBijection
<1> HIDE DEF f, C
<1>9. Cardinality(C) = size
  BY <1>7, <1>8, FS_Bijection
<1> QED BY <1>3, <1>4, <1>5, <1>9 DEF ContentInv

LEMMA ContentFactsNext == HeapInv' => ContentInv'
  BY ContentFacts, PTL

\* Between operations no node is smaller than the one at the root.
LEMMA RootIsMin ==
  ASSUME HeapInv, phase = "idle", size > 0
  PROVE  /\ arr[0] \in Content
         /\ \A n \in Content : key[arr[0]] <= key[n]
<1>k. \A k \in Keys : k \in Nat
  BY KeysAssumption
<1>t. size \in 0 .. Capacity /\ key \in [Nodes -> Keys]
  BY DEF HeapInv, TypeOK
<1>a. size \in Nat /\ \A n \in Nodes : key[n] \in Nat
  BY <1>k, <1>t, CapacityAssumption
<1>0. size \in Nat /\ \A i \in 0 .. size - 1 : arr[i] \in Nodes /\ key[arr[i]] \in Nat
  BY <1>a, IdleFacts
<1>1. hole = -1 /\ \A i \in 1 .. size - 1 :
        mh_parent(i) \in 0 .. size - 1 /\ mh_parent(i) < i /\ key[arr[mh_parent(i)]] <= key[arr[i]]
  BY <1>0, IdleFacts, ParentChild
<1>2. Content = {arr[i] : i \in 0 .. size - 1}
  BY <1>1 DEF Content
<1> DEFINE Bad == {i \in Nat : i < size /\ key[arr[i]] < key[arr[0]]}
<1>3. Bad = {}
  <2>1. SUFFICES ASSUME Bad # {} PROVE FALSE
    OBVIOUS
  <2>2. PICK m \in Bad : \A n \in Bad : m <= n
    BY <2>1, LeastNatural
  <2>3. m \in Nat /\ m < size /\ key[arr[m]] < key[arr[0]]
    OBVIOUS
  <2>4. m \in 1 .. size - 1
    BY <1>0, <2>3
  <2> DEFINE q == mh_parent(m)
  <2>5. q \in 0 .. size - 1 /\ q < m /\ key[arr[q]] <= key[arr[m]]
    BY <1>1, <2>4
  <2> HIDE DEF q, Bad
  <2>6. q \notin Bad
    BY <2>2, <2>3, <2>5
  <2>7. key[arr[q]] < key[arr[0]]
    BY <1>0, <2>3, <2>4, <2>5
  <2> QED BY <1>0, <2>5, <2>6, <2>7 DEF Bad
<1>4. \A i \in 0 .. size - 1 : key[arr[0]] <= key[arr[i]]
  <2> TAKE i \in 0 .. size - 1
  <2>1. i \in Nat /\ i < size /\ 0 \in 0 .. size - 1
    BY <1>0
  <2>2. ~(key[arr[i]] < key[arr[0]])
    BY <1>3, <2>1
  <2> QED BY <1>0, <2>1, <2>2
<1> QED BY <1>0, <1>2, <1>4

\* An insertion is one of the queue, up to its first sift.
LEMMA SameCardinality == \A S : PQ!Cardinality(S) = Cardinality(S)
  BY DEF PQ!Cardinality, Cardinality, PQ!IsFiniteSet, IsFiniteSet

LEMMA InsertRefines ==
  ASSUME IdxFits, ~RekeyFull, HeapInv, HeapInv', NEW n \in Nodes, NEW k \in Keys, mh_insert(n, k)
  PROVE  PQ!Insert(n, k) \/ PQ!Refuse(n, k)
<1> USE CapacityAssumption, NodesAssumption
<1>0. /\ phase = "idle" /\ node = NULL /\ key' = [key EXCEPT ![n] = k]
      /\ size \in Nat /\ idx \in [Nodes -> Nat]
  BY IdleFacts, IdxModAssumption DEF mh_insert, InsertFull, InsertUpdate, InsertNew, HeapInv, TypeOK
<1>1. /\ Content \subseteq Nodes /\ Cardinality(Content) = size
      /\ \A m \in Nodes : m \in Content <=> idx[m] # 0
  BY <1>0, ContentFacts DEF ContentInv
<1>2. /\ Content' \subseteq Nodes
      /\ \A m \in Nodes : m \in Content' <=> m = node' \/ idx'[m] # 0
  BY ContentFactsNext DEF ContentInv
<1>3. CASE InsertFull(n, k)
  <2>1. idx[n] = 0 /\ size >= Capacity /\ ret' = "error" /\ UNCHANGED <<arr, size, hole, node>>
    BY <1>3 DEF InsertFull, sift
  <2>2. Content' = Content
    BY <2>1 DEF Content
  <2> QED BY <1>0, <1>1, <2>1, <2>2, SameCardinality DEF PQ!Refuse
<1>4. CASE InsertUpdate(n, k)
  <2>1. idx[n] # 0 /\ ret' = "ok" /\ idx' = idx /\ size' = size
    BY <1>0, <1>4 DEF InsertUpdate, mh_map_get
  <2>2. node' \in {n, NULL}
    <3>1. arr' = arr /\ CallSift("updown", idx[n] - 1) /\ arr[idx[n] - 1] = n
      BY <1>0, <1>4, <2>1, IdleFacts DEF InsertUpdate, mh_map_get
    <3> QED BY <3>1 DEF CallSift, ToIdle
  <2>3. \A m \in Nodes : m \in Content' <=> m \in Content \cup {n}
    BY <1>1, <1>2, <2>1, <2>2
  <2>4. Content' = Content \cup {n}
    BY <1>1, <1>2, <2>3
  <2> QED BY <1>0, <1>1, <2>1, <2>4, SameCardinality DEF PQ!Insert
<1>5. CASE InsertNew(n, k)
  <2>1. /\ idx[n] = 0 /\ ret' = "ok" /\ idx' = [idx EXCEPT ![n] = mh_map_set(size)]
        /\ size < Capacity /\ arr' = [arr EXCEPT ![size] = n]
    BY <1>0, <1>5 DEF InsertNew, mh_map_get
  <2>2. mh_map_set(size) # 0
    BY <1>0, <2>1, MapSet DEF Slots
  <2>3. node' \in {n, NULL}
    <3>1. CallSift("up", size) /\ arr'[size] = n
      BY <1>0, <1>5, <2>1 DEF InsertNew, HeapInv, TypeOK, Slots
    <3> QED BY <3>1 DEF CallSift, ToIdle
  <2>4. \A m \in Nodes : m \in Content' <=> m \in Content \cup {n}
    BY <1>0, <1>1, <1>2, <2>1, <2>2, <2>3
  <2>5. Content' = Content \cup {n}
    BY <1>1, <1>2, <2>4
  <2> QED BY <1>0, <1>1, <2>1, <2>5, SameCardinality DEF PQ!Insert
<1> QED BY <1>3, <1>4, <1>5 DEF mh_insert

\* mh_extract_min takes a least node, mh_delete_node the one it is given.
LEMMA RemoveRefines ==
  ASSUME IdxFits, HeapInv, HeapInv',
         mh_extract_min \/ \E n \in Nodes : mh_delete_node(n)
  PROVE  PQ!ExtractMin \/ \E n \in Nodes : PQ!Delete(n)
<1> USE CapacityAssumption, NodesAssumption
<1>0. /\ phase = "idle" /\ hole = -1 /\ node = NULL /\ UNCHANGED key
      /\ size \in 0 .. Capacity /\ arr \in [Slots -> Nodes \cup {NULL}] /\ idx \in [Nodes -> Nat]
  BY IdleFacts, IdxModAssumption DEF mh_extract_min, mh_delete_node, HeapInv, TypeOK
<1>1. /\ Content \subseteq Nodes /\ \A m \in Nodes : m \in Content <=> idx[m] # 0
  BY <1>0, ContentFacts DEF ContentInv
<1>2. /\ Content' \subseteq Nodes
      /\ \A m \in Nodes : m \in Content' <=> m = node' \/ idx'[m] # 0
  BY ContentFactsNext DEF ContentInv
<1>3. ASSUME NEW n \in Nodes, n \in Content,
             \/ UNCHANGED node /\ idx' = [idx EXCEPT ![n] = 0]
             \/ \E z \in Content \ {n}, v \in Nat \ {0} :
                  idx' = [idx EXCEPT ![n] = 0, ![z] = v] /\ node' \in {z, NULL}
      PROVE  Content' = Content \ {n}
  <2>1. ASSUME NEW m \in Nodes PROVE m \in Content' <=> m \in Content \ {n}
    BY <1>0, <1>1, <1>2, <1>3
  <2> QED BY <1>1, <1>2, <2>1
<1>4. \A i \in 0 .. size - 1 : i \in Slots /\ arr[i] \in Nodes /\ arr[i] \in Content /\ idx[arr[i]] = i + 1
  BY <1>0, <1>1, IdleFacts DEF Slots
<1>5. ASSUME mh_extract_min PROVE PQ!ExtractMin
  <2>1. CASE size = 0 /\ UNCHANGED <<arr, size, idx, sift>>
    <3>1. Content = {} /\ Content' = Content /\ ret' = NULL
      BY <1>5, <2>1 DEF Content, sift, mh_extract_min, mh_get_min
    <3> QED BY <1>0, <3>1 DEF PQ!ExtractMin
  <2>2. ASSUME size > 0, Content' = Content \ {arr[0]} PROVE PQ!ExtractMin
    <3>1. ret' = arr[0]
      BY <1>0, <1>5, <2>2 DEF mh_extract_min, mh_get_min
    <3>2. arr[0] \in Content /\ \A m \in Content : key[arr[0]] <= key[m]
      BY <1>0, <2>2, RootIsMin
    <3> QED BY <1>0, <2>2, <3>1, <3>2 DEF PQ!ExtractMin, PQ!IsMin
  <2>3. CASE size = 1 /\ idx' = [idx EXCEPT ![arr[0]] = 0] /\ UNCHANGED sift
    <3>1. arr[0] \in Nodes /\ arr[0] \in Content
      BY <1>0, <1>4, <2>3
    <3>2. UNCHANGED node
      BY <2>3 DEF sift
    <3>3. Content' = Content \ {arr[0]}
      BY <1>3, <2>3, <3>1, <3>2
    <3>4. size > 0
      BY <2>3
    <3> QED BY <2>2, <3>3, <3>4
  <2>4. CASE /\ size > 1
             /\ size' = size - 1
             /\ arr' = [arr EXCEPT ![0] = arr[size - 1], ![size - 1] = NULL]
             /\ idx' = [idx EXCEPT ![arr[0]] = 0, ![arr[size - 1]] = mh_map_set(0)]
             /\ CallSift("down", 0)
    <3>1. arr[0] \in Content /\ arr[0] \in Nodes /\ arr[size - 1] \in Content \ {arr[0]}
      BY <1>0, <1>4, <2>4
    <3>2. mh_map_set(0) \in Nat \ {0}
      BY MapSet, IdxModAssumption DEF Slots
    <3>3. arr'[0] = arr[size - 1]
      BY <1>0, <2>4 DEF Slots
    <3>4. node' \in {arr[size - 1], NULL}
      BY <2>4, <3>3 DEF CallSift, ToIdle
    <3>5. Content' = Content \ {arr[0]}
      BY <1>3, <2>4, <3>1, <3>2, <3>4
    <3> QED BY <1>0, <2>2, <2>4, <3>5
  <2> QED BY <1>5, <2>1, <2>3, <2>4 DEF mh_extract_min
<1>6. ASSUME NEW n \in Nodes, mh_delete_node(n) PROVE PQ!Delete(n)
  <2> DEFINE i == mh_map_get(n)
  <2>1. ret' = NULL /\ i = idx[n] - 1 /\ i \in Int
    BY <1>0, <1>6 DEF mh_delete_node, mh_map_get
  <2>2. SUFFICES Content' = Content \ {n}
    BY <1>0, <2>1 DEF PQ!Delete
  <2>3. i >= 0 => i \in 0 .. size - 1 /\ arr[i] = n /\ n \in Content
    BY <1>0, <1>1, <2>1, IdleFacts
  <2>4. CASE (size = 0 \/ i < 0) /\ UNCHANGED <<arr, size, idx, sift>>
    <3>1. Content' = Content
      BY <2>4 DEF Content, sift
    <3>2. n \notin Content
      BY <1>0, <1>1, <2>1, <2>3, <2>4
    <3> QED BY <3>1, <3>2
  <2>5. CASE size > 0 /\ i = size - 1 /\ idx' = [idx EXCEPT ![n] = 0] /\ UNCHANGED sift
    <3>1. n \in Content /\ UNCHANGED node
      BY <1>0, <2>3, <2>5 DEF sift
    <3> QED BY <1>3, <2>5, <3>1
  <2>6. CASE /\ size > 0 /\ i >= 0 /\ i # size - 1
             /\ size' = size - 1
             /\ arr' = [arr EXCEPT ![i] = arr[size - 1], ![size - 1] = NULL]
             /\ idx' = [idx EXCEPT ![n] = 0, ![arr[size - 1]] = mh_map_set(i)]
             /\ CallSift("updown", i)
    <3>0. i \in 0 .. size - 1 /\ arr[i] = n /\ n \in Content /\ i \in Slots
      BY <1>4, <2>3, <2>6
    <3> HIDE DEF i
    <3>1. arr[size - 1] \in Content \ {n} /\ size - 1 \in Slots
      BY <1>0, <1>4, <2>6, <3>0
    <3>2. mh_map_set(i) \in Nat \ {0}
      BY <3>0, MapSet, IdxModAssumption
    <3>3. arr'[i] = arr[size - 1]
      BY <1>0, <2>6, <3>0, <3>1
    <3>4. node' \in {arr[size - 1], NULL}
      BY <2>6, <3>3 DEF CallSift, ToIdle
    <3> QED BY <1>3, <2>6, <3>0, <3>1, <3>2, <3>4
  <2> QED BY <1>6, <2>4, <2>5, <2>6 DEF mh_delete_node
<1> QED BY <1>5, <1>6

\* A sift changes neither what is in the queue nor what is returned.
LEMMA SiftRefines ==
  ASSUME IdxFits, HeapInv, HeapInv',
         SiftUpMove \/ SiftUpPlace \/ SiftDownMove \/ SiftDownPlace
  PROVE  UNCHANGED PQ!vars
<1> USE CapacityAssumption, NodesAssumption
<1>0. /\ UNCHANGED <<key, ret>> /\ phase # "idle"
      /\ hole \in 0 .. size - 1 /\ node \in Nodes /\ hole \in Slots /\ size \in 0 .. Capacity
      /\ idx \in [Nodes -> Nat]
  BY IdxModAssumption DEF SiftUpMove, SiftUpPlace, SiftDownMove, SiftDownPlace, MoveTo, PlaceNode,
     HeapInv, HoleInv, TypeOK, Slots
<1>1. /\ Content \subseteq Nodes /\ \A m \in Nodes : m \in Content <=> m = node \/ idx[m] # 0
  BY ContentFacts DEF ContentInv
<1>2. /\ Content' \subseteq Nodes
      /\ \A m \in Nodes : m \in Content' <=> m = node' \/ idx'[m] # 0
  BY ContentFactsNext DEF ContentInv
<1>3. mh_map_set(hole) # 0 /\ mh_map_set(hole) \in Nat
  BY <1>0, MapSet, IdxModAssumption
<1>4. \A i \in 0 .. size - 1 : i # hole => arr[i] \in Nodes /\ idx[arr[i]] # 0
  BY <1>0 DEF HeapInv, MapInv
<1>5. ASSUME NEW i \in 0 .. size - 1, i # hole, MoveTo(i) PROVE Content' = Content
  <2>1. idx' = [idx EXCEPT ![arr[i]] = mh_map_set(hole)] /\ node' = node
    BY <1>5 DEF MoveTo
  <2>2. arr[i] \in Nodes /\ idx[arr[i]] # 0
    BY <1>4, <1>5
  <2>3. \A m \in Nodes : idx'[m] # 0 <=> idx[m] # 0
    BY <1>0, <1>3, <2>1, <2>2
  <2> QED BY <1>1, <1>2, <2>1, <2>3
<1>6. ASSUME PlaceNode, ToIdle \/ CallSift("down", start) PROVE Content' = Content
  <2>1. /\ idx' = [idx EXCEPT ![node] = mh_map_set(hole)] /\ size' = size
        /\ arr' = [arr EXCEPT ![hole] = node] /\ arr \in [Slots -> Nodes \cup {NULL}]
    BY <1>6 DEF PlaceNode, HeapInv, TypeOK
  <2>2. \A m \in Nodes : m \in Content <=> idx'[m] # 0
    BY <1>0, <1>1, <1>3, <2>1
  <2>3. node' = NULL \/ (node' \in Nodes /\ idx'[node'] # 0)
    <3>1. CASE ToIdle
      BY <3>1 DEF ToIdle
    <3>2. CASE CallSift("down", start) /\ ~ToIdle
      <4>1. start \in 0 .. size - 1 /\ start \in Slots
        BY <1>0 DEF HeapInv, HoleInv, Slots
      <4>2. node' = arr'[start]
        BY <3>2 DEF CallSift
      <4>3. CASE start = hole
        BY <1>0, <1>1, <2>1, <2>2, <4>1, <4>2, <4>3
      <4>4. CASE start # hole
        <5>1. node' = arr[start]
          BY <1>0, <2>1, <4>1, <4>2, <4>4
        <5> QED BY <1>1, <1>4, <2>2, <4>1, <4>4, <5>1
      <4> QED BY <4>3, <4>4
    <3> QED BY <1>6, <3>1, <3>2
  <2> QED BY <1>1, <1>2, <2>2, <2>3
<1>7. Content' = Content
  <2>1. CASE SiftUpMove
    <3>1. hole > 0 /\ MoveTo(mh_parent(hole))
      BY <2>1 DEF SiftUpMove, RisesAbove
    <3>2. mh_parent(hole) \in 0 .. size - 1 /\ mh_parent(hole) # hole
      BY <1>0, <3>1, ParentChild
    <3> QED BY <1>5, <3>1, <3>2
  <2>2. CASE SiftDownMove
    <3>1. PICK c \in Children(hole) : MoveTo(c)
      BY <2>2 DEF SiftDownMove
    <3>2. c \in 0 .. size - 1 /\ c # hole
      BY <1>0 DEF Children, Slots
    <3> QED BY <1>5, <3>1, <3>2
  <2>3. CASE SiftUpPlace
    BY <1>6, <2>3 DEF SiftUpPlace
  <2>4. CASE SiftDownPlace
    BY <1>6, <2>4 DEF SiftDownPlace
  <2> QED BY <2>1, <2>2, <2>3, <2>4
<1> QED BY <1>0, <1>7 DEF PQ!vars

\* The heap of minheap.c implements the priority queue that minheap.h promises: every
\* step is a step of the queue or changes nothing a caller sees, and the node that
\* mh_extract_min returns has a least key among all that are in the heap.
THEOREM QueueRefined ==
  ASSUME IdxFits, ~RekeyFull
  PROVE  Spec => ImplementsPriorityQueue
<1>1. Init => PQ!Init
  BY DEF Init, mh_create, PQ!Init, Content
<1>2. HeapInv /\ HeapInv' /\ [Next]_vars => [PQ!Next]_PQ!vars
  <2> SUFFICES ASSUME HeapInv, HeapInv', [Next]_vars PROVE [PQ!Next]_PQ!vars
    OBVIOUS
  <2>1. CASE UNCHANGED vars
    BY <2>1 DEF vars, PQ!vars, Content
  <2>2. CASE \E n \in Nodes, k \in Keys : mh_insert(n, k)
    BY <2>2, InsertRefines DEF PQ!Next
  <2>3. CASE mh_extract_min \/ \E n \in Nodes : mh_delete_node(n)
    BY <2>3, RemoveRefines DEF PQ!Next
  <2>4. CASE SiftUpMove \/ SiftUpPlace \/ SiftDownMove \/ SiftDownPlace
    BY <2>4, SiftRefines
  <2> QED BY <2>1, <2>2, <2>3, <2>4 DEF Next
<1> QED BY <1>1, <1>2, HeapInvariant, PTL DEF Spec, ImplementsPriorityQueue, PQ!Spec
=============================================================================
