------------------------------- MODULE HTable -------------------------------
(***************************************************************************)
(* htable/htable.c: a hash table of buckets chained with the hlist of      *)
(* list/list.h.  Keys are numbers and the bucket is key % capacity.  map   *)
(* is what the header promises; memory is the set of nodes allocated.      *)
(***************************************************************************)
EXTENDS SequencesExt, List

CONSTANTS Nodes, Keys, Values, Capacities
VARIABLES capacity, chains, key, value, memory, map

vars == <<capacity, chains, key, value, memory, map>>

MaxBucket == CHOOSE m \in Capacities : \A c \in Capacities : c <= m
Cells == ({"first"} \X (0..MaxBucket)) \cup ({"next"} \X Nodes)

\* Freed memory holds nothing that may be read.
Blank == [cell |-> [x \in Cells |-> NULL], pprev |-> [n \in Nodes |-> NULL]]
Free(c, n) == [c EXCEPT !.cell[<<"next", n>>] = NULL, !.pprev[n] = NULL]

\* capacity = 0 while there is no table.
Init ==
  /\ capacity = 0 /\ memory = {} /\ map = [k \in Keys |-> NULL]
  /\ chains = Blank
  /\ key = [n \in Nodes |-> NULL] /\ value = [n \in Nodes |-> NULL]

htable_hash(k) == k % capacity

htable_find_node(k) ==
  LET chain == hlist_nodes(chains, htable_hash(k), Nodes).entries
      hits == {i \in DOMAIN chain : key[chain[i]] = k}
  IN  IF hits = {} THEN NULL ELSE chain[CHOOSE i \in hits : \A j \in hits : i <= j]

\* A capacity of 0 is refused; a failed malloc leaves nothing allocated.
htable_create(n) ==
  /\ capacity = 0 /\ n # 0
  /\ capacity' = n /\ chains' = Blank
  /\ UNCHANGED <<key, value, memory, map>>

htable_free ==
  /\ capacity # 0
  /\ memory' = memory \ UNION {ToSet(hlist_nodes(chains, b, Nodes).entries) : b \in 0..(capacity - 1)}
  /\ capacity' = 0 /\ chains' = Blank /\ map' = [k \in Keys |-> NULL]
  /\ key' = [n \in Nodes |-> NULL] /\ value' = [n \in Nodes |-> NULL]

\* A slip: an existing entry is not looked up.
SetAlwaysAdds(k, v, new) ==
  /\ capacity # 0 /\ new # NULL
  /\ key' = [key EXCEPT ![new] = k] /\ value' = [value EXCEPT ![new] = v]
  /\ chains' = hlist_add_head(chains, new, htable_hash(k))
  /\ memory' = memory \cup {new} /\ map' = [map EXCEPT ![k] = v]
  /\ UNCHANGED capacity

\* With new = NULL malloc fails: the value is dropped and nobody is told.
htable_set(k, v, new) ==
  LET entry == htable_find_node(k)
  IN  /\ capacity # 0
      /\ UNCHANGED capacity
      /\ \/ /\ entry # NULL
            /\ value' = [value EXCEPT ![entry] = v] /\ map' = [map EXCEPT ![k] = v]
            /\ UNCHANGED <<chains, key, memory>>
         \/ /\ entry = NULL /\ new = NULL
            /\ UNCHANGED <<chains, key, value, memory, map>>
         \/ /\ entry = NULL /\ new # NULL
            /\ key' = [key EXCEPT ![new] = k] /\ value' = [value EXCEPT ![new] = v]
            /\ chains' = hlist_add_head(chains, new, htable_hash(k))
            /\ memory' = memory \cup {new} /\ map' = [map EXCEPT ![k] = v]

htable_get(k) == IF htable_find_node(k) = NULL THEN NULL ELSE value[htable_find_node(k)]

htable_del(k) ==
  LET entry == htable_find_node(k)
  IN  /\ capacity # 0 /\ entry # NULL
      /\ chains' = Free(hlist_del(chains, entry), entry)
      /\ key' = [key EXCEPT ![entry] = NULL] /\ value' = [value EXCEPT ![entry] = NULL]
      /\ memory' = memory \ {entry} /\ map' = [map EXCEPT ![k] = NULL]
      /\ UNCHANGED capacity

Next ==
  \/ \E n \in Capacities : htable_create(n)
  \/ htable_free
  \/ \E k \in Keys, v \in Values, new \in (Nodes \ memory) \cup {NULL} : htable_set(k, v, new)
  \/ \E k \in Keys : htable_del(k)

Spec == Init /\ [][Next]_vars

\* A lookup returns what was last set and not deleted, for every key, whatever
\* other keys share its bucket and in whatever order they came and went.
TableIsMap == capacity # 0 => \A k \in Keys : htable_get(k) = map[k]

\* The chains hold exactly the allocated nodes, each once and in the bucket of its
\* key, and every pprev is the address of the pointer that leads to its node.
ChainsSound ==
  LET chain(b) == hlist_nodes(chains, b, Nodes)
      buckets == IF capacity = 0 THEN {} ELSE 0..(capacity - 1)
  IN  /\ memory = UNION {ToSet(chain(b).entries) : b \in buckets}
      /\ \A b \in buckets :
           /\ chain(b).end = NULL
           /\ \A n \in ToSet(chain(b).entries) :
                htable_hash(key[n]) = b /\ chains.cell[chains.pprev[n]] = n
=============================================================================
