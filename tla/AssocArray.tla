----------------------------- MODULE AssocArray -----------------------------
(***************************************************************************)
(* hashtable-linux-kernel/assoc_array.c over hashtable.h and list.h: each  *)
(* entry is in a hash chain (hnode) and in a list in order of insertion    *)
(* (lnode).  A key is a sequence of bytes; its hash is a constant.  blocks *)
(* are the allocations of the array itself, memory the entries and keys    *)
(* the entries whose key buffer is allocated.  order is what the interface *)
(* promises: the entries, oldest first.                                    *)
(***************************************************************************)
EXTENDS SequencesExt, KernelList

CONSTANTS Entries, Keys, HashOf, Data, Bits, Arr
VARIABLES blocks, chains, links, size, key, data, memory, keys, order

vars == <<blocks, chains, links, size, key, data, memory, keys, order>>

Buckets == 0..(2^Bits - 1)
Exists == "arr" \in blocks

\* Freed and fresh memory holds nothing that may be read.
NoLinks == [p \in Entries \cup {Arr} |-> NULL]
NoChains == [cell |-> [x \in ({"first"} \X Buckets) \cup ({"next"} \X Entries) |-> NULL],
             pprev |-> [e \in Entries |-> NULL]]
Nothing == [e \in Entries |-> NULL]

Init ==
  /\ blocks = {} /\ size = 0 /\ memory = {} /\ keys = {} /\ order = <<>>
  /\ chains = NoChains /\ links = [next |-> NoLinks, prev |-> NoLinks]
  /\ key = Nothing /\ data = Nothing

calc_bkt(num, divisor) == num % divisor

hash_init(c) == [c EXCEPT !.cell = [x \in DOMAIN @ |-> IF x[1] = "first" THEN NULL ELSE @[x]]]

\* The allocations of ht_create that are left when the one named fault fails.
ht_create(fault) == IF fault \in {"ht", "table"} THEN {} ELSE {"ht", "table"}

array_create(fault) ==
  /\ blocks = {}
  /\ IF fault = "arr" \/ ht_create(fault) = {} THEN UNCHANGED vars
     ELSE /\ blocks' = {"arr"} \cup ht_create(fault)
          /\ chains' = hash_init(chains) /\ links' = K_INIT_LIST_HEAD(links, Arr) /\ size' = 0
          /\ UNCHANGED <<key, data, memory, keys, order>>

Chain(b) == hlist_nodes(chains, b, Entries).entries
Bucket(k) == calc_bkt(HashOf[k], 2^Bits)

\* memcmp over the size of the searched key: a longer stored key matches by its
\* prefix, and what lies beyond a shorter one compares as beyond says.
SameKey(e, k, beyond) ==
  \A i \in DOMAIN k : IF i \in DOMAIN key[e] THEN key[e][i] = k[i] ELSE beyond

\* A slip: the search goes on after a match.
GetOldest(k, beyond) ==
  LET hits == {i \in DOMAIN Chain(Bucket(k)) : SameKey(Chain(Bucket(k))[i], k, beyond)}
  IN  IF hits = {} THEN NULL ELSE Chain(Bucket(k))[CHOOSE i \in hits : \A j \in hits : i >= j]

array_get_by_key(k, beyond) ==
  LET hits == {i \in DOMAIN Chain(Bucket(k)) : SameKey(Chain(Bucket(k))[i], k, beyond)}
  IN  IF hits = {} THEN NULL ELSE Chain(Bucket(k))[CHOOSE i \in hits : \A j \in hits : i <= j]

\* The entry e with its key in place, linked into its chain and at the end of the list.
Linked(a, e, k, d) ==
  [a EXCEPT !.chains = k_hlist_add_head(@, e, Bucket(k)), !.links = k_list_add_tail(@, e, Arr),
            !.size = @ + 1, !.key[e] = k, !.data[e] = d,
            !.memory = @ \cup {e}, !.keys = @ \cup {e}, !.order = Append(@, e)]

\* The entry e out of both structures and freed with its key and data.
Unlinked(a, e) ==
  [a EXCEPT !.chains = k_hlist_del(@, e), !.links = k_list_del(@, e), !.size = @ - 1,
            !.key[e] = NULL, !.data[e] = NULL,
            !.memory = @ \ {e}, !.keys = @ \ {e}, !.order = SelectSeq(@, LAMBDA x : x # e)]

State == [chains |-> chains, links |-> links, size |-> size, key |-> key, data |-> data,
          memory |-> memory, keys |-> keys, order |-> order]

Become(a) ==
  /\ chains' = a.chains /\ links' = a.links /\ size' = a.size /\ key' = a.key /\ data' = a.data
  /\ memory' = a.memory /\ keys' = a.keys /\ order' = a.order /\ UNCHANGED blocks

\* malloc of the entry or of its key may fail: nothing is left of either.
Added(a, e, k, d, fault) == IF fault \in {"entry", "key"} THEN a ELSE Linked(a, e, k, d)

array_add(e, k, d, fault) == Exists /\ Become(Added(State, e, k, d, fault))

Deleted(a, k, beyond) ==
  LET e == array_get_by_key(k, beyond) IN IF e = NULL THEN a ELSE Unlinked(a, e)

array_del(k, beyond) == Exists /\ Become(Deleted(State, k, beyond))

\* A failed addition leaves the key deleted.
array_add_replace(e, k, d, fault, beyond) ==
  Exists /\ Become(Added(Deleted(State, k, beyond), e, k, d, fault))

_array_get_first(is_first) ==
  IF k_list_empty(links, Arr) \/ size = 0 THEN NULL
  ELSE IF is_first THEN links.next[Arr] ELSE links.prev[Arr]

_array_del_first(is_first) ==
  /\ Exists /\ ~k_list_empty(links, Arr) /\ size # 0
  /\ Become(Unlinked(State, _array_get_first(is_first)))

\* HT_FREE unlinks and frees what the chains reach, then the table.
array_free ==
  LET reached == UNION {ToSet(Chain(b)) : b \in Buckets}
  IN  /\ Exists
      /\ memory' = memory \ reached /\ keys' = keys \ reached
      /\ blocks' = {} /\ size' = 0 /\ order' = <<>>
      /\ chains' = NoChains /\ links' = [next |-> NoLinks, prev |-> NoLinks]
      /\ key' = Nothing /\ data' = Nothing

\* A slip: the first entry of a bucket counts as a collision, too.
CountsAll ==
  IF size = 0 THEN 0
  ELSE (MapThenSumSet(LAMBDA b : IF Len(Chain(b)) > 1 THEN Len(Chain(b)) ELSE 0, Buckets) * 100) \div size

array_collision_percent ==
  IF size = 0 THEN 0
  ELSE (MapThenSumSet(LAMBDA b : IF Len(Chain(b)) > 1 THEN Len(Chain(b)) - 1 ELSE 0, Buckets) * 100)
         \div size

Next ==
  \/ \E fault \in {"none", "arr", "ht", "table"} : array_create(fault)
  \/ \E e \in Entries \ memory, k \in Keys, d \in Data, fault \in {"none", "entry", "key"} :
       \/ array_add(e, k, d, fault)
       \/ \E beyond \in BOOLEAN : array_add_replace(e, k, d, fault, beyond)
  \/ \E k \in Keys, beyond \in BOOLEAN : array_del(k, beyond)
  \/ \E first \in BOOLEAN : _array_del_first(first)
  \/ array_free

Spec == Init /\ [][Next]_vars

\* The two structures never disagree: the list walked either way is the order of
\* insertion, the chains hold the same entries with sound back pointers, size counts
\* them, and exactly these are allocated, so that array_free, which walks only the
\* chains, leaves nothing behind.
StructuresAgree ==
  IF ~Exists THEN blocks = {} /\ memory = {} /\ keys = {}
  ELSE /\ Walk(links.next, links.next[Arr], Entries) = [entries |-> order, end |-> Arr]
       /\ Walk(links.prev, links.prev[Arr], Entries) = [entries |-> Reverse(order), end |-> Arr]
       /\ size = Len(order) /\ memory = ToSet(order) /\ keys = memory
       /\ UNION {ToSet(Chain(b)) : b \in Buckets} = memory
       /\ \A e \in memory : chains.cell[chains.pprev[e]] = e /\ e \in ToSet(Chain(Bucket(key[e])))

\* A lookup finds the entry that was added last under the key, and none if there is
\* none, although array_add adds a second entry under a key without complaint.
NewestFound ==
  Exists => \A k \in Keys, beyond \in BOOLEAN :
    LET same == SelectSeq(order, LAMBDA e : key[e] = k)
    IN  array_get_by_key(k, beyond) = IF same = <<>> THEN NULL ELSE Last(same)

\* The percentage is the share of entries that are not alone in their bucket, not
\* counting one per bucket.
CollisionsExact ==
  Exists /\ size > 0 =>
    array_collision_percent =
      ((size - Cardinality({Bucket(key[e]) : e \in memory})) * 100) \div size
=============================================================================
