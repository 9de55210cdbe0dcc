-------------------------------- MODULE List --------------------------------
(***************************************************************************)
(* The list primitives of list/list.h, on the same memory as in KernelList *)
(* (l.next, l.prev for circular lists; c.cell, c.pprev for hash chains).   *)
(* Unlike the kernel's own, these leave the links of a deleted entry as    *)
(* they were.                                                              *)
(***************************************************************************)
EXTENDS Naturals, Sequences, FiniteSets

CONSTANT NULL

INIT_LIST_HEAD(l, h) == [l EXCEPT !.next[h] = h, !.prev[h] = h]

list__add(l, new, prev, next) ==
  [l EXCEPT !.prev[next] = new, !.next[new] = next, !.prev[new] = prev, !.next[prev] = new]

list_add(l, new, h) == list__add(l, new, h, l.next[h])

list_add_tail(l, new, h) == list__add(l, new, l.prev[h], h)

list_del(l, e) == [l EXCEPT !.prev[l.next[e]] = l.prev[e], !.next[l.prev[e]] = l.next[e]]

list_empty(l, h) == l.next[h] = h

\* The entries from p on, in the order of f, and what ends them.
Walk(f, p, Entries) ==
  LET at[i \in 0..Cardinality(Entries)] ==
        IF i = 0 THEN p ELSE IF at[i - 1] \in Entries THEN f[at[i - 1]] ELSE at[i - 1]
      len == Cardinality({i \in DOMAIN at : at[i] \in Entries})
  IN  [entries |-> [i \in 1..len |-> at[i - 1]], end |-> at[Cardinality(Entries)]]

list_size(l, h, Entries) == Len(Walk(l.next, l.next[h], Entries).entries)

list__splice(l, list, prev, next) ==
  LET first == l.next[list]
      last == l.prev[list]
  IN  [l EXCEPT !.prev[first] = prev, !.next[prev] = first, !.next[last] = next, !.prev[next] = last]

list_splice(l, list, h) ==
  IF list_empty(l, list) THEN l ELSE list__splice(l, list, h, l.next[h])

list_splice_init(l, list, h) ==
  IF list_empty(l, list) THEN l
  ELSE INIT_LIST_HEAD(list__splice(l, list, h, l.next[h]), list)

\* A slip: the first entry keeps its back pointer.
HlistAddNoPprev(c, n, b) ==
  [c EXCEPT !.cell[<<"next", n>>] = c.cell[<<"first", b>>], !.cell[<<"first", b>>] = n,
            !.pprev[n] = <<"first", b>>]

hlist_add_head(c, n, b) ==
  LET first == c.cell[<<"first", b>>]
      a == [c EXCEPT !.cell[<<"next", n>>] = first]
      d == IF first = NULL THEN a ELSE [a EXCEPT !.pprev[first] = <<"next", n>>]
  IN  [d EXCEPT !.cell[<<"first", b>>] = n, !.pprev[n] = <<"first", b>>]

hlist_del(c, n) ==
  LET next == c.cell[<<"next", n>>]
      a == [c EXCEPT !.cell[c.pprev[n]] = next]
  IN  IF next = NULL THEN a ELSE [a EXCEPT !.pprev[next] = c.pprev[n]]

\* hlist_for_each: the nodes of a chain, from its first cell on.
hlist_nodes(c, b, Nodes) ==
  Walk([n \in Nodes |-> c.cell[<<"next", n>>]], c.cell[<<"first", b>>], Nodes)
=============================================================================
