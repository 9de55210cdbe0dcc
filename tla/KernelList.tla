----------------------------- MODULE KernelList -----------------------------
(***************************************************************************)
(* The list primitives of hashtable-linux-kernel/list.h as operators on    *)
(* the memory they write.  A circular list is a record l of two functions, *)
(* l.next and l.prev, over heads and entries.  A hash chain is a record c  *)
(* with the cells c.cell and the back pointers c.pprev: a cell is the      *)
(* address of a pointer, <<"first", bucket>> or <<"next", node>>, and      *)
(* pprev holds such an address.  EXCEPT assigns from left to right, in the *)
(* order of the C statements.                                              *)
(***************************************************************************)
EXTENDS List

CONSTANTS LIST_POISON1, LIST_POISON2

K_INIT_LIST_HEAD(l, h) == [l EXCEPT !.next[h] = h, !.prev[h] = h]

k__list_add(l, new, prev, next) ==
  [l EXCEPT !.prev[next] = new, !.next[new] = next, !.prev[new] = prev, !.next[prev] = new]

k_list_add(l, new, h) == k__list_add(l, new, h, l.next[h])

k_list_add_tail(l, new, h) == k__list_add(l, new, l.prev[h], h)

k__list_del(l, prev, next) == [l EXCEPT !.prev[next] = prev, !.next[prev] = next]

k__list_del_entry(l, e) == k__list_del(l, l.prev[e], l.next[e])

k_list_del(l, e) ==
  [k__list_del_entry(l, e) EXCEPT !.next[e] = LIST_POISON1, !.prev[e] = LIST_POISON2]

k_list_replace(l, old, new) ==
  LET a == [l EXCEPT !.next[new] = l.next[old], !.prev[l.next[old]] = new]
  IN  [a EXCEPT !.prev[new] = a.prev[old], !.next[a.prev[old]] = new]

k_list_replace_init(l, old, new) == K_INIT_LIST_HEAD(k_list_replace(l, old, new), old)

k_list_del_init(l, e) == K_INIT_LIST_HEAD(k__list_del_entry(l, e), e)

k_list_move(l, e, h) == k_list_add(k__list_del_entry(l, e), e, h)

k_list_move_tail(l, e, h) == k_list_add_tail(k__list_del_entry(l, e), e, h)

k_list_empty(l, h) == l.next[h] = h

k_list_is_singular(l, h) == ~k_list_empty(l, h) /\ l.next[h] = l.prev[h]

k_list_rotate_left(l, h) ==
  IF k_list_empty(l, h) THEN l ELSE k_list_move_tail(l, l.next[h], h)

\* A slip: the head is not linked to the rest of its entries.
CutLosesRest(l, list, h, e) ==
  [l EXCEPT !.next[list] = l.next[h], !.prev[l.next[h]] = list, !.prev[list] = e,
            !.next[e] = list, !.next[h] = l.next[e]]

k__list_cut_position(l, list, h, e) ==
  [l EXCEPT !.next[list] = l.next[h], !.prev[l.next[h]] = list, !.prev[list] = e,
            !.next[e] = list, !.next[h] = l.next[e], !.prev[l.next[e]] = h]

k_list_cut_position(l, list, h, e) ==
  IF \/ k_list_empty(l, h)
     \/ k_list_is_singular(l, h) /\ l.next[h] # e /\ h # e
  THEN l
  ELSE IF e = h THEN K_INIT_LIST_HEAD(l, list) ELSE k__list_cut_position(l, list, h, e)

k__list_splice(l, list, prev, next) ==
  LET first == l.next[list]
      last == l.prev[list]
  IN  [l EXCEPT !.prev[first] = prev, !.next[prev] = first, !.next[last] = next, !.prev[next] = last]

k_list_splice(l, list, h) ==
  IF k_list_empty(l, list) THEN l ELSE k__list_splice(l, list, h, l.next[h])

k_list_splice_tail(l, list, h) ==
  IF k_list_empty(l, list) THEN l ELSE k__list_splice(l, list, l.prev[h], h)

k_list_splice_init(l, list, h) ==
  IF k_list_empty(l, list) THEN l
  ELSE K_INIT_LIST_HEAD(k__list_splice(l, list, h, l.next[h]), list)

k_list_splice_tail_init(l, list, h) ==
  IF k_list_empty(l, list) THEN l
  ELSE K_INIT_LIST_HEAD(k__list_splice(l, list, l.prev[h], h), list)

list_del_range(l, begin, end) ==
  LET a == [l EXCEPT !.next[l.prev[begin]] = l.next[end]]
  IN  [a EXCEPT !.prev[a.next[end]] = a.prev[begin]]

\* *pprev = v
Store(c, pprev, v) == [c EXCEPT !.cell[pprev] = v]

\* A slip: the back pointer of the successor is not moved.
HlistDelStalePprev(c, n) == Store(c, c.pprev[n], c.cell[<<"next", n>>])

k__hlist_del(c, n) ==
  LET next == c.cell[<<"next", n>>]
      a == Store(c, c.pprev[n], next)
  IN  IF next = NULL THEN a ELSE [a EXCEPT !.pprev[next] = c.pprev[n]]

k_hlist_del(c, n) ==
  [k__hlist_del(c, n) EXCEPT !.cell[<<"next", n>>] = LIST_POISON1, !.pprev[n] = LIST_POISON2]

k_hlist_add_head(c, n, b) ==
  LET first == c.cell[<<"first", b>>]
      a == Store(c, <<"next", n>>, first)
      d == IF first = NULL THEN a ELSE [a EXCEPT !.pprev[first] = <<"next", n>>]
  IN  [Store(d, <<"first", b>>, n) EXCEPT !.pprev[n] = <<"first", b>>]
=============================================================================
