---------------------------- MODULE CircularList ----------------------------
(***************************************************************************)
(* Sequences of calls on the circular lists of the repository: those of    *)
(* hashtable-linux-kernel/list.h (lib = "kernel") or of list/list.h        *)
(* (lib = "list").  links is the memory the primitives write.  content is  *)
(* what the comments of the headers promise: the entries of each head in   *)
(* order, or Stale for a head that list_splice has left uninitialised.     *)
(***************************************************************************)
EXTENDS Sequences, SequencesExt, KernelList

CONSTANTS Heads, Entries, Stale
VARIABLES lib, links, content

vars == <<lib, links, content>>

Live == {h \in Heads : content[h] # Stale}
In(h) == IF h \in Live THEN ToSet(content[h]) ELSE {}
Unlinked == Entries \ UNION {In(h) : h \in Heads}

Init ==
  /\ lib \in {"kernel", "list"}
  /\ links = [next |-> [p \in Heads \cup Entries |-> IF p \in Heads THEN p ELSE NULL],
              prev |-> [p \in Heads \cup Entries |-> IF p \in Heads THEN p ELSE NULL]]
  /\ content = [h \in Heads |-> <<>>]

\* One call: what it does to the memory and what it promises of the contents.
Call(l, c) == links' = l /\ content' = c /\ UNCHANGED lib

Kernel == lib = "kernel"

Add(e, h) ==
  Call(IF Kernel THEN k_list_add(links, e, h) ELSE list_add(links, e, h),
       [content EXCEPT ![h] = <<e>> \o @])

AddTail(e, h) ==
  Call(IF Kernel THEN k_list_add_tail(links, e, h) ELSE list_add_tail(links, e, h),
       [content EXCEPT ![h] = Append(@, e)])

Without(h, e) == [content EXCEPT ![h] = SelectSeq(@, LAMBDA x : x # e)]

Del(e, h) == Call(IF Kernel THEN k_list_del(links, e) ELSE list_del(links, e), Without(h, e))

DelInit(e, h) == Kernel /\ Call(k_list_del_init(links, e), Without(h, e))

DelRange(a, b, h) ==
  LET i == CHOOSE k \in DOMAIN content[h] : content[h][k] = a
      j == CHOOSE k \in DOMAIN content[h] : content[h][k] = b
  IN  /\ Kernel /\ i <= j
      /\ Call(list_del_range(links, a, b),
              [content EXCEPT ![h] = SubSeq(@, 1, i - 1) \o SubSeq(@, j + 1, Len(@))])

Move(e, h, to) ==
  Kernel /\ Call(k_list_move(links, e, to), [Without(h, e) EXCEPT ![to] = <<e>> \o @])

MoveTail(e, h, to) ==
  Kernel /\ Call(k_list_move_tail(links, e, to), [Without(h, e) EXCEPT ![to] = Append(@, e)])

Replace(e, h, new, init) ==
  /\ Kernel
  /\ Call(IF init THEN k_list_replace_init(links, e, new) ELSE k_list_replace(links, e, new),
          [content EXCEPT ![h] = [i \in DOMAIN @ |-> IF @[i] = e THEN new ELSE @[i]]])

RotateLeft(h) ==
  /\ Kernel
  /\ Call(k_list_rotate_left(links, h),
          [content EXCEPT ![h] = IF @ = <<>> THEN @ ELSE Append(Tail(@), Head(@))])

\* Cut the entries up to e (none if e is the head itself) to the empty list.
CutPosition(list, h, e) ==
  LET n == IF e = h THEN 0 ELSE CHOOSE k \in DOMAIN content[h] : content[h][k] = e
  IN  /\ Kernel /\ content[list] = <<>>
      /\ Call(k_list_cut_position(links, list, h, e),
              [content EXCEPT ![list] = SubSeq(content[h], 1, n),
                              ![h] = SubSeq(@, n + 1, Len(@))])

\* A list that was not empty has lost its entries, and its head still points to them.
Splice(list, h) ==
  Call(IF Kernel THEN k_list_splice(links, list, h) ELSE list_splice(links, list, h),
       [content EXCEPT ![h] = content[list] \o @, ![list] = IF @ = <<>> THEN @ ELSE Stale])

SpliceTail(list, h) ==
  /\ Kernel
  /\ Call(k_list_splice_tail(links, list, h),
          [content EXCEPT ![h] = @ \o content[list], ![list] = IF @ = <<>> THEN @ ELSE Stale])

SpliceInit(list, h) ==
  Call(IF Kernel THEN k_list_splice_init(links, list, h) ELSE list_splice_init(links, list, h),
       [content EXCEPT ![h] = content[list] \o @, ![list] = <<>>])

SpliceTailInit(list, h) ==
  /\ Kernel
  /\ Call(k_list_splice_tail_init(links, list, h),
          [content EXCEPT ![h] = @ \o content[list], ![list] = <<>>])

InitHead(h) ==
  Call(IF Kernel THEN K_INIT_LIST_HEAD(links, h) ELSE INIT_LIST_HEAD(links, h),
       [content EXCEPT ![h] = <<>>])

Next ==
  \/ \E h \in Live, e \in Unlinked : Add(e, h) \/ AddTail(e, h)
  \/ \E h \in Live, e \in Entries :
       /\ e \in In(h)
       /\ \/ Del(e, h)
          \/ DelInit(e, h)
          \/ \E b \in In(h) : DelRange(e, b, h)
          \/ \E to \in Live : Move(e, h, to) \/ MoveTail(e, h, to)
          \/ \E new \in Unlinked, init \in BOOLEAN : Replace(e, h, new, init)
  \/ \E h \in Live : RotateLeft(h)
  \/ \E h \in Live : \E list \in Live \ {h} :
       \/ \E e \in In(h) \cup {h} : CutPosition(list, h, e)
       \/ Splice(list, h) \/ SpliceTail(list, h)
       \/ SpliceInit(list, h) \/ SpliceTailInit(list, h)
  \/ \E h \in Heads \ Live : InitHead(h)

Spec == Init /\ [][Next]_vars

\* Whatever calls were made, walking a live head forwards and backwards
\* (list_for_each_entry and its reverse) meets exactly the promised entries, in
\* order, and ends at the head; list_size counts them.
WalksAgree ==
  \A h \in Live :
    /\ Walk(links.next, links.next[h], Entries) = [entries |-> content[h], end |-> h]
    /\ Walk(links.prev, links.prev[h], Entries) = [entries |-> Reverse(content[h]), end |-> h]
    /\ list_size(links, h, Entries) = Len(content[h])
=============================================================================
