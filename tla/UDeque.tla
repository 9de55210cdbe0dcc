------------------------------- MODULE UDeque -------------------------------
(***************************************************************************)
(* udeque/udeque.c: a double-ended queue of data pointers over list/list.h.*)
(* Items are allocated by a push and belong to the caller after a pop.     *)
(* content is the promised sequence of data; memory is the set of items    *)
(* allocated and not freed.  malloc may fail in every call.                *)
(***************************************************************************)
EXTENDS SequencesExt, List

CONSTANTS Items, Data, Deq
VARIABLES deq,      \* whether the deque exists
          links, size, data, memory, popped, content

vars == <<deq, links, size, data, memory, popped, content>>

Init ==
  /\ deq = FALSE /\ size = 0 /\ memory = {} /\ popped = {} /\ content = <<>>
  /\ links = [next |-> [p \in Items \cup {Deq} |-> NULL], prev |-> [p \in Items \cup {Deq} |-> NULL]]
  /\ data = [i \in Items |-> NULL]

deque_create ==
  /\ ~deq
  /\ deq' = TRUE /\ links' = INIT_LIST_HEAD(links, Deq) /\ size' = 0
  /\ UNCHANGED <<data, memory, popped, content>>

\* With item = NULL malloc has failed: the call returns and nobody is told.
_deq_push(push_tail, item, d) ==
  /\ deq
  /\ IF item = NULL THEN UNCHANGED vars
     ELSE /\ memory' = memory \cup {item}
          /\ data' = [data EXCEPT ![item] = d]
          /\ links' = IF push_tail THEN list_add_tail(links, item, Deq) ELSE list_add(links, item, Deq)
          /\ size' = size + 1
          /\ content' = IF push_tail THEN Append(content, d) ELSE <<d>> \o content
          /\ UNCHANGED <<deq, popped>>

deq_isempty == size = 0

_deq_get(from_tail) ==
  IF deq_isempty THEN NULL ELSE IF from_tail THEN links.prev[Deq] ELSE links.next[Deq]

\* A slip: the size is not reduced.
PopKeepsSize(from_tail) ==
  /\ deq /\ ~deq_isempty
  /\ links' = list_del(links, _deq_get(from_tail))
  /\ popped' = popped \cup {_deq_get(from_tail)}
  /\ content' = IF from_tail THEN Front(content) ELSE Tail(content)
  /\ UNCHANGED <<deq, data, memory, size>>

_deq_pop(from_tail) ==
  LET item == _deq_get(from_tail)
  IN  /\ deq /\ ~deq_isempty
      /\ links' = list_del(links, item) /\ size' = size - 1
      /\ popped' = popped \cup {item}
      /\ content' = IF from_tail THEN Front(content) ELSE Tail(content)
      /\ UNCHANGED <<deq, data, memory>>

\* The owner of a popped item frees it.
FreePopped(item) ==
  /\ popped' = popped \ {item} /\ memory' = memory \ {item}
  /\ UNCHANGED <<deq, links, size, data, content>>

\* A slip: only the deque itself is freed.
FreeLeaksItems ==
  /\ deq
  /\ deq' = FALSE /\ content' = <<>>
  /\ UNCHANGED <<links, size, data, memory, popped>>

\* list_for_each_entry_safe frees what the links still reach.
deq_free ==
  /\ deq
  /\ deq' = FALSE
  /\ memory' = memory \ ToSet(Walk(links.next, links.next[Deq], Items).entries)
  /\ content' = <<>>
  /\ UNCHANGED <<links, size, data, popped>>

Next ==
  \/ deque_create
  \/ \E tail \in BOOLEAN, item \in (Items \ memory) \cup {NULL}, d \in Data : _deq_push(tail, item, d)
  \/ \E tail \in BOOLEAN : _deq_pop(tail)
  \/ \E item \in popped : FreePopped(item)
  \/ deq_free

Spec == Init /\ [][Next]_vars

\* The deque is the promised sequence, from both ends, although items are
\* allocated, popped by their owners and allocated again in any order: size
\* counts it and deq_get_head and deq_get_tail see its ends.
DequeAgrees ==
  deq => LET w == Walk(links.next, links.next[Deq], Items)
         IN  /\ w.end = Deq
             /\ [i \in DOMAIN w.entries |-> data[w.entries[i]]] = content
             /\ size = Len(content)
             /\ content # <<>> => /\ data[_deq_get(FALSE)] = Head(content)
                                  /\ data[_deq_get(TRUE)] = Last(content)

\* Every allocated item is in the deque or with the caller that popped it, never
\* both, so that deq_free leaves nothing behind and frees nothing twice.
ItemsOwned ==
  LET inside == IF deq THEN ToSet(Walk(links.next, links.next[Deq], Items).entries) ELSE {}
  IN  memory = inside \cup popped /\ inside \cap popped = {}
=============================================================================
