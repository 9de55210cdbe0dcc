------------------------------- MODULE SList --------------------------------
(***************************************************************************)
(* netlink_getlink/slist.h: singly linked lists with a tail pointer.       *)
(* content is the promised sequence of nodes.                              *)
(***************************************************************************)
EXTENDS SequencesExt, List

CONSTANT Nodes
VARIABLES head, tail, next, content

vars == <<head, tail, next, content>>

Init == head = NULL /\ tail = NULL /\ next = [n \in Nodes |-> NULL] /\ content = <<>>

Free == Nodes \ ToSet(content)
slist_empty == head = NULL

slist_add(new) ==
  /\ next' = [next EXCEPT ![new] = head]
  /\ head' = new
  /\ tail' = IF tail = NULL THEN new ELSE tail
  /\ content' = <<new>> \o content

slist_add_tail(new) ==
  /\ next' = IF ~slist_empty /\ tail # NULL THEN [next EXCEPT ![new] = NULL, ![tail] = new]
             ELSE [next EXCEPT ![new] = NULL]
  /\ head' = IF slist_empty THEN new ELSE head
  /\ tail' = new
  /\ content' = Append(content, new)

slist_del_head ==
  /\ ~slist_empty
  /\ head' = next[head]
  /\ tail' = IF next[head] = NULL THEN NULL ELSE tail
  /\ content' = Tail(content)
  /\ UNCHANGED next

\* A slip: the tail still points to the deleted node.
DelNextKeepsTail(prev) ==
  /\ next[prev] # NULL
  /\ next' = [next EXCEPT ![prev] = next[next[prev]]]
  /\ content' = SelectSeq(content, LAMBDA n : n # next[prev])
  /\ UNCHANGED <<head, tail>>

\* The node behind prev, which is in the list (prev = NULL is slist_del_head).
slist_del_next(prev) ==
  /\ next[prev] # NULL
  /\ next' = [next EXCEPT ![prev] = next[next[prev]]]
  /\ tail' = IF next[prev] = tail THEN prev ELSE tail
  /\ content' = SelectSeq(content, LAMBDA n : n # next[prev])
  /\ UNCHANGED head

\* Any node may be given; one that is not in the list is reported as not found.
slist_del_node(node) ==
  \/ head = node /\ slist_del_head
  \/ /\ head # NULL /\ head # node
     /\ \E prev \in ToSet(Walk(next, head, Nodes).entries) : next[prev] = node /\ slist_del_next(prev)

Next ==
  \/ \E n \in Free : slist_add(n) \/ slist_add_tail(n)
  \/ slist_del_head
  \/ \E n \in ToSet(content) : slist_del_next(n)
  \/ \E n \in Nodes : slist_del_node(n)

Spec == Init /\ [][Next]_vars

\* However nodes come and go at the head, at the tail and in the middle, the walk
\* is the promised sequence and tail is its last node, so that the next
\* slist_add_tail does not write into a node that has left the list.
TailIsLast ==
  /\ Walk(next, head, Nodes) = [entries |-> content, end |-> NULL]
  /\ tail = IF content = <<>> THEN NULL ELSE Last(content)
=============================================================================
