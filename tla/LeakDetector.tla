---------------------------- MODULE LeakDetector ----------------------------
(***************************************************************************)
(* leak_detector_c/leak_detector.c: wrappers of the allocator that keep a  *)
(* record (MEMLEAK) of every block in a circular list with a static head.  *)
(* live are the blocks the program holds; lost those whose realloc failed. *)
(* status is "undefined" once the code dereferences NULL or frees its      *)
(* static head, and "ok" before; nothing is said of what follows.          *)
(***************************************************************************)
EXTENDS SequencesExt, List

CONSTANTS Records, Blocks, Hd
VARIABLES status, memleak_flag, links, address, records, live, lost, written

vars == <<status, memleak_flag, links, address, records, live, lost, written>>

Zero == [p \in Records \cup {Hd} |-> NULL]

Init ==
  /\ status = "ok" /\ memleak_flag = FALSE /\ records = {} /\ live = {} /\ lost = {}
  /\ links = [next |-> Zero, prev |-> Zero]   \* static storage
  /\ address = [r \in Records |-> NULL]
  /\ written = [blocks |-> {}, held |-> <<>>] \* the last report, and what it should have named

memleak_add_list_tail(l, new) ==
  [l EXCEPT !.prev[Hd] = new, !.next[new] = Hd, !.prev[new] = l.prev[Hd], !.next[l.prev[Hd]] = new]

del_memleak_list(l, e) ==
  [l EXCEPT !.prev[l.next[e]] = l.prev[e], !.next[l.prev[e]] = l.next[e], !.next[e] = NULL, !.prev[e] = NULL]

Chain == Walk(links.next, links.next[Hd], Records).entries
Addresses == [i \in DOMAIN Chain |-> address[Chain[i]]]

State == [links |-> links, address |-> address, records |-> records, flag |-> memleak_flag]

\* With add: the first record initialises the head.
add_mem_info(s, r, ptr) ==
  LET l == IF s.flag THEN s.links ELSE [s.links EXCEPT !.prev[Hd] = Hd, !.next[Hd] = Hd]
  IN  [links |-> memleak_add_list_tail(l, r), address |-> [s.address EXCEPT ![r] = ptr],
       records |-> s.records \cup {r}, flag |-> TRUE]

\* A slip: the search stops before the last record.
RemoveMissesLast(s, ptr) ==
  LET hits == {i \in 1..(Len(Chain) - 1) : Addresses[i] = ptr}
  IN  IF hits = {} THEN s
      ELSE LET e == Chain[CHOOSE i \in hits : \A j \in hits : i <= j]
           IN  [s EXCEPT !.links = del_memleak_list(@, e), !.address[e] = NULL, !.records = @ \ {e}]

\* The first record with the address, if there is one.
remove_mem_info(s, ptr) ==
  LET hits == {i \in DOMAIN Chain : Addresses[i] = ptr}
  IN  IF hits = {} THEN s
      ELSE LET e == Chain[CHOOSE i \in hits : \A j \in hits : i <= j]
           IN  [s EXCEPT !.links = del_memleak_list(@, e), !.address[e] = NULL, !.records = @ \ {e}]

Become(s) ==
  /\ links' = s.links /\ address' = s.address /\ records' = s.records /\ memleak_flag' = s.flag
  /\ UNCHANGED <<status, written>>

Undefined == status' = "undefined" /\ UNCHANGED <<memleak_flag, links, address, records, live, lost, written>>

\* xmalloc and xcalloc.  r = NULL: there is no memory for the record.
xmalloc(r, ptr) ==
  IF r = NULL THEN Undefined
  ELSE Become(add_mem_info(State, r, ptr)) /\ live' = live \cup {ptr} /\ UNCHANGED lost

\* realloc(ptr) gives ptr, another block or NULL; the outcome is recorded in every
\* case, and a block whose realloc failed stays allocated without a record.
xrealloc(r, ptr, new) ==
  IF r = NULL \/ ~memleak_flag THEN Undefined
  ELSE /\ Become(add_mem_info(remove_mem_info(State, ptr), r, new))
       /\ live' = IF new = NULL THEN live ELSE (live \ {ptr}) \cup {new}
       /\ lost' = IF new = NULL /\ ptr # NULL THEN lost \cup {ptr} ELSE lost \ {ptr, new}

xfree(ptr) ==
  IF ~memleak_flag THEN Undefined
  ELSE Become(remove_mem_info(State, ptr)) /\ live' = live \ {ptr} /\ lost' = lost \ {ptr}

\* The loop of report_mem_leak leaves the last record out.
Reported == {Addresses[i] : i \in 1..(Len(Chain) - 1)}

\* After the report clear() starts by freeing the head, unless the list is empty.
report_mem_leak(opened) ==
  IF ~memleak_flag THEN Undefined
  ELSE /\ written' = [blocks |-> IF opened THEN Reported ELSE {}, held |-> IF opened THEN Addresses ELSE <<>>]
       /\ status' = IF Chain = <<>> THEN "ok" ELSE "undefined"
       /\ UNCHANGED <<memleak_flag, links, address, records, live, lost>>

Next ==
  /\ status = "ok"
  /\ \/ \E r \in (Records \ records) \cup {NULL} :
          \/ \E b \in Blocks \ live : xmalloc(r, b)
          \/ \E b \in live \cup {NULL}, new \in (Blocks \ live) \cup {NULL} : xrealloc(r, b, new)
          \/ \E b \in live : xrealloc(r, b, b)
     \/ \E b \in live \cup {NULL} : xfree(b)
     \/ \E opened \in BOOLEAN : report_mem_leak(opened)

Spec == Init /\ [][Next]_vars

\* The list holds one record for every block the program holds, except those whose
\* realloc failed, and none for a block that was freed.
TracksLive ==
  LET tracked == {i \in DOMAIN Addresses : Addresses[i] # NULL}
  IN  status = "ok" /\ memleak_flag =>
        /\ {Addresses[i] : i \in tracked} = live \ lost
        /\ Cardinality(tracked) = Cardinality(live \ lost)
        /\ records = ToSet(Chain)

\* "writes all info of the unallocated memory into a file": a report that could be
\* written names every block that has a record (report_mem_leak).
ReportNamesAll == ToSet(written.held) \subseteq written.blocks
=============================================================================
