------------------------------- MODULE GetLink -------------------------------
(***************************************************************************)
(* netlink_getlink/libnl_getlink.c: the list of network devices, asked of  *)
(* the kernel over a socket that answers in several datagrams, may stay    *)
(* silent, fail, or report an error half way.  The attributes of a message *)
(* are abstracted to whether a device can be made of it.                   *)
(***************************************************************************)
EXTENDS Integers, Sequences, SequencesExt, FiniteSets

CONSTANTS
  Dumps,        \* what the kernel may answer: datagrams of messages, and its devices
  MaxMsgs,      \* messages of one datagram that are looked at: 100 in the code
  MaxCalls      \* bound: calls of get_netdev before the list is freed

VARIABLES pc, dump,
  got,          \* the datagrams received in this call
  list, prior,  \* the caller's list, and what it held before the call
  sockets, buffers, ret, calls,
  quiet, cut    \* whether the call timed out; whether memory or the limit cut it

vars == <<pc, dump, got, list, prior, sockets, buffers, ret, calls, quiet, cut>>

Init ==
  /\ pc = "idle" /\ dump \in Dumps /\ got = <<>> /\ list = <<>> /\ prior = <<>>
  /\ sockets = 0 /\ buffers = 0 /\ ret = 0 /\ calls = 0 /\ quiet = FALSE /\ cut = FALSE

\* get_netdev begins: the request is sent, or one of the steps fails and the socket,
\* if there is one, is closed.
send_msg ==
  /\ pc = "idle" /\ calls < MaxCalls
  /\ calls' = calls + 1 /\ prior' = list /\ got' = <<>> /\ quiet' = FALSE /\ cut' = FALSE
  /\ dump' \in Dumps
  /\ \/ pc' = "recv" /\ sockets' = sockets + 1 /\ ret' = 0
     \/ pc' = "idle" /\ sockets' = sockets /\ ret' = -1
  /\ UNCHANGED <<list, buffers>>

\* A slip: the socket is left open.
LeaveOpen(r) == pc' = "idle" /\ ret' = r /\ UNCHANGED sockets

Close(r) == pc' = "idle" /\ ret' = r /\ sockets' = sockets - 1

\* Silence for a second, a failure of select, of recvmsg or of an allocation, or a
\* datagram in a buffer; get_netdev frees the buffer of the first two.
recv_msg ==
  /\ pc = "recv"
  /\ \/ Close(0) /\ quiet' = TRUE /\ UNCHANGED <<got, buffers>>
     \/ Close(-1) /\ UNCHANGED <<got, buffers, quiet>>
     \/ /\ Len(got) < Len(dump.grams)
        /\ got' = Append(got, dump.grams[Len(got) + 1])
        /\ buffers' = buffers + 1 /\ pc' = "parse"
        /\ UNCHANGED <<sockets, ret, quiet>>
  /\ UNCHANGED <<dump, list, prior, calls, cut>>

\* The length and the type of a message are those of an Ethernet device, for which
\* memory is allocated; it is kept if the attributes hold a name and an address.
Allocates(m) == m.kind = "link" /\ m.ether

Usable(m) == Allocates(m) /\ m.named

Final(m) == m.kind \in {"error", "done"}

\* A slip: a message that is skipped ends the datagram.
StopAtSkip(g) ==
  LET stop == SelectInSeq(g, LAMBDA m : Final(m) \/ ~Usable(m))
      seen == IF stop > 0 THEN stop - 1 ELSE Len(g)
  IN  [seen |-> SubSeq(g, 1, seen), limited |-> FALSE,
       ret |-> IF stop = 0 \/ ~Final(g[stop]) THEN 1 ELSE IF g[stop].kind = "done" THEN 0 ELSE -1]

\* A slip: an error is taken for the end.
ErrorIsEnd(g) ==
  LET stop == SelectInSeq(g, Final)
      seen == IF stop > 0 THEN stop - 1 ELSE Len(g)
  IN  [seen |-> SubSeq(g, 1, seen), limited |-> FALSE, ret |-> IF stop = 0 THEN 1 ELSE 0]

\* The messages up to an error or the end, no more than the limit.
Parsed(g) ==
  LET h == SubSeq(g, 1, IF Len(g) > MaxMsgs + 1 THEN MaxMsgs + 1 ELSE Len(g))
      stop == SelectInSeq(h, Final)
      seen == IF stop > 0 THEN stop - 1 ELSE Len(h)
  IN  [seen |-> SubSeq(h, 1, seen), limited |-> stop = 0 /\ Len(g) > Len(h),
       ret |-> IF stop = 0 THEN 1 ELSE IF h[stop].kind = "done" THEN 0 ELSE -1]

\* Each device is allocated and added at the tail; the first allocation that fails
\* ends the call.
parse_recv_chunk ==
  LET p == Parsed(Last(got))
      Added(k) == list' = list \o SelectSeq(SubSeq(p.seen, 1, k), Usable)
  IN
  /\ pc = "parse"
  /\ buffers' = buffers - 1
  /\ \/ /\ Added(Len(p.seen))
        /\ cut' = (cut \/ p.limited)
        /\ IF p.ret <= 0 THEN Close(p.ret) ELSE pc' = "recv" /\ UNCHANGED <<sockets, ret>>
     \/ \E k \in DOMAIN p.seen :
          Allocates(p.seen[k]) /\ Added(k - 1) /\ cut' = TRUE /\ Close(-1)
  /\ UNCHANGED <<dump, got, prior, calls, quiet>>

free_netdev_list ==
  /\ pc = "idle"
  /\ list' = <<>> /\ prior' = <<>> /\ got' = <<>> /\ calls' = 0 /\ ret' = 0 /\ quiet' = TRUE
  /\ UNCHANGED <<pc, dump, sockets, buffers, cut>>

Next == send_msg \/ recv_msg \/ parse_recv_chunk \/ free_netdev_list

\* The devices of the datagrams, up to the first error or the end.
Reported(grams) ==
  LET all == FlattenSeq(grams)
      stop == SelectInSeq(all, Final)
  IN  SelectSeq(SubSeq(all, 1, IF stop = 0 THEN Len(all) ELSE stop - 1), Usable)

\* Between two datagrams and after the call, also one that failed, the list is what
\* it was followed by the devices reported so far, in the kernel's order.
ListExact == pc # "parse" /\ ~cut => list = prior \o Reported(got)

\* A call that returns 0 has all the devices of the system, unless it timed out (that
\* too returns 0) or a datagram had more messages than are looked at.
ZeroIsComplete == pc = "idle" /\ calls > 0 /\ ret = 0 /\ ~quiet /\ ~cut => list = prior \o dump.devices

\* Whatever failed, no socket and no buffer is left when the call has returned, and
\* no buffer while it waits.
Released == (pc = "idle" => sockets = 0) /\ (pc # "parse" => buffers = 0)
=============================================================================
