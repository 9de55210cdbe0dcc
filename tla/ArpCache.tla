------------------------------- MODULE ArpCache -------------------------------
(***************************************************************************)
(* netlink_arp_cache: the neighbour table, asked of the kernel once and    *)
(* read from one datagram, and the program (main.c) that lists it.  An     *)
(* answer is a sequence of messages with a length and a state; the end of  *)
(* the dump (NLMSG_DONE) is a message that is shorter than a neighbour's.  *)
(* pc is "undefined" once the program has left its buffer or its array.    *)
(***************************************************************************)
EXTENDS Integers, Sequences, SequencesExt, FiniteSets

CONSTANTS
  Answers,      \* the first datagram of the kernel's answer
  Small,        \* the first buffer: 512 bytes in the code
  PerEntry,     \* the bytes main.c expects of a message: 50 in the code
  MsgLen,       \* the fixed part of a neighbour's message: 28 in the code
  LenWrap       \* the range of uint32_t

VARIABLES pc, answer, sockets,
  size,         \* what send_recv returns
  cnt,          \* what parse_arp_cache returns, then the entries not listed yet
  room,         \* the entries of the array main.c gives
  printed,      \* the entries listed
  failed        \* the call that failed, or "no"

vars == <<pc, answer, sockets, size, cnt, room, printed, failed>>

Init ==
  /\ pc = "idle" /\ answer \in Answers /\ sockets = 0 /\ size = 0 /\ cnt = 0 /\ room = 0
  /\ printed = <<>> /\ failed = "no"

Bytes(a) == FoldSeq(LAMBDA m, n : m.len + n, 0, a)

\* The socket is opened and given a timeout; without one it stays open.
OpenSocket ==
  /\ pc = "idle"
  /\ \/ pc' = "end" /\ size' = -1 /\ failed' = "socket" /\ UNCHANGED sockets
     \/ pc' = "end" /\ size' = -2 /\ failed' = "setsockopt" /\ sockets' = sockets + 1
     \/ pc' = "select" /\ sockets' = sockets + 1 /\ UNCHANGED <<size, failed>>
  /\ UNCHANGED <<answer, cnt, room, printed>>

\* A slip: the socket stays open when select fails.
SelectKeeps(r) == size' = r /\ sockets' = IF r < 0 THEN sockets ELSE sockets - 1

CloseWith(r) == size' = r /\ sockets' = sockets - 1

\* A request that is not sent is not answered: select times out.
Select ==
  /\ pc = "select"
  /\ \/ pc' = "parse" /\ CloseWith(0) /\ failed' = "timeout"
     \/ pc' = "end" /\ CloseWith(-1) /\ failed' = "select"
     \/ pc' = "recv" /\ UNCHANGED <<size, sockets, failed>>
  /\ UNCHANGED <<answer, cnt, room, printed>>

\* A slip: the size is the one of the first buffer.
ReturnFirst(n) == Small

ReturnSize(n) == IF n > Small THEN n ELSE 0

\* The size is peeked at; an answer larger than the buffer is read into a new one, the
\* others stay in the socket and count as nothing.
Receive ==
  /\ pc = "recv"
  /\ \/ pc' = "parse" /\ CloseWith(ReturnSize(Bytes(answer))) /\ UNCHANGED failed
     \/ pc' = "end" /\ Bytes(answer) > Small /\ CloseWith(-1) /\ failed' = "recv"
     \/ pc' = "parse" /\ CloseWith(0) /\ failed' = "peek"
  /\ UNCHANGED <<answer, cnt, room, printed>>

\* A slip: more bytes are expected of a message than it may have.
EntriesAtMost(n) == n \div (2 * PerEntry)

expected_entries(n) == IF n < PerEntry THEN 1 ELSE n \div PerEntry

\* A slip: the fixed part is not taken off the length before the attributes are passed.
AdvanceTwice(m) == MsgLen + m.len

\* How far a message moves p: msg_len, and then the rest, which is unsigned.
Advance(m) == MsgLen + ((m.len - MsgLen) % LenWrap)

\* Where p is after n messages.
Position(n) == FoldSeq(LAMBDA m, p : Advance(m) + p, 0, SubSeq(answer, 1, n))

\* The messages the loop takes, while p < lp.
Reached == {i \in DOMAIN answer : Position(i - 1) < size}

\* Message after message; the parser does not know how many entries there is room for.
\* Behind the fixed part of a short message parse_rtattr reads on, over bytes that may
\* lie outside the buffer.
parse_arp_cache ==
  LET n == Cardinality(Reached) IN
  /\ pc = "parse"
  /\ room' = expected_entries(size)
  /\ cnt' = IF Position(n) = size THEN n ELSE -1
  /\ pc' \in IF n > room' THEN {"undefined"}
             ELSE IF \E i \in Reached : answer[i].len < MsgLen THEN {"print", "undefined"}
             ELSE {"print"}
  /\ UNCHANGED <<answer, sockets, size, printed, failed>>

\* A slip: the first entry is never reached.
PrintBut1(n) == n > 1

PrintMore(n) == n # 0

\* From the last entry to the first, without those that need no resolution.  A negative
\* count, which main.c only logs, is a place before the array.
PrintEntry ==
  /\ pc = "print"
  /\ IF ~PrintMore(cnt) THEN pc' = "end" /\ UNCHANGED <<cnt, printed>>
     ELSE /\ cnt' = cnt - 1
          /\ IF cnt < 0 THEN pc' = "undefined" /\ UNCHANGED printed
             ELSE /\ printed' = IF answer[cnt].noarp THEN printed ELSE Append(printed, answer[cnt])
                  /\ UNCHANGED pc
  /\ UNCHANGED <<answer, sockets, size, room, failed>>

Again ==
  /\ pc = "end" /\ sockets = 0
  /\ pc' = "idle" /\ answer' \in Answers /\ size' = 0 /\ cnt' = 0 /\ room' = 0
  /\ printed' = <<>> /\ failed' = "no" /\ UNCHANGED sockets

Next == OpenSocket \/ Select \/ Receive \/ parse_arp_cache \/ PrintEntry \/ Again

\* If nothing failed and the answer was read, the program that comes to its end has
\* listed exactly the entries of the answer that need resolution, last first.
ListsAnswer ==
  pc = "end" /\ failed = "no" /\ size > 0 => printed = Reverse(SelectSeq(answer, LAMBDA m : ~m.noarp))

\* The program leaves its buffer or its array only for an answer with a message that is
\* shorter than main.c expects, the end of the dump for one.
EntriesFit == pc = "undefined" => \E i \in DOMAIN answer : answer[i].len < PerEntry

\* A read answer is one that the first buffer could not hold, and it was read whole.
SizeExact == pc \in {"parse", "print"} /\ size # 0 => size = Bytes(answer) /\ size > Small

\* Whatever failed, the socket is closed in the end, except when setsockopt failed.
SocketClosed == pc = "end" /\ failed # "setsockopt" => sockets = 0
=============================================================================
