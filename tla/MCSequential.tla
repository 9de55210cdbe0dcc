---------------------------- MODULE MCSequential ----------------------------
(***************************************************************************)
(* The sequential data structures and the three programs that talk to the  *)
(* kernel or to libpcap, for TLC.  They share nothing: a variable chooses  *)
(* which of them is used, and the others stay as they are created.         *)
(***************************************************************************)
EXTENDS Integers, Sequences

CONSTANTS NULL, LIST_POISON1, LIST_POISON2, Stale, Outside, Heads, Items, Deq, Arr, Hd,
          Entries, Records, HtNodes, SlNodes, UvNodes

VARIABLES which,
  lib, links, content,
  deq, dqLinks, dqSize, dqData, dqMemory, popped, dqContent,
  capacity, htChains, htKey, value, htMemory, map,
  blocks, chains, aaLinks, size, key, data, memory, keys, order,
  status, memleak_flag, ldLinks, address, records, live, lost, written,
  head, tail, next, slContent,
  heap, nelts, uvKey, phase, at,
  glPc, dump, got, list, prior, glSockets, buffers, ret, calls, quiet, cut,
  acPc, answer, sockets, acSize, cnt, room, printed, failed,
  dcPc, step, handle, pkt, call, host, idx, bufs, held

listVars == <<lib, links, content>>
dequeVars == <<deq, dqLinks, dqSize, dqData, dqMemory, popped, dqContent>>
tableVars == <<capacity, htChains, htKey, value, htMemory, map>>
arrayVars == <<blocks, chains, aaLinks, size, key, data, memory, keys, order>>
leakVars == <<status, memleak_flag, ldLinks, address, records, live, lost, written>>
slistVars == <<head, tail, next, slContent>>
uvVars == <<heap, nelts, uvKey, phase, at>>
linkVars == <<glPc, dump, got, list, prior, glSockets, buffers, ret, calls, quiet, cut>>
arpVars == <<acPc, answer, sockets, acSize, cnt, room, printed, failed>>
dhcpVars == <<dcPc, step, handle, pkt, call, host, idx, bufs, held>>

\* Keys of one size, two of which share a bucket.
ArrKeys == {<<0>>, <<1>>, <<2>>}

\* Devices that are listed, one of another type, one without a name.
Link(d) == [kind |-> "link", dev |-> d, ether |-> d # "lo", named |-> d # "anon"]
Control(k) == [kind |-> k, dev |-> "none", ether |-> FALSE, named |-> FALSE]
eth == [d \in {"a", "b", "c", "lo", "anon"} |-> Link(d)]
Done == Control("done")

\* One or several datagrams, the end in one of its own or not, an error half way,
\* and a datagram with more messages than MaxMsgs + 1.
Dumps ==
  {[grams |-> <<<<eth.lo, eth.a>>, <<eth.anon, eth.b>>, <<eth.c, Done>>>>, devices |-> <<eth.a, eth.b, eth.c>>],
   [grams |-> <<<<eth.a, eth.b>>, <<Done>>>>, devices |-> <<eth.a, eth.b>>],
   [grams |-> <<<<eth.a, Control("error")>>>>, devices |-> <<eth.a, eth.b>>],
   [grams |-> <<<<eth.a, eth.b, eth.lo, eth.c, Done>>>>, devices |-> <<eth.a, eth.b, eth.c>>]}

Entry(l, n) == [len |-> l, noarp |-> n]

\* Up to 4 messages with 4 to 6 bytes, around the first buffer of 10, or up to 3 of them
\* and the end of the dump in the same datagram.
Neighbours(n) == [1 .. n -> {Entry(4, FALSE), Entry(5, FALSE), Entry(6, TRUE)}]
Answers == UNION {Neighbours(n) : n \in 0 .. 4}
             \cup {Append(a, Entry(2, FALSE)) : a \in UNION {Neighbours(n) : n \in 0 .. 3}}

\* Padding and short options; option 12 behind a long one, at the end of a captured area
\* of 60 bytes and on both sides of the search limit.
Option(c, l) == [code |-> c, len |-> l]
Short == {Option(0, 0), Option(53, 1), Option(1, 2), Option(12, 2)}
Options == UNION {[1 .. n -> Short] : n \in 0 .. 3}
Distant == {<<Option(43, l), Option(12, 2)>> : l \in {55, 56, 57, 58, 229, 230}}

Packet(vlans, ihl, udp, caplen, opts) ==
  [vlans : vlans, ihl : ihl, udp : udp, caplen : caplen, opts : opts,
   op : BOOLEAN, cookie : BOOLEAN, ended : BOOLEAN]

\* Header lengths on both sides of the captured length; 342 bytes hold a message with an
\* area of 60 bytes behind the cookie, 550 one that is longer than the search.
Packets ==
  Packet({0, 2}, {5, 15}, BOOLEAN, {40, 341, 342, 350, 382, 390}, {<<>>})
    \cup Packet({0}, {5}, {TRUE}, {342, 343, 550}, Options \cup Distant)

L == INSTANCE CircularList
D == INSTANCE UDeque WITH links <- dqLinks, size <- dqSize, data <- dqData, memory <- dqMemory,
                          content <- dqContent, Data <- {1, 2}
H == INSTANCE HTable WITH chains <- htChains, key <- htKey, memory <- htMemory,
                          Nodes <- HtNodes, Keys <- 0..3, Values <- {1, 2}, Capacities <- 0..2
A == INSTANCE AssocArray WITH links <- aaLinks, Keys <- ArrKeys,
                              HashOf <- [k \in ArrKeys |-> k[1]], Data <- {1, 2}, Bits <- 1
M == INSTANCE LeakDetector WITH links <- ldLinks, Blocks <- {1, 2, 3}
S == INSTANCE SList WITH Nodes <- SlNodes, content <- slContent
U == INSTANCE UvHeap WITH Nodes <- UvNodes, Keys <- {0, 1}, key <- uvKey
N == INSTANCE GetLink WITH pc <- glPc, sockets <- glSockets, MaxMsgs <- 2, MaxCalls <- 2
C == INSTANCE ArpCache WITH pc <- acPc, size <- acSize, Small <- 10, PerEntry <- 5, MsgLen <- 3, LenWrap <- 64
P == INSTANCE DhcpCapture WITH pc <- dcPc, Steps <- 10, EthLen <- 14, VlanLen <- 4, UdpLen <- 8, BootpLen <- 300,
                               VendOff <- 236, CookieLen <- 4, Tokens <- 0 .. 3, Named <- {0}

Init ==
  /\ which \in {"list", "udeque", "htable", "assoc_array", "leak_detector", "slist", "heap-inl",
                "getlink", "arp", "dhcp"}
  /\ L!Init /\ D!Init /\ H!Init /\ A!Init /\ M!Init /\ S!Init /\ U!Init /\ N!Init /\ C!Init /\ P!Init
  /\ which # "list" => lib = "list"
  /\ which # "getlink" => dump.devices = <<eth.a, eth.b>> /\ Len(dump.grams) = 2
  /\ which # "arp" => answer = <<>>

structureVars == <<listVars, dequeVars, tableVars, arrayVars, leakVars, slistVars, uvVars>>
clientVars == <<linkVars, arpVars, dhcpVars>>

Next ==
  /\ UNCHANGED which
  /\ \/ /\ UNCHANGED clientVars
        /\ \/ which = "list" /\ L!Next /\ UNCHANGED <<dequeVars, tableVars, arrayVars, leakVars, slistVars, uvVars>>
           \/ which = "udeque" /\ D!Next /\ UNCHANGED <<listVars, tableVars, arrayVars, leakVars, slistVars, uvVars>>
           \/ which = "htable" /\ H!Next /\ UNCHANGED <<listVars, dequeVars, arrayVars, leakVars, slistVars, uvVars>>
           \/ which = "assoc_array" /\ A!Next /\ UNCHANGED <<listVars, dequeVars, tableVars, leakVars, slistVars, uvVars>>
           \/ which = "leak_detector" /\ M!Next /\ UNCHANGED <<listVars, dequeVars, tableVars, arrayVars, slistVars, uvVars>>
           \/ which = "slist" /\ S!Next /\ UNCHANGED <<listVars, dequeVars, tableVars, arrayVars, leakVars, uvVars>>
           \/ which = "heap-inl" /\ U!Next /\ UNCHANGED <<listVars, dequeVars, tableVars, arrayVars, leakVars, slistVars>>
     \/ /\ UNCHANGED structureVars
        /\ \/ which = "getlink" /\ N!Next /\ UNCHANGED <<arpVars, dhcpVars>>
           \/ which = "arp" /\ C!Next /\ UNCHANGED <<linkVars, dhcpVars>>
           \/ which = "dhcp" /\ P!Next /\ UNCHANGED <<linkVars, arpVars>>

Spec == Init /\ [][Next]_<<which, structureVars, clientVars>>

(* What each component promises.  The modules explain the parts. *)

\* list.h in both versions and slist.h: every walk, forwards and backwards, meets the
\* entries that the calls amount to, and only them; tail is the last node.
ListsAreSequences == L!WalksAgree /\ S!TailIsLast

\* udeque.c: the deque is the sequence that was pushed and not popped, from both ends,
\* and an item belongs to the deque or to the caller that popped it.
DequeSound == D!DequeAgrees /\ D!ItemsOwned

\* htable.c: a lookup returns what was last set and not deleted; the chains hold exactly
\* the allocated nodes, with sound back pointers.
TableSound == H!TableIsMap /\ H!ChainsSound

\* assoc_array.c: hash chains, list, size and memory never disagree; a lookup finds the
\* newest entry of the key; array_collision_percent counts the entries that share a bucket.
ArraySound == A!StructuresAgree /\ A!NewestFound /\ A!CollisionsExact

\* leak_detector.c: there is one record for every block held and none for a freed one.
LeakRecordsExact == M!TracksLive

\* heap-inl.h: "It's always a complete binary tree"; between calls no node is less than
\* its parent.
UvHeapSound == U!CompleteTree /\ U!TreeOrder

\* get_netdev: the list is what was reported so far, 0 means that all devices are there
\* unless the kernel fell silent, and sockets and buffers are released on every path.
LinkDumpSound == N!ListExact /\ N!ZeroIsComplete /\ N!Released

\* arp: the entries of an answer that was read are listed, buffer and array are left only
\* for answers with short messages, the size returned is that of the answer, and the
\* socket is closed on every path but one.
ArpListingSound == C!ListsAnswer /\ C!EntriesFit /\ C!SizeExact /\ C!SocketClosed

\* dhcp: the handle is open exactly while packets are taken, the payload is inside the
\* capture, the host name of a message whose end mark was captured is its first option 12,
\* strings of tok2str last for four calls.
DhcpCaptureSound == P!OpenedWhole /\ P!PayloadInside /\ P!OptionExact /\ P!TokStable
=============================================================================
