----------------------------- MODULE DhcpCapture -----------------------------
(***************************************************************************)
(* libpcap-dhcp-capture: a capture handle is opened in ten steps, packets  *)
(* are taken from it until select fails, and each packet with a BOOTP      *)
(* message is given to a callback that looks for the host name.  A packet  *)
(* is the lengths of its headers, and of its message whether it is a       *)
(* request or reply (op), has the magic cookie and an end mark, and its    *)
(* options.                                                                *)
(***************************************************************************)
EXTENDS Integers, Sequences, SequencesExt

CONSTANTS
  Steps,        \* the number of steps of dhcp_pcap_open_live
  Packets,
  EthLen, VlanLen, UdpLen, BootpLen,
  VendOff,      \* where the vendor area of a BOOTP message starts
  CookieLen,
  Tokens, Named,\* values given to tok2str, and those its table names
  Outside,      \* what the search gives when it has read bytes that were not captured
  NULL

VARIABLES pc, step, handle,
  pkt, call,    \* the packet, and what the callback gets of it
  host,         \* the option found in it
  idx, bufs,    \* the buffers of tok2str
  held          \* the last four strings it returned

vars == <<pc, step, handle, pkt, call, host, idx, bufs, held>>

Init ==
  /\ pc = "open" /\ step = 0 /\ handle = NULL /\ pkt = NULL /\ call = NULL /\ host = NULL
  /\ idx = 0 /\ bufs = [b \in 0 .. 3 |-> NULL] /\ held = <<>>

(* The handle *)

\* A slip: a step fails and the handle stays open.
FailOpen == handle' = handle

FailClosed == handle' = IF handle = NULL THEN NULL ELSE "closed"

\* pcap_create gives the handle; any later step may fail, and the handle is closed.
dhcp_pcap_open_live ==
  /\ pc = "open"
  /\ \/ /\ step < Steps
        /\ step' = step + 1 /\ handle' = "open"
        /\ pc' = IF step' = Steps THEN "loop" ELSE "open"
     \/ pc' = "end" /\ FailClosed /\ UNCHANGED step
  /\ UNCHANGED <<pkt, call, host, idx, bufs, held>>

\* select fails, by a signal for one: the loop of main.c ends.
EndLoop ==
  /\ pc = "loop"
  /\ pc' = "end" /\ handle' = "closed" /\ UNCHANGED <<step, pkt, call, host, idx, bufs, held>>

(* A packet *)

Headers(p) == EthLen + VlanLen * p.vlans + 4 * p.ihl + UdpLen

\* A slip: the headers are not compared with the captured length, and the unsigned
\* difference wraps around.
Unguarded(p) ==
  LET len == (p.caplen - Headers(p)) % 2^16
  IN  IF ~p.udp \/ len < BootpLen THEN NULL ELSE [off |-> Headers(p), len |-> len]

dhcp_packet_handler(p) ==
  LET len == p.caplen - Headers(p)
  IN  IF Headers(p) > p.caplen \/ ~p.udp \/ len < BootpLen THEN NULL
      ELSE [off |-> Headers(p), len |-> len]

\* An option is its code, its length and its data; the data looks like a code here.
\* Padding (code 0) is one byte.
Encoded(opts) ==
  FlattenSeq([i \in DOMAIN opts |->
    IF opts[i].code = 0 THEN <<0>> ELSE <<opts[i].code, opts[i].len>> \o [j \in 1 .. opts[i].len |-> 12]])

\* The captured bytes behind the cookie: options, the end mark if there is one, zeros.
Area(p, len) ==
  LET bytes == Encoded(p.opts) \o IF p.ended THEN <<255>> ELSE <<>>
  IN  [i \in 1 .. len - VendOff - CookieLen |-> IF i \in DOMAIN bytes THEN bytes[i] ELSE 0]

\* calc_vendor_specific_size is the place of the area in the message, not its size.
Limit == VendOff - CookieLen

\* Code and length are both read before either is looked at.
Beyond(area, i) == i + 2 > Len(area)

Copied(area, i) == IF i + 2 + area[i + 2] > Len(area) THEN Outside ELSE [at |-> i + 2, len |-> area[i + 2]]

\* A slip: the data of an option is not passed over.
SkipNoData(area) ==
  LET walk[i \in Nat] ==
        IF i >= Limit THEN NULL
        ELSE IF Beyond(area, i) THEN Outside
        ELSE IF area[i + 1] = 255 THEN NULL
        ELSE IF area[i + 1] = 12 THEN Copied(area, i)
        ELSE walk[i + 2]
  IN  walk[0]

\* From option to option until the end mark, the limit, or option 12.
FindOption12(area) ==
  LET walk[i \in Nat] ==
        IF i >= Limit THEN NULL
        ELSE IF Beyond(area, i) THEN Outside
        ELSE IF area[i + 1] = 255 THEN NULL
        ELSE IF area[i + 1] = 12 THEN Copied(area, i)
        ELSE walk[i + 2 + area[i + 2]]
  IN  walk[0]

\* A slip: the cookie is not looked at.
AnyCookie(p, len) == FindOption12(Area(p, len))

parse_vendor_specific_option_12(p, len) == IF p.cookie THEN FindOption12(Area(p, len)) ELSE NULL

\* Requests and replies are searched.
print_packet_info(p, c) == IF p.op THEN parse_vendor_specific_option_12(p, c.len) ELSE NULL

\* The packet and the strings are independent: packets come before the strings.
Dispatch ==
  /\ pc = "loop" /\ held = <<>>
  /\ pkt' \in Packets
  /\ call' = dhcp_packet_handler(pkt')
  /\ host' = IF call' = NULL THEN NULL ELSE print_packet_info(pkt', call')
  /\ UNCHANGED <<pc, step, handle, idx, bufs, held>>

\* A slip: two buffers in turn.
TurnOfTwo(i) == (i + 1) % 2

Turn(i) == (i + 1) % 4

\* A value without a name is written into the buffer whose turn it is.  (The packet is
\* done with.)
tok2str(v) ==
  /\ pc = "loop"
  /\ idx' = Turn(idx)
  /\ bufs' = IF v \in Named THEN bufs ELSE [bufs EXCEPT ![idx] = v]
  /\ held' = LET h == Append(held, [v |-> v, b |-> IF v \in Named THEN NULL ELSE idx])
             IN  IF Len(h) > 4 THEN Tail(h) ELSE h
  /\ pkt' = NULL /\ call' = NULL /\ host' = NULL
  /\ UNCHANGED <<pc, step, handle>>

Next == dhcp_pcap_open_live \/ EndLoop \/ Dispatch \/ (\E v \in Tokens : tok2str(v))

\* Packets are taken only from a handle on which every step succeeded, the filter
\* included; whichever step failed, the handle does not stay open.
OpenedWhole ==
  /\ pc = "loop" => handle = "open" /\ step = Steps
  /\ pc = "end" => handle # "open"

\* The callback gets a payload that lies inside the captured bytes and can hold a
\* BOOTP message, whatever lengths the headers claim.
PayloadInside ==
  call # NULL => /\ call.len >= BootpLen /\ call.off + call.len = pkt.caplen
                 /\ call.off >= EthLen + UdpLen

Start(opts, i) == Len(Encoded(SubSeq(opts, 1, i - 1)))

\* Options without padding, with an end mark that was captured and a byte behind it.
Ended(p, len) ==
  /\ p.ended /\ \A i \in DOMAIN p.opts : p.opts[i].code # 0
  /\ ~Beyond(Area(p, len), Len(Encoded(p.opts)))

Twelve(p) == {i \in DOMAIN p.opts : p.opts[i].code = 12 /\ Start(p.opts, i) < Limit}

\* The host name of a request or reply with a cookie is the data of its first option 12
\* and is not found in the data of another option; an option that starts beyond the limit
\* is not seen; other packets give none.  Bytes that were not captured are read only if
\* the end mark was not captured with a byte behind it, or padding has led past it.
OptionExact ==
  call # NULL =>
    IF ~pkt.op \/ ~pkt.cookie THEN host = NULL
    ELSE Ended(pkt, call.len) =>
           IF Twelve(pkt) = {} THEN host = NULL
           ELSE LET i == CHOOSE i \in Twelve(pkt) : \A j \in Twelve(pkt) : i <= j
                IN  host = [at |-> Start(pkt.opts, i) + 2, len |-> pkt.opts[i].len]

\* A string that tok2str returned stays as it is during the next three calls.
TokStable == \A i \in DOMAIN held : held[i].b # NULL => bufs[held[i].b] = held[i].v
=============================================================================
