--------------------------- MODULE MonitorProofs ---------------------------
(***************************************************************************)
(* Proofs about the modules with threads of their own, for any number of   *)
(* threads: TracerDumpSound of dbg_tracer, for every number of slots,      *)
(* points and registries, and LogSound of syslog2.                         *)
(*                                                                         *)
(* dbg_tracer: a slot of the registry has one thread from the draw on,     *)
(* whose counter and ring say the same of its last points; a dump that     *)
(* found a thread between two points has listed points of it that are      *)
(* still there, unless it has marked one since.                            *)
(*                                                                         *)
(* syslog2: the invariant says who has the spin lock and whose line is     *)
(* open, that one thread runs the initialisation and everybody beyond it   *)
(* has waited for its end, and where between setlogmask and the level the  *)
(* one call of setup_syslog2 is.                                           *)
(***************************************************************************)
EXTENDS DbgTracer, Syslog2, SequenceTheorems, NaturalsInduction, WellFoundedInduction, TLAPS

-----------------------------------------------------------------------------
(* dbg_tracer: the invariant.                                              *)

Ids == 0 .. MAX_THR - 1
Places == {"idle", "init", "map", "clear", "draw", "add", "take", "wipe", "use", "mark", "site", "time", "install", "dump"}
EntryT == [site : Nat, t : Nat]
SlotT == [used : BOOLEAN, idx : Nat, owner : Traced \cup {NULL}, ring : [Ring -> EntryT]]
RegT == [next : Nat, slots : [Ids -> SlotT]]
MeT == [pc : Places, ret : {"draw", "install", NULL}, reg : Nat \cup {NULL}, slot : (Nat \X Ids) \cup {NULL},
        k : Nat, base : Nat]
DumpT == [i : Nat, r : Nat \cup {NULL}, n : Int, j : Nat, list : Seq(EntryT), seen : Int,
          sig : Signals \cup {NULL}]

TracerType ==
  /\ early \in BOOLEAN /\ late \in BOOLEAN
  /\ regs \in Seq(RegT) /\ gtr \in DOMAIN regs \cup {NULL}
  /\ me \in [Traced -> MeT] /\ hist \in [Traced -> Nat] /\ dump \in [Traced -> DumpT]

\* What a thread has at each place.
PlaceOK(t) ==
  /\ me[t].slot # NULL => me[t].slot[1] \in DOMAIN regs
  /\ me[t].pc \in {"wipe", "use", "mark", "site", "time"} => me[t].slot # NULL
  /\ me[t].pc \in {"init", "map", "clear"} => me[t].ret # NULL
  /\ me[t].pc \in {"clear", "add"} => me[t].reg \in DOMAIN regs
  /\ me[t].pc \in {"clear", "draw", "add", "take"} => gtr # NULL
  /\ me[t].pc # "dump" => dump[t] = NoDump
  /\ dump[t].r # NULL => dump[t].r \in DOMAIN regs /\ dump[t].i \in Ids
  /\ dump[t].n >= 0 => dump[t].r # NULL
  /\ dump[t].n < 0 => dump[t].list = <<>> /\ dump[t].seen < 0

PlaceInv == \A t \in Traced : PlaceOK(t)

\* The handlers are there until the first fault.
FaultInv == faults \in Nat /\ (early /\ faults = 0 => armed = Signals) /\ OneFaultDumped

\* Slots that were drawn are below next and have one thread each; a slot that was
\* named has the thread for its owner.
SlotInv ==
  /\ \A r \in DOMAIN regs : regs[r].next = 0 => regs[r] = Registry
  /\ \A t \in Traced : me[t].slot # NULL => me[t].slot[2] < regs[me[t].slot[1]].next
  /\ \A t, u \in Traced : t # u /\ me[t].slot # NULL => me[t].slot # me[u].slot
  /\ \A r \in DOMAIN regs : \A i \in Ids :
       /\ regs[r].slots[i].used => regs[r].slots[i].owner # NULL
       /\ regs[r].slots[i].owner # NULL => me[regs[r].slots[i].owner].slot = <<r, i>>

\* A thread whose fault is being handled, and one that is about to draw a slot.
Faulted(t) == me[t].pc = "dump" /\ dump[t].sig # NULL
Attaching(t) == me[t].pc \in {"draw", "add", "take"} \/ (me[t].pc \in {"init", "map", "clear"} /\ me[t].ret = "draw")

\* The points of t since it has its slot; its own slot; an entry that is complete.
Count(t) == hist[t] - me[t].base
Mine(t) == Slot(me[t].slot)
Point(q) == [site |-> q, t |-> q]

\* The slot of a thread, from the draw on.
AttachOK(t) ==
  /\ me[t].slot # NULL /\ me[t].pc \notin {"wipe", "use"} /\ ~Faulted(t) => Mine(t).used /\ Mine(t).owner = t
  /\ Attaching(t) => me[t].slot = NULL
  /\ me[t].pc = "wipe" => Mine(t).owner = NULL
  /\ me[t].pc = "use" => Mine(t).owner = t /\ ~Mine(t).used /\ me[t].base = hist[t]
  /\ me[t].pc \in {"site", "time"} => Count(t) > 0 /\ me[t].k = (Count(t) - 1) % TRACE_N
  /\ me[t].pc = "time" => Mine(t).ring[me[t].k].site = hist[t]

\* The last point is complete.
Whole(t) == ~Faulted(t) /\ me[t].pc \notin {"site", "time"}

\* The count of a slot in use, and the points in its ring: the last TRACE_N, but for
\* one that is being marked.
RingOK(t) ==
  me[t].slot # NULL /\ Mine(t).used =>
    /\ Count(t) >= 0 /\ Mine(t).idx = Count(t) % IdxWrap
    /\ \A e \in 1 .. TRACE_N : e <= Count(t) /\ (e = 1 => Whole(t)) =>
         Mine(t).ring[(Count(t) - e) % TRACE_N] = Point(hist[t] - e + 1)

\* The slot that d is listing, and its thread.
Listed(d) == regs[dump[d].r].slots[dump[d].i]

\* What d has listed of the slot of o, which has marked nothing meanwhile.
ListExact(d, o) ==
  LET n == dump[d].n IN
  /\ me[o].pc \notin {"site", "time"} /\ Count(o) >= 0
  /\ Count(o) > 0 => Listed(d).ring[(Count(o) - 1) % TRACE_N] = Point(hist[o])
  /\ n = Count(o) % IdxWrap /\ dump[d].j \in StartOf(n) .. n
  /\ dump[d].list = [i \in 1 .. dump[d].j - StartOf(n) |-> Point(hist[o] - n + StartOf(n) + i)]

ListOK(d) ==
  dump[d].seen >= 0 =>
    /\ Listed(d).used
    /\ \A o \in Traced : o = Listed(d).owner =>
         dump[d].seen <= hist[o] /\ (dump[d].seen = hist[o] => ListExact(d, o))

SoundInv ==
  Sound => /\ SlotInv /\ \A d \in Traced : ListOK(d)
           /\ proc = "run" => \A t \in Traced : AttachOK(t) /\ RingOK(t)

TracerInv == TracerType /\ PlaceInv /\ FaultInv /\ SoundInv

\* Slots were drawn from no other registry than the one gtr names; an id that a thread has
\* drawn is nobody else's, and a slot with it nobody's yet.
DrawOK(t) ==
  /\ me[t].pc = "add" => me[t].reg = gtr
  /\ me[t].pc = "take" =>
       /\ me[t].k < regs[gtr].next
       /\ \A u \in Traced : me[u].slot # <<gtr, me[t].k>> /\ (u # t /\ me[u].pc = "take" => me[u].k # me[t].k)

DrawnInv ==
  Sound => (\A r \in DOMAIN regs : regs[r].next > 0 => r = gtr) /\ \A t \in Traced : DrawOK(t)

\* After an early tracer_setup nobody maps or clears a registry.
EarlyInv == early => gtr # NULL /\ ~late /\ \A t \in Traced : me[t].pc \notin {"map", "clear"}

\* The inductive invariant is TracerInv /\ DrawnInv /\ EarlyInv.

-----------------------------------------------------------------------------
(* Remainders.                                                             *)

\* Quotient and remainder.
LEMMA DivMod ==
  ASSUME NEW a \in Int, NEW n \in Nat \ {0}
  PROVE  a = n * (a \div n) + (a % n) /\ a % n \in 0 .. n - 1 /\ a \div n \in Int
  OBVIOUS

\* A number below the divisor is its own remainder.
LEMMA Small ==
  ASSUME NEW n \in Nat \ {0}, NEW a \in 0 .. n - 1
  PROVE  a % n = a
  OBVIOUS

\* The only multiple of n that is nearer to 0 than n.
LEMMA Multiple ==
  ASSUME NEW n \in Nat \ {0}, NEW d \in Int, -n < n * d, n * d < n
  PROVE  d = 0
<1>1. CASE d >= 1
  <2>1. n * d >= n
    BY <1>1
  <2> QED
    BY <2>1
<1>2. CASE d <= -1
  <2>1. n * d <= -n
    BY <1>2
  <2> QED
    BY <2>1
<1> QED
  BY <1>1, <1>2

\* Multiples of the divisor do not change the remainder.
LEMMA Shift ==
  ASSUME NEW n \in Nat \ {0}, NEW a \in Int, NEW x \in Int
  PROVE  (a + n * x) % n = a % n
<1> DEFINE b == a + n * x
           q == b \div n
           r == b % n
           z == (a \div n) + x
           s == a % n
<1>0. b \in Int
  OBVIOUS
<1>1. b = n * q + r /\ r \in 0 .. n - 1 /\ q \in Int
  BY <1>0, DivMod
<1>2. a = n * (a \div n) + s /\ s \in 0 .. n - 1 /\ (a \div n) \in Int
  BY DivMod
<1>3. b = n * z + s /\ z \in Int
  BY <1>2
<1> HIDE DEF b, q, r, z, s
<1>4. n * q + r = n * z + s /\ q \in Int /\ z \in Int /\ r \in 0 .. n - 1 /\ s \in 0 .. n - 1
  BY <1>1, <1>2, <1>3
<1> DEFINE d == q - z
<1>5. d \in Int /\ n * d = s - r
  BY <1>4
<1>6. n * d \in Int /\ -n < n * d /\ n * d < n
  BY <1>4, <1>5
<1> HIDE DEF d
<1>7. d = 0
  BY <1>5, <1>6, Multiple
<1>8. r = s
  BY <1>4, <1>5, <1>7
<1> QED
  BY <1>8 DEF r, s, b

\* The counter after one more point, wrapped around before or after.
LEMMA ModNext ==
  ASSUME NEW n \in Nat \ {0}, NEW c \in Int
  PROVE  ((c % n) + 1) % n = (c + 1) % n
<1> DEFINE y == c \div n
           r == c % n
<1>1. c = n * y + r /\ y \in Int /\ r \in Int
  BY DivMod
<1> HIDE DEF y, r
<1>2. c + 1 = (r + 1) + n * y
  BY <1>1
<1>3. r + 1 \in Int
  BY <1>1
<1>4. ((r + 1) + n * y) % n = (r + 1) % n
  BY <1>1, <1>3, Shift
<1>5. (r + 1) % n = (c + 1) % n
  BY <1>2, <1>4
<1> QED
  BY <1>5 DEF r

\* The counter wraps around at a multiple of n: the place in the ring stays right.
LEMMA ModDivides ==
  ASSUME NEW n \in Nat \ {0}, NEW w \in Nat \ {0}, w % n = 0, NEW c \in Int, NEW j \in Int
  PROVE  ((c - (c % w)) + j) % n = j % n
<1> DEFINE y == c \div w
           r == c % w
           z == w \div n
<1>1. c = w * y + r /\ y \in Int /\ r \in Int
  BY DivMod
<1>2. w = n * z /\ z \in Int
  BY DivMod
<1> HIDE DEF y, r, z
<1>3. (c - r) + j = j + n * (z * y) /\ z * y \in Int
  BY <1>1, <1>2
<1>4. ((c - r) + j) % n = j % n
  BY <1>3, Shift
<1> QED
  BY <1>4 DEF r

\* Points that are less than n apart have different places in the ring.
LEMMA ModApart ==
  ASSUME NEW n \in Nat \ {0}, NEW c \in Int, NEW e \in 1 .. n - 1
  PROVE  (c - e) % n # c % n
<1> SUFFICES ASSUME (c - e) % n = c % n PROVE FALSE
  OBVIOUS
<1> DEFINE d == c - e
           x == d \div n
           y == c \div n
           r == c % n
<1>1. d = n * x + r /\ x \in Int /\ r \in Int
  <2>1. d \in Int /\ r = d % n
    OBVIOUS
  <2> HIDE DEF d, r
  <2>2. d = n * (d \div n) + (d % n) /\ d % n \in 0 .. n - 1 /\ d \div n \in Int
    BY <2>1, DivMod
  <2> QED
    BY <2>1, <2>2
<1>2. c = n * y + r /\ y \in Int
  BY DivMod
<1> HIDE DEF x, y, r
<1>3. e = n * (y - x)
  BY <1>1, <1>2
<1>4. CASE y - x >= 1
  <2>1. n * (y - x) >= n
    BY <1>1, <1>2, <1>4
  <2> QED
    BY <1>3, <2>1
<1>5. CASE y - x <= 0
  <2>1. n * (y - x) <= 0
    BY <1>1, <1>2, <1>5
  <2> QED
    BY <1>3, <2>1
<1> QED
  BY <1>1, <1>2, <1>4, <1>5

-----------------------------------------------------------------------------
(* Steps that leave the slots, the points and the places that matter.      *)

\* A registry that was not there before is clear, the others keep their slots; of their
\* counters one at most has grown.
Extended ==
  /\ DOMAIN regs \subseteq DOMAIN regs'
  /\ \A r \in DOMAIN regs : /\ regs'[r].slots = regs[r].slots /\ regs[r].next <= regs'[r].next
                            /\ regs'[r].next = 0 => regs'[r] = regs[r]
  /\ \A r \in DOMAIN regs' \ DOMAIN regs : regs'[r] = Registry

\* Nobody but t does anything.
Alone(t) == \A u \in Traced \ {t} : me'[u] = me[u] /\ dump'[u] = dump[u] /\ hist'[u] = hist[u]

\* What has been drawn too often stays so.
LEMMA SoundBefore ==
  ASSUME TracerType, TracerType', late' = FALSE => late = FALSE,
         \A r \in DOMAIN regs : r \in DOMAIN regs' /\ regs[r].next <= regs'[r].next, Sound', TracerConstants
  PROVE  Sound
<1> SUFFICES ASSUME NEW r \in DOMAIN regs PROVE regs[r].next <= MAX_THR
  BY DEF Sound, TracerType
<1>1. regs[r] \in RegT /\ regs'[r] \in RegT
  BY DEF TracerType
<1>2. regs[r].next \in Nat /\ regs'[r].next \in Nat /\ regs'[r].next <= MAX_THR /\ regs[r].next <= regs'[r].next
  BY <1>1 DEF RegT, Sound
<1> QED
  BY <1>2 DEF TracerConstants

\* A clear registry.
LEMMA ClearedSlots ==
  ASSUME TracerConstants
  PROVE  /\ Registry \in RegT /\ Registry.next = 0 /\ Cleared \in SlotT
         /\ \A i \in Ids : Registry.slots[i] = Cleared /\ ~Registry.slots[i].used /\ Registry.slots[i].owner = NULL
<1>1. Empty \in EntryT
  BY DEF Empty, EntryT
<1>2. Cleared \in SlotT /\ ~Cleared.used /\ Cleared.owner = NULL
  BY <1>1 DEF Cleared, SlotT
<1> HIDE DEF Cleared
<1>3. Registry.slots = [i \in Ids |-> Cleared] /\ Registry.next = 0
  BY DEF Registry, Ids
<1>4. Registry \in RegT
  BY <1>2 DEF Registry, RegT, Ids
<1> QED
  BY <1>2, <1>3, <1>4

\* The slots that threads have and that dumps list are there.
LEMMA MineThere ==
  ASSUME TracerType, PlaceInv, NEW t \in Traced, me[t].slot # NULL
  PROVE  /\ me[t].slot \in Nat \X Ids /\ me[t].slot[1] \in DOMAIN regs /\ me[t].slot[2] \in Ids
         /\ me[t].slot = <<me[t].slot[1], me[t].slot[2]>> /\ Mine(t) = regs[me[t].slot[1]].slots[me[t].slot[2]]
         /\ Mine(t) \in SlotT
<1>1. me[t] \in MeT /\ me[t].slot[1] \in DOMAIN regs
  BY DEF TracerType, PlaceInv, PlaceOK
<1>2. me[t].slot \in Nat \X Ids
  BY <1>1 DEF MeT
<1>3. regs[me[t].slot[1]] \in RegT
  BY <1>1 DEF TracerType
<1>4. regs[me[t].slot[1]].slots \in [Ids -> SlotT]
  BY <1>3 DEF RegT
<1> QED
  BY <1>1, <1>2, <1>4 DEF Mine, Slot

\* The same of the slot that a dump lists, with its thread.
LEMMA ListedThere ==
  ASSUME TracerConstants, TracerType, PlaceInv, SlotInv, NEW d \in Traced, dump[d].r # NULL
  PROVE  /\ dump[d].r \in DOMAIN regs /\ dump[d].i \in Ids /\ Listed(d) \in SlotT
         /\ Listed(d).used => /\ Listed(d).owner \in Traced /\ me[Listed(d).owner].slot = <<dump[d].r, dump[d].i>>
                              /\ me[Listed(d).owner].slot # NULL /\ Mine(Listed(d).owner) = Listed(d)
<1>1. dump[d].r \in DOMAIN regs /\ dump[d].i \in Ids
  BY DEF PlaceInv, PlaceOK
<1>2. regs[dump[d].r] \in RegT
  BY <1>1 DEF TracerType
<1>3. Listed(d) \in SlotT
  BY <1>1, <1>2 DEF RegT, Listed
<1>4. ASSUME Listed(d).used
      PROVE  /\ Listed(d).owner \in Traced /\ me[Listed(d).owner].slot = <<dump[d].r, dump[d].i>>
             /\ me[Listed(d).owner].slot # NULL /\ Mine(Listed(d).owner) = Listed(d)
  <2>1. Listed(d).owner # NULL /\ me[Listed(d).owner].slot = <<dump[d].r, dump[d].i>>
    BY <1>1, <1>4 DEF SlotInv, Listed
  <2>2. Listed(d).owner \in Traced
    BY <1>3, <2>1 DEF SlotT
  <2>3. dump[d].r \in Nat /\ dump[d].i \in Nat
    BY <1>1 DEF TracerType, Ids
  <2>4. <<dump[d].r, dump[d].i>> # NULL
    BY <2>3 DEF TracerConstants
  <2>5. me[Listed(d).owner].slot[1] = dump[d].r /\ me[Listed(d).owner].slot[2] = dump[d].i
    BY <2>1
  <2>6. Mine(Listed(d).owner) = regs[me[Listed(d).owner].slot[1]].slots[me[Listed(d).owner].slot[2]]
    BY DEF Mine, Slot
  <2>7. Mine(Listed(d).owner) = Listed(d)
    BY <2>5, <2>6 DEF Listed
  <2> QED
    BY <2>1, <2>2, <2>4, <2>7
<1> QED
  BY <1>1, <1>3, <1>4

\* A dump that may promise something has found a slot in use and has its count.
LEMMA Listing ==
  ASSUME TracerType, PlaceInv, NEW d \in Traced, dump[d].seen >= 0
  PROVE  dump[d].n >= 0 /\ dump[d].r # NULL
<1>1. dump[d] \in DumpT
  BY DEF TracerType
<1>2. dump[d].seen \in Int /\ dump[d].n \in Int
  BY <1>1 DEF DumpT
<1> QED
  BY <1>2 DEF PlaceInv, PlaceOK

\* A step that leaves slots, points and what is listed, and gets t nowhere inside a
\* mark; where t goes it may have its slot.
LEMMA Quietly ==
  ASSUME TracerConstants, TracerInv, TracerType', PlaceInv', Sound', proc = "run", NEW t \in Traced, Alone(t), Extended,
         late' = late, hist' = hist,
         me'[t].slot = me[t].slot, me'[t].base = me[t].base,
         dump'[t] = dump[t] \/ dump'[t].seen < 0,
         me'[t].pc \notin {"wipe", "use", "site", "time"},
         proc' = "run" /\ me[t].slot # NULL /\ ~Faulted(t)' =>
            me[t].pc \notin {"wipe", "use", "site", "time"} /\ ~Faulted(t) /\ ~Attaching(t)'
  PROVE  SoundInv'
<1>1. TracerType /\ PlaceInv
  BY DEF TracerInv
<1>2. Sound
  BY <1>1, SoundBefore DEF Extended
<1>3. /\ SlotInv /\ \A d \in Traced : ListOK(d)
      /\ \A u \in Traced : AttachOK(u) /\ RingOK(u)
  BY <1>2 DEF TracerInv, SoundInv
<1>4. \A u \in Traced : me'[u].slot = me[u].slot /\ me'[u].base = me[u].base
  BY DEF Alone
<1>5. ASSUME NEW u \in Traced, me[u].slot # NULL PROVE Mine(u)' = Mine(u)
  <2>1. me[u].slot[1] \in DOMAIN regs
    BY <1>1, <1>5, MineThere
  <2> QED
    BY <1>4, <2>1 DEF Mine, Slot, Extended
<1>6. SlotInv'
  <2>1. ASSUME NEW r \in DOMAIN regs' PROVE regs'[r].next = 0 => regs'[r] = Registry
    BY <1>3 DEF SlotInv, Extended
  <2>2. ASSUME NEW u \in Traced, me'[u].slot # NULL PROVE me'[u].slot[2] < regs'[me'[u].slot[1]].next
    <3> DEFINE r == me[u].slot[1]
    <3>1. me[u].slot # NULL /\ r \in DOMAIN regs /\ me[u].slot[2] \in Ids /\ r \in DOMAIN regs'
      BY <1>1, <1>4, <2>2, MineThere DEF Extended
    <3>2. regs[r].next \in Nat /\ regs'[r].next \in Nat /\ me[u].slot[2] \in Int
      <4>1. regs[r] \in RegT /\ regs'[r] \in RegT
        BY <1>1, <3>1 DEF TracerType
      <4> QED
        BY <3>1, <4>1 DEF RegT, Ids, TracerConstants
    <3>3. me[u].slot[2] < regs[r].next /\ regs[r].next <= regs'[r].next
      BY <1>3, <3>1 DEF SlotInv, Extended
    <3> QED
      BY <1>4, <3>2, <3>3
  <2>3. ASSUME NEW u \in Traced, NEW v \in Traced, u # v, me'[u].slot # NULL PROVE me'[u].slot # me'[v].slot
    BY <1>3, <1>4, <2>3 DEF SlotInv
  <2>4. ASSUME NEW r \in DOMAIN regs', NEW i \in Ids
        PROVE  /\ regs'[r].slots[i].used => regs'[r].slots[i].owner # NULL
               /\ regs'[r].slots[i].owner # NULL => me'[regs'[r].slots[i].owner].slot = <<r, i>>
    <3>1. CASE r \in DOMAIN regs
      <4>1. regs[r] \in RegT /\ regs'[r].slots = regs[r].slots
        BY <1>1, <3>1 DEF TracerType, Extended
      <4>2. regs[r].slots[i].owner \in Traced \cup {NULL}
        BY <4>1 DEF RegT, SlotT
      <4>3. /\ regs[r].slots[i].used => regs[r].slots[i].owner # NULL
            /\ regs[r].slots[i].owner # NULL => me[regs[r].slots[i].owner].slot = <<r, i>>
        BY <1>3, <3>1 DEF SlotInv
      <4> QED
        BY <1>4, <4>1, <4>2, <4>3
    <3>2. CASE r \notin DOMAIN regs
      <4>1. regs'[r] = Registry
        BY <3>2 DEF Extended
      <4> QED
        BY <4>1, ClearedSlots
    <3> QED
      BY <3>1, <3>2
  <2> QED
    BY <2>1, <2>2, <2>3, <2>4 DEF SlotInv
<1>7. ASSUME NEW d \in Traced PROVE ListOK(d)'
  <2> SUFFICES ASSUME dump'[d].seen >= 0 PROVE ListOK(d)'
    BY DEF ListOK
  <2>1. dump'[d] = dump[d]
    <3>1. dump'[d] \in DumpT
      BY DEF TracerType
    <3>2. dump'[d].seen \in Int
      BY <3>1 DEF DumpT
    <3> QED
      BY <3>2 DEF Alone
  <2>2. dump[d].r # NULL /\ dump[d].seen >= 0
    BY <1>1, <2>1, Listing
  <2>3. Listed(d)' = Listed(d)
    <3>1. dump[d].r \in DOMAIN regs
      BY <1>1, <2>2 DEF PlaceInv, PlaceOK
    <3> QED
      BY <2>1, <3>1 DEF Listed, Extended
  <2>4. Listed(d).used /\ Listed(d).owner \in Traced
    <3>1. Listed(d).used
      BY <1>3, <2>2 DEF ListOK
    <3> QED
      BY <1>1, <1>3, <2>2, <3>1, ListedThere
  <2>5. PICK o \in Traced : o = Listed(d).owner
    BY <2>4
  <2>6. Count(o)' = Count(o) /\ hist'[o] = hist[o]
    BY <1>4 DEF Count
  <2>7. me[o].pc \notin {"site", "time"} => me'[o].pc \notin {"site", "time"}
    BY DEF Alone
  <2>8. ListExact(d, o) => ListExact(d, o)'
    BY <2>1, <2>3, <2>6, <2>7 DEF ListExact, StartOf
  <2> QED
    BY <1>3, <2>1, <2>2, <2>3, <2>4, <2>5, <2>6, <2>8 DEF ListOK
<1>8. ASSUME NEW u \in Traced, proc' = "run" PROVE AttachOK(u)' /\ RingOK(u)'
  <2>1. Count(u)' = Count(u)
    BY <1>4 DEF Count
  <2>2. CASE u # t
    <3>1. me'[u] = me[u] /\ dump'[u] = dump[u]
      BY <2>2 DEF Alone
    <3>2. (Faulted(u)' <=> Faulted(u)) /\ (Attaching(u)' <=> Attaching(u)) /\ (Whole(u)' <=> Whole(u))
      BY <3>1 DEF Faulted, Attaching, Whole
    <3>3. me[u].pc \in {"wipe", "use", "time"} => me[u].slot # NULL
      BY <1>1 DEF PlaceInv, PlaceOK
    <3>4. AttachOK(u)'
      BY <1>3, <1>5, <2>1, <3>1, <3>2, <3>3 DEF AttachOK
    <3>5. RingOK(u)'
      BY <1>3, <1>5, <2>1, <3>1, <3>2 DEF RingOK
    <3> QED
      BY <3>4, <3>5
  <2>3. CASE u = t
    <3>1. AttachOK(t)'
      <4>1. CASE me[t].slot = NULL
        BY <4>1 DEF AttachOK
      <4>2. CASE me[t].slot # NULL /\ ~Faulted(t)'
        BY <1>3, <1>5, <1>8, <4>2 DEF AttachOK
      <4>3. CASE Faulted(t)'
        BY <4>3 DEF AttachOK, Attaching, Faulted
      <4> QED
        BY <4>1, <4>2, <4>3
    <3>2. RingOK(t)'
      <4> SUFFICES ASSUME me[t].slot # NULL PROVE RingOK(t)'
        BY DEF RingOK
      <4>1. Mine(t)' = Mine(t) /\ Count(t)' = Count(t)
        BY <1>5, <2>1, <2>3
      <4>2. Whole(t)' => Whole(t)
        BY <1>8 DEF Whole
      <4> QED
        BY <1>3, <4>1, <4>2 DEF RingOK
    <3> QED
      BY <2>3, <3>1, <3>2
  <2> QED
    BY <2>2, <2>3
<1> QED
  BY <1>6, <1>7, <1>8 DEF SoundInv

-----------------------------------------------------------------------------
(* Writing into a slot.                                                    *)

\* What Put changes.
LEMMA PutFacts ==
  ASSUME TracerType, NEW r \in DOMAIN regs, NEW i \in Ids, NEW v \in SlotT, NEW s, s = <<r, i>>, Put(s, v)
  PROVE  /\ regs' \in Seq(RegT) /\ DOMAIN regs' = DOMAIN regs
         /\ \A q \in DOMAIN regs : q # r => regs'[q] = regs[q]
         /\ regs'[r].next = regs[r].next /\ regs'[r].slots[i] = v
         /\ \A j \in Ids : j # i => regs'[r].slots[j] = regs[r].slots[j]
<1>1. regs[r] \in RegT /\ regs \in Seq(RegT)
  BY DEF TracerType
<1>2. regs[r].slots \in [Ids -> SlotT] /\ regs[r].next \in Nat
  BY <1>1 DEF RegT
<1> DEFINE g == [regs[r] EXCEPT !.slots[i] = v]
<1>3. regs' = [regs EXCEPT ![r] = g]
  BY DEF Put
<1>4. g.next = regs[r].next /\ g.slots = [regs[r].slots EXCEPT ![i] = v] /\ g \in RegT
  BY <1>1, <1>2 DEF RegT
<1> HIDE DEF g
<1>5. regs' \in Seq(RegT) /\ DOMAIN regs' = DOMAIN regs /\ regs'[r] = g /\ \A q \in DOMAIN regs : q # r => regs'[q] = regs[q]
  BY <1>1, <1>3, <1>4
<1> QED
  BY <1>2, <1>4, <1>5

\* A thread writes into its own slot, which nobody lists as it is or could be.
LEMMA OwnWrite ==
  ASSUME TracerConstants, TracerInv, TracerType', PlaceInv', Sound', proc = "run", NEW t \in Traced, Alone(t),
         NEW v \in SlotT, me[t].slot # NULL, Put(me[t].slot, v), late' = late, dump' = dump,
         me'[t].slot = me[t].slot, v.owner = t, hist'[t] >= hist[t],
         ~Mine(t).used \/ (v.used /\ (hist'[t] > hist[t] \/ me[t].pc \in {"site", "time"}))
  PROVE  /\ SlotInv' /\ \A d \in Traced : ListOK(d)'
         /\ \A u \in Traced \ {t} : AttachOK(u)' /\ RingOK(u)'
         /\ Mine(t)' = v
<1>1. TracerType /\ PlaceInv
  BY DEF TracerInv
<1>2. PICK r \in DOMAIN regs, i \in Ids : me[t].slot = <<r, i>> /\ Mine(t) = regs[r].slots[i]
  BY <1>1, MineThere
<1>3. /\ DOMAIN regs' = DOMAIN regs
      /\ \A q \in DOMAIN regs : q # r => regs'[q] = regs[q]
      /\ regs'[r].next = regs[r].next /\ regs'[r].slots[i] = v
      /\ \A j \in Ids : j # i => regs'[r].slots[j] = regs[r].slots[j]
  BY <1>1, <1>2, PutFacts
<1>4. \A q \in DOMAIN regs : regs'[q].next = regs[q].next
  BY <1>3
<1>5. Sound
  <2>1. ASSUME NEW q \in DOMAIN regs PROVE q \in DOMAIN regs' /\ regs[q].next <= regs'[q].next
    <3>1. regs[q] \in RegT
      BY <1>1 DEF TracerType
    <3> QED
      BY <1>3, <1>4, <3>1 DEF RegT
  <2> QED
    BY <1>1, <2>1, SoundBefore
<1>6. /\ SlotInv /\ \A d \in Traced : ListOK(d)
      /\ \A u \in Traced : AttachOK(u) /\ RingOK(u)
  BY <1>5 DEF TracerInv, SoundInv
<1>7. \A u \in Traced : me'[u].slot = me[u].slot
  BY DEF Alone
<1>8. \A q \in DOMAIN regs : \A j \in Ids : <<q, j>> # <<r, i>> => regs'[q].slots[j] = regs[q].slots[j]
  BY <1>3
<1>9. ASSUME NEW u \in Traced \ {t}, me[u].slot # NULL PROVE Mine(u)' = Mine(u)
  <2>1. PICK q \in DOMAIN regs, j \in Ids : me[u].slot = <<q, j>>
    BY <1>1, <1>9, MineThere
  <2>2. me[u].slot # me[t].slot
    BY <1>6, <1>9 DEF SlotInv
  <2> QED
    BY <1>2, <1>7, <1>8, <2>1, <2>2 DEF Mine, Slot
<1>10. SlotInv'
  <2>1. ASSUME NEW q \in DOMAIN regs', regs'[q].next = 0 PROVE regs'[q] = Registry
    <3>1. regs[q].next = 0
      BY <1>3, <1>4, <2>1
    <3>2. me[t].slot[2] < regs[r].next /\ me[t].slot[2] = i
      BY <1>2, <1>6 DEF SlotInv
    <3>3. q # r
      BY <3>1, <3>2 DEF Ids
    <3> QED
      BY <1>3, <1>6, <3>1, <3>3 DEF SlotInv
  <2>2. ASSUME NEW u \in Traced, me'[u].slot # NULL PROVE me'[u].slot[2] < regs'[me'[u].slot[1]].next
    <3>1. me[u].slot # NULL /\ me[u].slot[1] \in DOMAIN regs
      BY <1>1, <1>7, <2>2, MineThere
    <3> QED
      BY <1>4, <1>6, <1>7, <3>1 DEF SlotInv
  <2>3. ASSUME NEW u \in Traced, NEW w \in Traced, u # w, me'[u].slot # NULL PROVE me'[u].slot # me'[w].slot
    BY <1>6, <1>7, <2>3 DEF SlotInv
  <2>4. ASSUME NEW q \in DOMAIN regs', NEW j \in Ids
        PROVE  /\ regs'[q].slots[j].used => regs'[q].slots[j].owner # NULL
               /\ regs'[q].slots[j].owner # NULL => me'[regs'[q].slots[j].owner].slot = <<q, j>>
    <3>1. CASE <<q, j>> = <<r, i>>
      <4>1. regs'[q].slots[j] = v /\ t # NULL
        BY <1>3, <3>1 DEF TracerConstants
      <4> QED
        BY <1>2, <3>1, <4>1
    <3>2. CASE <<q, j>> # <<r, i>>
      <4>1. regs'[q].slots[j] = regs[q].slots[j] /\ regs[q] \in RegT
        BY <1>1, <1>3, <1>8, <3>2 DEF TracerType
      <4>2. regs[q].slots[j].owner \in Traced \cup {NULL}
        BY <4>1 DEF RegT, SlotT
      <4>3. /\ regs[q].slots[j].used => regs[q].slots[j].owner # NULL
            /\ regs[q].slots[j].owner # NULL => me[regs[q].slots[j].owner].slot = <<q, j>>
        BY <1>3, <1>6 DEF SlotInv
      <4> QED
        BY <1>7, <4>1, <4>2, <4>3
    <3> QED
      BY <3>1, <3>2
  <2> QED
    BY <2>1, <2>2, <2>3, <2>4 DEF SlotInv
<1>11. ASSUME NEW d \in Traced PROVE ListOK(d)'
  <2> SUFFICES ASSUME dump[d].seen >= 0 PROVE ListOK(d)'
    BY DEF ListOK
  <2>1. dump[d].r # NULL
    BY <1>1, Listing
  <2>2. Listed(d).used
    BY <1>6 DEF ListOK
  <2>3. /\ dump[d].r \in DOMAIN regs /\ dump[d].i \in Ids /\ Listed(d).owner \in Traced
        /\ me[Listed(d).owner].slot = <<dump[d].r, dump[d].i>>
        /\ me[Listed(d).owner].slot # NULL /\ Mine(Listed(d).owner) = Listed(d)
    BY <1>1, <1>6, <2>1, <2>2, ListedThere
  <2>4. PICK o \in Traced : o = Listed(d).owner
    BY <2>3
  <2>5. CASE o = t
    <3>1. dump[d].r = r /\ dump[d].i = i
      BY <1>2, <2>3, <2>4, <2>5
    <3>2. Listed(d)' = v
      BY <1>3, <3>1 DEF Listed
    <3>3. v.used /\ (hist'[t] > hist[t] \/ me[t].pc \in {"site", "time"})
      BY <2>2, <2>3, <2>4, <2>5
    <3>4. dump[d].seen <= hist[t] /\ (dump[d].seen = hist[t] => ListExact(d, t))
      BY <1>6, <2>4, <2>5 DEF ListOK
    <3>5. dump[d].seen = hist[t] => me[t].pc \notin {"site", "time"}
      BY <3>4 DEF ListExact
    <3>6. dump[d].seen \in Int /\ hist[t] \in Nat /\ hist'[t] \in Nat
      <4>1. dump[d] \in DumpT
        BY <1>1 DEF TracerType
      <4> QED
        BY <1>1, <4>1 DEF TracerType, DumpT
    <3>7. dump[d].seen < hist'[t]
      BY <3>3, <3>4, <3>5, <3>6
    <3> QED
      BY <3>2, <3>3, <3>6, <3>7 DEF ListOK
  <2>6. CASE o # t
    <3>1. Listed(d)' = Listed(d)
      <4>1. <<dump[d].r, dump[d].i>> # <<r, i>>
        BY <1>2, <1>6, <2>3, <2>4, <2>6 DEF SlotInv
      <4> QED
        BY <1>8, <2>3, <4>1 DEF Listed
    <3>2. me'[o] = me[o] /\ hist'[o] = hist[o]
      BY <2>6 DEF Alone
    <3>3. ListExact(d, o) => ListExact(d, o)'
      BY <3>1, <3>2 DEF ListExact, StartOf, Count
    <3> QED
      BY <1>6, <2>2, <2>4, <3>1, <3>2, <3>3 DEF ListOK
  <2> QED
    BY <2>5, <2>6
<1>12. ASSUME NEW u \in Traced \ {t} PROVE AttachOK(u)' /\ RingOK(u)'
  <2>1. me'[u] = me[u] /\ dump'[u] = dump[u] /\ hist'[u] = hist[u]
    BY DEF Alone
  <2>2. (Faulted(u)' <=> Faulted(u)) /\ (Attaching(u)' <=> Attaching(u)) /\ (Whole(u)' <=> Whole(u))
    BY <2>1 DEF Faulted, Attaching, Whole
  <2>3. me[u].pc \in {"wipe", "use", "time"} => me[u].slot # NULL
    BY <1>1 DEF PlaceInv, PlaceOK
  <2>4. Count(u)' = Count(u)
    BY <2>1 DEF Count
  <2>5. AttachOK(u)'
    BY <1>6, <1>9, <2>1, <2>2, <2>3, <2>4 DEF AttachOK
  <2>6. RingOK(u)'
    BY <1>6, <1>9, <2>1, <2>2, <2>4 DEF RingOK
  <2> QED
    BY <2>5, <2>6
<1>13. Mine(t)' = v
  BY <1>2, <1>3 DEF Mine, Slot
<1> QED
  BY <1>10, <1>11, <1>12, <1>13

-----------------------------------------------------------------------------
(* The registry and the slots.                                             *)

\* What is there of a thread; nothing changes if it is set to what it was.
LEMMA Own ==
  ASSUME TracerType, NEW t \in Traced
  PROVE  /\ me[t] \in MeT /\ dump[t] \in DumpT /\ hist[t] \in Nat
         /\ me = [me EXCEPT ![t] = me[t]] /\ dump = [dump EXCEPT ![t] = dump[t]] /\ hist = [hist EXCEPT ![t] = hist[t]]
  BY DEF TracerType

\* Types and places, for a step in which t alone moves.
LEMMA TypeStep ==
  ASSUME TracerConstants, TracerType, PlaceInv, NEW t \in Traced, UNCHANGED early, late' \in BOOLEAN,
         NEW m \in MeT, me' = [me EXCEPT ![t] = m], NEW d \in DumpT, dump' = [dump EXCEPT ![t] = d],
         NEW h \in Nat, hist' = [hist EXCEPT ![t] = h],
         regs' \in Seq(RegT), DOMAIN regs \subseteq DOMAIN regs', gtr' \in DOMAIN regs' \cup {NULL}, gtr # NULL => gtr' # NULL
  PROVE  /\ TracerType' /\ Alone(t) /\ me'[t] = m /\ dump'[t] = d /\ hist'[t] = h
         /\ PlaceOK(t)' => PlaceInv'
<1>1. TracerType' /\ Alone(t) /\ me'[t] = m /\ dump'[t] = d /\ hist'[t] = h
  BY DEF TracerType, Alone
<1>2. ASSUME NEW u \in Traced \ {t} PROVE PlaceOK(u)'
  <2>1. me'[u] = me[u] /\ dump'[u] = dump[u] /\ PlaceOK(u)
    BY <1>1 DEF Alone, PlaceInv
  <2> QED
    BY <2>1 DEF PlaceOK
<1> QED
  BY <1>1, <1>2 DEF PlaceInv

\* The same if only the place of t and the registries change.
LEMMA MeStep ==
  ASSUME TracerConstants, TracerType, PlaceInv, NEW t \in Traced, UNCHANGED <<early, dump, hist>>, late' \in BOOLEAN,
         NEW m \in MeT, me' = [me EXCEPT ![t] = m],
         regs' \in Seq(RegT), DOMAIN regs \subseteq DOMAIN regs', gtr' \in DOMAIN regs' \cup {NULL}, gtr # NULL => gtr' # NULL
  PROVE  /\ TracerType' /\ Alone(t) /\ me'[t] = m
         /\ PlaceOK(t)' => PlaceInv'
<1>1. dump[t] \in DumpT /\ hist[t] \in Nat /\ dump' = [dump EXCEPT ![t] = dump[t]] /\ hist' = [hist EXCEPT ![t] = hist[t]]
  BY Own
<1>2. /\ t \in Traced /\ UNCHANGED early /\ late' \in BOOLEAN /\ m \in MeT /\ me' = [me EXCEPT ![t] = m]
      /\ regs' \in Seq(RegT) /\ DOMAIN regs \subseteq DOMAIN regs' /\ gtr' \in DOMAIN regs' \cup {NULL}
      /\ gtr # NULL => gtr' # NULL
  OBVIOUS
<1> QED
  BY ONLY TracerConstants, TracerType, PlaceInv, <1>1, <1>2, TypeStep

\* Registries that are only added to.
LEMMA SoundExtended ==
  ASSUME TracerConstants, TracerInv, TracerType', Extended, late' = late, Sound', proc = "run"
  PROVE  Sound /\ SlotInv /\ \A t \in Traced : ListOK(t) /\ AttachOK(t) /\ RingOK(t)
<1>1. Sound
  BY SoundBefore DEF TracerInv, Extended
<1> QED
  BY <1>1 DEF TracerInv, SoundInv

\* Registries that stay as they are.
LEMMA ExtendedSame ==
  ASSUME TracerType, DOMAIN regs \subseteq DOMAIN regs', \A r \in DOMAIN regs : regs'[r] = regs[r],
         \A r \in DOMAIN regs' \ DOMAIN regs : regs'[r] = Registry
  PROVE  Extended
<1>1. \A r \in DOMAIN regs : regs[r] \in RegT
  BY DEF TracerType
<1>2. \A r \in DOMAIN regs : regs[r].next \in Nat
  BY <1>1 DEF RegT
<1> QED
  BY <1>2 DEF Extended

\* The first test of trace_reg_init.
LEMMA InitTest ==
  ASSUME TracerConstants, TracerInv, proc = "run", NEW t \in Traced, TrAt(t, "init"),
         IF gtr # NULL THEN ReturnInit(t) ELSE TrGo(t, "map"),
         UNCHANGED <<early, gtr, regs, late, hist, dump, armed, faults, proc>>
  PROVE  TracerInv'
<1> DEFINE m == IF gtr # NULL THEN [me[t] EXCEPT !.pc = me[t].ret, !.ret = NULL, !.reg = NULL]
                ELSE [me[t] EXCEPT !.pc = "map"]
<1>1. TracerType /\ PlaceInv /\ me[t].pc = "init"
  BY DEF TracerInv, TrAt
<1>2. me[t] \in MeT /\ dump[t] \in DumpT /\ hist[t] \in Nat /\ dump[t] = NoDump /\ me[t].ret \in {"draw", "install"}
  BY <1>1, Own DEF PlaceInv, PlaceOK, MeT
<1>3. /\ m \in MeT /\ m.slot = me[t].slot /\ m.base = me[t].base /\ m.pc \in {"draw", "install", "map"}
      /\ m.pc = "draw" => gtr # NULL /\ me[t].ret = "draw"
      /\ m.pc = "map" => m.ret = me[t].ret
  BY <1>2 DEF MeT, Places
<1>4. me' = [me EXCEPT ![t] = m]
  <2>1. me \in [Traced -> MeT]
    BY <1>1 DEF TracerType
  <2> QED
    BY <2>1 DEF ReturnInit, TrGo
<1> HIDE DEF m
<1>5. regs' \in Seq(RegT) /\ late' \in BOOLEAN /\ gtr' \in DOMAIN regs' \cup {NULL} /\ Extended
  BY <1>1, ExtendedSame DEF TracerType
<1>6. TracerType' /\ Alone(t) /\ me'[t] = m /\ (PlaceOK(t)' => PlaceInv')
  BY <1>1, <1>3, <1>4, <1>5, MeStep DEF Extended
<1>7. PlaceInv'
  BY <1>1, <1>2, <1>3, <1>6 DEF PlaceInv, PlaceOK
<1>8. SoundInv'
  <2> SUFFICES ASSUME Sound' PROVE SoundInv'
    BY DEF SoundInv
  <2>1. AttachOK(t)
    BY <1>5, <1>6, SoundExtended
  <2>2. me[t].slot # NULL => ~Attaching(t)'
    BY <1>1, <1>2, <1>3, <1>6, <2>1 DEF AttachOK, Attaching
  <2> QED
    BY <1>1, <1>3, <1>5, <1>6, <1>7, <2>2, Quietly DEF Faulted
<1> QED
  BY <1>6, <1>7, <1>8 DEF TracerInv, FaultInv, OneFaultDumped

\* The memory is mapped and published.
LEMMA InitMap ==
  ASSUME TracerConstants, TracerInv, proc = "run", NEW t \in Traced, TrAt(t, "map"),
         regs' = Append(regs, Registry), gtr' = Len(regs'),
         me' = [me EXCEPT ![t].pc = "clear", ![t].reg = gtr'], late' = (late \/ Drawing),
         UNCHANGED <<early, hist, dump, armed, faults, proc>>
  PROVE  TracerInv'
<1> DEFINE m == [me[t] EXCEPT !.pc = "clear", !.reg = gtr']
<1>1. TracerType /\ PlaceInv /\ me[t].pc = "map"
  BY DEF TracerInv, TrAt
<1>2. me[t] \in MeT /\ dump[t] = NoDump /\ me[t].ret \in {"draw", "install"}
  BY <1>1, Own DEF PlaceInv, PlaceOK, MeT
<1>3. /\ regs' \in Seq(RegT) /\ DOMAIN regs \subseteq DOMAIN regs' /\ gtr' \in DOMAIN regs' /\ gtr' \in Nat
      /\ Extended
  <2>1. regs \in Seq(RegT) /\ Registry \in RegT
    BY <1>1, ClearedSlots DEF TracerType
  <2> HIDE DEF Registry
  <2>2. /\ Len(regs') = Len(regs) + 1 /\ regs' \in Seq(RegT)
        /\ \A i \in 1 .. Len(regs) : regs'[i] = regs[i]
        /\ regs'[Len(regs) + 1] = Registry
    BY <2>1
  <2>3. DOMAIN regs = 1 .. Len(regs) /\ DOMAIN regs' = 1 .. Len(regs) + 1 /\ Len(regs) \in Nat
    BY <2>1, <2>2
  <2> QED
    BY <1>1, <2>2, <2>3, ExtendedSame
<1>4. gtr' # NULL
  BY <1>3 DEF TracerConstants
<1>5. m \in MeT /\ m.slot = me[t].slot /\ m.base = me[t].base /\ m.pc = "clear" /\ m.ret = me[t].ret /\ m.reg = gtr'
  BY <1>2, <1>3 DEF MeT, Places
<1>6. me' = [me EXCEPT ![t] = m]
  <2>1. me \in [Traced -> MeT]
    BY <1>1 DEF TracerType
  <2> QED
    BY <2>1
<1> HIDE DEF m
<1>7. TracerType' /\ Alone(t) /\ me'[t] = m /\ (PlaceOK(t)' => PlaceInv')
  <2>1. late' \in BOOLEAN
    BY <1>1 DEF TracerType, Drawing
  <2> QED
    BY <1>1, <1>3, <1>4, <1>5, <1>6, <2>1, MeStep
<1>8. PlaceInv'
  BY <1>1, <1>2, <1>3, <1>4, <1>5, <1>7 DEF PlaceInv, PlaceOK, NoDump
<1>9. SoundInv'
  <2> SUFFICES ASSUME Sound' PROVE SoundInv'
    BY DEF SoundInv
  <2>0. late' = late
    BY <1>1, <1>7 DEF Sound, TracerType
  <2>1. AttachOK(t)
    BY <1>3, <1>7, <2>0, SoundExtended
  <2>2. me[t].slot # NULL => ~Attaching(t)'
    BY <1>1, <1>2, <1>5, <1>7, <2>1 DEF AttachOK, Attaching
  <2> QED
    BY <1>1, <1>3, <1>5, <1>7, <1>8, <2>0, <2>2, Quietly DEF Faulted
<1> QED
  BY <1>7, <1>8, <1>9 DEF TracerInv, FaultInv, OneFaultDumped

\* The registry is cleared: if nothing was drawn from it, it is clear already.
LEMMA InitClear ==
  ASSUME TracerConstants, TracerInv, proc = "run", NEW t \in Traced, TrAt(t, "clear"),
         NEW r \in {me[t].reg, gtr}, regs' = [regs EXCEPT ![r] = Registry], late' = (late \/ regs[r].next > 0),
         ReturnInit(t), UNCHANGED <<early, gtr, hist, dump, armed, faults, proc>>
  PROVE  TracerInv'
<1> DEFINE m == [me[t] EXCEPT !.pc = me[t].ret, !.ret = NULL, !.reg = NULL]
<1>1. TracerType /\ PlaceInv /\ me[t].pc = "clear"
  BY DEF TracerInv, TrAt
<1>2. /\ me[t] \in MeT /\ dump[t] = NoDump /\ me[t].ret \in {"draw", "install"} /\ gtr # NULL
      /\ r \in DOMAIN regs
  BY <1>1, Own DEF PlaceInv, PlaceOK, MeT, TracerType
<1>3. /\ m \in MeT /\ m.slot = me[t].slot /\ m.base = me[t].base /\ m.pc = me[t].ret
  BY <1>2 DEF MeT, Places
<1>4. me' = [me EXCEPT ![t] = m]
  <2>1. me \in [Traced -> MeT]
    BY <1>1 DEF TracerType
  <2> QED
    BY <2>1 DEF ReturnInit
<1> HIDE DEF m
<1>5. /\ regs' \in Seq(RegT) /\ DOMAIN regs' = DOMAIN regs /\ late' \in BOOLEAN /\ gtr' \in DOMAIN regs' \cup {NULL}
      /\ regs'[r] = Registry /\ \A q \in DOMAIN regs : q # r => regs'[q] = regs[q]
  <2>1. Registry \in RegT /\ regs \in Seq(RegT) /\ late \in BOOLEAN /\ gtr \in DOMAIN regs \cup {NULL}
    BY <1>1, ClearedSlots DEF TracerType
  <2> HIDE DEF Registry
  <2> QED
    BY <1>2, <2>1
<1>6. TracerType' /\ Alone(t) /\ me'[t] = m /\ (PlaceOK(t)' => PlaceInv')
  BY <1>1, <1>3, <1>4, <1>5, MeStep
<1>7. PlaceInv'
  BY <1>1, <1>2, <1>3, <1>6 DEF PlaceInv, PlaceOK, NoDump
<1>8. SoundInv'
  <2> SUFFICES ASSUME Sound' PROVE SoundInv'
    BY DEF SoundInv
  <2>1. regs[r] \in RegT /\ regs[r].next = 0 /\ late = FALSE /\ late' = FALSE
    <3>1. regs[r] \in RegT
      BY <1>1, <1>2 DEF TracerType
    <3>2. regs[r].next \in Nat
      BY <3>1 DEF RegT
    <3>3. ~late'
      BY DEF Sound
    <3>4. ~late /\ ~(regs[r].next > 0)
      BY <3>3
    <3>5. late = FALSE /\ late' = FALSE
      BY <1>1, <1>5, <3>3, <3>4 DEF TracerType
    <3> QED
      BY <3>1, <3>2, <3>4, <3>5
  <2>2. Sound
    <3> SUFFICES ASSUME NEW q \in DOMAIN regs PROVE regs[q].next <= MAX_THR
      BY <2>1 DEF Sound
    <3>1. CASE q = r
      BY <2>1, <3>1 DEF TracerConstants
    <3>2. CASE q # r
      BY <1>5, <3>2 DEF Sound
    <3> QED
      BY <3>1, <3>2
  <2>3. SlotInv /\ AttachOK(t)
    BY <2>2 DEF TracerInv, SoundInv
  <2>4. regs[r] = Registry
    BY <1>2, <2>1, <2>3 DEF SlotInv
  <2>5. Extended
    <3> HIDE DEF Registry
    <3> QED
      BY <1>1, <1>2, <1>5, <2>4, ExtendedSame
  <2>6. me[t].slot # NULL => ~Attaching(t)'
    BY <1>1, <1>2, <1>3, <1>6, <2>3 DEF AttachOK, Attaching
  <2> QED
    BY <1>1, <1>2, <1>3, <1>6, <1>7, <2>1, <2>5, <2>6, Quietly DEF Faulted
<1> QED
  BY <1>6, <1>7, <1>8 DEF TracerInv, FaultInv, OneFaultDumped

\* An id is drawn: the slots stay, and one counter grows.
LEMMA Add ==
  ASSUME TracerConstants, TracerInv, proc = "run", NEW t \in Traced, DrawSlot(t),
         UNCHANGED <<early, late, gtr, hist, dump, armed, faults, proc>>
  PROVE  TracerInv'
<1> DEFINE c == me[t].reg
           n == regs[c].next
           m == [me[t] EXCEPT !.pc = "take", !.reg = NULL, !.k = n]
           g == [regs[c] EXCEPT !.next = n + 1]
<1>1. TracerType /\ PlaceInv /\ me[t].pc = "add"
  BY DEF TracerInv, DrawSlot, TrAt
<1>2. me[t] \in MeT /\ dump[t] = NoDump /\ gtr # NULL /\ c \in DOMAIN regs
  BY <1>1, Own DEF PlaceInv, PlaceOK
<1>3. regs[c] \in RegT /\ n \in Nat /\ regs \in Seq(RegT) /\ me \in [Traced -> MeT]
  <2>1. regs \in Seq(RegT) /\ me \in [Traced -> MeT]
    BY <1>1 DEF TracerType
  <2>2. regs[c] \in RegT
    BY <1>2, <2>1
  <2>3. n \in Nat
    BY <2>2 DEF RegT
  <2> QED
    BY <2>1, <2>2, <2>3
<1>4. g \in RegT /\ g.next = n + 1 /\ g.slots = regs[c].slots
  BY <1>3 DEF RegT
<1>5. regs' = [regs EXCEPT ![c] = g] /\ me' = [me EXCEPT ![t] = m]
  BY <1>3 DEF DrawSlot
<1>6. m \in MeT /\ m.slot = me[t].slot /\ m.base = me[t].base /\ m.pc = "take"
  <2> HIDE DEF n
  <2> QED
    BY <1>2, <1>3 DEF MeT, Places
<1> HIDE DEF m, g
<1>7. /\ regs' \in Seq(RegT) /\ DOMAIN regs' = DOMAIN regs /\ late' \in BOOLEAN /\ gtr' \in DOMAIN regs' \cup {NULL}
      /\ regs'[c] = g /\ \A q \in DOMAIN regs : q # c => regs'[q] = regs[q]
  BY <1>1, <1>2, <1>3, <1>4, <1>5 DEF TracerType
<1>8. Extended
  <2>1. \A q \in DOMAIN regs : regs[q] \in RegT
    BY <1>1 DEF TracerType
  <2>2. \A q \in DOMAIN regs : regs[q].next \in Nat
    BY <2>1 DEF RegT
  <2>3. n <= n + 1 /\ n + 1 # 0
    BY <1>3
  <2> QED
    BY <1>2, <1>4, <1>7, <2>2, <2>3 DEF Extended
<1>9. TracerType' /\ Alone(t) /\ me'[t] = m /\ (PlaceOK(t)' => PlaceInv')
  BY <1>1, <1>5, <1>6, <1>7, MeStep
<1>10. PlaceInv'
  BY <1>1, <1>2, <1>6, <1>7, <1>9 DEF PlaceInv, PlaceOK, NoDump
<1>11. SoundInv'
  <2> SUFFICES ASSUME Sound' PROVE SoundInv'
    BY DEF SoundInv
  <2>1. AttachOK(t)
    BY <1>8, <1>9, SoundExtended
  <2>2. me[t].slot = NULL
    BY <1>1, <2>1 DEF AttachOK, Attaching
  <2> QED
    BY <1>6, <1>8, <1>9, <1>10, <2>2, Quietly
<1> QED
  BY <1>9, <1>10, <1>11 DEF TracerInv, FaultInv, OneFaultDumped

\* A slot is taken by the id that was drawn: as long as there are enough, one that nobody has.
LEMMA Take ==
  ASSUME TracerConstants, TracerInv, DrawnInv, proc = "run", NEW t \in Traced, TrAt(t, "take"),
         me' = [me EXCEPT ![t].pc = "wipe", ![t].slot = <<gtr, me[t].k % MAX_THR>>, ![t].k = 0],
         UNCHANGED <<early, late, gtr, regs, hist, dump, armed, faults, proc>>
  PROVE  TracerInv'
<1> DEFINE n == me[t].k
           s == <<gtr, n % MAX_THR>>
           m == [me[t] EXCEPT !.pc = "wipe", !.slot = s, !.k = 0]
<1>1. TracerType /\ PlaceInv /\ me[t].pc = "take"
  BY DEF TracerInv, TrAt
<1>2. me[t] \in MeT /\ dump[t] = NoDump /\ gtr # NULL /\ gtr \in DOMAIN regs /\ gtr \in Nat
  BY <1>1, Own DEF PlaceInv, PlaceOK, TracerType
<1>3. regs[gtr] \in RegT /\ regs[gtr].next \in Nat /\ n \in Nat /\ regs \in Seq(RegT) /\ me \in [Traced -> MeT]
  <2>1. regs \in Seq(RegT) /\ me \in [Traced -> MeT]
    BY <1>1 DEF TracerType
  <2>2. regs[gtr] \in RegT
    BY <1>2, <2>1
  <2>3. n \in Nat
    BY <1>2 DEF MeT
  <2>4. regs[gtr].next \in Nat
    BY <2>2 DEF RegT
  <2> QED
    BY <2>1, <2>2, <2>3, <2>4
<1>4. n % MAX_THR \in Ids /\ n % MAX_THR \in Nat
  <2> HIDE DEF n
  <2>1. n \in Int /\ MAX_THR \in Nat \ {0}
    BY <1>3 DEF TracerConstants
  <2>2. n % MAX_THR \in 0 .. MAX_THR - 1
    BY <2>1, DivMod
  <2> QED
    BY <2>1, <2>2 DEF Ids
<1>5. s # NULL /\ s \in Nat \X Ids /\ s[1] = gtr /\ s[2] = n % MAX_THR
  BY <1>2, <1>4 DEF TracerConstants
<1>7. me' = [me EXCEPT ![t] = m]
  BY <1>3
<1>8. m \in MeT /\ m.slot = s /\ m.base = me[t].base /\ m.pc = "wipe"
  <2> HIDE DEF s
  <2> QED
    BY <1>2, <1>5 DEF MeT, Places
<1> HIDE DEF m, s
<1>9. regs' \in Seq(RegT) /\ DOMAIN regs' = DOMAIN regs /\ late' \in BOOLEAN /\ gtr' \in DOMAIN regs' \cup {NULL}
  BY <1>1 DEF TracerType
<1>10. TracerType' /\ Alone(t) /\ me'[t] = m /\ (PlaceOK(t)' => PlaceInv')
  BY <1>1, <1>7, <1>8, <1>9, MeStep
<1>11. PlaceInv'
  BY <1>1, <1>2, <1>5, <1>8, <1>9, <1>10 DEF PlaceInv, PlaceOK, NoDump
<1>12. \A q \in DOMAIN regs : regs'[q].slots = regs[q].slots
  OBVIOUS
<1>13. ASSUME Sound'
       PROVE  SlotInv' /\ (\A d \in Traced : ListOK(d)') /\ \A u \in Traced : AttachOK(u)' /\ RingOK(u)'
  <2>1. Sound /\ n < regs[gtr].next /\ \A u \in Traced : me[u].slot # <<gtr, n>>
    <3>1. Sound
      BY <1>13 DEF Sound
    <3> QED
      BY <1>1, <3>1 DEF DrawnInv, DrawOK
  <2>2. /\ SlotInv /\ \A d \in Traced : ListOK(d)
        /\ \A u \in Traced : AttachOK(u) /\ RingOK(u)
    BY <2>1 DEF TracerInv, SoundInv
  <2>3. me[t].slot = NULL
    BY <1>1, <2>2 DEF AttachOK, Attaching
  <2>4. n < MAX_THR
    <3>1. regs[gtr].next <= MAX_THR
      BY <1>2, <2>1 DEF Sound
    <3> QED
      BY <1>3, <2>1, <3>1 DEF TracerConstants
  <2>5. s = <<gtr, n>> /\ n \in Ids /\ s[1] = gtr /\ s[2] = n
    <3>1. n \in 0 .. MAX_THR - 1
      BY <1>3, <2>4 DEF TracerConstants
    <3>2. n % MAX_THR = n
      <4> HIDE DEF n
      <4> QED
        BY <3>1, Small DEF TracerConstants
    <3> QED
      BY <3>1, <3>2 DEF s, Ids
  <2> HIDE DEF n
  <2>6. \A u \in Traced : me[u].slot # s
    BY <2>1, <2>5
  <2>7. \A u \in Traced \ {t} : me'[u] = me[u]
    BY <1>10 DEF Alone
  <2>8. ASSUME NEW q \in DOMAIN regs, NEW i \in Ids, regs[q].slots[i].owner # NULL
        PROVE  /\ regs[q].slots[i].owner \in Traced \ {t} /\ me[regs[q].slots[i].owner].slot = <<q, i>>
               /\ <<q, i>> # s
    <3>1. regs[q] \in RegT /\ q \in Nat /\ i \in Nat
      BY <1>3 DEF Ids, TracerConstants
    <3>2. regs[q].slots[i].owner \in Traced
      BY <2>8, <3>1 DEF RegT, SlotT
    <3>3. me[regs[q].slots[i].owner].slot = <<q, i>>
      BY <2>2, <2>8 DEF SlotInv
    <3>4. <<q, i>> # NULL
      BY <3>1 DEF TracerConstants
    <3> QED
      BY <2>3, <2>6, <3>2, <3>3, <3>4
  <2>9. SlotInv'
    <3>1. ASSUME NEW q \in DOMAIN regs', regs'[q].next = 0 PROVE regs'[q] = Registry
      BY <1>9, <2>2, <3>1 DEF SlotInv
    <3>2. ASSUME NEW u \in Traced, me'[u].slot # NULL PROVE me'[u].slot[2] < regs'[me'[u].slot[1]].next
      <4>1. CASE u = t
        <5>1. me'[u].slot[1] = gtr /\ me'[u].slot[2] = n
          BY <1>8, <1>10, <2>5, <4>1
        <5>2. n < regs'[gtr].next
          BY <2>1
        <5> QED
          BY <5>1, <5>2
      <4>2. CASE u # t
        <5>1. me[u].slot # NULL /\ me'[u] = me[u]
          BY <2>7, <3>2, <4>2
        <5>2. me[u].slot[1] \in DOMAIN regs /\ me[u].slot[2] \in Ids /\ me[u].slot[2] < regs[me[u].slot[1]].next
          BY <1>1, <2>2, <5>1, MineThere DEF SlotInv
        <5> QED
          BY <5>1, <5>2
      <4> QED
        BY <4>1, <4>2
    <3>3. ASSUME NEW u \in Traced, NEW w \in Traced, u # w, me'[u].slot # NULL PROVE me'[u].slot # me'[w].slot
      <4>1. CASE u = t
        BY <1>8, <1>10, <2>6, <2>7, <3>3, <4>1
      <4>2. CASE w = t
        BY <1>8, <1>10, <2>6, <2>7, <3>3, <4>2
      <4>3. CASE u # t /\ w # t
        BY <2>2, <2>7, <3>3, <4>3 DEF SlotInv
      <4> QED
        BY <4>1, <4>2, <4>3
    <3>4. ASSUME NEW q \in DOMAIN regs', NEW i \in Ids
          PROVE  /\ regs'[q].slots[i].used => regs'[q].slots[i].owner # NULL
                 /\ regs'[q].slots[i].owner # NULL => me'[regs'[q].slots[i].owner].slot = <<q, i>>
      <4>1. regs'[q].slots[i] = regs[q].slots[i] /\ q \in DOMAIN regs
        BY <1>9, <1>12
      <4>2. regs[q].slots[i].used => regs[q].slots[i].owner # NULL
        BY <2>2, <4>1 DEF SlotInv
      <4> QED
        BY <2>7, <2>8, <4>1, <4>2
    <3> QED
      BY <3>1, <3>2, <3>3, <3>4 DEF SlotInv
  <2>10. ASSUME NEW d \in Traced PROVE ListOK(d)'
    <3> SUFFICES ASSUME dump[d].seen >= 0 PROVE ListOK(d)'
      BY DEF ListOK
    <3>1. dump[d].r # NULL
      BY <1>1, Listing
    <3>2. Listed(d).used
      BY <2>2 DEF ListOK
    <3>3. dump[d].r \in DOMAIN regs /\ dump[d].i \in Ids /\ Listed(d).owner \in Traced /\ Listed(d).owner # NULL
      BY <1>1, <2>2, <3>1, <3>2, ListedThere DEF TracerConstants
    <3>4. Listed(d)' = Listed(d)
      BY <1>12, <3>3 DEF Listed
    <3>5. PICK o \in Traced : o = Listed(d).owner
      BY <3>3
    <3>6. o # t
      BY <2>8, <3>3, <3>5 DEF Listed
    <3>7. me'[o] = me[o]
      BY <2>7, <3>6
    <3>8. ListExact(d, o) => ListExact(d, o)'
      BY <3>4, <3>7 DEF ListExact, StartOf, Count
    <3> QED
      BY <2>2, <3>2, <3>4, <3>5, <3>8 DEF ListOK
  <2>11. ASSUME NEW u \in Traced PROVE AttachOK(u)' /\ RingOK(u)'
    <3>1. CASE u = t
      <4>1. Mine(t)' = regs[gtr].slots[n]
        <5>1. me'[t].slot[1] = gtr /\ me'[t].slot[2] = n
          BY <1>8, <1>10, <2>5
        <5>2. Mine(t)' = regs'[me'[t].slot[1]].slots[me'[t].slot[2]]
          BY DEF Mine, Slot
        <5> QED
          BY <5>1, <5>2
      <4>2. regs[gtr].slots[n].owner = NULL
        BY <1>2, <2>5, <2>8
      <4>3. ~regs[gtr].slots[n].used
        BY <1>2, <2>2, <2>5, <4>2 DEF SlotInv
      <4> QED
        BY <1>8, <1>10, <3>1, <4>1, <4>2, <4>3 DEF AttachOK, RingOK, Attaching
    <3>2. CASE u # t
      <4>1. me'[u] = me[u] /\ Count(u)' = Count(u)
        BY <2>7, <3>2 DEF Count
      <4>2. me[u].slot # NULL => Mine(u)' = Mine(u)
        <5> SUFFICES ASSUME me[u].slot # NULL PROVE Mine(u)' = Mine(u)
          OBVIOUS
        <5>1. me[u].slot[1] \in DOMAIN regs
          BY <1>1, MineThere
        <5> QED
          BY <1>12, <4>1, <5>1 DEF Mine, Slot
      <4>3. (Faulted(u)' <=> Faulted(u)) /\ (Attaching(u)' <=> Attaching(u)) /\ (Whole(u)' <=> Whole(u))
        BY <4>1 DEF Faulted, Attaching, Whole
      <4>4. me[u].pc \in {"wipe", "use", "time"} => me[u].slot # NULL
        BY <1>1 DEF PlaceInv, PlaceOK
      <4>5. AttachOK(u)'
        BY <2>2, <4>1, <4>2, <4>3, <4>4 DEF AttachOK
      <4>6. RingOK(u)'
        BY <2>2, <4>1, <4>2, <4>3 DEF RingOK
      <4> QED
        BY <4>5, <4>6
    <3> QED
      BY <3>1, <3>2
  <2> QED
    BY <2>9, <2>10, <2>11
<1> QED
  BY <1>10, <1>11, <1>13 DEF TracerInv, FaultInv, OneFaultDumped, SoundInv

\* A thread that writes into its own slot, on the way to its next place.
LEMMA SlotStep ==
  ASSUME TracerConstants, TracerInv, proc = "run", NEW t \in Traced,
         me[t].pc \in {"wipe", "use", "mark", "site", "time"},
         NEW v \in SlotT, Put(me[t].slot, v),
         NEW m \in MeT, me' = [me EXCEPT ![t] = m], m.slot = me[t].slot, m.pc \in {"use", "mark", "site", "time", "idle"},
         NEW h \in Nat, h >= hist[t], hist' = [hist EXCEPT ![t] = h],
         UNCHANGED <<early, late, gtr, dump, armed, faults, proc>>,
         SlotInv /\ AttachOK(t) /\ RingOK(t) =>
           v.owner = t /\ (~Mine(t).used \/ (v.used /\ (h > hist[t] \/ me[t].pc \in {"site", "time"}))),
         SlotInv /\ AttachOK(t) /\ RingOK(t) /\ Mine(t)' = v /\ me'[t] = m /\ hist'[t] = h => AttachOK(t)' /\ RingOK(t)'
  PROVE  TracerInv'
<1>1. TracerType /\ PlaceInv
  BY DEF TracerInv
<1>2. me[t].slot # NULL
  BY <1>1 DEF PlaceInv, PlaceOK
<1>3. PICK r \in DOMAIN regs, i \in Ids : me[t].slot = <<r, i>> /\ Mine(t) = regs[r].slots[i] /\ me[t].slot[1] = r
  BY <1>1, <1>2, MineThere
<1>4. /\ regs' \in Seq(RegT) /\ DOMAIN regs' = DOMAIN regs
      /\ \A q \in DOMAIN regs : q # r => regs'[q] = regs[q]
      /\ regs'[r].next = regs[r].next
  BY <1>1, <1>3, PutFacts
<1>5. dump[t] \in DumpT /\ dump' = [dump EXCEPT ![t] = dump[t]]
  BY <1>1, Own
<1>6. /\ late' \in BOOLEAN /\ gtr' \in DOMAIN regs' \cup {NULL} /\ UNCHANGED early
      /\ DOMAIN regs \subseteq DOMAIN regs' /\ (gtr # NULL => gtr' # NULL)
  BY <1>1, <1>4 DEF TracerType
<1>7. TracerType' /\ Alone(t) /\ me'[t] = m /\ hist'[t] = h /\ (PlaceOK(t)' => PlaceInv')
  <2>1. t \in Traced /\ m \in MeT /\ h \in Nat /\ me' = [me EXCEPT ![t] = m] /\ hist' = [hist EXCEPT ![t] = h]
    OBVIOUS
  <2> QED
    BY ONLY TracerConstants, <1>1, <1>4, <1>5, <1>6, <2>1, TypeStep
<1>8. dump[t] = NoDump
  BY <1>1 DEF PlaceInv, PlaceOK
<1>9. PlaceInv'
  BY <1>1, <1>2, <1>3, <1>4, <1>7, <1>8 DEF PlaceInv, PlaceOK, NoDump
<1>10. ASSUME Sound'
       PROVE  SlotInv' /\ (\A d \in Traced : ListOK(d)') /\ \A u \in Traced : AttachOK(u)' /\ RingOK(u)'
  <2>1. Sound
    <3>1. ASSUME NEW q \in DOMAIN regs PROVE q \in DOMAIN regs' /\ regs[q].next <= regs'[q].next
      <4>1. regs[q] \in RegT
        BY <1>1 DEF TracerType
      <4> QED
        BY <1>4, <4>1 DEF RegT
    <3> QED
      BY <1>1, <1>7, <1>10, <3>1, SoundBefore
  <2>2. SlotInv /\ AttachOK(t) /\ RingOK(t)
    BY <2>1 DEF TracerInv, SoundInv
  <2>3. /\ SlotInv' /\ \A d \in Traced : ListOK(d)'
        /\ \A u \in Traced \ {t} : AttachOK(u)' /\ RingOK(u)'
        /\ Mine(t)' = v
    BY <1>2, <1>7, <1>9, <1>10, <2>2, OwnWrite
  <2> QED
    BY <1>7, <2>2, <2>3
<1> QED
  BY <1>7, <1>9, <1>10 DEF TracerInv, FaultInv, OneFaultDumped, SoundInv

\* The slot that is drawn is cleared and named.
LEMMA Wipe ==
  ASSUME TracerConstants, TracerInv, proc = "run", NEW t \in Traced, TrAt(t, "wipe"),
         Put(me[t].slot, [Cleared EXCEPT !.owner = t]),
         me' = [me EXCEPT ![t].pc = "use", ![t].base = hist[t]],
         UNCHANGED <<early, late, gtr, hist, dump, armed, faults, proc>>
  PROVE  TracerInv'
<1> DEFINE m == [me[t] EXCEPT !.pc = "use", !.base = hist[t]]
           v == [Cleared EXCEPT !.owner = t]
<1>1. TracerType /\ PlaceInv /\ me[t].pc = "wipe"
  BY DEF TracerInv, TrAt
<1>2. me[t] \in MeT /\ hist[t] \in Nat /\ hist' = [hist EXCEPT ![t] = hist[t]] /\ me \in [Traced -> MeT]
  BY <1>1, Own DEF TracerType
<1>3. m \in MeT /\ m.slot = me[t].slot /\ m.pc = "use" /\ m.base = hist[t] /\ me' = [me EXCEPT ![t] = m]
  BY <1>2 DEF MeT, Places
<1>4. v \in SlotT /\ v.owner = t /\ ~v.used
  <2>1. Cleared \in SlotT
    BY ClearedSlots
  <2> QED
    BY <2>1 DEF SlotT, Cleared
<1> HIDE DEF m, v
<1>5. SlotInv /\ AttachOK(t) => ~Mine(t).used
  <2> SUFFICES ASSUME SlotInv, AttachOK(t) PROVE ~Mine(t).used
    OBVIOUS
  <2>1. me[t].slot # NULL
    BY <1>1 DEF PlaceInv, PlaceOK
  <2>2. me[t].slot[1] \in DOMAIN regs /\ me[t].slot[2] \in Ids
    BY <1>1, <2>1, MineThere
  <2>3. Mine(t).owner = NULL
    BY <1>1 DEF AttachOK
  <2> QED
    BY <2>2, <2>3 DEF SlotInv, Mine, Slot
<1>6. Mine(t)' = v /\ me'[t] = m /\ hist'[t] = hist[t] => AttachOK(t)' /\ RingOK(t)'
  BY <1>3, <1>4 DEF AttachOK, RingOK, Attaching
<1>7. Put(me[t].slot, v)
  BY DEF v
<1>8. SlotInv /\ AttachOK(t) /\ RingOK(t) =>
        v.owner = t /\ (~Mine(t).used \/ (v.used /\ (hist[t] > hist[t] \/ me[t].pc \in {"site", "time"})))
  BY <1>4, <1>5
<1>9. hist[t] >= hist[t]
  BY <1>2
<1>10. t \in Traced /\ UNCHANGED <<early, late, gtr, dump, armed, faults, proc>>
  OBVIOUS
<1> QED
  BY ONLY TracerConstants, TracerInv, proc = "run", <1>1, <1>2, <1>3, <1>4, <1>6, <1>7, <1>8, <1>9, <1>10, SlotStep

\* The slot is marked as used.
LEMMA Use ==
  ASSUME TracerConstants, TracerInv, proc = "run", NEW t \in Traced, TrAt(t, "use"),
         Put(me[t].slot, [Slot(me[t].slot) EXCEPT !.idx = 0, !.used = TRUE]), TrGo(t, "mark"),
         UNCHANGED <<early, late, gtr, hist, dump, armed, faults, proc>>
  PROVE  TracerInv'
<1> DEFINE m == [me[t] EXCEPT !.pc = "mark"]
           v == [Mine(t) EXCEPT !.idx = 0, !.used = TRUE]
<1>1. TracerType /\ PlaceInv /\ me[t].pc = "use" /\ me[t].slot # NULL
  BY DEF TracerInv, TrAt, PlaceInv, PlaceOK
<1>2. me[t] \in MeT /\ hist[t] \in Nat /\ hist' = [hist EXCEPT ![t] = hist[t]] /\ me \in [Traced -> MeT]
  BY <1>1, Own DEF TracerType
<1>3. m \in MeT /\ m.slot = me[t].slot /\ m.pc = "mark" /\ m.base = me[t].base /\ me' = [me EXCEPT ![t] = m]
  BY <1>2 DEF MeT, Places, TrGo
<1>4. Mine(t) \in SlotT
  BY <1>1, MineThere
<1>5. v \in SlotT /\ v.used /\ v.idx = 0 /\ v.owner = Mine(t).owner
  <2> HIDE DEF Mine
  <2> QED
    BY <1>4 DEF SlotT
<1>6. Put(me[t].slot, v)
  BY DEF Mine
<1> HIDE DEF m, v
<1>7. AttachOK(t) => v.owner = t /\ ~Mine(t).used /\ m.base = hist[t]
  BY <1>1, <1>3, <1>5 DEF AttachOK
<1>8. AttachOK(t) /\ Mine(t)' = v /\ me'[t] = m /\ hist'[t] = hist[t] => AttachOK(t)'
  BY <1>3, <1>5, <1>7 DEF AttachOK, Attaching
<1>9. AttachOK(t) /\ Mine(t)' = v /\ me'[t] = m /\ hist'[t] = hist[t] => RingOK(t)'
  <2> SUFFICES ASSUME AttachOK(t), Mine(t)' = v, me'[t] = m, hist'[t] = hist[t] PROVE RingOK(t)'
    OBVIOUS
  <2>1. Count(t)' = 0
    BY <1>2, <1>7 DEF Count
  <2>2. 0 % IdxWrap = 0
    BY Small DEF TracerConstants
  <2> QED
    BY <1>5, <2>1, <2>2 DEF RingOK
<1>10. SlotInv /\ AttachOK(t) /\ RingOK(t) =>
         v.owner = t /\ (~Mine(t).used \/ (v.used /\ (hist[t] > hist[t] \/ me[t].pc \in {"site", "time"})))
  BY <1>7
<1>11. hist[t] >= hist[t]
  BY <1>2
<1> QED
  BY <1>1, <1>2, <1>3, <1>5, <1>6, <1>8, <1>9, <1>10, <1>11, SlotStep

\* The place in the ring of a count that may have wrapped around.
LEMMA RingPlace ==
  ASSUME TracerConstants, NEW c \in Int
  PROVE  (c % IdxWrap) % TRACE_N = c % TRACE_N /\ c % TRACE_N \in Ring /\ c % IdxWrap \in Nat
<1> DEFINE j == c % IdxWrap
<1>1. IdxWrap \in Nat \ {0} /\ TRACE_N \in Nat \ {0} /\ IdxWrap % TRACE_N = 0
  BY DEF TracerConstants
<1>2. j \in 0 .. IdxWrap - 1 /\ c % TRACE_N \in 0 .. TRACE_N - 1
  BY <1>1, DivMod
<1>3. j \in Int /\ j \in Nat
  BY <1>1, <1>2
<1>4. ((c - j) + j) % TRACE_N = j % TRACE_N
  <2>1. \A i \in Int : ((c - (c % IdxWrap)) + i) % TRACE_N = i % TRACE_N
    BY <1>1, ModDivides
  <2> QED
    BY <1>3, <2>1
<1>5. (c - j) + j = c
  BY <1>3
<1> QED
  BY <1>2, <1>3, <1>4, <1>5 DEF Ring

\* The ring of t after a step.
LEMMA RingAfter ==
  ASSUME NEW t, NEW c, NEW h, NEW v, Count(t)' = c, hist'[t] = h, Mine(t)' = v, c >= 0, v.idx = c % IdxWrap,
         \A e \in 1 .. TRACE_N : e <= c /\ (e = 1 => Whole(t)') => v.ring[(c - e) % TRACE_N] = Point(h - e + 1)
  PROVE  RingOK(t)'
  BY DEF RingOK

\* A point is drawn: the counter goes on, and the other points stay in the ring.
LEMMA Mark ==
  ASSUME TracerConstants, TracerInv, proc = "run", NEW t \in Traced, TrAt(t, "mark"),
         Put(me[t].slot, [Slot(me[t].slot) EXCEPT !.idx = (@ + 1) % IdxWrap]),
         hist' = [hist EXCEPT ![t] = @ + 1],
         me' = [me EXCEPT ![t].pc = "site", ![t].k = Slot(me[t].slot).idx % TRACE_N],
         UNCHANGED <<early, late, gtr, dump, armed, faults, proc>>
  PROVE  TracerInv'
<1> DEFINE m == [me[t] EXCEPT !.pc = "site", !.k = Mine(t).idx % TRACE_N]
           v == [Mine(t) EXCEPT !.idx = (Mine(t).idx + 1) % IdxWrap]
           h == hist[t] + 1
           c == Count(t)
<1>1. TracerType /\ PlaceInv /\ me[t].pc = "mark" /\ me[t].slot # NULL
  BY DEF TracerInv, TrAt, PlaceInv, PlaceOK
<1>2. /\ me[t] \in MeT /\ hist[t] \in Nat /\ h \in Nat /\ h > hist[t] /\ me \in [Traced -> MeT]
      /\ hist' = [hist EXCEPT ![t] = h] /\ me[t].base \in Nat
  BY <1>1, Own DEF TracerType, MeT
<1>3. Mine(t) \in SlotT
  BY <1>1, MineThere
<1>4. Mine(t).idx \in Nat /\ Mine(t).idx % TRACE_N \in Nat /\ (Mine(t).idx + 1) % IdxWrap \in Nat
  <2>1. Mine(t).idx \in Nat
    BY <1>3 DEF SlotT
  <2>2. \A n \in Nat : n % TRACE_N \in Nat /\ (n + 1) % IdxWrap \in Nat
    <3>1. TRACE_N \in Nat \ {0} /\ IdxWrap \in Nat \ {0}
      BY DEF TracerConstants
    <3> QED
      BY <3>1
  <2> QED
    BY <2>1, <2>2
<1>5. /\ v \in SlotT /\ v.used = Mine(t).used /\ v.idx = (Mine(t).idx + 1) % IdxWrap /\ v.owner = Mine(t).owner
      /\ v.ring = Mine(t).ring
  <2> HIDE DEF Mine
  <2> QED
    BY <1>3, <1>4 DEF SlotT
<1>6. Put(me[t].slot, v)
  BY DEF Mine
<1>7. /\ m \in MeT /\ m.slot = me[t].slot /\ m.pc = "site" /\ m.base = me[t].base /\ m.k = Mine(t).idx % TRACE_N
      /\ me' = [me EXCEPT ![t] = m]
  <2>1. me' = [me EXCEPT ![t].pc = "site", ![t].k = Mine(t).idx % TRACE_N]
    BY DEF Mine
  <2> HIDE DEF Mine
  <2> QED
    BY <1>2, <1>4, <2>1 DEF MeT, Places
<1>8. c \in Int /\ h \in Nat
  BY <1>2 DEF Count
<1> HIDE DEF m, v
<1>9. AttachOK(t) => v.owner = t /\ v.used /\ Mine(t).used /\ ~Faulted(t) /\ Whole(t)
  BY <1>1, <1>5 DEF AttachOK, Faulted, Whole
<1>10. ASSUME AttachOK(t), RingOK(t), Mine(t)' = v, me'[t] = m, hist'[t] = h PROVE AttachOK(t)' /\ RingOK(t)'
  <2>1. Count(t)' = c + 1
    BY <1>2, <1>7, <1>10 DEF Count
  <2>2. /\ c >= 0 /\ Mine(t).idx = c % IdxWrap
        /\ \A e \in 1 .. TRACE_N : e <= c => Mine(t).ring[(c - e) % TRACE_N] = Point(hist[t] - e + 1)
    BY <1>1, <1>9, <1>10 DEF RingOK
  <2> HIDE DEF c
  <2>3. v.idx = (c + 1) % IdxWrap
    <3>1. IdxWrap \in Nat \ {0}
      BY DEF TracerConstants
    <3>2. ((c % IdxWrap) + 1) % IdxWrap = (c + 1) % IdxWrap
      BY <1>8, <3>1, ModNext
    <3> QED
      BY <1>5, <2>2, <3>2
  <2>4. m.k = c % TRACE_N
    BY <1>7, <1>8, <2>2, RingPlace
  <2>5. Count(t)' > 0 /\ m.k = (Count(t)' - 1) % TRACE_N
    <3>1. c + 1 > 0 /\ (c + 1) - 1 = c
      BY <1>8, <2>2
    <3> QED
      BY <2>1, <2>4, <3>1
  <2>6. AttachOK(t)'
    BY <1>7, <1>9, <1>10, <2>5 DEF AttachOK, Attaching
  <2>7. ASSUME NEW e \in 1 .. TRACE_N, e <= c + 1, e # 1 PROVE v.ring[(c + 1 - e) % TRACE_N] = Point(h - e + 1)
    <3>1. e - 1 \in 1 .. TRACE_N /\ e - 1 <= c /\ c + 1 - e = c - (e - 1) /\ h - e + 1 = hist[t] - (e - 1) + 1
      <4>1. TRACE_N \in Nat
        BY DEF TracerConstants
      <4> QED
        BY <1>2, <1>8, <2>7, <4>1
    <3> QED
      BY <1>5, <2>2, <3>1
  <2>8. ~Whole(t)'
    BY <1>7, <1>10 DEF Whole
  <2>9. Count(t)' >= 0
    BY <1>8, <2>1, <2>2
  <2>10. RingOK(t)'
    <3>1. PICK z \in Int : z = c + 1
      BY <1>8
    <3>2. Count(t)' = z /\ v.idx = z % IdxWrap /\ z >= 0
      BY <2>1, <2>3, <2>9, <3>1
    <3> HIDE DEF h
    <3>3. ASSUME NEW e \in 1 .. TRACE_N, e <= z, e = 1 => Whole(t)' PROVE v.ring[(z - e) % TRACE_N] = Point(h - e + 1)
      <4>1. e # 1 /\ e <= c + 1
        BY <2>8, <3>1, <3>3
      <4>2. v.ring[(c + 1 - e) % TRACE_N] = Point(h - e + 1)
        BY <2>7, <4>1
      <4> QED
        BY <1>8, <3>1, <4>2
    <3> QED
      BY ONLY <1>10, <3>2, <3>3, RingAfter
  <2> QED
    BY <2>6, <2>10
<1>11. SlotInv /\ AttachOK(t) /\ RingOK(t) =>
         v.owner = t /\ (~Mine(t).used \/ (v.used /\ (h > hist[t] \/ me[t].pc \in {"site", "time"})))
  BY <1>2, <1>9
<1>12. h >= hist[t] /\ t \in Traced /\ UNCHANGED <<early, late, gtr, dump, armed, faults, proc>>
  BY <1>2
<1> HIDE DEF h
<1> QED
  BY ONLY TracerConstants, TracerInv, proc = "run", <1>1, <1>2, <1>5, <1>6, <1>7, <1>10, <1>11, <1>12, SlotStep

\* The place in the ring of a point that is being marked is not that of an earlier one.
LEMMA OtherPlaces ==
  ASSUME TracerConstants, NEW c \in Int, NEW e \in 1 .. TRACE_N, e # 1
  PROVE  (c - e) % TRACE_N # (c - 1) % TRACE_N
<1>1. TRACE_N \in Nat \ {0} /\ c - 1 \in Int /\ e - 1 \in 1 .. TRACE_N - 1 /\ (c - 1) - (e - 1) = c - e
  BY DEF TracerConstants
<1>2. ((c - 1) - (e - 1)) % TRACE_N # (c - 1) % TRACE_N
  BY ONLY <1>1, ModApart
<1> QED
  BY <1>1, <1>2

\* What t knows while it writes its entry.
LEMMA Marking ==
  ASSUME TracerConstants, TracerInv, NEW t \in Traced, me[t].pc \in {"site", "time"}
  PROVE  /\ me[t] \in MeT /\ me[t].slot # NULL /\ hist[t] \in Nat /\ hist = [hist EXCEPT ![t] = hist[t]]
         /\ me \in [Traced -> MeT] /\ Mine(t) \in SlotT /\ Count(t) \in Int /\ hist[t] >= hist[t]
         /\ AttachOK(t) => /\ me[t].k = (Count(t) - 1) % TRACE_N /\ me[t].k \in Ring /\ Count(t) > 0
                           /\ Mine(t).used /\ Mine(t).owner = t
                           /\ me[t].pc = "time" => Mine(t).ring[me[t].k].site = hist[t]
<1>1. TracerType /\ PlaceInv /\ me[t].slot # NULL
  BY DEF TracerInv, PlaceInv, PlaceOK
<1>2. me[t] \in MeT /\ hist[t] \in Nat /\ hist = [hist EXCEPT ![t] = hist[t]] /\ me \in [Traced -> MeT]
  BY <1>1, Own DEF TracerType
<1>3. Mine(t) \in SlotT
  BY <1>1, MineThere
<1>4. Count(t) \in Int
  BY <1>2 DEF Count, MeT
<1>5. (Count(t) - 1) % TRACE_N \in Ring
  <2>1. Count(t) - 1 \in Int
    BY <1>4
  <2> QED
    BY <2>1, RingPlace
<1>6. AttachOK(t) => /\ me[t].k = (Count(t) - 1) % TRACE_N /\ me[t].k \in Ring /\ Count(t) > 0
                     /\ Mine(t).used /\ Mine(t).owner = t
                     /\ me[t].pc = "time" => Mine(t).ring[me[t].k].site = hist[t]
  BY <1>1, <1>5 DEF AttachOK, Faulted
<1> QED
  BY <1>1, <1>2, <1>3, <1>4, <1>6

\* The place of a point is written.
LEMMA Site ==
  ASSUME TracerConstants, TracerInv, proc = "run", NEW t \in Traced, TrAt(t, "site"),
         Put(me[t].slot, [Slot(me[t].slot) EXCEPT !.ring[me[t].k].site = hist[t]]), TrGo(t, "time"),
         UNCHANGED <<early, late, gtr, hist, dump, armed, faults, proc>>
  PROVE  TracerInv'
<1> DEFINE m == [me[t] EXCEPT !.pc = "time"]
           k == me[t].k
           x == [Mine(t).ring[k] EXCEPT !.site = hist[t]]
           ring == [Mine(t).ring EXCEPT ![k] = x]
           v == [Mine(t) EXCEPT !.ring = ring]
           c == Count(t)
<1>1. me[t].pc = "site"
  BY DEF TrAt
<1>2. /\ me[t] \in MeT /\ me[t].slot # NULL /\ hist[t] \in Nat /\ hist' = [hist EXCEPT ![t] = hist[t]]
      /\ me \in [Traced -> MeT] /\ Mine(t) \in SlotT /\ c \in Int /\ hist[t] >= hist[t]
      /\ AttachOK(t) => /\ k = (c - 1) % TRACE_N /\ k \in Ring /\ c > 0
                        /\ Mine(t).used /\ Mine(t).owner = t
  BY <1>1, Marking
<1>3. Mine(t).ring \in [Ring -> EntryT]
  BY <1>2 DEF SlotT
<1>4. k \in Ring => x \in EntryT /\ x.site = hist[t]
  <2> SUFFICES ASSUME k \in Ring PROVE x \in EntryT /\ x.site = hist[t]
    OBVIOUS
  <2>1. Mine(t).ring[k] \in EntryT
    BY <1>3
  <2> HIDE DEF Mine
  <2> QED
    BY <1>2, <2>1 DEF EntryT
<1>5. Put(me[t].slot, v)
  BY DEF Mine
<1> HIDE DEF x, k, Mine
<1>6. /\ ring \in [Ring -> EntryT] /\ (k \in Ring => ring[k] = x)
      /\ \A i \in Ring : i # k => ring[i] = Mine(t).ring[i]
  BY <1>3, <1>4
<1> HIDE DEF ring
<1>7. v \in SlotT /\ v.used = Mine(t).used /\ v.idx = Mine(t).idx /\ v.owner = Mine(t).owner /\ v.ring = ring
  BY <1>2, <1>6 DEF SlotT
<1>8. /\ m \in MeT /\ m.slot = me[t].slot /\ m.pc = "time" /\ m.base = me[t].base /\ m.k = k
      /\ me' = [me EXCEPT ![t] = m]
  BY <1>2 DEF MeT, Places, TrGo, k
<1> HIDE DEF m, v, c
<1>9. ASSUME AttachOK(t), RingOK(t), Mine(t)' = v, me'[t] = m, hist'[t] = hist[t] PROVE AttachOK(t)' /\ RingOK(t)'
  <2>1. Count(t)' = c
    BY <1>8, <1>9 DEF Count, c
  <2>2. /\ c >= 0 /\ Mine(t).idx = c % IdxWrap
        /\ \A e \in 1 .. TRACE_N : e <= c /\ e # 1 => Mine(t).ring[(c - e) % TRACE_N] = Point(hist[t] - e + 1)
    BY <1>1, <1>2, <1>9 DEF RingOK, c
  <2>3. AttachOK(t)'
    BY <1>2, <1>4, <1>6, <1>7, <1>8, <1>9, <2>1 DEF AttachOK, Attaching
  <2>4. ~Whole(t)'
    BY <1>8, <1>9 DEF Whole
  <2>5. ASSUME NEW e \in 1 .. TRACE_N, e <= c, e # 1 PROVE v.ring[(c - e) % TRACE_N] = Point(hist[t] - e + 1)
    <3>1. (c - e) % TRACE_N # k
      BY <1>2, <1>9, <2>5, OtherPlaces
    <3>2. (c - e) % TRACE_N \in Ring
      <4>1. c - e \in Int
        BY <1>2
      <4> QED
        BY <4>1, RingPlace
    <3> QED
      BY <1>6, <1>7, <2>2, <2>5, <3>1, <3>2
  <2>6. \A e \in 1 .. TRACE_N : e <= c /\ (e = 1 => Whole(t)') => v.ring[(c - e) % TRACE_N] = Point(hist[t] - e + 1)
    BY <2>4, <2>5
  <2>7. v.idx = c % IdxWrap /\ c >= 0
    BY <1>7, <2>2
  <2>8. RingOK(t)'
    BY ONLY <1>9, <2>1, <2>6, <2>7, RingAfter
  <2> QED
    BY <2>3, <2>8
<1>10. SlotInv /\ AttachOK(t) /\ RingOK(t) =>
         v.owner = t /\ (~Mine(t).used \/ (v.used /\ (hist[t] > hist[t] \/ me[t].pc \in {"site", "time"})))
  BY <1>1, <1>2, <1>7
<1>11. t \in Traced /\ UNCHANGED <<early, late, gtr, dump, armed, faults, proc>>
  OBVIOUS
<1> QED
  BY ONLY TracerConstants, TracerInv, proc = "run", <1>1, <1>2, <1>5, <1>7, <1>8, <1>9, <1>10, <1>11, SlotStep

\* Its time is written: the point is complete.
LEMMA Time ==
  ASSUME TracerConstants, TracerInv, proc = "run", NEW t \in Traced, TrAt(t, "time"),
         Put(me[t].slot, [Slot(me[t].slot) EXCEPT !.ring[me[t].k].t = hist[t]]),
         me' = [me EXCEPT ![t].pc = "idle", ![t].k = 0],
         UNCHANGED <<early, late, gtr, hist, dump, armed, faults, proc>>
  PROVE  TracerInv'
<1> DEFINE m == [me[t] EXCEPT !.pc = "idle", !.k = 0]
           k == me[t].k
           x == [Mine(t).ring[k] EXCEPT !.t = hist[t]]
           ring == [Mine(t).ring EXCEPT ![k] = x]
           v == [Mine(t) EXCEPT !.ring = ring]
           c == Count(t)
<1>1. me[t].pc = "time"
  BY DEF TrAt
<1>2. /\ me[t] \in MeT /\ me[t].slot # NULL /\ hist[t] \in Nat /\ hist' = [hist EXCEPT ![t] = hist[t]]
      /\ me \in [Traced -> MeT] /\ Mine(t) \in SlotT /\ c \in Int /\ hist[t] >= hist[t]
      /\ AttachOK(t) => /\ k = (c - 1) % TRACE_N /\ k \in Ring /\ c > 0
                        /\ Mine(t).used /\ Mine(t).owner = t /\ Mine(t).ring[k].site = hist[t]
  BY <1>1, Marking
<1>3. Mine(t).ring \in [Ring -> EntryT]
  BY <1>2 DEF SlotT
<1>4. k \in Ring => x \in EntryT /\ (Mine(t).ring[k].site = hist[t] => x = Point(hist[t]))
  <2> SUFFICES ASSUME k \in Ring PROVE x \in EntryT /\ (Mine(t).ring[k].site = hist[t] => x = Point(hist[t]))
    OBVIOUS
  <2>1. Mine(t).ring[k] \in EntryT
    BY <1>3
  <2> HIDE DEF Mine
  <2> QED
    BY <1>2, <2>1 DEF EntryT, Point
<1>5. Put(me[t].slot, v)
  BY DEF Mine
<1> HIDE DEF x, k, Mine
<1>6. /\ ring \in [Ring -> EntryT] /\ (k \in Ring => ring[k] = x)
      /\ \A i \in Ring : i # k => ring[i] = Mine(t).ring[i]
  BY <1>3, <1>4
<1> HIDE DEF ring
<1>7. v \in SlotT /\ v.used = Mine(t).used /\ v.idx = Mine(t).idx /\ v.owner = Mine(t).owner /\ v.ring = ring
  BY <1>2, <1>6 DEF SlotT
<1>8. /\ m \in MeT /\ m.slot = me[t].slot /\ m.pc = "idle" /\ m.base = me[t].base
      /\ me' = [me EXCEPT ![t] = m]
  BY <1>2 DEF MeT, Places
<1> HIDE DEF m, v, c
<1>9. ASSUME AttachOK(t), RingOK(t), Mine(t)' = v, me'[t] = m, hist'[t] = hist[t] PROVE AttachOK(t)' /\ RingOK(t)'
  <2>1. Count(t)' = c
    BY <1>8, <1>9 DEF Count, c
  <2>2. /\ c >= 0 /\ Mine(t).idx = c % IdxWrap
        /\ \A e \in 1 .. TRACE_N : e <= c /\ e # 1 => Mine(t).ring[(c - e) % TRACE_N] = Point(hist[t] - e + 1)
    BY <1>1, <1>2, <1>9 DEF RingOK, c
  <2>3. AttachOK(t)'
    BY <1>2, <1>7, <1>8, <1>9 DEF AttachOK, Attaching
  <2>4. ASSUME NEW e \in 1 .. TRACE_N, e <= c PROVE v.ring[(c - e) % TRACE_N] = Point(hist[t] - e + 1)
    <3>1. CASE e = 1
      <4>1. hist[t] - 1 + 1 = hist[t]
        BY <1>2
      <4>2. v.ring[(c - 1) % TRACE_N] = x /\ x = Point(hist[t])
        BY <1>2, <1>4, <1>6, <1>7, <1>9
      <4> QED
        BY <3>1, <4>1, <4>2
    <3>2. CASE e # 1
      <4>1. (c - e) % TRACE_N # k
        BY <1>2, <1>9, <3>2, OtherPlaces
      <4>2. (c - e) % TRACE_N \in Ring
        <5>1. c - e \in Int
          BY <1>2
        <5> QED
          BY <5>1, RingPlace
      <4> QED
        BY <1>6, <1>7, <2>2, <2>4, <3>2, <4>1, <4>2
    <3> QED
      BY <3>1, <3>2
  <2>5. \A e \in 1 .. TRACE_N : e <= c /\ (e = 1 => Whole(t)') => v.ring[(c - e) % TRACE_N] = Point(hist[t] - e + 1)
    BY <2>4
  <2>6. v.idx = c % IdxWrap /\ c >= 0
    BY <1>7, <2>2
  <2>7. RingOK(t)'
    BY ONLY <1>9, <2>1, <2>5, <2>6, RingAfter
  <2> QED
    BY <2>3, <2>7
<1>10. SlotInv /\ AttachOK(t) /\ RingOK(t) =>
         v.owner = t /\ (~Mine(t).used \/ (v.used /\ (hist[t] > hist[t] \/ me[t].pc \in {"site", "time"})))
  BY <1>1, <1>2, <1>7
<1>11. t \in Traced /\ UNCHANGED <<early, late, gtr, dump, armed, faults, proc>>
  OBVIOUS
<1> QED
  BY ONLY TracerConstants, TracerInv, proc = "run", <1>1, <1>2, <1>5, <1>7, <1>8, <1>9, <1>10, <1>11, SlotStep

-----------------------------------------------------------------------------
(* Steps that write into no slot.                                          *)

\* A thread goes to another place, or begins or ends a dump.
LEMMA PlaceStep ==
  ASSUME TracerConstants, TracerInv, proc = "run", NEW t \in Traced,
         NEW m \in MeT, me' = [me EXCEPT ![t] = m], m.slot = me[t].slot, m.base = me[t].base,
         NEW d \in DumpT, dump' = [dump EXCEPT ![t] = d], d.seen < 0,
         UNCHANGED <<early, late, gtr, regs, hist>>,
         me'[t] = m /\ dump'[t] = d => PlaceOK(t)', FaultInv',
         m.pc \notin {"wipe", "use", "site", "time"},
         AttachOK(t) /\ proc' = "run" /\ me[t].slot # NULL /\ ~(m.pc = "dump" /\ d.sig # NULL) =>
            /\ me[t].pc \notin {"wipe", "use", "site", "time"} /\ ~Faulted(t)
            /\ m.pc \notin {"draw", "add", "take"} /\ ~(m.pc \in {"init", "map", "clear"} /\ m.ret = "draw")
  PROVE  TracerInv'
<1>1. TracerType /\ PlaceInv
  BY DEF TracerInv
<1>2. hist[t] \in Nat /\ hist' = [hist EXCEPT ![t] = hist[t]] /\ UNCHANGED early
  BY <1>1, Own
<1>3. /\ late' \in BOOLEAN /\ regs' \in Seq(RegT) /\ DOMAIN regs \subseteq DOMAIN regs'
      /\ gtr' \in DOMAIN regs' \cup {NULL} /\ (gtr # NULL => gtr' # NULL)
  BY <1>1 DEF TracerType
<1>4. Extended
  BY <1>1, ExtendedSame
<1>5. TracerType' /\ Alone(t) /\ me'[t] = m /\ dump'[t] = d /\ (PlaceOK(t)' => PlaceInv')
  <2>1. t \in Traced /\ m \in MeT /\ d \in DumpT /\ me' = [me EXCEPT ![t] = m] /\ dump' = [dump EXCEPT ![t] = d]
    OBVIOUS
  <2> QED
    BY ONLY TracerConstants, <1>1, <1>2, <1>3, <2>1, TypeStep
<1>6. PlaceInv'
  BY <1>5
<1>7. ASSUME Sound' PROVE SoundInv'
  <2>1. AttachOK(t)
    BY <1>4, <1>5, <1>7, SoundExtended
  <2>2. proc' = "run" /\ me[t].slot # NULL /\ ~Faulted(t)' =>
          me[t].pc \notin {"wipe", "use", "site", "time"} /\ ~Faulted(t) /\ ~Attaching(t)'
    BY <1>5, <2>1 DEF Faulted, Attaching
  <2>3. /\ me'[t].slot = me[t].slot /\ me'[t].base = me[t].base /\ me'[t].pc \notin {"wipe", "use", "site", "time"}
        /\ (dump'[t] = dump[t] \/ dump'[t].seen < 0) /\ late' = late /\ hist' = hist /\ t \in Traced
    BY <1>5
  <2> QED
    BY ONLY TracerConstants, TracerInv, proc = "run", <1>4, <1>5, <1>6, <1>7, <2>2, <2>3, Quietly
<1> QED
  BY <1>5, <1>6, <1>7 DEF TracerInv, SoundInv

\* A point is begun.
LEMMA Begin ==
  ASSUME TracerConstants, TracerInv, proc = "run", NEW t \in Traced, BeginMark(t),
         UNCHANGED <<early, late, gtr, regs, hist, dump, armed, faults, proc>>
  PROVE  TracerInv'
<1> DEFINE m == IF Attached(t) THEN [me[t] EXCEPT !.pc = "mark"]
                ELSE IF gtr = NULL THEN [me[t] EXCEPT !.pc = "init", !.ret = "draw"]
                ELSE [me[t] EXCEPT !.pc = "draw"]
<1>1. TracerType /\ PlaceInv /\ me[t].pc = "idle" /\ FaultInv'
  BY DEF TracerInv, BeginMark, TrAt, FaultInv, OneFaultDumped
<1>2. me[t] \in MeT /\ dump[t] \in DumpT /\ dump[t] = NoDump /\ dump' = [dump EXCEPT ![t] = dump[t]] /\ PlaceOK(t)
  BY <1>1, Own DEF PlaceInv, PlaceOK
<1>3. /\ m \in MeT /\ m.slot = me[t].slot /\ m.base = me[t].base /\ m.pc \in {"mark", "init", "draw"}
      /\ Attached(t) <=> m.pc = "mark"
      /\ m.pc = "draw" => gtr # NULL
      /\ m.pc = "init" => m.ret = "draw"
  BY <1>2 DEF MeT, Places
<1>4. me' = [me EXCEPT ![t] = m]
  <2>1. me \in [Traced -> MeT]
    BY <1>1 DEF TracerType
  <2> QED
    BY <2>1 DEF BeginMark, TrGo
<1> HIDE DEF m
<1>5. AttachOK(t) /\ me[t].slot # NULL => m.pc = "mark"
  BY <1>1, <1>3 DEF AttachOK, Attached, Mine, Faulted
<1>6. me'[t] = m /\ dump'[t] = dump[t] => PlaceOK(t)'
  BY <1>1, <1>2, <1>3 DEF PlaceOK, Attached, TracerConstants
<1>7. dump[t].seen < 0
  BY <1>2 DEF NoDump
<1>8. AttachOK(t) /\ proc' = "run" /\ me[t].slot # NULL /\ ~(m.pc = "dump" /\ dump[t].sig # NULL) =>
        /\ me[t].pc \notin {"wipe", "use", "site", "time"} /\ ~Faulted(t)
        /\ m.pc \notin {"draw", "add", "take"} /\ ~(m.pc \in {"init", "map", "clear"} /\ m.ret = "draw")
  BY <1>1, <1>5 DEF Faulted
<1>9. m.pc \notin {"wipe", "use", "site", "time"} /\ t \in Traced /\ UNCHANGED <<early, late, gtr, regs, hist>>
  BY <1>3
<1> QED
  BY ONLY TracerConstants, TracerInv, proc = "run", <1>1, <1>2, <1>3, <1>4, <1>6, <1>7, <1>8, <1>9, PlaceStep

\* Whether the slot is in use is tested again: as long as slots are private, it is not.
LEMMA Load ==
  ASSUME TracerConstants, TracerInv, proc = "run", NEW t \in Traced, LoadCounter(t),
         UNCHANGED <<early, late, gtr, regs, hist, dump, armed, faults, proc>>
  PROVE  TracerInv'
<1> DEFINE m == IF Attached(t) THEN [me[t] EXCEPT !.pc = "mark"]
                ELSE [me[t] EXCEPT !.pc = "add", !.reg = gtr]
<1>1. TracerType /\ PlaceInv /\ me[t].pc = "draw" /\ FaultInv'
  BY DEF TracerInv, LoadCounter, TrAt, FaultInv, OneFaultDumped
<1>2. /\ me[t] \in MeT /\ dump[t] \in DumpT /\ dump[t] = NoDump /\ dump' = [dump EXCEPT ![t] = dump[t]] /\ PlaceOK(t)
      /\ gtr # NULL /\ gtr \in DOMAIN regs /\ gtr \in Nat
  BY <1>1, Own DEF PlaceInv, PlaceOK, TracerType
<1>3. /\ m \in MeT /\ m.slot = me[t].slot /\ m.base = me[t].base /\ m.pc \in {"mark", "add"}
      /\ m.pc = "mark" => Attached(t)
      /\ m.pc = "add" => m.reg = gtr
  BY <1>2 DEF MeT, Places
<1>4. me' = [me EXCEPT ![t] = m]
  <2>1. me \in [Traced -> MeT]
    BY <1>1 DEF TracerType
  <2> QED
    BY <2>1 DEF LoadCounter, TrGo
<1> HIDE DEF m
<1>5. me'[t] = m /\ dump'[t] = dump[t] => PlaceOK(t)'
  BY <1>1, <1>2, <1>3 DEF PlaceOK, Attached
<1>6. dump[t].seen < 0
  BY <1>2 DEF NoDump
<1>7. AttachOK(t) => me[t].slot = NULL
  BY <1>1 DEF AttachOK, Attaching
<1>8. m.pc \notin {"wipe", "use", "site", "time"} /\ t \in Traced /\ UNCHANGED <<early, late, gtr, regs, hist>>
  BY <1>3
<1> QED
  BY ONLY TracerConstants, TracerInv, proc = "run", <1>1, <1>2, <1>3, <1>4, <1>5, <1>6, <1>7, <1>8, PlaceStep

\* A thread goes to another place without a point or a dump of a fault.
LEMMA Move ==
  ASSUME TracerConstants, TracerInv, proc = "run", NEW t \in Traced,
         NEW m \in MeT, me' = [me EXCEPT ![t] = m], m.slot = me[t].slot, m.base = me[t].base,
         NEW d \in DumpT, dump' = [dump EXCEPT ![t] = d], d = NoDump,
         me[t].pc \in {"idle", "install", "dump"}, m.pc \in {"idle", "dump", "init"},
         m.pc = "init" => m.ret = "install", proc' = "run" => dump[t].sig = NULL,
         UNCHANGED <<early, late, gtr, regs, hist>>, FaultInv'
  PROVE  TracerInv'
<1>1. PlaceOK(t)
  BY DEF TracerInv, PlaceInv
<1>2. me'[t] = m /\ dump'[t] = d => PlaceOK(t)'
  BY <1>1 DEF PlaceOK, NoDump, TracerConstants
<1>3. d.seen < 0
  BY DEF NoDump
<1>4. AttachOK(t) /\ proc' = "run" /\ me[t].slot # NULL /\ ~(m.pc = "dump" /\ d.sig # NULL) =>
        /\ me[t].pc \notin {"wipe", "use", "site", "time"} /\ ~Faulted(t)
        /\ m.pc \notin {"draw", "add", "take"} /\ ~(m.pc \in {"init", "map", "clear"} /\ m.ret = "draw")
  BY DEF Faulted
<1>5. /\ m.pc \notin {"wipe", "use", "site", "time"} /\ t \in Traced /\ UNCHANGED <<early, late, gtr, regs, hist>>
      /\ FaultInv' /\ d \in DumpT /\ dump' = [dump EXCEPT ![t] = d]
      /\ m \in MeT /\ me' = [me EXCEPT ![t] = m] /\ m.slot = me[t].slot /\ m.base = me[t].base
  OBVIOUS
<1> QED
  BY ONLY TracerConstants, TracerInv, proc = "run", <1>2, <1>3, <1>4, <1>5, PlaceStep

\* A dump that has not begun.
LEMMA DumpTypes ==
  NoDump \in DumpT /\ \A sig \in Signals : [NoDump EXCEPT !.sig = sig] \in DumpT
<1>0. <<>> \in Seq(EntryT)
  OBVIOUS
<1>1. PICK e \in Seq(EntryT) : e = <<>>
  BY <1>0, Zenon
<1>2. NoDump = [i |-> 0, r |-> NULL, n |-> -1, j |-> 0, list |-> e, seen |-> -1, sig |-> NULL]
  BY <1>1 DEF NoDump
<1> HIDE DEF NoDump
<1>3. NoDump \in DumpT
  BY ONLY e \in Seq(EntryT), <1>2 DEF DumpT
<1>4. ASSUME NEW sig \in Signals PROVE [NoDump EXCEPT !.sig = sig] \in DumpT
  BY <1>3 DEF DumpT
<1> QED
  BY <1>3, <1>4

\* A place alone is set.
LEMMA Going ==
  ASSUME TracerType, NEW t \in Traced, NEW pc \in Places, TrGo(t, pc)
  PROVE  \E m \in MeT : me' = [me EXCEPT ![t] = m] /\ m.slot = me[t].slot /\ m.base = me[t].base /\ m.pc = pc
<1> DEFINE m == [me[t] EXCEPT !.pc = pc]
<1>1. me[t] \in MeT
  BY Own
<1>2. m \in MeT /\ m.slot = me[t].slot /\ m.base = me[t].base /\ m.pc = pc
  BY <1>1 DEF MeT
<1>3. me' = [me EXCEPT ![t] = m]
  BY DEF TrGo
<1> HIDE DEF m
<1> QED
  BY <1>2, <1>3

\* The end of a dump.
LEMMA End ==
  ASSUME TracerConstants, TracerInv, proc = "run", NEW t \in Traced, EndDump(t),
         UNCHANGED <<early, late, gtr, regs, hist, armed, faults>>
  PROVE  TracerInv'
<1>1. TracerType /\ FaultInv /\ me[t].pc = "dump"
  BY DEF TracerInv, EndDump, TrAt
<1>2. PICK m \in MeT : me' = [me EXCEPT ![t] = m] /\ m.slot = me[t].slot /\ m.base = me[t].base /\ m.pc = "idle"
  BY <1>1, Going DEF EndDump, Places
<1>3. PICK d \in DumpT : d = NoDump /\ dump' = [dump EXCEPT ![t] = d]
  <2>1. NoDump \in DumpT
    BY DumpTypes
  <2> QED
    BY <2>1 DEF EndDump
<1>4. (proc' = "run" => dump[t].sig = NULL) /\ FaultInv'
  BY <1>1 DEF EndDump, FaultInv, OneFaultDumped
<1>5. /\ t \in Traced /\ m \in MeT /\ d \in DumpT /\ UNCHANGED <<early, late, gtr, regs, hist>>
      /\ me[t].pc \in {"idle", "install", "dump"} /\ m.pc \in {"idle", "dump", "init"} /\ (m.pc = "init" => m.ret = "install")
  BY <1>1, <1>2
<1> QED
  BY ONLY TracerConstants, TracerInv, proc = "run", <1>2, <1>3, <1>4, <1>5, Move

\* A dump is asked for.
LEMMA Request ==
  ASSUME TracerConstants, TracerInv, proc = "run", NEW t \in Traced, tracer_dump_now_fd(t),
         UNCHANGED <<early, late, gtr, regs, hist, dump, armed, faults, proc>>
  PROVE  TracerInv'
<1>1. TracerType /\ FaultInv /\ PlaceInv /\ me[t].pc = "idle"
  BY DEF TracerInv, tracer_dump_now_fd, TrAt
<1>2. PICK m \in MeT : me' = [me EXCEPT ![t] = m] /\ m.slot = me[t].slot /\ m.base = me[t].base /\ m.pc = "dump"
  BY <1>1, Going DEF tracer_dump_now_fd, Places
<1>3. dump[t] \in DumpT /\ dump' = [dump EXCEPT ![t] = dump[t]] /\ dump[t] = NoDump
  BY <1>1, Own DEF PlaceInv, PlaceOK
<1>4. (proc' = "run" => dump[t].sig = NULL) /\ FaultInv'
  BY <1>1, <1>3 DEF FaultInv, OneFaultDumped, NoDump
<1>5. /\ t \in Traced /\ m \in MeT /\ UNCHANGED <<early, late, gtr, regs, hist>>
      /\ me[t].pc \in {"idle", "install", "dump"} /\ m.pc \in {"idle", "dump", "init"} /\ (m.pc = "init" => m.ret = "install")
  BY <1>1, <1>2
<1> QED
  BY ONLY TracerConstants, TracerInv, proc = "run", <1>2, <1>3, <1>4, <1>5, Move

\* A late setup begins, and installs the handlers.
LEMMA Setup ==
  ASSUME TracerConstants, TracerInv, proc = "run", NEW t \in Traced, tracer_setup(t),
         UNCHANGED <<early, late, gtr, regs, hist, dump, faults, proc>>
  PROVE  TracerInv'
<1>1. TracerType /\ FaultInv /\ PlaceInv /\ me[t].pc \in {"idle", "install"}
  BY DEF TracerInv, tracer_setup, TrAt
<1>2. dump[t] \in DumpT /\ dump' = [dump EXCEPT ![t] = dump[t]] /\ dump[t] = NoDump
  BY <1>1, Own DEF PlaceInv, PlaceOK
<1>3. proc' = "run" => dump[t].sig = NULL
  BY <1>2 DEF NoDump
<1>4. armed' = armed \/ armed' = Signals
  BY DEF tracer_setup, tracer_install_segv
<1>5. FaultInv'
  <2> HIDE DEF Signals
  <2> QED
    BY <1>1, <1>4 DEF FaultInv, OneFaultDumped
<1>6. PICK m \in MeT : /\ me' = [me EXCEPT ![t] = m] /\ m.slot = me[t].slot /\ m.base = me[t].base
                       /\ m.pc \in {"idle", "init"} /\ (m.pc = "init" => m.ret = "install")
  <2>1. CASE TrGo(t, "idle")
    BY <1>1, <2>1, Going DEF Places
  <2>2. CASE me' = [me EXCEPT ![t].pc = "init", ![t].ret = "install"]
    <3> DEFINE m == [me[t] EXCEPT !.pc = "init", !.ret = "install"]
    <3>1. me \in [Traced -> MeT] /\ me[t] \in MeT
      BY <1>1 DEF TracerType
    <3>2. me' = [me EXCEPT ![t] = m]
      BY <2>2, <3>1
    <3>3. m \in MeT /\ m.slot = me[t].slot /\ m.base = me[t].base /\ m.pc = "init" /\ m.ret = "install"
      BY <3>1 DEF MeT, Places
    <3> HIDE DEF m
    <3> QED
      BY <3>2, <3>3
  <2> QED
    BY <2>1, <2>2 DEF tracer_setup
<1>7. /\ t \in Traced /\ m \in MeT /\ UNCHANGED <<early, late, gtr, regs, hist>>
      /\ me[t].pc \in {"idle", "install", "dump"} /\ m.pc \in {"idle", "dump", "init"} /\ (m.pc = "init" => m.ret = "install")
  BY <1>1, <1>6
<1> QED
  BY ONLY TracerConstants, TracerInv, proc = "run", <1>2, <1>3, <1>5, <1>6, <1>7, Move

\* What a dump has listed does not change by itself.
LEMMA ListSame ==
  ASSUME NEW d \in Traced, dump'[d] = dump[d], UNCHANGED <<regs, me, hist>>, ListOK(d)
  PROVE  ListOK(d)'
<1>1. Listed(d)' = Listed(d)
  BY DEF Listed
<1>2. ASSUME NEW o \in Traced PROVE ListExact(d, o) => ListExact(d, o)'
  BY <1>1 DEF ListExact, StartOf, Count
<1> QED
  BY <1>1, <1>2 DEF ListOK

\* A fault: its handler begins a dump, or the process is killed.
LEMMA Faults ==
  ASSUME TracerConstants, TracerInv, proc = "run", NEW t \in Traced, NEW sig \in Signals, Fault(t, sig),
         UNCHANGED <<early, late, gtr, regs, hist>>
  PROVE  TracerInv'
<1>1. TracerType /\ FaultInv /\ PlaceInv /\ faults \in Nat /\ early \in BOOLEAN /\ faults' = faults + 1
  BY DEF TracerInv, FaultInv, TracerType, Fault
<1>2. CASE sig \in armed
  <2>1. proc' = "run" /\ TrGo(t, "dump") /\ dump' = [dump EXCEPT ![t] = [NoDump EXCEPT !.sig = sig]]
    BY <1>2 DEF Fault
  <2>2. FaultInv'
    BY <1>1, <2>1 DEF FaultInv, OneFaultDumped
  <2>3. PICK m \in MeT : me' = [me EXCEPT ![t] = m] /\ m.slot = me[t].slot /\ m.base = me[t].base /\ m.pc = "dump"
    BY <1>1, <2>1, Going DEF Places
  <2>4. PICK d \in DumpT : d = [NoDump EXCEPT !.sig = sig] /\ dump' = [dump EXCEPT ![t] = d]
    BY <2>1, DumpTypes
  <2>5. d.seen = -1 /\ d.seen < 0 /\ d.r = NULL /\ d.n = -1 /\ d.list = <<>> /\ d.sig = sig
    BY <2>4 DEF NoDump
  <2>6. sig # NULL
    BY DEF TracerConstants, Signals
  <2>7. PlaceOK(t)
    BY <1>1 DEF PlaceInv
  <2>8. me'[t] = m /\ dump'[t] = d => PlaceOK(t)'
    BY <2>3, <2>5, <2>7 DEF PlaceOK
  <2>9. AttachOK(t) /\ proc' = "run" /\ me[t].slot # NULL /\ ~(m.pc = "dump" /\ d.sig # NULL) =>
          /\ me[t].pc \notin {"wipe", "use", "site", "time"} /\ ~Faulted(t)
          /\ m.pc \notin {"draw", "add", "take"} /\ ~(m.pc \in {"init", "map", "clear"} /\ m.ret = "draw")
    BY <2>3, <2>5, <2>6
  <2>10. /\ m.pc \notin {"wipe", "use", "site", "time"} /\ t \in Traced /\ m \in MeT /\ d \in DumpT
         /\ UNCHANGED <<early, late, gtr, regs, hist>>
    BY <2>3
  <2> QED
    BY ONLY TracerConstants, TracerInv, proc = "run", <2>2, <2>3, <2>4, <2>5, <2>8, <2>9, <2>10, PlaceStep
<1>3. CASE sig \notin armed
  <2>1. proc' = "killed" /\ me' = me /\ dump' = dump
    BY <1>3 DEF Fault
  <2>2. TracerType' /\ PlaceInv'
    BY <1>1, <2>1 DEF TracerType, PlaceInv, PlaceOK
  <2>3. FaultInv'
    <3>1. early /\ faults = 0 => armed = Signals
      BY <1>1 DEF FaultInv
    <3>2. ~(early /\ faults = 0)
      BY <1>3, <3>1
    <3> QED
      BY <1>1, <3>2 DEF FaultInv, OneFaultDumped
  <2>4. Sound' => Sound
    BY DEF Sound
  <2>5. SlotInv => SlotInv'
    BY <2>1 DEF SlotInv
  <2>6. ASSUME NEW d \in Traced, ListOK(d) PROVE ListOK(d)'
    BY <2>1, <2>6, ListSame
  <2>7. SoundInv'
    BY <2>1, <2>4, <2>5, <2>6 DEF SoundInv, TracerInv
  <2> QED
    BY <2>2, <2>3, <2>7 DEF TracerInv
<1> QED
  BY <1>2, <1>3

-----------------------------------------------------------------------------
(* The dump.                                                               *)

\* A step of a dump.
LEMMA DumpStep ==
  ASSUME TracerConstants, TracerInv, proc = "run", NEW t \in Traced, me[t].pc = "dump",
         NEW d \in DumpT, dump' = [dump EXCEPT ![t] = d], d.sig = dump[t].sig,
         UNCHANGED <<early, late, gtr, regs, me, hist, armed, faults, proc>>,
         dump'[t] = d => PlaceOK(t)',
         dump'[t] = d /\ SlotInv /\ ListOK(t) /\ (\A o \in Traced : AttachOK(o) /\ RingOK(o)) => ListOK(t)'
  PROVE  TracerInv'
<1>1. TracerType /\ PlaceInv
  BY DEF TracerInv
<1>2. TracerType' /\ dump'[t] = d /\ \A u \in Traced \ {t} : dump'[u] = dump[u]
  BY <1>1 DEF TracerType
<1>3. PlaceInv'
  <2>1. ASSUME NEW u \in Traced \ {t} PROVE PlaceOK(u)'
    <3>1. dump'[u] = dump[u] /\ PlaceOK(u)
      BY <1>1, <1>2 DEF PlaceInv
    <3> QED
      BY <3>1 DEF PlaceOK
  <2> QED
    BY <1>2, <2>1 DEF PlaceInv
<1>4. ASSUME Sound' PROVE SoundInv'
  <2>1. Sound
    BY <1>4 DEF Sound
  <2>2. SlotInv /\ (\A u \in Traced : ListOK(u)) /\ \A o \in Traced : AttachOK(o) /\ RingOK(o)
    BY <2>1 DEF TracerInv, SoundInv
  <2>3. SlotInv'
    BY <2>2 DEF SlotInv
  <2>4. ASSUME NEW u \in Traced PROVE ListOK(u)'
    <3>1. CASE u = t
      BY <1>2, <2>2, <3>1
    <3>2. CASE u # t
      <4>1. dump'[u] = dump[u]
        BY <1>2, <3>2
      <4> QED
        BY <2>2, <4>1, ListSame
    <3> QED
      BY <3>1, <3>2
  <2>5. ASSUME NEW u \in Traced PROVE AttachOK(u)' /\ RingOK(u)'
    <3>1. dump'[u].sig = dump[u].sig
      BY <1>2
    <3>2. Mine(u)' = Mine(u) /\ Count(u)' = Count(u)
      BY DEF Mine, Slot, Count
    <3>3. (Faulted(u)' <=> Faulted(u)) /\ (Attaching(u)' <=> Attaching(u)) /\ (Whole(u)' <=> Whole(u))
      BY <3>1 DEF Faulted, Attaching, Whole
    <3>4. AttachOK(u)'
      BY <2>2, <3>2, <3>3 DEF AttachOK
    <3>5. RingOK(u)'
      BY <2>2, <3>2, <3>3 DEF RingOK
    <3> QED
      BY <3>4, <3>5
  <2> QED
    BY <2>3, <2>4, <2>5 DEF SoundInv
<1> QED
  BY <1>2, <1>3, <1>4 DEF TracerInv, SoundInv, FaultInv, OneFaultDumped

\* A dump that promises nothing yet.
LEMMA DumpFresh ==
  ASSUME TracerConstants, TracerInv, proc = "run", NEW t \in Traced, me[t].pc = "dump",
         NEW d \in DumpT, dump' = [dump EXCEPT ![t] = d], d.sig = dump[t].sig, d.n = -1, d.seen = -1, d.list = <<>>,
         d.r # NULL => d.r \in DOMAIN regs /\ d.i \in Ids,
         UNCHANGED <<early, late, gtr, regs, me, hist, armed, faults, proc>>
  PROVE  TracerInv'
<1>1. PlaceOK(t)
  BY DEF TracerInv, PlaceInv
<1>2. dump'[t] = d => PlaceOK(t)'
  BY <1>1 DEF PlaceOK
<1>3. dump'[t] = d => ListOK(t)'
  BY DEF ListOK
<1>4. /\ t \in Traced /\ me[t].pc = "dump" /\ d \in DumpT /\ dump' = [dump EXCEPT ![t] = d] /\ d.sig = dump[t].sig
      /\ UNCHANGED <<early, late, gtr, regs, me, hist, armed, faults, proc>>
  OBVIOUS
<1> QED
  BY ONLY TracerConstants, TracerInv, proc = "run", <1>2, <1>3, <1>4, DumpStep

\* The dump goes on to the next slot.
LEMMA SlotDone ==
  ASSUME TracerConstants, TracerInv, proc = "run", NEW t \in Traced, me[t].pc = "dump",
         dump' = [dump EXCEPT ![t] = [NoDump EXCEPT !.i = dump[t].i + 1, !.sig = dump[t].sig]],
         UNCHANGED <<early, late, gtr, regs, me, hist, armed, faults, proc>>
  PROVE  TracerInv'
<1> DEFINE d == [NoDump EXCEPT !.i = dump[t].i + 1, !.sig = dump[t].sig]
<1>1. dump[t] \in DumpT
  BY Own DEF TracerInv
<1>2. dump[t].i + 1 \in Nat /\ dump[t].sig \in Signals \cup {NULL}
  BY <1>1 DEF DumpT
<1>3. NoDump \in DumpT
  BY DumpTypes
<1>4. d \in DumpT
  <2> HIDE DEF NoDump
  <2> QED
    BY <1>2, <1>3 DEF DumpT
<1>5. d.sig = dump[t].sig /\ d.n = -1 /\ d.seen = -1 /\ d.list = <<>> /\ d.r = NULL
  BY DEF NoDump
<1>6. /\ t \in Traced /\ me[t].pc = "dump" /\ dump' = [dump EXCEPT ![t] = d]
      /\ UNCHANGED <<early, late, gtr, regs, me, hist, armed, faults, proc>>
  OBVIOUS
<1> HIDE DEF d
<1> QED
  BY ONLY TracerConstants, TracerInv, proc = "run", <1>4, <1>5, <1>6, DumpFresh

\* The next slot is found through gtr.
LEMMA FindSlot ==
  ASSUME TracerConstants, TracerInv, proc = "run", NEW t \in Traced, me[t].pc = "dump", gtr # NULL,
         dump[t].i < MAX_THR, dump[t].r = NULL, dump' = [dump EXCEPT ![t] = [dump[t] EXCEPT !.r = gtr]],
         UNCHANGED <<early, late, gtr, regs, me, hist, armed, faults, proc>>
  PROVE  TracerInv'
<1> DEFINE d == [dump[t] EXCEPT !.r = gtr]
<1>1. TracerType /\ PlaceOK(t) /\ dump[t] \in DumpT /\ gtr \in DOMAIN regs /\ gtr \in Nat
  BY Own DEF TracerInv, PlaceInv, TracerType
<1>2. /\ d \in DumpT /\ d.sig = dump[t].sig /\ d.n = dump[t].n /\ d.seen = dump[t].seen /\ d.list = dump[t].list
      /\ d.r = gtr /\ d.i = dump[t].i /\ d.n \in Int /\ d.i \in Nat
  BY <1>1 DEF DumpT
<1>3. dump' = [dump EXCEPT ![t] = d]
  OBVIOUS
<1> HIDE DEF d
<1>4. d.n < 0
  BY <1>1, <1>2 DEF PlaceOK
<1>5. d.list = <<>> /\ d.seen < 0
  BY <1>1, <1>2, <1>4 DEF PlaceOK
<1>6. d.i \in Ids
  BY <1>2 DEF Ids, TracerConstants
<1>7. dump'[t] = d => PlaceOK(t)'
  BY <1>1, <1>2, <1>4, <1>5, <1>6 DEF PlaceOK
<1>8. dump'[t] = d => ListOK(t)'
  <2>1. ~(d.seen >= 0)
    <3>1. d.seen \in Int
      BY <1>2 DEF DumpT
    <3> QED
      BY <1>5, <3>1
  <2> QED
    BY ONLY <2>1 DEF ListOK
<1>9. /\ t \in Traced /\ me[t].pc = "dump"
      /\ UNCHANGED <<early, late, gtr, regs, me, hist, armed, faults, proc>>
  OBVIOUS
<1> QED
  BY ONLY TracerConstants, TracerInv, proc = "run", <1>2, <1>3, <1>7, <1>8, <1>9, DumpStep

\* The slot is in use.
LEMMA InUse ==
  ASSUME TracerConstants, TracerInv, proc = "run", NEW t \in Traced, me[t].pc = "dump",
         dump[t].r # NULL, dump[t].n = -1, dump' = [dump EXCEPT ![t] = [dump[t] EXCEPT !.n = -2]],
         UNCHANGED <<early, late, gtr, regs, me, hist, armed, faults, proc>>
  PROVE  TracerInv'
<1> DEFINE d == [dump[t] EXCEPT !.n = -2]
<1>1. PlaceOK(t) /\ dump[t] \in DumpT
  BY Own DEF TracerInv, PlaceInv
<1>2. /\ d \in DumpT /\ d.sig = dump[t].sig /\ d.n = -2 /\ d.seen = dump[t].seen /\ d.list = dump[t].list
      /\ d.r = dump[t].r /\ d.i = dump[t].i /\ d.seen \in Int
  BY <1>1 DEF DumpT
<1>3. dump' = [dump EXCEPT ![t] = d]
  OBVIOUS
<1> HIDE DEF d
<1>4. d.list = <<>> /\ d.seen < 0
  BY <1>1, <1>2 DEF PlaceOK
<1>5. dump'[t] = d => PlaceOK(t)'
  BY <1>1, <1>2, <1>4 DEF PlaceOK
<1>6. dump'[t] = d => ListOK(t)'
  <2>1. ~(d.seen >= 0)
    BY <1>2, <1>4
  <2> QED
    BY ONLY <2>1 DEF ListOK
<1>7. /\ t \in Traced /\ me[t].pc = "dump"
      /\ UNCHANGED <<early, late, gtr, regs, me, hist, armed, faults, proc>>
  OBVIOUS
<1> QED
  BY ONLY TracerConstants, TracerInv, proc = "run", <1>2, <1>3, <1>5, <1>6, <1>7, DumpStep

\* Where a listing begins.
LEMMA Starts ==
  ASSUME TracerConstants, NEW n \in Nat
  PROVE  StartOf(n) \in 0 .. n /\ n - StartOf(n) <= TRACE_N /\ (n <= TRACE_N => StartOf(n) = 0)
                              /\ (n > TRACE_N => StartOf(n) = n - TRACE_N)
  BY DEF StartOf, TracerConstants

\* The count of a slot is loaded: a thread that is not marking a point has its last points in the ring.
LEMMA LoadCount ==
  ASSUME TracerConstants, TracerInv, proc = "run", NEW t \in Traced, me[t].pc = "dump",
         dump[t].r # NULL, dump[t].n = -2,
         dump' = [dump EXCEPT ![t] = [dump[t] EXCEPT !.n = Listed(t).idx, !.j = StartOf(Listed(t).idx),
                    !.seen = IF Listed(t).owner # NULL /\ Quiet(t, Listed(t).owner) THEN hist[Listed(t).owner] ELSE -1]],
         UNCHANGED <<early, late, gtr, regs, me, hist, armed, faults, proc>>
  PROVE  TracerInv'
<1> DEFINE s == Listed(t)
           n == s.idx
           q == IF s.owner # NULL /\ Quiet(t, s.owner) THEN hist[s.owner] ELSE -1
           d == [dump[t] EXCEPT !.n = n, !.j = StartOf(n), !.seen = q]
<1>1. TracerType /\ PlaceInv /\ PlaceOK(t) /\ dump[t] \in DumpT
  BY Own DEF TracerInv, PlaceInv
<1>2. dump[t].r \in DOMAIN regs /\ dump[t].i \in Ids /\ dump[t].list = <<>>
  BY <1>1 DEF PlaceOK
<1>3. s \in SlotT
  <2>1. regs[dump[t].r] \in RegT
    BY <1>1, <1>2 DEF TracerType
  <2>2. regs[dump[t].r].slots \in [Ids -> SlotT]
    BY <2>1 DEF RegT
  <2> QED
    BY <1>2, <2>2 DEF Listed
<1>4. dump' = [dump EXCEPT ![t] = d]
  OBVIOUS
<1> HIDE DEF s
<1>5. n \in Nat /\ s.owner \in Traced \cup {NULL} /\ s.used \in BOOLEAN
  BY <1>3 DEF SlotT
<1>6. q \in Int
  BY <1>1, <1>5 DEF TracerType
<1>7. StartOf(n) \in 0 .. n /\ StartOf(n) \in Nat
  BY <1>5, Starts
<1> HIDE DEF n, q
<1>8. /\ d \in DumpT /\ d.sig = dump[t].sig /\ d.n = n /\ d.j = StartOf(n) /\ d.seen = q /\ d.list = <<>>
      /\ d.r = dump[t].r /\ d.i = dump[t].i
  <2> DEFINE y == StartOf(n)
  <2>1. y \in Nat /\ n \in Int /\ dump[t] \in DumpT
    BY <1>1, <1>5, <1>7
  <2> HIDE DEF y
  <2>2. d = [dump[t] EXCEPT !.n = n, !.j = y, !.seen = q]
    BY DEF y
  <2> HIDE DEF d
  <2>3. /\ d \in DumpT /\ d.sig = dump[t].sig /\ d.n = n /\ d.j = y /\ d.seen = q /\ d.list = dump[t].list
        /\ d.r = dump[t].r /\ d.i = dump[t].i
    BY ONLY <1>6, <2>1, <2>2 DEF DumpT
  <2> QED
    BY <1>2, <2>3 DEF y
<1> HIDE DEF d
<1>9. dump'[t] = d => PlaceOK(t)'
  <2> SUFFICES ASSUME dump'[t] = d PROVE PlaceOK(t)'
    OBVIOUS
  <2>1. me[t].pc = "dump" /\ dump[t].r # NULL /\ UNCHANGED <<regs, me, gtr>>
    OBVIOUS
  <2> QED
    BY ONLY <1>1, <1>2, <1>5, <1>8, <2>1, dump'[t] = d DEF PlaceOK
<1>10. ASSUME dump'[t] = d, SlotInv, \A o \in Traced : AttachOK(o) /\ RingOK(o) PROVE ListOK(t)'
  <2> SUFFICES ASSUME d.seen >= 0 PROVE ListOK(t)'
    BY <1>10 DEF ListOK
  <2>1. s.owner # NULL /\ Quiet(t, s.owner) /\ q = hist[s.owner]
    BY <1>8 DEF q
  <2>2. PICK o \in Traced : o = s.owner
    BY <1>5, <2>1
  <2>3. me[o].slot = <<dump[t].r, dump[t].i>> /\ me[o].slot[1] = dump[t].r /\ me[o].slot[2] = dump[t].i
    <3>1. regs[dump[t].r].slots[dump[t].i].owner = o /\ o # NULL
      BY <2>1, <2>2 DEF Listed, s
    <3>2. me[o].slot = <<dump[t].r, dump[t].i>>
      BY ONLY <1>2, <1>10, <3>1 DEF SlotInv
    <3> QED
      BY <3>2
  <2>4. Mine(o) = s
    BY <2>3 DEF Mine, Slot, Listed, s
  <2>5. me[o].slot # NULL
    <3>1. dump[t].r \in Nat /\ dump[t].i \in Nat
      BY <1>1, <1>2 DEF TracerType, Ids
    <3> QED
      BY <2>3, <3>1 DEF TracerConstants
  <2>6. me[o].pc \in {"idle", "dump"} /\ ~Faulted(o)
    <3>1. me[o].pc = "idle" \/ (o = t /\ dump[t].sig = NULL)
      BY <2>1, <2>2 DEF Quiet, TrAt
    <3> QED
      BY <3>1 DEF Faulted
  <2>7. s.used /\ Whole(o)
    BY <1>10, <2>4, <2>5, <2>6 DEF AttachOK, Whole
  <2>8. /\ Count(o) >= 0 /\ n = Count(o) % IdxWrap
        /\ \A e \in 1 .. TRACE_N : e <= Count(o) /\ (e = 1 => Whole(o)) =>
             s.ring[(Count(o) - e) % TRACE_N] = Point(hist[o] - e + 1)
    BY <1>10, <2>4, <2>5, <2>7 DEF RingOK, n
  <2>9. Count(o) \in Int /\ hist[o] \in Nat
    <3>1. me[o] \in MeT /\ hist[o] \in Nat
      BY <1>1, Own
    <3> QED
      BY <3>1 DEF MeT, Count
  <2>10. Count(o) > 0 => s.ring[(Count(o) - 1) % TRACE_N] = Point(hist[o])
    <3> SUFFICES ASSUME Count(o) > 0 PROVE s.ring[(Count(o) - 1) % TRACE_N] = Point(hist[o])
      OBVIOUS
    <3>1. 1 \in 1 .. TRACE_N /\ 1 <= Count(o) /\ hist[o] - 1 + 1 = hist[o]
      BY <2>9 DEF TracerConstants
    <3>2. s.ring[(Count(o) - 1) % TRACE_N] = Point(hist[o] - 1 + 1)
      BY <2>7, <2>8, <3>1
    <3> QED
      BY <3>1, <3>2
  <2>11. Listed(t)' = s /\ Count(o)' = Count(o)
    BY <1>8, <1>10 DEF Listed, s, Count
  <2>12. ListExact(t, o)'
    <3>1. StartOf(n) \in StartOf(n) .. n /\ StartOf(n) - StartOf(n) = 0
      BY <1>5, <1>7
    <3>2. <<>> = [i \in 1 .. StartOf(n) - StartOf(n) |-> Point(hist[o] - n + StartOf(n) + i)]
      BY <3>1
    <3>3. me[o].pc \notin {"site", "time"}
      BY <2>6
    <3>4. dump'[t].n = n /\ dump'[t].j = StartOf(n) /\ dump'[t].list = <<>>
      BY <1>8, <1>10
    <3>5. StartOf(dump'[t].n) = StartOf(n)
      BY <3>4
    <3> QED
      BY <2>8, <2>10, <2>11, <3>1, <3>2, <3>3, <3>4 DEF ListExact, StartOf
  <2>13. dump'[t].seen = hist[o]
    BY <1>8, <1>10, <2>1, <2>2
  <2>14. \A u \in Traced : u = Listed(t)'.owner => u = o
    BY <2>2, <2>11
  <2> QED
    BY <2>7, <2>9, <2>11, <2>12, <2>13, <2>14 DEF ListOK
<1>11. /\ t \in Traced /\ me[t].pc = "dump"
       /\ UNCHANGED <<early, late, gtr, regs, me, hist, armed, faults, proc>>
  OBVIOUS
<1> QED
  BY ONLY TracerConstants, TracerInv, proc = "run", <1>4, <1>8, <1>9, <1>10, <1>11, DumpStep

\* A point more at the end of a list of points.
LEMMA AppendPoint ==
  ASSUME NEW L \in Nat, NEW q \in Int, NEW list \in Seq(EntryT), list = [i \in 1 .. L |-> Point(q + i)], Point(q + L + 1) \in EntryT
  PROVE  Append(list, Point(q + L + 1)) = [i \in 1 .. L + 1 |-> Point(q + i)]
<1> DEFINE x == Append(list, Point(q + L + 1))
           y == [i \in 1 .. L + 1 |-> Point(q + i)]
<1>1. DOMAIN list = 1 .. L
  OBVIOUS
<1>2. Len(list) = L
  BY <1>1, LenProperties
<1>3. x \in Seq(EntryT) /\ Len(x) = L + 1 /\ (\A i \in 1 .. L : x[i] = list[i]) /\ x[L + 1] = Point(q + L + 1)
  <2> HIDE DEF Point
  <2> QED
    BY <1>2, AppendProperties
<1>4. DOMAIN x = 1 .. L + 1
  BY <1>3, LenProperties
<1>5. ASSUME NEW i \in 1 .. L + 1 PROVE x[i] = Point(q + i)
  <2> HIDE DEF x
  <2>1. CASE i = L + 1
    <3>1. q + i = q + L + 1
      BY <2>1
    <3> QED
      BY <1>3, <2>1, <3>1
  <2>2. CASE i # L + 1
    <3>1. i \in 1 .. L
      BY <2>2
    <3>2. list[i] = Point(q + i)
      BY <3>1
    <3> QED
      BY <1>3, <3>1, <3>2
  <2> QED
    BY <2>1, <2>2
<1>6. x = [i \in DOMAIN x |-> x[i]]
  <2> HIDE DEF x
  <2> QED
    BY <1>3
<1> HIDE DEF x
<1>7. x = y
  BY <1>4, <1>5, <1>6
<1> QED
  BY <1>7 DEF x, y

\* The entry that a dump reads at j, of a thread that has marked nothing meanwhile.
LEMMA EntryRead ==
  ASSUME TracerConstants, TracerType, NEW t \in Traced, NEW o \in Traced, ListExact(t, o), RingOK(o), me[o].slot # NULL,
         Mine(o) = Listed(t), Listed(t).used, dump[t].j < dump[t].n
  PROVE  /\ Listed(t).ring[dump[t].j % TRACE_N] = Point(hist[o] - dump[t].n + dump[t].j + 1)
         /\ hist[o] - dump[t].n + dump[t].j + 1 \in Nat \ {0}
<1> DEFINE n == dump[t].n
           j == dump[t].j
           c == Count(o)
           e == n - j
<1>1. c \in Int /\ hist[o] \in Nat /\ me[o].base \in Nat /\ c = hist[o] - me[o].base /\ j \in Nat /\ n \in Int
  <2>1. me[o] \in MeT /\ hist[o] \in Nat /\ dump[t] \in DumpT
    BY Own
  <2> QED
    BY <2>1 DEF MeT, DumpT, Count
<1>2. /\ c >= 0 /\ n = c % IdxWrap /\ j \in StartOf(n) .. n
      /\ c > 0 => Listed(t).ring[(c - 1) % TRACE_N] = Point(hist[o])
  BY DEF ListExact
<1>3. \A i \in 1 .. TRACE_N : i <= c /\ (i = 1 => Whole(o)) => Listed(t).ring[(c - i) % TRACE_N] = Point(hist[o] - i + 1)
  BY DEF RingOK
<1> HIDE DEF c, n, j
<1>4. n \in Nat /\ n <= c
  <2>1. c = IdxWrap * (c \div IdxWrap) + (c % IdxWrap) /\ c % IdxWrap \in 0 .. IdxWrap - 1 /\ c \div IdxWrap \in Int
    BY <1>1, DivMod DEF TracerConstants
  <2>2. IdxWrap \in Nat \ {0}
    BY DEF TracerConstants
  <2>3. c \div IdxWrap >= 0
    BY <1>1, <1>2, <2>2
  <2>4. IdxWrap * (c \div IdxWrap) >= 0
    BY <2>1, <2>2, <2>3
  <2> QED
    BY <1>1, <1>2, <2>1, <2>2, <2>4
<1>5. j < n /\ j >= StartOf(n) /\ StartOf(n) \in Nat /\ n - StartOf(n) <= TRACE_N /\ TRACE_N \in Nat
  BY <1>2, <1>4, Starts DEF n, j, TracerConstants
<1>6. e \in 1 .. TRACE_N /\ e <= c
  <2>1. StartOf(n) \in Int
    BY <1>5
  <2> QED
    BY <1>1, <1>4, <1>5, <2>1
<1>7. (c - e) % TRACE_N = j % TRACE_N
  <2>1. TRACE_N \in Nat \ {0} /\ IdxWrap \in Nat \ {0} /\ IdxWrap % TRACE_N = 0 /\ j \in Int
    BY <1>1 DEF TracerConstants
  <2>2. ((c - (c % IdxWrap)) + j) % TRACE_N = j % TRACE_N
    BY ONLY <1>1, <2>1, ModDivides
  <2>3. (c - n) + j = c - e
    BY <1>1
  <2> QED
    BY <1>2, <2>2, <2>3
<1>8. hist[o] - e + 1 = hist[o] - n + j + 1 /\ hist[o] - n + j + 1 \in Nat \ {0}
  BY <1>1, <1>4
<1>9. Listed(t).ring[(c - e) % TRACE_N] = Point(hist[o] - e + 1)
  <2>1. CASE e = 1
    <3>1. c > 0 /\ hist[o] - 1 + 1 = hist[o]
      BY <1>1, <1>6, <2>1
    <3> QED
      BY <1>2, <2>1, <3>1
  <2>2. CASE e # 1
    BY <1>3, <1>6, <2>2
  <2> QED
    BY <2>1, <2>2
<1> HIDE DEF e
<1>10. Listed(t).ring[j % TRACE_N] = Point(hist[o] - n + j + 1)
  BY <1>7, <1>8, <1>9
<1> QED
  BY <1>8, <1>10 DEF n, j

\* An entry is read and, unless it is empty, listed.
LEMMA ListEntry ==
  ASSUME TracerConstants, TracerInv, proc = "run", NEW t \in Traced, me[t].pc = "dump", dump[t].n >= 0, dump[t].j < dump[t].n,
         NEW e, e = Listed(t).ring[dump[t].j % TRACE_N],
         dump' = [dump EXCEPT ![t] = [dump[t] EXCEPT !.j = dump[t].j + 1,
                                        !.list = IF e.site = 0 THEN dump[t].list ELSE Append(dump[t].list, e)]],
         UNCHANGED <<early, late, gtr, regs, me, hist, armed, faults, proc>>
  PROVE  TracerInv'
<1> DEFINE n == dump[t].n
           j == dump[t].j
           list == IF e.site = 0 THEN dump[t].list ELSE Append(dump[t].list, e)
           d == [dump[t] EXCEPT !.j = j + 1, !.list = list]
<1>1. TracerType /\ PlaceInv /\ PlaceOK(t) /\ dump[t] \in DumpT
  BY Own DEF TracerInv, PlaceInv
<1>2. n \in Int /\ j \in Nat /\ dump[t].list \in Seq(EntryT) /\ dump[t].seen \in Int
  BY <1>1 DEF DumpT
<1>3. dump[t].r # NULL /\ dump[t].r \in DOMAIN regs /\ dump[t].i \in Ids
  BY <1>1 DEF PlaceOK
<1>4. e \in EntryT
  <2>1. regs[dump[t].r] \in RegT
    BY <1>1, <1>3 DEF TracerType
  <2>2. regs[dump[t].r].slots \in [Ids -> SlotT]
    BY <2>1 DEF RegT
  <2>3. Listed(t) \in SlotT
    BY <1>3, <2>2 DEF Listed
  <2>4. Listed(t).ring \in [Ring -> EntryT]
    BY <2>3 DEF SlotT
  <2>5. j % TRACE_N \in Ring
    <3>1. j \in Int
      BY <1>2
    <3> QED
      BY <3>1, RingPlace
  <2> QED
    BY <2>4, <2>5
<1>5. dump' = [dump EXCEPT ![t] = d]
  OBVIOUS
<1>6. list \in Seq(EntryT)
  BY <1>2, <1>4, AppendProperties
<1> HIDE DEF list
<1>7. /\ d \in DumpT /\ d.sig = dump[t].sig /\ d.n = n /\ d.j = j + 1 /\ d.seen = dump[t].seen /\ d.list = list
      /\ d.r = dump[t].r /\ d.i = dump[t].i
  <2> DEFINE y == j + 1
  <2>1. y \in Nat /\ dump[t] \in DumpT
    BY <1>1, <1>2
  <2> HIDE DEF y
  <2>2. d = [dump[t] EXCEPT !.j = y, !.list = list]
    BY DEF y
  <2> HIDE DEF d
  <2>3. /\ d \in DumpT /\ d.sig = dump[t].sig /\ d.n = n /\ d.j = y /\ d.seen = dump[t].seen /\ d.list = list
        /\ d.r = dump[t].r /\ d.i = dump[t].i
    BY ONLY <1>6, <2>1, <2>2 DEF DumpT
  <2> QED
    BY <2>3 DEF y
<1> HIDE DEF d
<1>8. dump'[t] = d => PlaceOK(t)'
  <2> SUFFICES ASSUME dump'[t] = d PROVE PlaceOK(t)'
    OBVIOUS
  <2>1. me[t].pc = "dump" /\ dump[t].r # NULL /\ dump[t].n >= 0 /\ UNCHANGED <<regs, me, gtr>>
    BY <1>3
  <2> QED
    BY ONLY <1>1, <1>2, <1>3, <1>7, <2>1, dump'[t] = d DEF PlaceOK
<1>9. ASSUME dump'[t] = d, SlotInv, ListOK(t), \A o \in Traced : AttachOK(o) /\ RingOK(o) PROVE ListOK(t)'
  <2> SUFFICES ASSUME dump[t].seen >= 0 PROVE ListOK(t)'
    BY <1>7, <1>9 DEF ListOK
  <2>1. Listed(t).used /\ \A o \in Traced : o = Listed(t).owner =>
          dump[t].seen <= hist[o] /\ (dump[t].seen = hist[o] => ListExact(t, o))
    BY <1>9 DEF ListOK
  <2>2. Listed(t).owner \in Traced /\ me[Listed(t).owner].slot # NULL /\ Mine(Listed(t).owner) = Listed(t)
    BY <1>1, <1>3, <1>9, <2>1, ListedThere
  <2>3. PICK o \in Traced : o = Listed(t).owner
    BY <2>2
  <2>4. Listed(t)' = Listed(t)
    BY <1>7, <1>9 DEF Listed
  <2>5. ASSUME dump[t].seen = hist[o] PROVE ListExact(t, o)'
    <3>1. ListExact(t, o)
      BY <2>1, <2>3, <2>5
    <3> DEFINE st == StartOf(n)
               L == j - st
               q == hist[o] - n + st
    <3>2. e = Point(hist[o] - n + j + 1) /\ hist[o] - n + j + 1 \in Nat \ {0}
      BY <1>1, <1>9, <2>1, <2>2, <2>3, <3>1, EntryRead
    <3>3. /\ me[o].pc \notin {"site", "time"} /\ Count(o) >= 0
          /\ Count(o) > 0 => Listed(t).ring[(Count(o) - 1) % TRACE_N] = Point(hist[o])
          /\ n = Count(o) % IdxWrap /\ j \in st .. n
          /\ dump[t].list = [i \in 1 .. j - st |-> Point(hist[o] - n + st + i)]
      BY <3>1 DEF ListExact
    <3>4. st \in Nat /\ hist[o] \in Nat /\ n \in Nat
      BY <1>1, <1>2, Starts DEF TracerType
    <3>5. L \in Nat /\ q \in Int /\ j + 1 \in st .. n /\ q + L + 1 = hist[o] - n + j + 1 /\ (j + 1) - st = L + 1
      <4>1. j \in Int /\ j >= st /\ j < n
        BY <1>2, <3>3, <3>4
      <4> HIDE DEF st, j, n
      <4> QED
        BY ONLY <3>4, <4>1
    <3>6. dump[t].list = [i \in 1 .. L |-> Point(q + i)]
      BY <3>3
    <3> HIDE DEF L, q, st
    <3>7. Append(dump[t].list, Point(q + L + 1)) = [i \in 1 .. L + 1 |-> Point(q + i)]
      <4>1. Point(q + L + 1) \in EntryT
        BY <1>4, <3>2, <3>5
      <4> QED
        BY ONLY <1>2, <3>5, <3>6, <4>1, AppendPoint
    <3>8. list = Append(dump[t].list, e)
      <4>1. e.site # 0
        BY <3>2 DEF Point
      <4> QED
        BY <4>1 DEF list
    <3>9. list = [i \in 1 .. (j + 1) - st |-> Point(hist[o] - n + st + i)]
      BY <3>2, <3>5, <3>7, <3>8 DEF q
    <3>10. dump'[t].n = n /\ dump'[t].j = j + 1 /\ dump'[t].list = list /\ Count(o)' = Count(o) /\ hist' = hist /\ me' = me
      BY <1>7, <1>9 DEF Count
    <3> HIDE DEF n, j
    <3> QED
      BY <2>4, <3>3, <3>5, <3>9, <3>10 DEF ListExact, st, StartOf
  <2> QED
    BY <1>7, <1>9, <2>1, <2>3, <2>4, <2>5 DEF ListOK
<1>10. /\ t \in Traced /\ me[t].pc = "dump"
       /\ UNCHANGED <<early, late, gtr, regs, me, hist, armed, faults, proc>>
  OBVIOUS
<1> QED
  BY ONLY TracerConstants, TracerInv, proc = "run", <1>5, <1>7, <1>8, <1>9, <1>10, DumpStep

\* A step of trace_dump_all.
LEMMA DumpAll ==
  ASSUME TracerConstants, TracerInv, proc = "run", NEW t \in Traced, trace_dump_all(t),
         UNCHANGED <<early, late, gtr, regs, me, hist, armed, faults, proc>>
  PROVE  TracerInv'
<1>1. me[t].pc = "dump" /\ gtr # NULL /\ dump[t].i < MAX_THR
  BY DEF trace_dump_all, TrAt
<1>2. t \in Traced /\ UNCHANGED <<early, late, gtr, regs, me, hist, armed, faults, proc>>
  OBVIOUS
<1>3. CASE dump[t].r = NULL /\ dump' = [dump EXCEPT ![t] = [dump[t] EXCEPT !.r = gtr]]
  BY ONLY TracerConstants, TracerInv, proc = "run", <1>1, <1>2, <1>3, FindSlot
<1>4. CASE dump' = [dump EXCEPT ![t] = [NoDump EXCEPT !.i = dump[t].i + 1, !.sig = dump[t].sig]]
  BY ONLY TracerConstants, TracerInv, proc = "run", <1>1, <1>2, <1>4, SlotDone
<1>5. CASE /\ dump[t].r # NULL /\ dump[t].n = -2
           /\ dump' = [dump EXCEPT ![t] = [dump[t] EXCEPT !.n = Listed(t).idx, !.j = StartOf(Listed(t).idx),
                         !.seen = IF Listed(t).owner # NULL /\ Quiet(t, Listed(t).owner) THEN hist[Listed(t).owner] ELSE -1]]
  BY ONLY TracerConstants, TracerInv, proc = "run", <1>1, <1>2, <1>5, LoadCount
<1>6. CASE /\ dump[t].n >= 0 /\ dump[t].j < dump[t].n
           /\ \E e : /\ e = Listed(t).ring[dump[t].j % TRACE_N]
                     /\ dump' = [dump EXCEPT ![t] = [dump[t] EXCEPT !.j = dump[t].j + 1,
                                   !.list = IF e.site = 0 THEN dump[t].list ELSE Append(dump[t].list, e)]]
  <2>1. PICK e : /\ e = Listed(t).ring[dump[t].j % TRACE_N]
                 /\ dump' = [dump EXCEPT ![t] = [dump[t] EXCEPT !.j = dump[t].j + 1,
                               !.list = IF e.site = 0 THEN dump[t].list ELSE Append(dump[t].list, e)]]
    BY <1>6
  <2> QED
    BY ONLY TracerConstants, TracerInv, proc = "run", <1>1, <1>2, <1>6, <2>1, ListEntry
<1>7. CASE dump[t].r # NULL /\ dump[t].n = -1 /\ dump' = [dump EXCEPT ![t] = [dump[t] EXCEPT !.n = -2]]
  BY ONLY TracerConstants, TracerInv, proc = "run", <1>1, <1>2, <1>7, InUse
<1>8. \/ dump[t].r = NULL /\ dump' = [dump EXCEPT ![t] = [dump[t] EXCEPT !.r = gtr]]
      \/ /\ dump[t].r # NULL /\ dump[t].n = -1
         /\ dump' = [dump EXCEPT ![t] = IF Listed(t).used THEN [dump[t] EXCEPT !.n = -2]
                                        ELSE [NoDump EXCEPT !.i = dump[t].i + 1, !.sig = dump[t].sig]]
      \/ /\ dump[t].r # NULL /\ dump[t].n = -2
         /\ dump' = [dump EXCEPT ![t] = [dump[t] EXCEPT !.n = Listed(t).idx, !.j = StartOf(Listed(t).idx),
                       !.seen = IF Listed(t).owner # NULL /\ Quiet(t, Listed(t).owner) THEN hist[Listed(t).owner] ELSE -1]]
      \/ /\ dump[t].n >= 0 /\ dump[t].j < dump[t].n
         /\ dump' = [dump EXCEPT ![t] = [dump[t] EXCEPT !.j = dump[t].j + 1,
                       !.list = IF Listed(t).ring[dump[t].j % TRACE_N].site = 0 THEN dump[t].list
                                ELSE Append(dump[t].list, Listed(t).ring[dump[t].j % TRACE_N])]]
      \/ dump' = [dump EXCEPT ![t] = [NoDump EXCEPT !.i = dump[t].i + 1, !.sig = dump[t].sig]]
  BY DEF trace_dump_all, Listed
<1> QED
  BY <1>3, <1>4, <1>5, <1>6, <1>7, <1>8, Zenon

\* The first state.
LEMMA TracerStart ==
  ASSUME TracerConstants, TracerInit PROVE TracerInv
<1>1. Registry \in RegT
  BY ClearedSlots
<1>2. NoDump \in DumpT
  BY DumpTypes
<1>3. regs \in Seq(RegT) /\ (early => gtr = 1 /\ DOMAIN regs = {1} /\ regs[1] = Registry) /\ (~early => gtr = NULL /\ DOMAIN regs = {})
  <2> HIDE DEF Registry
  <2>1. CASE early
    <3>1. regs = <<Registry>> /\ gtr = 1
      BY <2>1 DEF TracerInit
    <3> QED
      BY <1>1, <2>1, <3>1
  <2>2. CASE ~early
    <3>1. regs = <<>> /\ gtr = NULL
      BY <2>2 DEF TracerInit
    <3> QED
      BY <2>2, <3>1
  <2> QED
    BY <2>1, <2>2
<1>4. ASSUME NEW t \in Traced
      PROVE  /\ me[t] = [pc |-> "idle", ret |-> NULL, reg |-> NULL, slot |-> NULL, k |-> 0, base |-> 0]
             /\ dump[t] = NoDump /\ me[t] \in MeT
  BY DEF TracerInit, MeT, Places
<1>5. TracerType
  <2>1. early \in BOOLEAN /\ late \in BOOLEAN /\ hist \in [Traced -> Nat]
    BY DEF TracerInit
  <2>2. me \in [Traced -> MeT]
    BY <1>4 DEF TracerInit
  <2>3. dump \in [Traced -> DumpT]
    <3> HIDE DEF NoDump
    <3> QED
      BY <1>2 DEF TracerInit
  <2>4. gtr \in DOMAIN regs \cup {NULL}
    BY <1>3, <2>1
  <2> QED
    BY <1>3, <2>1, <2>2, <2>3, <2>4 DEF TracerType
<1>6. PlaceInv
  BY <1>4 DEF PlaceInv, PlaceOK, NoDump
<1>7. FaultInv
  BY DEF FaultInv, OneFaultDumped, TracerInit, tracer_install_segv
<1>8. SlotInv
  <2>1. \A r \in DOMAIN regs : regs[r] = Registry
    BY <1>3, <1>5 DEF TracerType
  <2>2. \A r \in DOMAIN regs : \A i \in Ids : ~regs[r].slots[i].used /\ regs[r].slots[i].owner = NULL
    BY <2>1, ClearedSlots
  <2> QED
    BY <1>4, <2>1, <2>2 DEF SlotInv
<1>9. ASSUME NEW t \in Traced PROVE ListOK(t) /\ AttachOK(t) /\ RingOK(t)
  BY <1>4 DEF ListOK, AttachOK, RingOK, NoDump, Attaching
<1> QED
  BY <1>5, <1>6, <1>7, <1>8, <1>9 DEF TracerInv, SoundInv

\* Every step preserves the invariant.
LEMMA TracerStep ==
  ASSUME TracerConstants, TracerInv, DrawnInv, TracerNext PROVE TracerInv'
<1>1. PICK t \in Traced :
       \/ trace_reg_init(t) /\ UNCHANGED <<hist, dump, armed, faults, proc>>
       \/ LoadCounter(t) /\ UNCHANGED <<late, gtr, regs, hist, dump, armed, faults, proc>>
       \/ DrawSlot(t) /\ UNCHANGED <<late, gtr, hist, dump, armed, faults, proc>>
       \/ (trace_reg_attach_name(t) \/ tracer_mark_point(t)) /\ UNCHANGED <<late, gtr, dump, armed, faults, proc>>
       \/ BeginMark(t) /\ UNCHANGED <<late, gtr, regs, hist, dump, armed, faults, proc>>
       \/ trace_dump_all(t) /\ UNCHANGED <<late, gtr, regs, me, hist, armed, faults, proc>>
       \/ EndDump(t) /\ UNCHANGED <<late, gtr, regs, hist, armed, faults>>
       \/ tracer_dump_now_fd(t) /\ UNCHANGED <<late, gtr, regs, hist, dump, armed, faults, proc>>
       \/ tracer_setup(t) /\ UNCHANGED <<late, gtr, regs, hist, dump, faults, proc>>
       \/ \E sig \in Signals : Fault(t, sig) /\ UNCHANGED <<late, gtr, regs, hist>>
  BY DEF TracerNext
<1>2. proc = "run" /\ UNCHANGED early
  BY DEF TracerNext
<1>3. CASE trace_reg_init(t) /\ UNCHANGED <<hist, dump, armed, faults, proc>>
  <2>1. CASE TrAt(t, "init") /\ gtr # NULL /\ ReturnInit(t) /\ UNCHANGED <<gtr, regs, late>>
    BY <1>2, <1>3, <2>1, InitTest
  <2>2. CASE TrAt(t, "init") /\ gtr = NULL /\ TrGo(t, "map") /\ UNCHANGED <<gtr, regs, late>>
    BY <1>2, <1>3, <2>2, InitTest
  <2>3. CASE /\ TrAt(t, "map") /\ regs' = Append(regs, Registry) /\ gtr' = Len(regs')
             /\ me' = [me EXCEPT ![t].pc = "clear", ![t].reg = gtr'] /\ late' = (late \/ Drawing)
    BY <1>2, <1>3, <2>3, InitMap
  <2>4. CASE /\ TrAt(t, "clear")
             /\ \E r \in {me[t].reg, gtr} : regs' = [regs EXCEPT ![r] = Registry] /\ late' = (late \/ regs[r].next > 0)
             /\ ReturnInit(t) /\ UNCHANGED gtr
    <3>1. PICK r \in {me[t].reg, gtr} : regs' = [regs EXCEPT ![r] = Registry] /\ late' = (late \/ regs[r].next > 0)
      BY <2>4
    <3> QED
      BY <1>2, <1>3, <2>4, <3>1, InitClear
  <2> QED
    BY <1>3, <2>1, <2>2, <2>3, <2>4 DEF trace_reg_init
<1>4. CASE DrawSlot(t) /\ UNCHANGED <<late, gtr, hist, dump, armed, faults, proc>>
  BY <1>2, <1>4, Add
<1>5. CASE trace_reg_attach_name(t) /\ UNCHANGED <<late, gtr, dump, armed, faults, proc>>
  <2>1. CASE /\ TrAt(t, "wipe") /\ Put(me[t].slot, [Cleared EXCEPT !.owner = t])
             /\ me' = [me EXCEPT ![t].pc = "use", ![t].base = hist[t]] /\ UNCHANGED hist
    BY <1>2, <1>5, <2>1, Wipe
  <2>2. CASE /\ TrAt(t, "use") /\ Put(me[t].slot, [Slot(me[t].slot) EXCEPT !.idx = 0, !.used = TRUE])
             /\ TrGo(t, "mark") /\ UNCHANGED hist
    BY <1>2, <1>5, <2>2, Use
  <2>3. CASE /\ TrAt(t, "take") /\ UNCHANGED <<regs, hist>>
             /\ me' = [me EXCEPT ![t].pc = "wipe", ![t].slot = <<gtr, me[t].k % MAX_THR>>, ![t].k = 0]
    BY <1>2, <1>5, <2>3, Take
  <2> QED
    BY <1>5, <2>1, <2>2, <2>3 DEF trace_reg_attach_name
<1>6. CASE tracer_mark_point(t) /\ UNCHANGED <<late, gtr, dump, armed, faults, proc>>
  <2>1. CASE /\ TrAt(t, "mark") /\ Put(me[t].slot, [Slot(me[t].slot) EXCEPT !.idx = (@ + 1) % IdxWrap])
             /\ hist' = [hist EXCEPT ![t] = @ + 1]
             /\ me' = [me EXCEPT ![t].pc = "site", ![t].k = Slot(me[t].slot).idx % TRACE_N]
    BY <1>2, <1>6, <2>1, Mark
  <2>2. CASE /\ TrAt(t, "site") /\ Put(me[t].slot, [Slot(me[t].slot) EXCEPT !.ring[me[t].k].site = hist[t]])
             /\ TrGo(t, "time") /\ UNCHANGED hist
    BY <1>2, <1>6, <2>2, Site
  <2>3. CASE /\ TrAt(t, "time") /\ Put(me[t].slot, [Slot(me[t].slot) EXCEPT !.ring[me[t].k].t = hist[t]])
             /\ me' = [me EXCEPT ![t].pc = "idle", ![t].k = 0] /\ UNCHANGED hist
    BY <1>2, <1>6, <2>3, Time
  <2> QED
    BY <1>6, <2>1, <2>2, <2>3 DEF tracer_mark_point
<1>7. CASE BeginMark(t) /\ UNCHANGED <<late, gtr, regs, hist, dump, armed, faults, proc>>
  BY <1>2, <1>7, Begin
<1>8. CASE trace_dump_all(t) /\ UNCHANGED <<late, gtr, regs, me, hist, armed, faults, proc>>
  BY <1>2, <1>8, DumpAll
<1>9. CASE EndDump(t) /\ UNCHANGED <<late, gtr, regs, hist, armed, faults>>
  BY <1>2, <1>9, End
<1>10. CASE tracer_dump_now_fd(t) /\ UNCHANGED <<late, gtr, regs, hist, dump, armed, faults, proc>>
  BY <1>2, <1>10, Request
<1>11. CASE tracer_setup(t) /\ UNCHANGED <<late, gtr, regs, hist, dump, faults, proc>>
  BY <1>2, <1>11, Setup
<1>12. CASE \E sig \in Signals : Fault(t, sig) /\ UNCHANGED <<late, gtr, regs, hist>>
  BY <1>2, <1>12, Faults
<1>13. CASE LoadCounter(t) /\ UNCHANGED <<late, gtr, regs, hist, dump, armed, faults, proc>>
  BY <1>2, <1>13, Load
<1> QED
  BY <1>1, <1>3, <1>4, <1>5, <1>6, <1>7, <1>8, <1>9, <1>10, <1>11, <1>12, <1>13

\* Steps that draw nothing.
LEMMA DrawnKept ==
  ASSUME TracerType, PlaceInv, DrawnInv, NEW t \in Traced, \A u \in Traced \ {t} : me'[u] = me[u],
         me'[t].slot = me[t].slot, me'[t].pc \notin {"add", "take"},
         DOMAIN regs' = DOMAIN regs, \A r \in DOMAIN regs : regs'[r].next = regs[r].next, UNCHANGED <<gtr, late>>
  PROVE  DrawnInv'
<1> SUFFICES ASSUME Sound' PROVE (\A r \in DOMAIN regs' : regs'[r].next > 0 => r = gtr') /\ \A u \in Traced : DrawOK(u)'
  BY DEF DrawnInv
<1>1. Sound
  BY DEF Sound
<1>2. (\A r \in DOMAIN regs : regs[r].next > 0 => r = gtr) /\ \A u \in Traced : DrawOK(u)
  BY <1>1 DEF DrawnInv
<1>3. \A u \in Traced : me'[u].slot = me[u].slot /\ (me'[u].pc \in {"add", "take"} => me'[u] = me[u])
  OBVIOUS
<1>4. ASSUME NEW u \in Traced PROVE DrawOK(u)'
  <2>1. CASE me'[u].pc = "take"
    <3>1. me'[u] = me[u] /\ gtr \in DOMAIN regs
      BY <1>3, <2>1 DEF PlaceInv, PlaceOK, TracerType
    <3> QED
      BY <1>2, <1>3, <2>1, <3>1 DEF DrawOK
  <2>2. CASE me'[u].pc # "take"
    BY <1>2, <1>3, <2>2 DEF DrawOK
  <2> QED
    BY <2>1, <2>2
<1> QED
  BY <1>2, <1>4

\* A registry is mapped when nobody draws.
LEMMA DrawnMap ==
  ASSUME TracerConstants, TracerInv, TracerInv', DrawnInv, NEW t \in Traced, TrAt(t, "map"),
         regs' = Append(regs, Registry), me' = [me EXCEPT ![t].pc = "clear", ![t].reg = gtr'], late' = (late \/ Drawing)
  PROVE  DrawnInv'
<1> SUFFICES ASSUME Sound' PROVE (\A r \in DOMAIN regs' : regs'[r].next > 0 => r = gtr') /\ \A u \in Traced : DrawOK(u)'
  BY DEF DrawnInv
<1>1. TracerType /\ PlaceInv /\ Registry \in RegT /\ Registry.next = 0
  BY ClearedSlots DEF TracerInv
<1>2. ~late /\ (\A u \in Traced : me[u].pc # "add") /\ \A r \in DOMAIN regs : ~(regs[r].next > 0)
  BY DEF Sound, Drawing, TrAt
<1>3. \A r \in DOMAIN regs : regs[r].next = 0
  <2>1. \A r \in DOMAIN regs : regs[r] \in RegT
    BY <1>1 DEF TracerType
  <2> QED
    BY <1>2, <2>1 DEF RegT
<1>4. \A u \in Traced : me[u].pc # "take"
  <2> SUFFICES ASSUME NEW u \in Traced, me[u].pc = "take" PROVE FALSE
    OBVIOUS
  <2>1. Sound
    BY <1>2, <1>3 DEF Sound, TracerConstants
  <2>2. me[u].k < regs[gtr].next
    BY <2>1 DEF DrawnInv, DrawOK
  <2>3. gtr \in DOMAIN regs /\ me[u].k \in Nat
    <3>1. me[u] \in MeT
      BY <1>1, Own
    <3> QED
      BY <1>1, <3>1 DEF TracerType, PlaceInv, PlaceOK, MeT
  <2> QED
    BY <1>3, <2>2, <2>3
<1>5. \A r \in DOMAIN regs' : regs'[r].next = 0
  <2> HIDE DEF Registry
  <2>1. regs \in Seq(RegT)
    BY <1>1 DEF TracerType
  <2> QED
    BY <1>1, <1>3, <2>1
<1>6. \A u \in Traced : me'[u].pc \notin {"add", "take"}
  <2>1. me \in [Traced -> MeT]
    BY <1>1 DEF TracerType
  <2> QED
    BY <1>2, <1>4, <2>1
<1>7. \A r \in DOMAIN regs' : ~(regs'[r].next > 0)
  BY <1>5
<1>8. ASSUME NEW u \in Traced PROVE DrawOK(u)'
  <2>1. me'[u].pc # "add" /\ me'[u].pc # "take"
    BY <1>6
  <2> QED
    BY <2>1 DEF DrawOK
<1> QED
  BY <1>7, <1>8

\* A registry is cleared that nothing was drawn from.
LEMMA DrawnClear ==
  ASSUME TracerConstants, TracerInv, DrawnInv, NEW t \in Traced, TrAt(t, "clear"),
         NEW r \in {me[t].reg, gtr}, regs' = [regs EXCEPT ![r] = Registry], late' = (late \/ regs[r].next > 0),
         ReturnInit(t), UNCHANGED gtr
  PROVE  DrawnInv'
<1> SUFFICES ASSUME Sound' PROVE DrawnInv'
  BY DEF DrawnInv
<1>1. TracerType /\ PlaceInv /\ Registry.next = 0 /\ me \in [Traced -> MeT] /\ me[t].pc = "clear"
  BY ClearedSlots DEF TracerInv, TracerType, TrAt
<1>2. r \in DOMAIN regs /\ me[t].ret \in {"draw", "install"}
  <2>1. me[t] \in MeT
    BY <1>1, Own
  <2> QED
    BY <1>1, <2>1 DEF PlaceInv, PlaceOK, TracerType, MeT
<1>3. regs[r].next = 0 /\ late' = late
  <2>1. ~late /\ ~late' /\ ~(regs[r].next > 0) /\ late \in BOOLEAN
    BY <1>1 DEF Sound, TracerType
  <2>2. regs[r] \in RegT
    BY <1>1, <1>2 DEF TracerType
  <2> QED
    BY <2>1, <2>2 DEF RegT
<1>4. DOMAIN regs' = DOMAIN regs /\ \A q \in DOMAIN regs : regs'[q].next = regs[q].next
  <2> HIDE DEF Registry
  <2>1. regs \in Seq(RegT)
    BY <1>1 DEF TracerType
  <2> QED
    BY <1>1, <1>2, <1>3, <2>1
<1>5. me'[t].slot = me[t].slot /\ me'[t].pc \notin {"add", "take"} /\ \A u \in Traced \ {t} : me'[u] = me[u]
  BY <1>1, <1>2 DEF ReturnInit
<1> QED
  BY <1>1, <1>3, <1>4, <1>5, DrawnKept

\* The counter that is drawn from is found through gtr.
LEMMA DrawnLoad ==
  ASSUME TracerInv, DrawnInv, NEW t \in Traced, LoadCounter(t), UNCHANGED <<late, gtr, regs>>
  PROVE  DrawnInv'
<1>1. TracerType /\ PlaceInv /\ me \in [Traced -> MeT]
  BY DEF TracerInv, TracerType
<1>2. CASE TrGo(t, "mark")
  <2>1. me'[t].slot = me[t].slot /\ me'[t].pc \notin {"add", "take"} /\ \A u \in Traced \ {t} : me'[u] = me[u]
    BY <1>1, <1>2 DEF TrGo
  <2> QED
    BY <1>1, <2>1, DrawnKept
<1>3. CASE me' = [me EXCEPT ![t].pc = "add", ![t].reg = gtr]
  <2>1. /\ me'[t].slot = me[t].slot /\ me'[t].pc = "add" /\ me'[t].reg = gtr /\ \A u \in Traced \ {t} : me'[u] = me[u]
    BY <1>1, <1>3
  <2>2. Sound' => Sound
    BY DEF Sound
  <2> QED
    BY <2>1, <2>2 DEF DrawnInv, DrawOK
<1> QED
  BY <1>2, <1>3 DEF LoadCounter

\* An id is drawn: it is above those drawn before.
LEMMA DrawnAdd ==
  ASSUME TracerConstants, TracerInv, TracerInv', DrawnInv, proc = "run", NEW t \in Traced, DrawSlot(t), UNCHANGED <<late, gtr>>
  PROVE  DrawnInv'
<1> SUFFICES ASSUME Sound' PROVE (\A r \in DOMAIN regs' : regs'[r].next > 0 => r = gtr') /\ \A u \in Traced : DrawOK(u)'
  BY DEF DrawnInv
<1> DEFINE c == me[t].reg
           n == regs[c].next
<1>1. TracerType /\ TracerType' /\ PlaceInv /\ me[t].pc = "add" /\ me \in [Traced -> MeT] /\ regs \in Seq(RegT)
  BY DEF TracerInv, TracerType, DrawSlot, TrAt
<1>2. c \in DOMAIN regs /\ regs[c] \in RegT /\ gtr \in DOMAIN regs
  BY <1>1 DEF PlaceInv, PlaceOK, TracerType
<1>3. n \in Nat /\ \A r \in DOMAIN regs : regs[r].next \in Nat
  <2>1. \A r \in DOMAIN regs : regs[r] \in RegT
    BY <1>1
  <2> QED
    BY <1>2, <2>1 DEF RegT
<1>4. /\ DOMAIN regs' = DOMAIN regs /\ regs'[c].next = n + 1
      /\ \A r \in DOMAIN regs : r # c => regs'[r] = regs[r]
  BY <1>1, <1>2 DEF DrawSlot, RegT
<1>5. /\ me'[t].slot = me[t].slot /\ me'[t].pc = "take" /\ me'[t].k = n
      /\ \A u \in Traced \ {t} : me'[u] = me[u]
  BY <1>1 DEF DrawSlot
<1> HIDE DEF n
<1>6. Sound
  <2>1. \A r \in DOMAIN regs : r \in DOMAIN regs' /\ regs[r].next <= regs'[r].next
    BY <1>3, <1>4 DEF n
  <2> QED
    BY <1>1, <2>1, SoundBefore
<1>7. /\ \A r \in DOMAIN regs : regs[r].next > 0 => r = gtr
      /\ \A u \in Traced : DrawOK(u)
      /\ SlotInv
  BY <1>6 DEF DrawnInv, TracerInv, SoundInv
<1>8. c = gtr
  BY <1>1, <1>7 DEF DrawOK
<1>9. \A r \in DOMAIN regs' : regs'[r].next > 0 => r = gtr'
  BY <1>4, <1>7, <1>8
<1>10. \A u \in Traced : me'[u].slot = me[u].slot
  BY <1>5
<1>11. \A u \in Traced : me[u].slot # <<gtr, n>>
  <2> SUFFICES ASSUME NEW u \in Traced, me[u].slot = <<gtr, n>> PROVE FALSE
    OBVIOUS
  <2>1. <<gtr, n>> # NULL /\ me[u].slot[1] = gtr /\ me[u].slot[2] = n
    <3>1. gtr \in Nat
      BY <1>1, <1>2
    <3> QED
      BY <1>3, <3>1 DEF TracerConstants
  <2>2. n < regs[gtr].next
    BY <1>7, <2>1 DEF SlotInv
  <2> QED
    BY <1>3, <1>8, <2>2 DEF n
<1>12. \A u \in Traced : me[u].pc = "take" => me[u].k < n /\ me[u].k \in Nat
  <2> SUFFICES ASSUME NEW u \in Traced, me[u].pc = "take" PROVE me[u].k < n /\ me[u].k \in Nat
    OBVIOUS
  <2>1. me[u] \in MeT
    BY <1>1
  <2> QED
    BY <1>7, <1>8, <2>1 DEF DrawOK, MeT, n
<1>13. ASSUME NEW u \in Traced PROVE DrawOK(u)'
  <2>1. CASE u = t
    <3>1. \A w \in Traced : me'[w].slot # <<gtr, n>> /\ (w # t /\ me'[w].pc = "take" => me'[w].k # n)
      BY <1>3, <1>5, <1>10, <1>11, <1>12
    <3>2. n < regs'[gtr].next
      BY <1>3, <1>4, <1>8
    <3> QED
      BY <1>5, <2>1, <3>1, <3>2 DEF DrawOK
  <2>2. CASE u # t
    <3>1. me'[u] = me[u] /\ DrawOK(u)
      BY <1>5, <1>7, <2>2
    <3>2. me[u].pc = "take" => me[u].k < regs'[gtr].next /\ n # me[u].k
      BY <1>3, <1>4, <1>8, <1>12
    <3> QED
      BY <1>5, <1>10, <3>1, <3>2 DEF DrawOK
  <2> QED
    BY <2>1, <2>2
<1> QED
  BY <1>9, <1>13

\* A slot is taken: its id was one thread's.
LEMMA DrawnTake ==
  ASSUME TracerConstants, TracerInv, DrawnInv, NEW t \in Traced, TrAt(t, "take"),
         me' = [me EXCEPT ![t].pc = "wipe", ![t].slot = <<gtr, me[t].k % MAX_THR>>, ![t].k = 0],
         UNCHANGED <<late, gtr, regs>>
  PROVE  DrawnInv'
<1> SUFFICES ASSUME Sound' PROVE (\A r \in DOMAIN regs' : regs'[r].next > 0 => r = gtr') /\ \A u \in Traced : DrawOK(u)'
  BY DEF DrawnInv
<1> DEFINE n == me[t].k
<1>1. TracerType /\ PlaceInv /\ me \in [Traced -> MeT] /\ me[t].pc = "take"
  BY DEF TracerInv, TracerType, TrAt
<1>2. Sound
  BY DEF Sound
<1>3. (\A r \in DOMAIN regs : regs[r].next > 0 => r = gtr) /\ \A u \in Traced : DrawOK(u)
  BY <1>2 DEF DrawnInv
<1>4. n \in 0 .. MAX_THR - 1
  <2>1. me[t] \in MeT /\ gtr \in DOMAIN regs
    BY <1>1, Own DEF PlaceInv, PlaceOK, TracerType
  <2>2. regs[gtr] \in RegT
    BY <1>1, <2>1 DEF TracerType
  <2>3. n \in Nat /\ regs[gtr].next \in Nat /\ n < regs[gtr].next /\ regs[gtr].next <= MAX_THR
    BY <1>1, <1>2, <1>3, <2>1, <2>2 DEF MeT, RegT, DrawOK, Sound
  <2> QED
    BY <2>3 DEF TracerConstants
<1>5. n % MAX_THR = n
  <2> HIDE DEF n
  <2> QED
    BY <1>4, Small DEF TracerConstants
<1>6. /\ me'[t].slot = <<gtr, n>> /\ me'[t].pc = "wipe"
      /\ \A u \in Traced \ {t} : me'[u] = me[u]
  BY <1>1, <1>5
<1>7. ASSUME NEW u \in Traced PROVE DrawOK(u)'
  <2>1. CASE u = t
    BY <1>6, <2>1 DEF DrawOK
  <2>2. CASE u # t
    <3>1. me'[u] = me[u] /\ DrawOK(u)
      BY <1>3, <1>6, <2>2
    <3>2. me[u].pc = "take" => <<gtr, n>> # <<gtr, me[u].k>>
      BY <1>1, <1>3, <2>2 DEF DrawOK
    <3> QED
      BY <1>6, <3>1, <3>2 DEF DrawOK
  <2> QED
    BY <2>1, <2>2
<1> QED
  BY <1>3, <1>7

\* Every step preserves what is known of the ids.
LEMMA DrawnStep ==
  ASSUME TracerConstants, TracerInv, TracerInv', DrawnInv, TracerNext PROVE DrawnInv'
<1>1. PICK t \in Traced :
       \/ trace_reg_init(t) /\ UNCHANGED <<hist, dump, armed, faults, proc>>
       \/ LoadCounter(t) /\ UNCHANGED <<late, gtr, regs, hist, dump, armed, faults, proc>>
       \/ DrawSlot(t) /\ UNCHANGED <<late, gtr, hist, dump, armed, faults, proc>>
       \/ (trace_reg_attach_name(t) \/ tracer_mark_point(t)) /\ UNCHANGED <<late, gtr, dump, armed, faults, proc>>
       \/ BeginMark(t) /\ UNCHANGED <<late, gtr, regs, hist, dump, armed, faults, proc>>
       \/ trace_dump_all(t) /\ UNCHANGED <<late, gtr, regs, me, hist, armed, faults, proc>>
       \/ EndDump(t) /\ UNCHANGED <<late, gtr, regs, hist, armed, faults>>
       \/ tracer_dump_now_fd(t) /\ UNCHANGED <<late, gtr, regs, hist, dump, armed, faults, proc>>
       \/ tracer_setup(t) /\ UNCHANGED <<late, gtr, regs, hist, dump, faults, proc>>
       \/ \E sig \in Signals : Fault(t, sig) /\ UNCHANGED <<late, gtr, regs, hist>>
  BY DEF TracerNext
<1>2. /\ proc = "run" /\ TracerType /\ PlaceInv /\ me \in [Traced -> MeT]
  BY DEF TracerNext, TracerInv, TracerType
<1>3. CASE UNCHANGED <<late, gtr, regs, me>>
  <2>1. Sound' => Sound
    BY <1>3 DEF Sound
  <2> QED
    BY <1>3, <2>1 DEF DrawnInv, DrawOK
<1>4. CASE /\ me'[t].slot = me[t].slot /\ me'[t].pc \notin {"add", "take"} /\ \A u \in Traced \ {t} : me'[u] = me[u]
           /\ DOMAIN regs' = DOMAIN regs /\ \A r \in DOMAIN regs : regs'[r].next = regs[r].next
           /\ UNCHANGED <<gtr, late>>
  BY <1>2, <1>4, DrawnKept
<1>5. CASE trace_reg_init(t)
  <2>1. CASE TrAt(t, "init") /\ (ReturnInit(t) \/ TrGo(t, "map")) /\ UNCHANGED <<gtr, regs, late>>
    <3>1. me[t].ret \in {"draw", "install"}
      <4>1. me[t] \in MeT
        BY <1>2
      <4> QED
        BY <1>2, <2>1, <4>1 DEF PlaceInv, PlaceOK, MeT, TrAt
    <3>2. me'[t].slot = me[t].slot /\ me'[t].pc \notin {"add", "take"} /\ \A u \in Traced \ {t} : me'[u] = me[u]
      <4>1. CASE ReturnInit(t)
        BY <1>2, <3>1, <4>1 DEF ReturnInit, MeT
      <4>2. CASE TrGo(t, "map")
        BY <1>2, <4>2 DEF TrGo, MeT
      <4> QED
        BY <2>1, <4>1, <4>2
    <3>3. DOMAIN regs' = DOMAIN regs /\ (\A r \in DOMAIN regs : regs'[r].next = regs[r].next) /\ UNCHANGED <<gtr, late>>
      BY <2>1
    <3> QED
      BY <1>4, <3>2, <3>3
  <2>2. CASE /\ TrAt(t, "map") /\ regs' = Append(regs, Registry)
             /\ me' = [me EXCEPT ![t].pc = "clear", ![t].reg = gtr'] /\ late' = (late \/ Drawing)
    BY <2>2, DrawnMap
  <2>3. CASE /\ TrAt(t, "clear")
             /\ \E r \in {me[t].reg, gtr} : regs' = [regs EXCEPT ![r] = Registry] /\ late' = (late \/ regs[r].next > 0)
             /\ ReturnInit(t) /\ UNCHANGED gtr
    BY <2>3, DrawnClear
  <2> QED
    BY <1>5, <2>1, <2>2, <2>3 DEF trace_reg_init
<1>6. CASE LoadCounter(t) /\ UNCHANGED <<late, gtr, regs>>
  BY <1>6, DrawnLoad
<1>7. CASE DrawSlot(t) /\ UNCHANGED <<late, gtr>>
  BY <1>2, <1>7, DrawnAdd
<1>8. CASE (trace_reg_attach_name(t) \/ tracer_mark_point(t)) /\ UNCHANGED <<late, gtr>>
  <2>1. CASE /\ TrAt(t, "take") /\ UNCHANGED regs
             /\ me' = [me EXCEPT ![t].pc = "wipe", ![t].slot = <<gtr, me[t].k % MAX_THR>>, ![t].k = 0]
    BY <1>8, <2>1, DrawnTake
  <2>2. CASE /\ me[t].pc \in {"wipe", "use", "mark", "site", "time"} /\ \E v : Put(me[t].slot, v)
             /\ me'[t].slot = me[t].slot /\ me'[t].pc \notin {"add", "take"} /\ \A u \in Traced \ {t} : me'[u] = me[u]
    <3>1. me[t].slot # NULL
      BY <1>2, <2>2 DEF PlaceInv, PlaceOK
    <3>2. me[t].slot[1] \in DOMAIN regs /\ me[t].slot[2] \in Ids /\ regs[me[t].slot[1]] \in RegT
      BY <1>2, <3>1, MineThere DEF TracerType
    <3>3. DOMAIN regs' = DOMAIN regs /\ \A r \in DOMAIN regs : regs'[r].next = regs[r].next
      BY <2>2, <3>2 DEF Put, RegT
    <3> QED
      BY <1>4, <1>8, <2>2, <3>3
  <2>3. CASE trace_reg_attach_name(t)
    <3>1. CASE /\ TrAt(t, "wipe") /\ me' = [me EXCEPT ![t].pc = "use", ![t].base = hist[t]]
               /\ Put(me[t].slot, [Cleared EXCEPT !.owner = t])
      BY <1>2, <2>2, <3>1 DEF TrAt
    <3>2. CASE /\ TrAt(t, "use") /\ TrGo(t, "mark")
               /\ Put(me[t].slot, [Slot(me[t].slot) EXCEPT !.idx = 0, !.used = TRUE])
      BY <1>2, <2>2, <3>2 DEF TrAt, TrGo
    <3> QED
      BY <2>1, <2>3, <3>1, <3>2 DEF trace_reg_attach_name
  <2>4. CASE tracer_mark_point(t)
    <3>1. CASE /\ TrAt(t, "mark") /\ me' = [me EXCEPT ![t].pc = "site", ![t].k = Slot(me[t].slot).idx % TRACE_N]
               /\ Put(me[t].slot, [Slot(me[t].slot) EXCEPT !.idx = (@ + 1) % IdxWrap])
      BY <1>2, <2>2, <3>1 DEF TrAt
    <3>2. CASE /\ TrAt(t, "site") /\ TrGo(t, "time")
               /\ Put(me[t].slot, [Slot(me[t].slot) EXCEPT !.ring[me[t].k].site = hist[t]])
      BY <1>2, <2>2, <3>2 DEF TrAt, TrGo
    <3>3. CASE /\ TrAt(t, "time") /\ me' = [me EXCEPT ![t].pc = "idle", ![t].k = 0]
               /\ Put(me[t].slot, [Slot(me[t].slot) EXCEPT !.ring[me[t].k].t = hist[t]])
      BY <1>2, <2>2, <3>3 DEF TrAt
    <3> QED
      BY <2>4, <3>1, <3>2, <3>3 DEF tracer_mark_point
  <2> QED
    BY <1>8, <2>3, <2>4
<1>9. CASE (BeginMark(t) \/ EndDump(t) \/ tracer_dump_now_fd(t) \/ tracer_setup(t)) /\ UNCHANGED <<late, gtr, regs>>
  <2>1. me'[t].slot = me[t].slot /\ me'[t].pc \notin {"add", "take"} /\ \A u \in Traced \ {t} : me'[u] = me[u]
    <3>1. CASE \E pc \in {"idle", "mark", "draw", "dump"} : TrGo(t, pc)
      BY <1>2, <3>1 DEF TrGo, MeT
    <3>2. CASE \E ret \in {"draw", "install"} : me' = [me EXCEPT ![t].pc = "init", ![t].ret = ret]
      BY <1>2, <3>2 DEF MeT
    <3> QED
      BY <1>9, <3>1, <3>2 DEF BeginMark, EndDump, tracer_dump_now_fd, tracer_setup
  <2>2. DOMAIN regs' = DOMAIN regs /\ (\A r \in DOMAIN regs : regs'[r].next = regs[r].next) /\ UNCHANGED <<gtr, late>>
    BY <1>9
  <2> QED
    BY <1>4, <2>1, <2>2
<1>10. CASE \E sig \in Signals : Fault(t, sig) /\ UNCHANGED <<late, gtr, regs>>
  <2>1. CASE me' = me
    BY <1>3, <1>10, <2>1
  <2>2. CASE TrGo(t, "dump")
    <3>1. me'[t].slot = me[t].slot /\ me'[t].pc \notin {"add", "take"} /\ \A u \in Traced \ {t} : me'[u] = me[u]
      BY <1>2, <2>2 DEF TrGo
    <3>2. DOMAIN regs' = DOMAIN regs /\ (\A r \in DOMAIN regs : regs'[r].next = regs[r].next) /\ UNCHANGED <<gtr, late>>
      BY <1>10
    <3> QED
      BY <1>4, <3>1, <3>2
  <2> QED
    BY <1>10, <2>1, <2>2 DEF Fault
<1> QED
  BY <1>1, <1>3, <1>5, <1>6, <1>7, <1>8, <1>9, <1>10

\* Nothing happens.
LEMMA TracerStutter ==
  ASSUME TracerInv, UNCHANGED trVars PROVE TracerInv'
<1>1. UNCHANGED <<early, late, gtr, regs, me, hist, dump, armed, faults, proc>>
  BY DEF trVars
<1>2. TracerType' /\ PlaceInv' /\ FaultInv'
  BY <1>1 DEF TracerInv, TracerType, PlaceInv, PlaceOK, FaultInv, OneFaultDumped
<1>3. (Sound' => Sound) /\ (SlotInv => SlotInv')
  BY <1>1 DEF Sound, SlotInv
<1>4. ASSUME NEW d \in Traced, ListOK(d) PROVE ListOK(d)'
  BY <1>1, <1>4, ListSame
<1>5. ASSUME NEW t \in Traced, AttachOK(t), RingOK(t) PROVE AttachOK(t)' /\ RingOK(t)'
  <2>1. /\ Mine(t)' = Mine(t) /\ Count(t)' = Count(t) /\ (Faulted(t)' <=> Faulted(t))
        /\ (Attaching(t)' <=> Attaching(t)) /\ (Whole(t)' <=> Whole(t))
    BY <1>1 DEF Mine, Slot, Count, Faulted, Attaching, Whole
  <2>2. AttachOK(t)'
    BY <1>1, <1>5, <2>1 DEF AttachOK
  <2>3. RingOK(t)'
    BY <1>1, <1>5, <2>1 DEF RingOK
  <2> QED
    BY <2>2, <2>3
<1>6. SoundInv'
  BY <1>1, <1>3, <1>4, <1>5 DEF SoundInv, TracerInv
<1> QED
  BY <1>2, <1>6 DEF TracerInv

-----------------------------------------------------------------------------
(* What the invariant promises.                                            *)

\* The smaller of two numbers.
LEMMA MinOfTwo ==
  ASSUME NEW a \in Int, NEW b \in Int PROVE Min({a, b}) = IF a <= b THEN a ELSE b
<1> DEFINE m == IF a <= b THEN a ELSE b
<1>1. m \in {a, b} /\ (\A y \in {a, b} : m <= y) /\ \A x \in {a, b} : (\A y \in {a, b} : x <= y) => x = m
  OBVIOUS
<1> HIDE DEF m
<1>2. Min({a, b}) = m
  BY <1>1 DEF Min
<1> QED
  BY <1>2 DEF m

\* The points that a dump has listed.
LEMMA ListingExact ==
  ASSUME TracerConstants, TracerInv PROVE DumpExact
<1> SUFFICES ASSUME NEW d \in Traced, Sound, dump[d].seen >= 0, dump[d].j >= dump[d].n, dump[d].seen = hist[Listed(d).owner]
             PROVE  LET o == Listed(d).owner
                        k == Len(dump[d].list)
                        since == hist[o] - me[o].base
                    IN  /\ dump[d].list = [i \in 1 .. k |-> [site |-> hist[o] - k + i, t |-> hist[o] - k + i]]
                        /\ k = Min({TRACE_N, since}) \/ (since >= IdxWrap /\ k = Min({TRACE_N, since % IdxWrap}))
  BY DEF DumpExact, Listed
<1>1. TracerType /\ PlaceInv /\ SlotInv /\ ListOK(d)
  BY DEF TracerInv, SoundInv
<1>2. dump[d].r # NULL /\ Listed(d).used
  BY <1>1, Listing DEF ListOK
<1>3. PICK o \in Traced : o = Listed(d).owner
  BY <1>1, <1>2, ListedThere
<1>4. ListExact(d, o)
  BY <1>1, <1>3 DEF ListOK
<1> DEFINE n == dump[d].n
           c == Count(o)
           st == StartOf(n)
           list == dump[d].list
           k == n - st
<1>5. /\ n = c % IdxWrap /\ c >= 0 /\ dump[d].j \in st .. n
      /\ list = [i \in 1 .. dump[d].j - st |-> Point(hist[o] - n + st + i)]
  BY <1>4 DEF ListExact
<1>6. c \in Nat /\ hist[o] \in Nat /\ dump[d].j \in Nat /\ list \in Seq(EntryT) /\ n \in Nat /\ c = hist[o] - me[o].base
  <2>1. me[o] \in MeT /\ hist[o] \in Nat /\ dump[d] \in DumpT
    BY <1>1, Own
  <2>2. c \in Int /\ c = hist[o] - me[o].base
    BY <2>1 DEF MeT, Count
  <2>3. n \in Nat
    BY <1>5, <2>2, RingPlace
  <2> QED
    BY <1>5, <2>1, <2>2, <2>3 DEF DumpT
<1>7. st \in 0 .. n /\ n - st <= TRACE_N /\ (n <= TRACE_N => st = 0) /\ (n > TRACE_N => st = n - TRACE_N)
  BY <1>6, Starts
<1>8. TRACE_N \in Nat \ {0} /\ IdxWrap \in Nat \ {0}
  BY DEF TracerConstants
<1> HIDE DEF c, st
<1>9. dump[d].j = n /\ k \in Nat /\ hist[o] - n + st = hist[o] - k
  BY <1>5, <1>6, <1>7
<1>10. list = [i \in 1 .. k |-> Point(hist[o] - k + i)]
  BY <1>5, <1>9
<1> HIDE DEF n, list
<1>11. k = Len(list)
  <2>1. DOMAIN list = 1 .. k
    BY <1>10
  <2> QED
    BY <1>6, <1>9, <2>1, LenProperties
<1>12. k = Min({TRACE_N, n})
  <2>1. Min({TRACE_N, n}) = IF TRACE_N <= n THEN TRACE_N ELSE n
    BY <1>6, <1>8, MinOfTwo
  <2> QED
    BY <1>6, <1>7, <1>8, <2>1
<1>13. k = Min({TRACE_N, c}) \/ (c >= IdxWrap /\ k = Min({TRACE_N, c % IdxWrap}))
  <2>1. CASE c < IdxWrap
    <3>1. c \in 0 .. IdxWrap - 1
      BY <1>6, <1>8, <2>1
    <3>2. n = c
      BY <1>5, <1>8, <3>1, Small
    <3> QED
      BY <1>12, <3>2
  <2>2. CASE c >= IdxWrap
    BY <1>5, <1>12, <2>2
  <2> QED
    BY <1>6, <1>8, <2>1, <2>2
<1> HIDE DEF k
<1> QED
  BY <1>3, <1>6, <1>10, <1>11, <1>13 DEF Point, list

\* A set of naturals has a least element.
LEMMA LeastIndex ==
  ASSUME NEW A \in SUBSET Nat, A # {}
  PROVE  Min(A) \in A
<1>1. PICK m \in A : \A n \in A : ~(<<n, m>> \in OpToRel(<, Nat))
  BY NatLessThanWellFounded, WFMin
<1>2. \A n \in A : <<n, m>> \in OpToRel(<, Nat) <=> n < m
  BY DEF OpToRel
<1>3. \A n \in A : ~(n < m)
  BY <1>1, <1>2
<1>4. \A n \in A : m <= n
  BY <1>3
<1> QED
  BY <1>4 DEF Min

\* The mapping that the hint names.
LEMMA HintCorrect ==
  ASSUME TracerConstants PROVE HintExact
<1> SUFFICES ASSUME NEW pc \in PCs, NEW pie \in BOOLEAN
             PROVE  LET h == segv_print_addr2line_hint(pc, pie)
                        Within == {i \in DOMAIN Maps : /\ Maps[i].rx /\ pc \in Maps[i].start .. Maps[i].end - 1
                                                       /\ Maps[i].path # NULL}
                    IN  IF Within = {} THEN h = NULL
                        ELSE \E i \in Within :
                               /\ h.path = Maps[i].path
                               /\ h.off = IF pie THEN Maps[i].pgoff + (pc - Maps[i].start) ELSE pc
  BY DEF HintExact
<1> DEFINE W == {i \in DOMAIN Maps : /\ Maps[i].rx /\ pc \in Maps[i].start .. Maps[i].end - 1
                                     /\ Maps[i].path # NULL}
           I == {i \in 1 .. Len(Maps) : Has(Maps[i], pc) /\ Maps[i].path # NULL}
           n == IF I # {} THEN Min(I) ELSE 0
           h == segv_print_addr2line_hint(pc, pie)
<1>1. DOMAIN Maps = 1 .. Len(Maps) /\ pc \in Nat /\ Len(Maps) \in Nat
  BY LenProperties DEF TracerConstants
<1>2. ASSUME NEW i \in 1 .. Len(Maps) PROVE Maps[i].start \in Nat /\ Maps[i].end \in Nat /\ Maps[i].pgoff \in Nat
  BY <1>1 DEF TracerConstants
<1>3. I = W
  <2>1. ASSUME NEW i \in 1 .. Len(Maps) PROVE Has(Maps[i], pc) <=> Maps[i].rx /\ pc \in Maps[i].start .. Maps[i].end - 1
    BY <1>1, <1>2 DEF Has
  <2> QED
    BY <1>1, <2>1
<1>4. SelectInSeq(Maps, LAMBDA m : Has(m, pc) /\ m.path # NULL) = n
  BY DEF SelectInSeq
<1>5. h = IF n = 0 THEN NULL
          ELSE [path |-> Maps[n].path, off |-> IF pie THEN pc - Maps[n].start + Maps[n].pgoff ELSE pc]
  BY <1>4 DEF segv_print_addr2line_hint
<1> HIDE DEF h
<1>6. CASE W = {}
  BY <1>3, <1>5, <1>6 DEF h
<1>7. CASE W # {}
  <2>1. n \in I
    <3>1. I \in SUBSET Nat /\ I # {}
      BY <1>1, <1>3, <1>7
    <3> HIDE DEF I
    <3>2. Min(I) \in I
      BY ONLY <3>1, LeastIndex
    <3> QED
      BY <3>1, <3>2
  <2>2. n \in 1 .. Len(Maps) /\ n # 0 /\ n \in W
    BY <1>3, <2>1
  <2> HIDE DEF n, W, I
  <2>3. h.path = Maps[n].path /\ h.off = IF pie THEN pc - Maps[n].start + Maps[n].pgoff ELSE pc
    BY <1>5, <2>2
  <2>4. h.off = IF pie THEN Maps[n].pgoff + (pc - Maps[n].start) ELSE pc
    BY <1>1, <1>2, <2>2, <2>3
  <2> QED
    BY <1>7, <2>2, <2>3, <2>4 DEF h, W
<1> QED
  BY <1>6, <1>7

\* gtr is set by tracer_setup, so that trace_reg_init returns at once in every thread.
LEMMA EarlyStep ==
  ASSUME TracerConstants, TracerInv, EarlyInv, TracerNext PROVE EarlyInv'
<1> SUFFICES ASSUME early PROVE EarlyInv'
  BY DEF EarlyInv, TracerNext
<1>1. /\ me \in [Traced -> MeT] /\ gtr # NULL /\ ~late /\ \A u \in Traced : me[u].pc \notin {"map", "clear"}
  BY DEF EarlyInv, TracerInv, TracerType
<1>2. ASSUME NEW t \in Traced, me'[t].pc \notin {"map", "clear"}, \A u \in Traced \ {t} : me'[u] = me[u],
             UNCHANGED <<gtr, late>>
      PROVE  EarlyInv'
  BY <1>1, <1>2 DEF EarlyInv
<1>3. PICK t \in Traced :
       \/ trace_reg_init(t)
       \/ LoadCounter(t) /\ UNCHANGED <<late, gtr>>
       \/ DrawSlot(t) /\ UNCHANGED <<late, gtr>>
       \/ (trace_reg_attach_name(t) \/ tracer_mark_point(t)) /\ UNCHANGED <<late, gtr>>
       \/ BeginMark(t) /\ UNCHANGED <<late, gtr>>
       \/ UNCHANGED <<late, gtr, me>>
       \/ EndDump(t) /\ UNCHANGED <<late, gtr>>
       \/ tracer_dump_now_fd(t) /\ UNCHANGED <<late, gtr>>
       \/ tracer_setup(t) /\ UNCHANGED <<late, gtr>>
       \/ (\E sig \in Signals : Fault(t, sig)) /\ UNCHANGED <<late, gtr>>
  BY DEF TracerNext
<1>4. me[t] \in MeT /\ me[t].pc \notin {"map", "clear"}
  BY <1>1
<1>5. CASE trace_reg_init(t)
  <2>1. TrAt(t, "init") /\ ReturnInit(t) /\ UNCHANGED <<gtr, late>>
    <3>1. ~TrAt(t, "map") /\ ~TrAt(t, "clear")
      BY <1>4 DEF TrAt
    <3> QED
      BY <1>1, <1>5, <3>1 DEF trace_reg_init
  <2>2. me'[t].pc = me[t].ret /\ \A u \in Traced \ {t} : me'[u] = me[u]
    BY <1>1, <2>1 DEF ReturnInit, MeT
  <2>3. me[t].ret \in {"draw", "install"}
    BY <1>4, <2>1 DEF MeT, TracerInv, PlaceInv, PlaceOK, TrAt
  <2> QED
    BY <1>2, <2>1, <2>2, <2>3
<1>6. CASE UNCHANGED <<late, gtr, me>>
  BY <1>1, <1>6 DEF EarlyInv
<1>7. CASE (trace_reg_attach_name(t) \/ tracer_mark_point(t)) /\ UNCHANGED <<late, gtr>>
  <2>1. me'[t].pc \notin {"map", "clear"} /\ \A u \in Traced \ {t} : me'[u] = me[u]
    <3>1. CASE trace_reg_attach_name(t)
      BY <1>1, <3>1 DEF trace_reg_attach_name, TrGo, MeT
    <3>2. CASE tracer_mark_point(t)
      BY <1>1, <3>2 DEF tracer_mark_point, TrGo, MeT
    <3> QED
      BY <1>7, <3>1, <3>2
  <2> QED
    BY <1>2, <1>7, <2>1
<1>8. CASE BeginMark(t) /\ UNCHANGED <<late, gtr>>
  <2>1. me'[t].pc \notin {"map", "clear"} /\ \A u \in Traced \ {t} : me'[u] = me[u]
    BY <1>1, <1>8 DEF BeginMark, TrGo, MeT
  <2> QED
    BY <1>2, <1>8, <2>1
<1>9. CASE (LoadCounter(t) \/ DrawSlot(t)) /\ UNCHANGED <<late, gtr>>
  <2>1. me'[t].pc \notin {"map", "clear"} /\ \A u \in Traced \ {t} : me'[u] = me[u]
    BY <1>1, <1>9 DEF LoadCounter, DrawSlot, TrGo, MeT
  <2> QED
    BY <1>2, <1>9, <2>1
<1>10. CASE (EndDump(t) \/ tracer_dump_now_fd(t) \/ tracer_setup(t)) /\ UNCHANGED <<late, gtr>>
  <2>1. me'[t].pc \notin {"map", "clear"} /\ \A u \in Traced \ {t} : me'[u] = me[u]
    BY <1>1, <1>10 DEF EndDump, tracer_dump_now_fd, tracer_setup, TrGo, MeT
  <2> QED
    BY <1>2, <1>10, <2>1
<1>11. CASE (\E sig \in Signals : Fault(t, sig)) /\ UNCHANGED <<late, gtr>>
  <2>1. UNCHANGED me \/ TrGo(t, "dump")
    BY <1>11 DEF Fault
  <2>2. CASE TrGo(t, "dump")
    BY <1>1, <1>2, <1>11, <2>2 DEF TrGo, MeT
  <2> QED
    BY <1>6, <1>11, <2>1, <2>2
<1> QED
  BY <1>3, <1>5, <1>6, <1>7, <1>8, <1>9, <1>10, <1>11

\* What tracer_setup, tracer_mark_point and trace_dump_all promise holds of every
\* number of threads, slots, points and faults: with tracer_setup before the threads no
\* registry is mapped or cleared under a thread that draws; where none is, and no more
\* slots are drawn than there are, a slot has one thread and a dump has the last points it
\* marked; a single fault is dumped and its hint names the place.
THEOREM TracerCorrect == TracerSpec => []TracerDumpSound
<1> USE TracerAssumption
<1>1. TracerInit => TracerInv /\ DrawnInv /\ EarlyInv
  <2>1. TracerInit => DrawnInv
    <3> SUFFICES ASSUME TracerInit PROVE DrawnInv
      OBVIOUS
    <3>1. \A t \in Traced : me[t].pc = "idle"
      BY DEF TracerInit
    <3>2. \A r \in DOMAIN regs : r = gtr
      <4> HIDE DEF Registry
      <4> QED
        BY DEF TracerInit
    <3> QED
      BY <3>1, <3>2 DEF DrawnInv, DrawOK
  <2>2. TracerInit => EarlyInv
    <3>1. 1 # NULL
      BY DEF TracerConstants
    <3> QED
      BY <3>1 DEF TracerInit, EarlyInv
  <2> QED
    BY <2>1, <2>2, TracerStart
<1>2. TracerInv /\ DrawnInv /\ EarlyInv /\ [TracerNext]_trVars => (TracerInv /\ DrawnInv /\ EarlyInv)'
  <2>1. TracerInv /\ DrawnInv /\ EarlyInv /\ TracerNext => (TracerInv /\ DrawnInv /\ EarlyInv)'
    BY TracerStep, DrawnStep, EarlyStep
  <2>2. DrawnInv /\ UNCHANGED trVars => DrawnInv'
    BY DEF DrawnInv, DrawOK, Sound, trVars
  <2>3. EarlyInv /\ UNCHANGED trVars => EarlyInv'
    BY DEF EarlyInv, trVars
  <2> QED
    BY <2>1, <2>2, <2>3, TracerStutter
<1>3. TracerInv /\ EarlyInv => TracerDumpSound
  BY ListingExact, HintCorrect DEF TracerDumpSound, TracerInv, EarlyInv, SlotPrivate, SoundInv, SlotInv, FaultInv
<1> QED
  BY <1>1, <1>2, <1>3, PTL DEF TracerSpec

-----------------------------------------------------------------------------
(* syslog2.                                                                *)

First == {"idle", "once", "init"}
Setting == {"setup", "level", "switch"}
Held == {"write", "rest", "unlock"}
Logging == {"log", "syslog", "lock"} \cup Held

TypeInv ==
  /\ logger \in [Loggers -> [pc : First \cup Setting \cup Logging, fn : {"setup", "log", NULL},
                         pri : Levels \cup {NULL}, use : BOOLEAN]]
  /\ serial \in BOOLEAN /\ once \in {"no", "runs", "done"}
  /\ stdout_lock \in BOOLEAN /\ ready \in BOOLEAN

\* The function of a call and its place.
FnInv ==
  \A t \in Loggers :
    /\ logger[t].pc \in Setting => logger[t].fn = "setup"
    /\ logger[t].pc \in Logging => logger[t].fn = "log"
    /\ logger[t].pc # "idle" => logger[t].fn \in {"setup", "log"}

\* One thread has the lock, and the open line is its own.
LockInv ==
  /\ \A t \in Loggers : logger[t].pc \in Held =>
       stdout_lock /\ \A u \in Loggers : logger[u].pc \in Held => t = u
  /\ \A t \in Loggers : open = t <=> logger[t].pc = "rest"
  /\ open \in Loggers \cup {NULL}
  /\ torn = FALSE

\* One thread initialises, and nobody is beyond pthread_once before it has ended.
OnceInv ==
  /\ \A t \in Loggers : logger[t].pc \notin First => once = "done"
  /\ \A t \in Loggers : logger[t].pc = "init" =>
       once = "runs" /\ \A u \in Loggers : logger[u].pc = "init" => t = u
  /\ once = "done" => ready

\* The mask is the level, or the one call of setup_syslog2 is between the two.
MaskInv ==
  serial =>
    /\ \A t, u \in Loggers : logger[t].fn = "setup" /\ logger[u].fn = "setup" => t = u
    /\ \A t \in Loggers : logger[t].pc = "level" => mask = logger[t].pri
    /\ once = "done" => mask = level \/ \E t \in Loggers : logger[t].pc = "level"

LogInv == TypeInv /\ FnInv /\ LockInv /\ OnceInv /\ MaskInv

LEMMA LogInvInit ==
  ASSUME NullIsNew, LogInit
  PROVE  LogInv
<1>1. TypeInv
  BY DEF LogInit, TypeInv, NoCall, First
<1>2. \A t \in Loggers : logger[t].pc = "idle" /\ logger[t].fn = NULL
  BY DEF LogInit, NoCall
<1> QED
  BY <1>1, <1>2 DEF LogInit, LogInv, FnInv, LockInv, OnceInv, MaskInv, NullIsNew, First, Setting, Logging, Held

LogPlaces == First \cup Setting \cup Logging

LEMMA GoFacts ==
  ASSUME TypeInv, NEW t \in Loggers, NEW pc \in LogPlaces, LogGo(t, pc)
  PROVE  /\ logger' \in [Loggers -> [pc : LogPlaces, fn : {"setup", "log", NULL}, pri : Levels \cup {NULL}, use : BOOLEAN]]
         /\ logger'[t].pc = pc /\ logger'[t].fn = logger[t].fn /\ logger'[t].pri = logger[t].pri
         /\ \A u \in Loggers \ {t} : logger'[u] = logger[u]
  BY DEF TypeInv, LogGo, LogPlaces

LEMMA ReturnFacts ==
  ASSUME TypeInv, NEW t \in Loggers, LogReturn(t)
  PROVE  /\ logger' \in [Loggers -> [pc : LogPlaces, fn : {"setup", "log", NULL}, pri : Levels \cup {NULL}, use : BOOLEAN]]
         /\ logger'[t].pc = "idle" /\ logger'[t].fn = NULL
         /\ \A u \in Loggers \ {t} : logger'[u] = logger[u]
  BY DEF TypeInv, LogReturn, NoCall, LogPlaces, First

LEMMA CallKeeps ==
  ASSUME NullIsNew, LogInv, NEW t \in Loggers, LogCall(t)
  PROVE  LogInv'
<1> USE DEF First, Setting, Held, Logging
<1>1. PICK pri \in Levels, fn \in {"setup", "log"}, use \in BOOLEAN :
        /\ fn = "setup" /\ serial => \A u \in Loggers : logger[u].fn # "setup"
        /\ logger' = [logger EXCEPT ![t] = [pc |-> "once", fn |-> fn, pri |-> pri, use |-> use]]
  BY DEF LogCall
<1>2. /\ logger[t].pc = "idle" /\ logger'[t].pc = "once" /\ logger'[t].fn = fn
      /\ \A u \in Loggers \ {t} : logger'[u] = logger[u]
  BY <1>1 DEF LogCall, LogAt, LogInv, TypeInv
<1>3. UNCHANGED <<serial, once, level, mask, log_syslog, stdout_lock, open, torn, ready>>
  BY DEF LogCall, settings, output
<1>4. TypeInv'
  BY <1>1, <1>3 DEF LogInv, TypeInv
<1>5. FnInv'
  BY <1>2 DEF LogInv, FnInv
<1>6. LockInv'
  BY <1>2, <1>3 DEF LogInv, LockInv
<1>7. OnceInv'
  BY <1>2, <1>3 DEF LogInv, OnceInv
<1>8. MaskInv'
  BY <1>1, <1>2, <1>3 DEF LogInv, MaskInv
<1> QED
  BY <1>4, <1>5, <1>6, <1>7, <1>8 DEF LogInv

LEMMA OnceKeeps ==
  ASSUME NullIsNew, LogInv, NEW t \in Loggers, syslog2_init_once(t),
         UNCHANGED <<serial, level, log_syslog, output, calls>>
  PROVE  LogInv'
<1> USE DEF First, Setting, Held, Logging, LogPlaces
<1>0. TypeInv /\ FnInv /\ LockInv /\ OnceInv /\ MaskInv
  BY DEF LogInv
<1>1. UNCHANGED <<serial, level, log_syslog, stdout_lock, open, torn>>
  BY DEF output
<1>2. CASE LogAt(t, "once") /\ once = "no" /\ once' = "runs" /\ LogGo(t, "init") /\ UNCHANGED <<mask, ready>>
  <2>1. /\ logger[t].pc = "once" /\ logger'[t].pc = "init" /\ logger'[t].fn = logger[t].fn
        /\ \A u \in Loggers \ {t} : logger'[u] = logger[u]
    BY <1>0, <1>2, GoFacts DEF LogAt
  <2>2. TypeInv'
    BY <1>0, <1>1, <1>2, GoFacts DEF TypeInv
  <2>3. FnInv' /\ LockInv'
    BY <1>0, <1>1, <2>1 DEF FnInv, LockInv
  <2>4. OnceInv' /\ MaskInv'
    BY <1>0, <1>1, <1>2, <2>1 DEF OnceInv, MaskInv
  <2> QED
    BY <2>2, <2>3, <2>4 DEF LogInv
<1>3. CASE LogAt(t, "init") /\ mask' = level /\ ready' = TRUE /\ once' = "done" /\ LogGo(t, logger[t].fn)
  <2>0. logger[t].fn \in {"setup", "log"}
    BY <1>0, <1>3 DEF LogAt, FnInv
  <2>1. /\ logger[t].pc = "init" /\ logger'[t].pc = logger[t].fn /\ logger'[t].fn = logger[t].fn
        /\ \A u \in Loggers \ {t} : logger'[u] = logger[u]
    BY <1>0, <1>3, <2>0, GoFacts DEF LogAt
  <2>2. TypeInv'
    BY <1>0, <1>1, <1>3, <2>0, GoFacts DEF TypeInv
  <2>3. FnInv' /\ LockInv'
    BY <1>0, <1>1, <2>0, <2>1 DEF FnInv, LockInv
  <2>4. \A u \in Loggers : logger[u].pc \in First \ {"init"} \/ u = t
    BY <1>0, <2>1 DEF OnceInv, TypeInv
  <2>5. OnceInv' /\ MaskInv'
    BY <1>0, <1>1, <1>3, <2>0, <2>1, <2>4 DEF OnceInv, MaskInv
  <2> QED
    BY <2>2, <2>3, <2>5 DEF LogInv
<1>4. CASE LogAt(t, "once") /\ once = "done" /\ LogGo(t, logger[t].fn) /\ UNCHANGED <<once, mask, ready>>
  <2>0. logger[t].fn \in {"setup", "log"}
    BY <1>0, <1>4 DEF LogAt, FnInv
  <2>1. /\ logger[t].pc = "once" /\ logger'[t].pc = logger[t].fn /\ logger'[t].fn = logger[t].fn
        /\ \A u \in Loggers \ {t} : logger'[u] = logger[u]
    BY <1>0, <1>4, <2>0, GoFacts DEF LogAt
  <2>2. TypeInv'
    BY <1>0, <1>1, <1>4, <2>0, GoFacts DEF TypeInv
  <2>3. FnInv' /\ LockInv'
    BY <1>0, <1>1, <2>0, <2>1 DEF FnInv, LockInv
  <2>4. OnceInv' /\ MaskInv'
    BY <1>0, <1>1, <1>4, <2>0, <2>1 DEF OnceInv, MaskInv
  <2> QED
    BY <2>2, <2>3, <2>4 DEF LogInv
<1> QED
  BY <1>2, <1>3, <1>4 DEF syslog2_init_once

LEMMA SetupKeeps ==
  ASSUME NullIsNew, LogInv, NEW t \in Loggers, setup_syslog2(t),
         UNCHANGED <<serial, once, output, ready, calls>>
  PROVE  LogInv'
<1> USE DEF First, Setting, Held, Logging, LogPlaces
<1>0. TypeInv /\ FnInv /\ LockInv /\ OnceInv /\ MaskInv
  BY DEF LogInv
<1>1. UNCHANGED <<serial, once, stdout_lock, open, torn, ready>>
  BY DEF output
<1>2. CASE LogAt(t, "setup") /\ mask' = logger[t].pri /\ LogGo(t, "level") /\ UNCHANGED <<level, log_syslog>>
  <2>1. /\ logger[t].pc = "setup" /\ logger'[t].pc = "level" /\ logger'[t].fn = logger[t].fn /\ logger'[t].pri = logger[t].pri
        /\ \A u \in Loggers \ {t} : logger'[u] = logger[u]
    BY <1>0, <1>2, GoFacts DEF LogAt
  <2>2. TypeInv'
    BY <1>0, <1>1, <1>2, GoFacts DEF TypeInv
  <2>3. FnInv' /\ LockInv' /\ OnceInv'
    BY <1>0, <1>1, <2>1 DEF FnInv, LockInv, OnceInv
  <2>4. MaskInv'
    <3>1. serial => \A u \in Loggers : logger[u].fn = "setup" => u = t
      BY <1>0, <2>1 DEF FnInv, MaskInv
    <3> QED
      BY <1>0, <1>1, <1>2, <2>1, <2>3, <3>1 DEF FnInv, MaskInv
  <2> QED
    BY <2>2, <2>3, <2>4 DEF LogInv
<1>3. CASE LogAt(t, "level") /\ level' = logger[t].pri /\ LogGo(t, "switch") /\ UNCHANGED <<mask, log_syslog>>
  <2>1. /\ logger[t].pc = "level" /\ logger'[t].pc = "switch" /\ logger'[t].fn = logger[t].fn
        /\ \A u \in Loggers \ {t} : logger'[u] = logger[u]
    BY <1>0, <1>3, GoFacts DEF LogAt
  <2>2. TypeInv'
    BY <1>0, <1>1, <1>3, GoFacts DEF TypeInv
  <2>3. FnInv' /\ LockInv' /\ OnceInv'
    BY <1>0, <1>1, <2>1 DEF FnInv, LockInv, OnceInv
  <2>4. MaskInv'
    BY <1>0, <1>1, <1>3, <2>1 DEF MaskInv
  <2> QED
    BY <2>2, <2>3, <2>4 DEF LogInv
<1>4. CASE LogAt(t, "switch") /\ log_syslog' = logger[t].use /\ LogReturn(t) /\ UNCHANGED <<level, mask>>
  <2>1. /\ logger[t].pc = "switch" /\ logger'[t].pc = "idle" /\ logger'[t].fn = NULL
        /\ \A u \in Loggers \ {t} : logger'[u] = logger[u]
    BY <1>0, <1>4, ReturnFacts DEF LogAt
  <2>2. TypeInv'
    BY <1>0, <1>1, <1>4, ReturnFacts DEF TypeInv
  <2>3. FnInv' /\ LockInv' /\ OnceInv'
    BY <1>0, <1>1, <2>1 DEF FnInv, LockInv, OnceInv
  <2>4. MaskInv'
    BY <1>0, <1>1, <1>4, <2>1 DEF MaskInv, NullIsNew
  <2> QED
    BY <2>2, <2>3, <2>4 DEF LogInv
<1> QED
  BY <1>2, <1>3, <1>4 DEF setup_syslog2

\* A step of a call that logs leaves the settings and the initialisation alone.
LEMMA LoggingKeeps ==
  ASSUME NullIsNew, LogInv, NEW t \in Loggers, logger[t].pc \in Logging,
         LogReturn(t) \/ \E pc \in Logging : LogGo(t, pc),
         stdout_lock' \in BOOLEAN, UNCHANGED <<serial, once, level, mask, ready>>
  PROVE  TypeInv' /\ FnInv' /\ OnceInv' /\ MaskInv'
<1> USE DEF First, Setting, Held, Logging, LogPlaces
<1>0. TypeInv /\ FnInv /\ OnceInv /\ MaskInv
  BY DEF LogInv
<1>1. CASE LogReturn(t)
  <2>1. /\ logger'[t].pc = "idle" /\ logger'[t].fn = NULL
        /\ \A u \in Loggers \ {t} : logger'[u] = logger[u]
    BY <1>0, <1>1, ReturnFacts
  <2>2. TypeInv'
    BY <1>0, <1>1, ReturnFacts DEF TypeInv
  <2> QED
    BY <1>0, <2>1, <2>2 DEF FnInv, OnceInv, MaskInv, NullIsNew
<1>2. CASE \E pc \in Logging : LogGo(t, pc)
  <2>0. PICK pc \in Logging : LogGo(t, pc)
    BY <1>2
  <2>1. /\ logger'[t].pc = pc /\ logger'[t].fn = logger[t].fn
        /\ \A u \in Loggers \ {t} : logger'[u] = logger[u]
    BY <1>0, <2>0, GoFacts
  <2>2. TypeInv'
    BY <1>0, <2>0, GoFacts DEF TypeInv
  <2> QED
    BY <1>0, <2>1, <2>2 DEF FnInv, OnceInv, MaskInv
<1> QED
  BY <1>1, <1>2

LEMMA LogKeeps ==
  ASSUME NullIsNew, LogInv, NEW t \in Loggers, syslog2_(t) \/ lock_stdout(t) \/ unlock_stdout(t),
         UNCHANGED <<serial, once, settings, ready, calls>>
  PROVE  LogInv'
<1> USE DEF Held, LogPlaces
<1>0. TypeInv /\ LockInv
  BY DEF LogInv
<1>1. UNCHANGED <<serial, once, level, mask, ready>>
  BY DEF settings
<1>2. CASE LogAt(t, "log") /\ (IF logger[t].pri > level THEN LogReturn(t) ELSE LogGo(t, "syslog")) /\ UNCHANGED output
  <2>0. logger[t].pc = "log" /\ (LogReturn(t) \/ LogGo(t, "syslog")) /\ UNCHANGED <<stdout_lock, open, torn>>
    BY <1>2 DEF LogAt, output
  <2>1. logger'[t].pc \in {"idle", "syslog"} /\ \A u \in Loggers \ {t} : logger'[u] = logger[u]
    BY <1>0, <2>0, GoFacts, ReturnFacts DEF Logging
  <2>2. LockInv'
    BY <1>0, <2>0, <2>1 DEF LockInv
  <2> QED
    BY <1>0, <1>1, <2>0, <2>2, LoggingKeeps DEF LogInv, TypeInv, Logging
<1>3. CASE LogAt(t, "syslog") /\ (LogGo(t, "lock") \/ LogReturn(t)) /\ UNCHANGED output
  <2>0. logger[t].pc = "syslog" /\ (LogReturn(t) \/ LogGo(t, "lock")) /\ UNCHANGED <<stdout_lock, open, torn>>
    BY <1>3 DEF LogAt, output
  <2>1. logger'[t].pc \in {"idle", "lock"} /\ \A u \in Loggers \ {t} : logger'[u] = logger[u]
    BY <1>0, <2>0, GoFacts, ReturnFacts DEF Logging
  <2>2. LockInv'
    BY <1>0, <2>0, <2>1 DEF LockInv
  <2> QED
    BY <1>0, <1>1, <2>0, <2>2, LoggingKeeps DEF LogInv, TypeInv, Logging
<1>4. CASE LogAt(t, "write") /\ open' = t /\ torn' = (torn \/ open # NULL) /\ LogGo(t, "rest") /\ UNCHANGED stdout_lock
  <2>1. logger[t].pc = "write" /\ logger'[t].pc = "rest" /\ \A u \in Loggers \ {t} : logger'[u] = logger[u]
    BY <1>0, <1>4, GoFacts DEF LogAt, Logging
  <2>2. open = NULL
    BY <1>0, <2>1 DEF LockInv
  <2>3. LockInv'
    BY <1>0, <1>4, <2>1, <2>2 DEF LockInv
  <2> QED
    BY <1>0, <1>1, <1>4, <2>1, <2>3, LoggingKeeps DEF LogInv, TypeInv, Logging
<1>5. CASE LogAt(t, "rest") /\ open' = NULL /\ torn' = (torn \/ open # t) /\ LogGo(t, "unlock") /\ UNCHANGED stdout_lock
  <2>1. logger[t].pc = "rest" /\ logger'[t].pc = "unlock" /\ \A u \in Loggers \ {t} : logger'[u] = logger[u]
    BY <1>0, <1>5, GoFacts DEF LogAt, Logging
  <2>2. open = t
    BY <1>0, <2>1 DEF LockInv
  <2>3. LockInv'
    BY <1>0, <1>5, <2>1, <2>2 DEF LockInv, NullIsNew
  <2> QED
    BY <1>0, <1>1, <1>5, <2>1, <2>3, LoggingKeeps DEF LogInv, TypeInv, Logging
<1>6. CASE lock_stdout(t)
  <2>0. logger[t].pc = "lock" /\ ~stdout_lock /\ stdout_lock' = TRUE /\ LogGo(t, "write") /\ UNCHANGED <<open, torn>>
    BY <1>6 DEF lock_stdout, LogAt
  <2>1. logger'[t].pc = "write" /\ \A u \in Loggers \ {t} : logger'[u] = logger[u]
    BY <1>0, <2>0, GoFacts DEF Logging
  <2>2. LockInv'
    BY <1>0, <2>0, <2>1 DEF LockInv
  <2> QED
    BY <1>0, <1>1, <2>0, <2>2, LoggingKeeps DEF LogInv, Logging
<1>7. CASE unlock_stdout(t)
  <2>0. logger[t].pc = "unlock" /\ stdout_lock' = FALSE /\ LogReturn(t) /\ UNCHANGED <<open, torn>>
    BY <1>7 DEF unlock_stdout, LogAt
  <2>1. logger'[t].pc = "idle" /\ \A u \in Loggers \ {t} : logger'[u] = logger[u]
    BY <1>0, <2>0, ReturnFacts
  <2>2. LockInv'
    BY <1>0, <2>0, <2>1 DEF LockInv
  <2> QED
    BY <1>0, <1>1, <2>0, <2>2, LoggingKeeps DEF LogInv, Logging
<1> QED
  BY <1>2, <1>3, <1>4, <1>5, <1>6, <1>7 DEF syslog2_

LEMMA LogInvStep ==
  ASSUME NullIsNew, LogInv, [LogNext]_logVars
  PROVE  LogInv'
<1>1. CASE UNCHANGED logVars
  BY <1>1 DEF LogInv, TypeInv, FnInv, LockInv, OnceInv, MaskInv, logVars, settings, output
<1>2. CASE LogNext
  BY <1>2, CallKeeps, OnceKeeps, SetupKeeps, LogKeeps DEF LogNext, LogStep
<1> QED
  BY <1>1, <1>2

\* The invariant above holds in every reachable state of any number of threads.
THEOREM LogInvariant == LogSpec => []LogInv
<1>1. LogInit => LogInv
  BY LogAssumption, LogInvInit
<1>2. LogInv /\ [LogNext]_logVars => LogInv'
  BY LogAssumption, LogInvStep
<1> QED
  BY <1>1, <1>2, PTL DEF LogSpec

\* Lines are not torn however many threads log at once, nobody formats the local time
\* before tu_init has run, and serial calls of setup_syslog2 leave the mask of syslog
\* equal to the level of the module.
THEOREM LogCorrect == LogSpec => []LogSound
<1>1. LogInv => LogSound
  <2> SUFFICES ASSUME LogInv PROVE LogSound
    OBVIOUS
  <2>0. TypeInv /\ FnInv /\ LockInv /\ OnceInv /\ MaskInv
    BY DEF LogInv
  <2>1. LinesWhole
    BY <2>0 DEF LockInv, LinesWhole, LogAt, Held
  <2>2. ReadyFirst
    BY <2>0 DEF OnceInv, ReadyFirst, First
  <2>3. MaskIsLevel
    BY <2>0 DEF FnInv, MaskInv, MaskIsLevel, Setting
  <2> QED
    BY <2>1, <2>2, <2>3 DEF LogSound
<1> QED
  BY <1>1, LogInvariant, PTL

=============================================================================
