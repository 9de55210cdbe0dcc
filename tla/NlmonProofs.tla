----------------------------- MODULE NlmonProofs -----------------------------
(***************************************************************************)
(* The lists of filters of nlmon are owned, bounded and exact, for any     *)
(* number of calling threads, filters and messages.                        *)
(***************************************************************************)
EXTENDS Nlmon, WellFoundedInduction, TLAPS

\* NULL is no slot, thread or list, and a slot is no thread.
NlmonAssumption ==
  /\ MaxFilters \in Nat
  /\ NULL \notin Slots \cup Threads \cup Seq(Filters)
  /\ Slots \cap Threads = {}

Changing == {"copy", "publish"}
Running == {"create", "join", "wait", "drop"}
ClientPlaces == {"idle", "free", "list"} \cup Changing \cup Running
ThreadPlaces == {"gone", "open", "loop", "select", "handle", "done"}

AllGone == \A t \in Threads : th[t].pc = "gone"

TypeInv ==
  /\ usage \in {"overlap", "serial", "setup"}
  /\ g_filters \in Slots \cup {NULL} /\ g_run \in BOOLEAN /\ g_thread \in Threads \cup {NULL}
  /\ mem \in [Slots -> Seq(Filters) \cup {NULL}]
  /\ cl \in [Clients -> [pc : ClientPlaces, f : Filters \cup {NULL}, add : BOOLEAN,
                         old : Slots \cup {NULL}, new : Slots \cup Threads \cup {NULL}]]
  /\ th \in [Threads -> [pc : ThreadPlaces, list : Slots \cup {NULL}, m : Messages \cup {NULL}, i : Nat]]
  /\ want \in Seq(Filters)
  /\ called \in [got : Seq(Filters), due : Seq(Filters)]
  /\ stale \in BOOLEAN /\ fault \in SUBSET {"create", "reader"}

\* What a call holds at its place.
PlaceInv ==
  \A c \in Clients :
    /\ cl[c].pc \in Changing => cl[c].f \in Filters /\ cl[c].new \in Slots
    /\ cl[c].pc = "list" => cl[c].old \in Slots
    /\ cl[c].pc \notin Changing => cl[c].new \notin Slots

\* The list that a call has made, or has taken away and will free.
Holds(c, s) ==
  \/ cl[c].pc \in Changing /\ cl[c].new = s
  \/ cl[c].pc = "free" /\ cl[c].old = s

\* A list that is allocated is published or held, and not twice.
OwnInv ==
  /\ \A s \in Slots : mem[s] # NULL <=> s = g_filters \/ \E c \in Clients : Holds(c, s)
  /\ \A s \in Slots, c \in Clients : Holds(c, s) =>
       s # g_filters /\ \A d \in Clients : Holds(d, s) => c = d

\* Every list is bounded and without duplicates.
ListInv ==
  \A s \in Slots : mem[s] # NULL => Len(mem[s]) <= MaxFilters /\ IsInjective(mem[s])

\* One call at a time, or no thread at all.
UsageInv ==
  /\ usage # "overlap" => \A c, d \in Clients : cl[c].pc # "idle" /\ cl[d].pc # "idle" => c = d
  /\ usage = "overlap" => ~g_run /\ AllGone /\ \A c \in Clients : cl[c].pc \notin Running
  /\ usage = "setup" => \A c \in Clients : cl[c].pc \in Changing => ~g_run /\ AllGone

\* Serial calls: what the list under way will be.
SerialInv ==
  usage # "overlap" =>
    /\ want = IF g_filters = NULL THEN <<>> ELSE mem[g_filters]
    /\ \A c \in Clients :
         /\ cl[c].pc \in {"copy", "list"} => cl[c].old = g_filters
         /\ cl[c].pc = "publish" =>
              mem[cl[c].new] = IF cl[c].add THEN Append(want, cl[c].f) ELSE Without(want, cl[c].f)

\* The one reader, and what g_run says of it.
ReaderInv ==
  usage # "overlap" =>
    /\ \A t \in Threads : th[t].pc # "gone" => g_thread = t
    /\ \A t \in Threads : th[t].pc = "done" => ~g_run \/ "reader" \in fault
    /\ (\A c \in Clients : cl[c].pc \notin Running) =>
         IF g_run THEN "create" \in fault \/ ~AllGone ELSE AllGone
    /\ \A c \in Clients :
         /\ cl[c].pc = "create" => g_run /\ AllGone
         /\ cl[c].pc \in {"join", "wait", "drop"} => ~g_run
         /\ cl[c].pc = "join" => "create" \in fault \/ ~AllGone
         /\ cl[c].pc = "wait" => cl[c].new = g_thread
         /\ cl[c].pc = "drop" => AllGone

\* Filters changed only while the monitor is stopped: no list is read too late, and
\* the walk has called what was asked for so far.
WalkInv ==
  usage = "setup" =>
    /\ "create" \notin fault => ~stale
    /\ called.got = called.due
    /\ \A t \in Threads : th[t].pc = "handle" =>
         /\ th[t].list = g_filters /\ g_filters # NULL
         /\ th[t].i >= 1 /\ th[t].i <= Len(want) + 1
         /\ called.due = Kept(want, {f \in Filters : Due(f, th[t].m)}, th[t].i - 1)

NlmonInv ==
  TypeInv /\ PlaceInv /\ OwnInv /\ ListInv /\ UsageInv /\ SerialInv /\ ReaderInv /\ WalkInv

-----------------------------------------------------------------------------
(* The operator Kept, by the least counterexample. *)

LEMMA LeastNatural ==
  ASSUME NEW A \in SUBSET Nat, A # {}
  PROVE  \E m \in A : \A n \in A : m <= n
<1>1. PICK m \in A : \A n \in A : ~(<<n, m>> \in OpToRel(<, Nat))
  BY NatLessThanWellFounded, WFMin
<1>2. \A n \in A : <<n, m>> \in OpToRel(<, Nat) <=> n < m
  BY DEF OpToRel
<1>3. \A n \in A : ~(n < m)
  BY <1>1, <1>2
<1>4. \A n \in A : m <= n
  BY <1>3
<1> QED
  BY <1>4

\* The function that Kept reads exists, so the equation that defines it holds.
LEMMA KeptDefined ==
  ASSUME NEW s \in Seq(Filters), NEW A
  PROVE  /\ Kept(s, A, 0) = <<>>
         /\ \A i \in 1 .. Len(s) :
              Kept(s, A, i) = IF s[i] \in A THEN Append(Kept(s, A, i - 1), s[i]) ELSE Kept(s, A, i - 1)
<1> DEFINE Rhs(g, i) == IF i = 0 THEN <<>> ELSE IF s[i] \in A THEN Append(g[i - 1], s[i]) ELSE g[i - 1]
           Solves(g, n) == g = [i \in 0 .. n |-> Rhs(g, i)]
           Bad == {n \in Nat : ~\E g : Solves(g, n)}
<1>1. Bad = {}
  <2>1. SUFFICES ASSUME Bad # {} PROVE FALSE
    OBVIOUS
  <2>2. PICK m \in Bad : \A n \in Bad : m <= n
    BY <2>1, LeastNatural
  <2>3. CASE m = 0
    <3>1. Solves([i \in 0 .. 0 |-> <<>>], 0)
      OBVIOUS
    <3> QED
      BY <2>2, <2>3, <3>1
  <2>4. CASE m > 0
    <3>a. m \in Nat
      OBVIOUS
    <3> HIDE DEF Solves, Bad
    <3>b. m - 1 \in Nat /\ m - 1 \notin Bad
      BY <2>2, <2>4, <3>a
    <3>1. PICK g : Solves(g, m - 1)
      BY <3>b DEF Bad
    <3> USE DEF Solves, Bad
    <3> DEFINE h == [i \in 0 .. m |-> IF i < m THEN g[i] ELSE Rhs(g, m)]
    <3>2. \A i \in 0 .. m - 1 : h[i] = g[i]
      BY <2>4
    <3>3. \A i \in 0 .. m - 1 : g[i] = Rhs(g, i)
      BY <3>1
    <3>4. \A i \in 0 .. m : Rhs(h, i) = Rhs(g, i)
      BY <3>2
    <3>5. \A i \in 0 .. m : h[i] = Rhs(h, i)
      BY <3>3, <3>4
    <3>6. h = [i \in 0 .. m |-> Rhs(h, i)]
      BY <3>5
    <3> QED
      BY <2>2, <3>6
  <2> QED
    BY <2>3, <2>4
<1>2. \E g : Solves(g, Len(s))
  BY <1>1
<1> DEFINE kept == CHOOSE g : Solves(g, Len(s))
<1>3. Solves(kept, Len(s))
  BY <1>2
<1>4. \A n : Kept(s, A, n) = kept[n]
  BY DEF Kept
<1> HIDE DEF kept
<1>5. \A i \in 0 .. Len(s) : kept[i] = Rhs(kept, i)
  BY <1>3
<1>6. kept[0] = <<>>
  BY <1>5
<1>7. \A i \in 1 .. Len(s) : kept[i] = IF s[i] \in A THEN Append(kept[i - 1], s[i]) ELSE kept[i - 1]
  BY <1>5
<1> QED
  BY <1>4, <1>6, <1>7

LEMMA InjectiveSeq ==
  ASSUME NEW s \in Seq(Filters)
  PROVE  IsInjective(s) <=> \A i, j \in 1 .. Len(s) : s[i] = s[j] => i = j
  BY DEF IsInjective

\* Kept is a list of elements of s, no longer than the part it is taken from, and
\* without duplicates if s is.
LEMMA KeptSound ==
  ASSUME NEW s \in Seq(Filters), NEW A
  PROVE  \A n \in 0 .. Len(s) :
           /\ Kept(s, A, n) \in Seq(Filters) /\ Len(Kept(s, A, n)) <= n
           /\ IsInjective(s) => IsInjective(Kept(s, A, n))
<1> DEFINE Good(n) == LET k == Kept(s, A, n)
                      IN  /\ k \in Seq(Filters) /\ Len(k) <= n
                          /\ \A i \in 1 .. Len(k) : \E j \in 1 .. n : k[i] = s[j]
                          /\ IsInjective(s) => \A i, j \in 1 .. Len(k) : k[i] = k[j] => i = j
           Bad == {n \in Nat : n <= Len(s) /\ ~Good(n)}
<1>0. /\ Kept(s, A, 0) = <<>>
      /\ \A i \in 1 .. Len(s) :
           Kept(s, A, i) = IF s[i] \in A THEN Append(Kept(s, A, i - 1), s[i]) ELSE Kept(s, A, i - 1)
  BY KeptDefined
<1>1. Good(0)
  <2> DEFINE k == Kept(s, A, 0)
  <2>1. k = <<>>
    BY <1>0
  <2> HIDE DEF k
  <2>2. k \in Seq(Filters) /\ Len(k) = 0
    BY <2>1
  <2>3. 1 .. Len(k) = {}
    BY <2>2
  <2>4. /\ k \in Seq(Filters) /\ Len(k) <= 0
        /\ \A i \in 1 .. Len(k) : \E j \in 1 .. 0 : k[i] = s[j]
        /\ IsInjective(s) => \A i, j \in 1 .. Len(k) : k[i] = k[j] => i = j
    BY <2>2, <2>3
  <2> QED
    BY <2>4 DEF k
<1>2. ASSUME NEW n \in 1 .. Len(s), Good(n - 1) PROVE Good(n)
  <2> DEFINE k == Kept(s, A, n - 1)
  <2>0. Kept(s, A, n) = IF s[n] \in A THEN Append(k, s[n]) ELSE k
    BY <1>0
  <2>1. k \in Seq(Filters) /\ Len(k) <= n - 1
    BY <1>2
  <2>2. \A i \in 1 .. Len(k) : \E j \in 1 .. n - 1 : k[i] = s[j]
    BY <1>2
  <2>3. IsInjective(s) => \A i, j \in 1 .. Len(k) : k[i] = k[j] => i = j
    BY <1>2
  <2>4. CASE s[n] \notin A
    <3>1. Kept(s, A, n) = k
      BY <2>0, <2>4
    <3>2. \A i \in 1 .. Len(k) : \E j \in 1 .. n : k[i] = s[j]
      BY <2>2
    <3> HIDE DEF k
    <3>3. Len(k) <= n
      BY <2>1
    <3> QED
      BY <2>1, <2>3, <3>1, <3>2, <3>3
  <2>5. CASE s[n] \in A
    <3> DEFINE l == Append(k, s[n])
    <3>1. Kept(s, A, n) = l
      BY <2>0, <2>5
    <3> HIDE DEF k
    <3>2. /\ l \in Seq(Filters) /\ Len(l) = Len(k) + 1
          /\ \A i \in 1 .. Len(k) : l[i] = k[i]
          /\ l[Len(k) + 1] = s[n]
      BY <2>1
    <3> HIDE DEF l
    <3>3. \A i \in 1 .. Len(l) : \E j \in 1 .. n : l[i] = s[j]
      <4> TAKE i \in 1 .. Len(l)
      <4>1. CASE i = Len(k) + 1
        BY <3>2, <4>1
      <4>2. CASE i \in 1 .. Len(k)
        BY <2>2, <3>2, <4>2
      <4> QED
        BY <2>1, <3>2, <4>1, <4>2
    <3>4. IsInjective(s) => \A i, j \in 1 .. Len(l) : l[i] = l[j] => i = j
      <4> SUFFICES ASSUME IsInjective(s), NEW i \in 1 .. Len(l), NEW j \in 1 .. Len(l), l[i] = l[j]
                   PROVE  i = j
        OBVIOUS
      <4>1. \A a, b \in 1 .. Len(s) : s[a] = s[b] => a = b
        BY InjectiveSeq
      <4>2. \A a \in 1 .. Len(k) : k[a] # s[n]
        BY <2>2, <4>1
      <4>3. CASE i \in 1 .. Len(k) /\ j \in 1 .. Len(k)
        BY <2>3, <3>2, <4>3
      <4>4. CASE i = Len(k) + 1 /\ j \in 1 .. Len(k)
        BY <3>2, <4>2, <4>4
      <4>5. CASE j = Len(k) + 1 /\ i \in 1 .. Len(k)
        BY <3>2, <4>2, <4>5
      <4> QED
        BY <2>1, <3>2, <4>3, <4>4, <4>5
    <3> QED
      BY <2>1, <3>1, <3>2, <3>3, <3>4
  <2> QED
    BY <2>4, <2>5
<1> HIDE DEF Good
<1>3. Bad = {}
  <2>1. SUFFICES ASSUME Bad # {} PROVE FALSE
    OBVIOUS
  <2>2. PICK m \in Bad : \A n \in Bad : m <= n
    BY <2>1, LeastNatural
  <2>3. m \in Nat /\ m <= Len(s) /\ ~Good(m)
    OBVIOUS
  <2>4. m > 0
    BY <1>1, <2>3
  <2>5. m - 1 \in Nat /\ m - 1 <= Len(s) /\ m \in 1 .. Len(s)
    BY <2>3, <2>4
  <2> HIDE DEF Bad
  <2>6. m - 1 \notin Bad
    BY <2>2, <2>3, <2>5
  <2>7. Good(m - 1)
    BY <2>5, <2>6 DEF Bad
  <2> QED
    BY <1>2, <2>3, <2>5, <2>7
<1>4. \A n \in 0 .. Len(s) : Good(n)
  BY <1>3
<1>5. ASSUME NEW n \in 0 .. Len(s)
      PROVE  /\ Kept(s, A, n) \in Seq(Filters) /\ Len(Kept(s, A, n)) <= n
             /\ IsInjective(s) => IsInjective(Kept(s, A, n))
  <2>1. Good(n)
    BY <1>4
  <2>2. Kept(s, A, n) \in Seq(Filters) /\ Len(Kept(s, A, n)) <= n
    BY <2>1 DEF Good
  <2>3. IsInjective(s) => \A i, j \in 1 .. Len(Kept(s, A, n)) : Kept(s, A, n)[i] = Kept(s, A, n)[j] => i = j
    BY <2>1 DEF Good
  <2> QED
    BY <2>2, <2>3, InjectiveSeq
<1> QED
  BY <1>5

LEMMA EmptySound ==
  ASSUME NlmonAssumption
  PROVE  <<>> \in Seq(Filters) /\ <<>> # NULL /\ Len(<<>>) <= MaxFilters /\ IsInjective(<<>>)
<1>1. <<>> \in Seq(Filters) /\ Len(<<>>) = 0
  OBVIOUS
<1> DEFINE e == <<>>
<1> HIDE DEF e
<1>2. e \in Seq(Filters) /\ 1 .. Len(e) = {}
  BY <1>1 DEF e
<1>3. \A i, j \in 1 .. Len(e) : e[i] = e[j] => i = j
  BY <1>2
<1>4. IsInjective(e) <=> \A i, j \in 1 .. Len(e) : e[i] = e[j] => i = j
  BY <1>2, InjectiveSeq
<1>5. IsInjective(e)
  BY <1>3, <1>4
<1>6. <<>> # NULL
  BY <1>1 DEF NlmonAssumption
<1>7. Len(<<>>) <= MaxFilters
  BY <1>1 DEF NlmonAssumption
<1>8. IsInjective(<<>>)
  BY <1>5 DEF e
<1> QED
  BY <1>1, <1>6, <1>7, <1>8

\* What the two ways to change a list do to its bound and to its elements.
LEMMA WithoutSound ==
  ASSUME NEW s \in Seq(Filters), NEW f
  PROVE  /\ Without(s, f) \in Seq(Filters) /\ Len(Without(s, f)) <= Len(s)
         /\ IsInjective(s) => IsInjective(Without(s, f))
<1>1. Len(s) \in 0 .. Len(s)
  OBVIOUS
<1> QED
  BY <1>1, KeptSound DEF Without

LEMMA AppendSound ==
  ASSUME NEW s \in Seq(Filters), NEW f \in Filters
  PROVE  /\ Append(s, f) \in Seq(Filters) /\ Len(Append(s, f)) = Len(s) + 1
         /\ IsInjective(s) /\ ~Contains(s, f) => IsInjective(Append(s, f))
<1>1. /\ Append(s, f) \in Seq(Filters) /\ Len(Append(s, f)) = Len(s) + 1
      /\ \A i \in 1 .. Len(s) : Append(s, f)[i] = s[i]
      /\ Append(s, f)[Len(s) + 1] = f
  OBVIOUS
<1>2. ~Contains(s, f) => \A i \in 1 .. Len(s) : s[i] # f
  BY DEF Contains
<1> DEFINE l == Append(s, f)
<1> HIDE DEF l
<1>3. ASSUME IsInjective(s), ~Contains(s, f), NEW i \in 1 .. Len(l), NEW j \in 1 .. Len(l), l[i] = l[j]
      PROVE  i = j
  <2>1. \A a, b \in 1 .. Len(s) : s[a] = s[b] => a = b
    BY <1>3, InjectiveSeq
  <2>2. (i \in 1 .. Len(s) \/ i = Len(s) + 1) /\ (j \in 1 .. Len(s) \/ j = Len(s) + 1)
    BY <1>1 DEF l
  <2> QED
    BY <1>1, <1>2, <1>3, <2>1, <2>2 DEF l
<1> QED
  BY <1>1, <1>3, InjectiveSeq DEF l

-----------------------------------------------------------------------------
(* The invariant *)

ClientType == [pc : ClientPlaces, f : Filters \cup {NULL}, add : BOOLEAN,
               old : Slots \cup {NULL}, new : Slots \cup Threads \cup {NULL}]
ThreadType == [pc : ThreadPlaces, list : Slots \cup {NULL}, m : Messages \cup {NULL}, i : Nat]

LEMMA NlmonInvInit ==
  ASSUME NlmonAssumption, Init
  PROVE  NlmonInv
<1> USE DEF Init, NlmonAssumption, Idle, Gone, ClientPlaces, ThreadPlaces, Changing, Running
<1>1. \A c \in Clients : cl[c].pc = "idle" /\ cl[c].new = NULL
  OBVIOUS
<1>2. AllGone
  BY DEF AllGone
<1>3. TypeInv
  <2>1. called \in [got : Seq(Filters), due : Seq(Filters)]
    OBVIOUS
  <2>2. th \in [Threads -> [pc : ThreadPlaces, list : Slots \cup {NULL}, m : Messages \cup {NULL}, i : Nat]]
    OBVIOUS
  <2>3. cl \in [Clients -> [pc : ClientPlaces, f : Filters \cup {NULL}, add : BOOLEAN,
                            old : Slots \cup {NULL}, new : Slots \cup Threads \cup {NULL}]]
    OBVIOUS
  <2> QED
    BY <2>1, <2>2, <2>3 DEF TypeInv
<1>4. PlaceInv /\ OwnInv /\ ListInv
  BY <1>1 DEF PlaceInv, OwnInv, Holds, ListInv
<1>5. UsageInv /\ SerialInv
  BY <1>1, <1>2 DEF UsageInv, SerialInv
<1>6. ReaderInv /\ WalkInv
  BY <1>1, <1>2 DEF ReaderInv, WalkInv, AllGone
<1> QED
  BY <1>3, <1>4, <1>5, <1>6 DEF NlmonInv

\* What changing one call's registers leaves alone.
LEMMA GotoFacts ==
  ASSUME TypeInv, NEW c \in Clients, NEW r, Goto(c, r)
  PROVE  /\ cl'[c] = r /\ \A d \in Clients \ {c} : cl'[d] = cl[d]
         /\ UNCHANGED <<usage, th, called>>
         /\ r \in ClientType => cl' \in [Clients -> ClientType]
  BY DEF TypeInv, Goto, ClientType

LEMMA IdleFacts ==
  /\ Idle \in ClientType /\ Idle.pc = "idle" /\ Idle.new = NULL
  /\ Gone \in ThreadType /\ Gone.pc = "gone"
  BY DEF Idle, Gone, ClientType, ClientPlaces, ThreadType, ThreadPlaces

\* A step of the calls that leaves the thread, the flag and the faults alone keeps
\* what is said of the reader and of its walk, unless it publishes a list.
LEMMA QuietReader ==
  ASSUME NlmonInv, NEW c \in Clients, cl[c].pc \notin Running, cl'[c].pc \notin Running,
         \A d \in Clients \ {c} : cl'[d] = cl[d],
         UNCHANGED <<usage, g_run, g_thread, th, fault>>
  PROVE  ReaderInv'
<1>1. AllGone' <=> AllGone
  BY DEF AllGone
<1>2. \A d \in Clients : cl'[d].pc \in Running => cl'[d] = cl[d]
  OBVIOUS
<1>3. (\A d \in Clients : cl'[d].pc \notin Running) => \A d \in Clients : cl[d].pc \notin Running
  OBVIOUS
<1> QED
  BY <1>1, <1>2, <1>3 DEF NlmonInv, ReaderInv, Running

LEMMA QuietWalk ==
  ASSUME NlmonInv, UNCHANGED <<usage, g_filters, th, want, called, fault>>,
         usage = "setup" /\ "create" \notin fault => stale' = stale
  PROVE  WalkInv'
  BY DEF NlmonInv, WalkInv

LEMMA LoadListKeeps ==
  ASSUME NlmonAssumption, NlmonInv,
         NEW c \in Clients, NEW f \in Filters, NEW add \in BOOLEAN, LoadList(c, f, add)
  PROVE  NlmonInv'
<1> USE DEF ClientPlaces, Changing, Running
<1>0. TypeInv /\ PlaceInv /\ OwnInv /\ ListInv /\ UsageInv /\ SerialInv
  BY DEF NlmonInv
<1>1. /\ cl[c].pc = "idle"
      /\ usage # "overlap" => \A d \in Clients : cl[d].pc = "idle"
      /\ usage = "setup" => ~g_run /\ AllGone
  BY DEF LoadList, MayChange, MayCall, Stopped, AllGone
<1>2. CASE Return(c) /\ UNCHANGED shared
  <2>1. /\ cl'[c] = Idle /\ \A d \in Clients \ {c} : cl'[d] = cl[d]
        /\ UNCHANGED <<usage, th, called>> /\ cl' \in [Clients -> ClientType]
    BY <1>0, <1>2, GotoFacts, IdleFacts DEF Return
  <2>2. UNCHANGED <<g_filters, g_run, g_thread, mem, want, stale, fault>>
    BY <1>2 DEF shared
  <2>3. cl'[c].pc = "idle" /\ cl'[c].new = NULL
    BY <2>1, IdleFacts
  <2>4. TypeInv'
    BY <1>0, <2>1, <2>2 DEF TypeInv, ClientType
  <2>5. PlaceInv'
    BY <1>0, <2>1, <2>3 DEF PlaceInv, NlmonAssumption
  <2>6. OwnInv' /\ ListInv'
    BY <1>0, <1>1, <2>1, <2>2, <2>3 DEF OwnInv, ListInv, Holds
  <2>7. UsageInv' /\ SerialInv'
    BY <1>0, <2>1, <2>2, <2>3 DEF UsageInv, SerialInv, AllGone
  <2>8. ReaderInv' /\ WalkInv'
    BY <1>1, <2>1, <2>2, <2>3, QuietReader, QuietWalk
  <2> QED
    BY <2>4, <2>5, <2>6, <2>7, <2>8 DEF NlmonInv
<1>3. ASSUME NEW s \in Slots, mem[s] = NULL, mem' = [mem EXCEPT ![s] = <<>>],
             Goto(c, [pc |-> "copy", f |-> f, add |-> add, old |-> g_filters, new |-> s]),
             UNCHANGED <<g_filters, g_run, g_thread, want, stale, fault>>
      PROVE  NlmonInv'
  <2> DEFINE r == [pc |-> "copy", f |-> f, add |-> add, old |-> g_filters, new |-> s]
  <2>1. r \in ClientType
    BY <1>0 DEF ClientType, TypeInv
  <2>2. /\ cl'[c] = r /\ \A d \in Clients \ {c} : cl'[d] = cl[d]
        /\ UNCHANGED <<usage, th, called>> /\ cl' \in [Clients -> ClientType]
    BY <1>0, <1>3, <2>1, GotoFacts
  <2>3. cl'[c].pc = "copy" /\ cl'[c].new = s /\ cl'[c].f = f /\ cl'[c].old = g_filters
    BY <2>2
  <2> HIDE DEF r
  <2>4. mem' \in [Slots -> Seq(Filters) \cup {NULL}] /\ mem'[s] = <<>> /\ \A u \in Slots \ {s} : mem'[u] = mem[u]
    BY <1>0, <1>3 DEF TypeInv
  <2>5. <<>> # NULL /\ Len(<<>>) <= MaxFilters /\ IsInjective(<<>>)
    BY EmptySound
  <2>6. TypeInv'
    BY <1>0, <1>3, <2>2, <2>4 DEF TypeInv, ClientType
  <2>7. PlaceInv'
    BY <1>0, <2>2, <2>3 DEF PlaceInv
  <2>8. s # g_filters /\ \A d \in Clients : ~Holds(d, s)
    BY <1>0, <1>3 DEF OwnInv
  <2>9. OwnInv'
    BY <1>0, <1>1, <1>3, <2>2, <2>3, <2>4, <2>5, <2>8 DEF OwnInv, Holds
  <2>10. ListInv'
    BY <1>0, <2>4, <2>5 DEF ListInv
  <2>11. UsageInv'
    BY <1>0, <1>1, <1>3, <2>2, <2>3 DEF UsageInv, AllGone
  <2>12. SerialInv'
    BY <1>0, <1>1, <1>3, <2>2, <2>3, <2>4, <2>8 DEF SerialInv, TypeInv
  <2>13. ReaderInv' /\ WalkInv'
    BY <1>1, <1>3, <2>2, <2>3, QuietReader, QuietWalk
  <2> QED
    BY <2>6, <2>7, <2>9, <2>10, <2>11, <2>12, <2>13 DEF NlmonInv
<1> QED
  BY <1>2, <1>3 DEF LoadList

LEMMA CopiedKeeps ==
  ASSUME NlmonAssumption, NlmonInv, NEW c \in Clients, cl[c].pc = "copy",
         NEW refused \in BOOLEAN, NEW list,
         ~refused => /\ list \in Seq(Filters) /\ Len(list) <= MaxFilters /\ IsInjective(list)
                     /\ usage # "overlap" =>
                          list = IF cl[c].add THEN Append(want, cl[c].f) ELSE Without(want, cl[c].f),
         Copied(c, refused, list)
  PROVE  NlmonInv'
<1> USE DEF ClientPlaces, Changing, Running
<1> DEFINE n == cl[c].new
<1>0. TypeInv /\ PlaceInv /\ OwnInv /\ ListInv /\ UsageInv /\ SerialInv
  BY DEF NlmonInv
<1>1. n \in Slots /\ cl[c].f \in Filters /\ Holds(c, n)
  BY <1>0 DEF PlaceInv, Holds
<1>2. n # g_filters /\ \A d \in Clients : Holds(d, n) => d = c
  BY <1>0, <1>1 DEF OwnInv
<1>3. UNCHANGED <<g_filters, g_run, g_thread, want, fault>>
  BY DEF Copied
<1>4. stale' \in BOOLEAN /\ (usage = "setup" => stale' = stale)
  <2>1. CASE cl[c].old = NULL
    BY <1>0, <2>1 DEF Copied, TypeInv
  <2>2. CASE cl[c].old # NULL
    <3>1. usage = "setup" => mem[cl[c].old] # NULL
      BY <1>0, <2>2 DEF SerialInv, OwnInv, TypeInv
    <3>2. stale' = (stale \/ mem[cl[c].old] = NULL)
      BY <2>2 DEF Copied, Read, Note
    <3> QED
      BY <1>0, <3>1, <3>2 DEF TypeInv
  <2> QED
    BY <2>1, <2>2
<1>5. CASE refused
  <2>0. mem' = [mem EXCEPT ![n] = NULL] /\ Goto(c, Idle)
    BY <1>5 DEF Copied, Return
  <2>1. /\ cl'[c] = Idle /\ \A d \in Clients \ {c} : cl'[d] = cl[d]
        /\ UNCHANGED <<usage, th, called>> /\ cl' \in [Clients -> ClientType]
    BY <1>0, <2>0, GotoFacts, IdleFacts
  <2>2. cl'[c].pc = "idle" /\ cl'[c].new = NULL
    BY <2>1, IdleFacts
  <2>3. /\ mem' \in [Slots -> Seq(Filters) \cup {NULL}] /\ mem'[n] = NULL
        /\ \A u \in Slots \ {n} : mem'[u] = mem[u]
    BY <1>0, <1>1, <2>0 DEF TypeInv
  <2> HIDE DEF n
  <2>4. TypeInv'
    BY <1>0, <1>3, <1>4, <2>1, <2>3 DEF TypeInv, ClientType
  <2>5. PlaceInv'
    BY <1>0, <2>1, <2>2 DEF PlaceInv, NlmonAssumption
  <2>6. \A d \in Clients, s \in Slots : Holds(d, s)' <=> Holds(d, s) /\ s # n
    BY <1>1, <1>2, <2>1, <2>2 DEF Holds, n
  <2>7. OwnInv'
    BY <1>0, <1>1, <1>2, <1>3, <2>3, <2>6 DEF OwnInv
  <2>8. ListInv'
    BY <1>0, <2>3 DEF ListInv
  <2>9. UsageInv'
    BY <1>0, <1>3, <2>1, <2>2 DEF UsageInv, AllGone
  <2>10. SerialInv'
    BY <1>0, <1>1, <1>2, <1>3, <2>1, <2>2, <2>3 DEF SerialInv, UsageInv, TypeInv
  <2>11. ReaderInv' /\ WalkInv'
    BY <1>3, <1>4, <2>1, <2>2, QuietReader, QuietWalk
  <2> QED
    BY <2>4, <2>5, <2>7, <2>8, <2>9, <2>10, <2>11 DEF NlmonInv
<1>6. CASE ~refused
  <2> DEFINE r == [cl[c] EXCEPT !.pc = "publish"]
  <2>0. mem' = [mem EXCEPT ![n] = list] /\ Goto(c, r)
    BY <1>6 DEF Copied
  <2>1. /\ r \in ClientType /\ r.pc = "publish" /\ r.new = n /\ r.f = cl[c].f
        /\ r.add = cl[c].add
    BY <1>0, ZenonT(40) DEF TypeInv, ClientType
  <2> HIDE DEF r
  <2>2. /\ cl'[c] = r /\ \A d \in Clients \ {c} : cl'[d] = cl[d]
        /\ UNCHANGED <<usage, th, called>> /\ cl' \in [Clients -> ClientType]
    BY <1>0, <2>0, <2>1, GotoFacts
  <2>3. /\ mem' \in [Slots -> Seq(Filters) \cup {NULL}] /\ mem'[n] = list
        /\ \A u \in Slots \ {n} : mem'[u] = mem[u]
    BY <1>0, <1>1, <1>6, <2>0 DEF TypeInv
  <2>4. list # NULL
    BY <1>6 DEF NlmonAssumption
  <2> HIDE DEF n
  <2>5. TypeInv'
    BY <1>0, <1>3, <1>4, <2>2, <2>3 DEF TypeInv, ClientType
  <2>6. PlaceInv'
    BY <1>0, <1>1, <2>1, <2>2 DEF PlaceInv
  <2>7. \A d \in Clients, s \in Slots : Holds(d, s)' <=> Holds(d, s)
    BY <2>1, <2>2 DEF Holds, n
  <2>8. OwnInv'
    BY <1>0, <1>1, <1>2, <1>3, <2>3, <2>4, <2>7 DEF OwnInv
  <2>9. ListInv'
    BY <1>0, <1>6, <2>3 DEF ListInv
  <2>10. UsageInv'
    BY <1>0, <1>3, <2>1, <2>2 DEF UsageInv, AllGone
  <2>11. SerialInv'
    <3>1. usage # "overlap" => \A d \in Clients \ {c} : cl[d].pc = "idle"
      BY <1>0 DEF UsageInv
    <3>2. usage # "overlap" => mem'[n] = IF cl'[c].add THEN Append(want', cl'[c].f) ELSE Without(want', cl'[c].f)
      BY <1>3, <1>6, <2>1, <2>2, <2>3
    <3>3. g_filters # NULL => mem'[g_filters] = mem[g_filters]
      BY <1>0, <1>2, <2>3 DEF TypeInv
    <3> QED
      BY <1>0, <1>3, <2>1, <2>2, <3>1, <3>2, <3>3 DEF SerialInv
  <2>12. ReaderInv' /\ WalkInv'
    BY <1>3, <1>4, <2>1, <2>2, QuietReader, QuietWalk
  <2> QED
    BY <2>5, <2>6, <2>8, <2>9, <2>10, <2>11, <2>12 DEF NlmonInv
<1> QED
  BY <1>5, <1>6

LEMMA OldListSound ==
  ASSUME NlmonAssumption, NlmonInv, NEW c \in Clients, cl[c].pc = "copy"
  PROVE  /\ OldList(c) \in Seq(Filters) /\ Len(OldList(c)) <= MaxFilters /\ IsInjective(OldList(c))
         /\ usage # "overlap" => OldList(c) = want
<1>0. TypeInv /\ OwnInv /\ ListInv /\ SerialInv
  BY DEF NlmonInv
<1>1. CASE cl[c].old = NULL \/ mem[cl[c].old] = NULL
  <2>1. OldList(c) = <<>>
    BY <1>1 DEF OldList
  <2>2. usage # "overlap" => want = <<>>
    BY <1>0, <1>1 DEF SerialInv, OwnInv, TypeInv
  <2> QED
    BY <2>1, <2>2, EmptySound
<1>2. CASE cl[c].old # NULL /\ mem[cl[c].old] # NULL
  <2>1. OldList(c) = mem[cl[c].old] /\ cl[c].old \in Slots
    BY <1>0, <1>2 DEF OldList, TypeInv
  <2>2. OldList(c) \in Seq(Filters) /\ Len(OldList(c)) <= MaxFilters /\ IsInjective(OldList(c))
    BY <1>0, <1>2, <2>1 DEF TypeInv, ListInv
  <2>3. usage # "overlap" => OldList(c) = want
    BY <1>0, <1>2, <2>1 DEF SerialInv
  <2> QED
    BY <2>2, <2>3
<1> QED
  BY <1>1, <1>2

LEMMA AddKeeps ==
  ASSUME NlmonAssumption, NlmonInv, NEW c \in Clients, filters_clone_and_add(c)
  PROVE  NlmonInv'
<1> DEFINE old == OldList(c)
           refused == Contains(old, cl[c].f) \/ Len(old) >= MaxFilters
           list == Append(old, cl[c].f)
<1>0. cl[c].pc = "copy" /\ cl[c].add /\ Copied(c, refused, list)
  BY DEF filters_clone_and_add, At
<1>1. cl[c].f \in Filters
  BY <1>0 DEF NlmonInv, PlaceInv, Changing
<1>2. old \in Seq(Filters) /\ Len(old) <= MaxFilters /\ IsInjective(old) /\ (usage # "overlap" => old = want)
  BY <1>0, OldListSound
<1> HIDE DEF old
<1>3. list \in Seq(Filters) /\ Len(list) = Len(old) + 1
  BY <1>1, <1>2, AppendSound
<1>4. ~refused => Len(list) <= MaxFilters /\ IsInjective(list)
  BY <1>1, <1>2, <1>3, AppendSound DEF NlmonAssumption
<1>5. refused \in BOOLEAN
  BY DEF Contains
<1>6. usage # "overlap" => list = IF cl[c].add THEN Append(want, cl[c].f) ELSE Without(want, cl[c].f)
  BY <1>0, <1>2
<1> HIDE DEF refused, list
<1> QED
  BY <1>0, <1>3, <1>4, <1>5, <1>6, CopiedKeeps

LEMMA RemoveKeeps ==
  ASSUME NlmonAssumption, NlmonInv, NEW c \in Clients, filters_clone_and_remove(c)
  PROVE  NlmonInv'
<1> DEFINE old == OldList(c)
           refused == ~Contains(old, cl[c].f)
           list == Without(old, cl[c].f)
<1>0. cl[c].pc = "copy" /\ ~cl[c].add /\ Copied(c, refused, list)
  BY DEF filters_clone_and_remove, At
<1>1. old \in Seq(Filters) /\ Len(old) <= MaxFilters /\ IsInjective(old) /\ (usage # "overlap" => old = want)
  BY <1>0, OldListSound
<1> HIDE DEF old
<1>2. list \in Seq(Filters) /\ Len(list) <= Len(old) /\ IsInjective(list)
  BY <1>1, WithoutSound
<1>3. Len(list) <= MaxFilters
  BY <1>1, <1>2 DEF NlmonAssumption
<1>4. refused \in BOOLEAN
  BY DEF Contains
<1>5. usage # "overlap" => list = IF cl[c].add THEN Append(want, cl[c].f) ELSE Without(want, cl[c].f)
  BY <1>0, <1>1
<1> HIDE DEF refused, list
<1> QED
  BY <1>0, <1>2, <1>3, <1>4, <1>5, CopiedKeeps

LEMMA PublishKeeps ==
  ASSUME NlmonAssumption, NlmonInv, NEW c \in Clients, Publish(c)
  PROVE  NlmonInv'
<1> USE DEF ClientPlaces, Changing, Running
<1> DEFINE n == cl[c].new
           r == [cl[c] EXCEPT !.pc = "free", !.old = g_filters, !.new = NULL]
<1>0. TypeInv /\ PlaceInv /\ OwnInv /\ ListInv /\ UsageInv /\ SerialInv /\ WalkInv
  BY DEF NlmonInv
<1>1. /\ cl[c].pc = "publish" /\ g_filters' = n /\ want' = Wanted(c) /\ Goto(c, r)
      /\ UNCHANGED <<g_run, g_thread, mem, stale, fault>>
  BY DEF Publish, At
<1>2. n \in Slots /\ cl[c].f \in Filters /\ Holds(c, n)
  BY <1>0, <1>1 DEF PlaceInv, Holds
<1>3. n # g_filters /\ mem[n] # NULL /\ \A d \in Clients : Holds(d, n) => d = c
  BY <1>0, <1>2 DEF OwnInv
<1>4. /\ r \in ClientType /\ r.pc = "free" /\ r.old = g_filters /\ r.new = NULL
  BY <1>0 DEF TypeInv, ClientType
<1> HIDE DEF r
<1>5. /\ cl'[c] = r /\ \A d \in Clients \ {c} : cl'[d] = cl[d]
      /\ UNCHANGED <<usage, th, called>> /\ cl' \in [Clients -> ClientType]
  BY <1>0, <1>1, <1>4, GotoFacts
<1>6. usage # "overlap" => want' = mem[n] /\ \A d \in Clients \ {c} : cl[d].pc = "idle"
  BY <1>0, <1>1 DEF Wanted, SerialInv, UsageInv
<1>7. want' \in Seq(Filters)
  <2>1. CASE usage = "overlap"
    BY <1>1, <2>1, EmptySound DEF Wanted
  <2>2. CASE usage # "overlap"
    BY <1>0, <1>2, <1>3, <1>6, <2>2 DEF TypeInv
  <2> QED
    BY <2>1, <2>2
<1>8. \A d \in Clients, s \in Slots :
        Holds(d, s)' <=> IF d = c THEN s = g_filters ELSE Holds(d, s)
  BY <1>4, <1>5 DEF Holds
<1> HIDE DEF n
<1>9. \A s \in Slots : Holds(c, s) => s = n
  BY <1>1 DEF Holds, n
<1>10. TypeInv'
  BY <1>0, <1>1, <1>2, <1>5, <1>7 DEF TypeInv, ClientType
<1>11. PlaceInv'
  BY <1>0, <1>4, <1>5 DEF PlaceInv, NlmonAssumption
<1>12. OwnInv'
  <2>1. \A s \in Slots : mem'[s] # NULL <=> s = g_filters' \/ \E d \in Clients : Holds(d, s)'
    <3> TAKE s \in Slots
    <3>1. mem'[s] # NULL <=> s = g_filters \/ \E d \in Clients : Holds(d, s)
      BY <1>0, <1>1 DEF OwnInv
    <3>2. (\E d \in Clients : Holds(d, s)) <=> s = n \/ \E d \in Clients \ {c} : Holds(d, s)
      BY <1>2, <1>9
    <3>3. (\E d \in Clients : Holds(d, s)') <=> s = g_filters \/ \E d \in Clients \ {c} : Holds(d, s)
      BY <1>8
    <3> QED
      BY <1>1, <3>1, <3>2, <3>3
  <2>2. ASSUME NEW s \in Slots, NEW d \in Clients, Holds(d, s)'
        PROVE  s # g_filters' /\ \A e \in Clients : Holds(e, s)' => d = e
    BY <1>0, <1>1, <1>3, <1>8, <2>2 DEF OwnInv
  <2> QED
    BY <2>1, <2>2 DEF OwnInv
<1>13. ListInv'
  BY <1>0, <1>1 DEF ListInv
<1>14. UsageInv'
  BY <1>0, <1>1, <1>4, <1>5 DEF UsageInv, AllGone
<1>15. SerialInv'
  BY <1>1, <1>2, <1>4, <1>5, <1>6 DEF SerialInv, NlmonAssumption
<1>16. ReaderInv'
  BY <1>1, <1>4, <1>5, QuietReader
<1>17. WalkInv'
  BY <1>0, <1>1, <1>5 DEF WalkInv, UsageInv, AllGone
<1> QED
  BY <1>10, <1>11, <1>12, <1>13, <1>14, <1>15, <1>16, <1>17 DEF NlmonInv

LEMMA FreeOldKeeps ==
  ASSUME NlmonAssumption, NlmonInv, NEW c \in Clients, FreeOld(c)
  PROVE  NlmonInv'
<1> USE DEF ClientPlaces, Changing, Running
<1> DEFINE o == cl[c].old
<1>0. TypeInv /\ PlaceInv /\ OwnInv /\ ListInv /\ UsageInv /\ SerialInv
  BY DEF NlmonInv
<1>1. /\ cl[c].pc = "free" /\ Goto(c, Idle)
      /\ mem' = IF o = NULL THEN mem ELSE [mem EXCEPT ![o] = NULL]
      /\ UNCHANGED <<g_filters, g_run, g_thread, want, stale, fault>>
  BY DEF FreeOld, At, Return
<1>2. /\ cl'[c] = Idle /\ \A d \in Clients \ {c} : cl'[d] = cl[d]
      /\ UNCHANGED <<usage, th, called>> /\ cl' \in [Clients -> ClientType]
  BY <1>0, <1>1, GotoFacts, IdleFacts
<1>3. cl'[c].pc = "idle" /\ cl'[c].new = NULL
  BY <1>2, IdleFacts
<1>4. /\ mem' \in [Slots -> Seq(Filters) \cup {NULL}]
      /\ \A u \in Slots : mem'[u] = IF u = o THEN NULL ELSE mem[u]
  BY <1>0, <1>1 DEF TypeInv, NlmonAssumption
<1>5. \A d \in Clients, s \in Slots : Holds(d, s)' <=> d # c /\ Holds(d, s)
  BY <1>2, <1>3 DEF Holds
<1>6. \A s \in Slots : Holds(c, s) <=> s = o
  BY <1>1 DEF Holds
<1>7. TypeInv'
  BY <1>0, <1>1, <1>2, <1>4 DEF TypeInv, ClientType
<1> HIDE DEF o
<1>8. PlaceInv'
  BY <1>0, <1>2, <1>3 DEF PlaceInv, NlmonAssumption
<1>9. OwnInv'
  <2>1. ASSUME NEW s \in Slots
        PROVE  mem'[s] # NULL <=> s = g_filters' \/ \E d \in Clients : Holds(d, s)'
    <3>1. mem[s] # NULL <=> s = g_filters \/ \E d \in Clients : Holds(d, s)
      BY <1>0 DEF OwnInv
    <3>2. CASE s = o
      BY <1>0, <1>1, <1>4, <1>5, <1>6, <3>2 DEF OwnInv
    <3>3. CASE s # o
      BY <1>1, <1>4, <1>5, <1>6, <3>1, <3>3
    <3> QED
      BY <3>2, <3>3
  <2>2. ASSUME NEW s \in Slots, NEW d \in Clients, Holds(d, s)'
        PROVE  s # g_filters' /\ \A e \in Clients : Holds(e, s)' => d = e
    BY <1>0, <1>1, <1>5, <2>2 DEF OwnInv
  <2> QED
    BY <2>1, <2>2 DEF OwnInv
<1>10. ListInv'
  BY <1>0, <1>4 DEF ListInv
<1>11. UsageInv'
  BY <1>0, <1>1, <1>2, <1>3 DEF UsageInv, AllGone
<1>12. SerialInv'
  <2>1. g_filters # NULL => mem'[g_filters] = mem[g_filters]
    BY <1>0, <1>4, <1>6 DEF OwnInv, TypeInv
  <2>2. usage # "overlap" => \A d \in Clients : cl'[d].pc = "idle"
    BY <1>0, <1>1, <1>2, <1>3 DEF UsageInv
  <2> QED
    BY <1>0, <1>1, <1>2, <2>1, <2>2 DEF SerialInv
<1>13. ReaderInv' /\ WalkInv'
  BY <1>1, <1>2, <1>3, QuietReader, QuietWalk
<1> QED
  BY <1>7, <1>8, <1>9, <1>10, <1>11, <1>12, <1>13 DEF NlmonInv

LEMMA ExchangeKeeps ==
  ASSUME NlmonAssumption, NlmonInv, NEW c \in Clients, cl[c].pc \in {"idle", "drop"},
         usage # "overlap" => \A d \in Clients \ {c} : cl[d].pc = "idle",
         usage = "setup" => AllGone, ExchangeNull(c)
  PROVE  NlmonInv'
<1> USE DEF ClientPlaces, Changing, Running
<1> DEFINE r == [Idle EXCEPT !.pc = "free", !.old = g_filters]
<1>0. TypeInv /\ PlaceInv /\ OwnInv /\ ListInv /\ UsageInv /\ SerialInv /\ ReaderInv /\ WalkInv
  BY DEF NlmonInv
<1>1. /\ g_filters' = NULL /\ want' = <<>> /\ Goto(c, r)
      /\ UNCHANGED <<g_run, g_thread, mem, stale, fault>>
  BY DEF ExchangeNull
<1>2. r \in ClientType /\ r.pc = "free" /\ r.old = g_filters /\ r.new = NULL
  BY <1>0 DEF TypeInv, ClientType, Idle
<1> HIDE DEF r
<1>3. /\ cl'[c] = r /\ \A d \in Clients \ {c} : cl'[d] = cl[d]
      /\ UNCHANGED <<usage, th, called>> /\ cl' \in [Clients -> ClientType]
  BY <1>0, <1>1, <1>2, GotoFacts
<1>4. \A d \in Clients, s \in Slots : Holds(d, s)' <=> IF d = c THEN s = g_filters ELSE Holds(d, s)
  BY <1>2, <1>3 DEF Holds
<1>5. \A s \in Slots : ~Holds(c, s)
  BY DEF Holds
<1>6. TypeInv'
  BY <1>0, <1>1, <1>3, EmptySound DEF TypeInv, ClientType
<1>7. PlaceInv'
  BY <1>0, <1>2, <1>3 DEF PlaceInv, NlmonAssumption
<1>8. OwnInv'
  <2>1. ASSUME NEW s \in Slots
        PROVE  mem'[s] # NULL <=> s = g_filters' \/ \E d \in Clients : Holds(d, s)'
    <3>1. mem[s] # NULL <=> s = g_filters \/ \E d \in Clients : Holds(d, s)
      BY <1>0 DEF OwnInv
    <3>2. s # NULL
      BY DEF NlmonAssumption
    <3>3. (\E d \in Clients : Holds(d, s)') <=> s = g_filters \/ \E d \in Clients : Holds(d, s)
      BY <1>4, <1>5
    <3> QED
      BY <1>1, <3>1, <3>2, <3>3
  <2>2. ASSUME NEW s \in Slots, NEW d \in Clients, Holds(d, s)'
        PROVE  s # g_filters' /\ \A e \in Clients : Holds(e, s)' => d = e
    BY <1>0, <1>1, <1>4, <2>2 DEF OwnInv, NlmonAssumption
  <2> QED
    BY <2>1, <2>2 DEF OwnInv
<1>9. ListInv'
  BY <1>0, <1>1 DEF ListInv
<1>10. UsageInv'
  BY <1>0, <1>1, <1>2, <1>3 DEF UsageInv, AllGone
<1>11. SerialInv'
  BY <1>1, <1>2, <1>3 DEF SerialInv
<1>12. ReaderInv'
  <2>1. CASE cl[c].pc = "idle"
    BY <1>1, <1>2, <1>3, <2>1, QuietReader
  <2>2. CASE cl[c].pc = "drop"
    BY <1>0, <1>1, <1>2, <1>3, <2>2 DEF ReaderInv, AllGone
  <2> QED
    BY <2>1, <2>2
<1>13. WalkInv'
  BY <1>0, <1>1, <1>3 DEF WalkInv, AllGone
<1> QED
  BY <1>6, <1>7, <1>8, <1>9, <1>10, <1>11, <1>12, <1>13 DEF NlmonInv

LEMMA ClearKeeps ==
  ASSUME NlmonAssumption, NlmonInv, NEW c \in Clients, nlmon_clear_filters(c) \/ DropFilters(c)
  PROVE  NlmonInv'
<1>0. UsageInv /\ ReaderInv
  BY DEF NlmonInv
<1>1. CASE nlmon_clear_filters(c)
  BY <1>1, ExchangeKeeps DEF nlmon_clear_filters, MayChange, MayCall, Stopped, AllGone
<1>2. CASE DropFilters(c)
  <2>1. cl[c].pc = "drop" /\ ExchangeNull(c)
    BY <1>2 DEF DropFilters, At
  <2>2. usage # "overlap"
    BY <1>0, <2>1 DEF UsageInv, Running
  <2>3. AllGone /\ \A d \in Clients \ {c} : cl[d].pc = "idle"
    BY <1>0, <2>1, <2>2 DEF UsageInv, ReaderInv
  <2> QED
    BY <2>1, <2>3, ExchangeKeeps
<1> QED
  BY <1>1, <1>2

\* A step of a call that changes neither the lists nor what is asked for, and that
\* holds no list before it or after it.
LEMMA QuietLists ==
  ASSUME NlmonAssumption, NlmonInv, NEW c \in Clients,
         cl[c].pc \notin Changing \cup {"free"}, cl'[c].pc \notin Changing \cup {"free"},
         cl'[c].new \notin Slots, cl'[c].pc = "list" => cl'[c].old = g_filters /\ g_filters \in Slots,
         \A d \in Clients \ {c} : cl'[d] = cl[d],
         UNCHANGED <<usage, g_filters, mem, want>>
  PROVE  PlaceInv' /\ OwnInv' /\ ListInv' /\ SerialInv'
<1>0. TypeInv /\ PlaceInv /\ OwnInv /\ ListInv /\ SerialInv
  BY DEF NlmonInv
<1>1. \A d \in Clients, s \in Slots : Holds(d, s)' <=> Holds(d, s)
  BY DEF Holds
<1>2. PlaceInv'
  BY <1>0 DEF PlaceInv
<1>3. OwnInv' /\ ListInv'
  BY <1>0, <1>1 DEF OwnInv, ListInv
<1>4. SerialInv'
  BY <1>0 DEF SerialInv, Changing
<1> QED
  BY <1>2, <1>3, <1>4

LEMMA ListKeeps ==
  ASSUME NlmonAssumption, NlmonInv, NEW c \in Clients, nlmon_list_filters(c)
  PROVE  NlmonInv'
<1> USE DEF ClientPlaces, Changing, Running
<1>0. TypeInv /\ PlaceInv /\ OwnInv /\ UsageInv /\ SerialInv
  BY DEF NlmonInv
<1>1. CASE /\ MayCall(c) /\ g_filters # NULL
           /\ Goto(c, [Idle EXCEPT !.pc = "list", !.old = g_filters])
           /\ UNCHANGED shared
  <2> DEFINE r == [Idle EXCEPT !.pc = "list", !.old = g_filters]
  <2>1. r \in ClientType /\ r.pc = "list" /\ r.old = g_filters /\ r.new = NULL
    BY <1>0 DEF TypeInv, ClientType, Idle
  <2>2. Goto(c, r)
    BY <1>1
  <2> HIDE DEF r
  <2>3. /\ cl'[c] = r /\ \A d \in Clients \ {c} : cl'[d] = cl[d]
        /\ UNCHANGED <<usage, th, called>> /\ cl' \in [Clients -> ClientType]
    BY <1>0, <2>1, <2>2, GotoFacts
  <2>4. UNCHANGED <<g_filters, g_run, g_thread, mem, want, stale, fault>>
    BY <1>1 DEF shared
  <2>5. /\ cl[c].pc = "idle" /\ cl'[c].pc = "list" /\ cl'[c].new \notin Slots
        /\ g_filters \in Slots /\ cl'[c].old = g_filters
    BY <1>0, <1>1, <2>1, <2>3 DEF MayCall, TypeInv, NlmonAssumption
  <2>6. TypeInv'
    BY <1>0, <2>3, <2>4 DEF TypeInv, ClientType
  <2>7. PlaceInv' /\ OwnInv' /\ ListInv' /\ SerialInv'
    BY <2>3, <2>4, <2>5, QuietLists
  <2>8. UsageInv'
    BY <1>0, <1>1, <2>3, <2>4, <2>5 DEF UsageInv, MayCall, AllGone
  <2>9. ReaderInv' /\ WalkInv'
    BY <2>3, <2>4, <2>5, QuietReader, QuietWalk
  <2> QED
    BY <2>6, <2>7, <2>8, <2>9 DEF NlmonInv
<1>2. CASE /\ At(c, "list")
           /\ Read(cl[c].old) /\ Return(c)
           /\ UNCHANGED <<g_filters, g_run, g_thread, mem, want, fault>>
  <2>1. /\ cl'[c] = Idle /\ \A d \in Clients \ {c} : cl'[d] = cl[d]
        /\ UNCHANGED <<usage, th, called>> /\ cl' \in [Clients -> ClientType]
    BY <1>0, <1>2, GotoFacts, IdleFacts DEF Return
  <2>2. /\ cl[c].pc = "list" /\ cl'[c].pc = "idle" /\ cl'[c].new \notin Slots
    BY <1>2, <2>1, IdleFacts DEF At, NlmonAssumption
  <2>3. usage = "setup" => mem[cl[c].old] # NULL
    BY <1>0, <2>2 DEF SerialInv, OwnInv, PlaceInv
  <2>4. stale' = (stale \/ mem[cl[c].old] = NULL)
    BY <1>2 DEF Read, Note
  <2>5. stale' \in BOOLEAN /\ (usage = "setup" => stale' = stale)
    BY <1>0, <2>3, <2>4 DEF TypeInv
  <2>6. TypeInv'
    BY <1>0, <1>2, <2>1, <2>5 DEF TypeInv, ClientType
  <2>7. PlaceInv' /\ OwnInv' /\ ListInv' /\ SerialInv'
    BY <1>2, <2>1, <2>2, QuietLists
  <2>8. UsageInv'
    BY <1>0, <1>2, <2>1, <2>2 DEF UsageInv, AllGone
  <2>9. ReaderInv' /\ WalkInv'
    BY <1>2, <2>1, <2>2, <2>5, QuietReader, QuietWalk
  <2> QED
    BY <2>6, <2>7, <2>8, <2>9 DEF NlmonInv
<1> QED
  BY <1>1, <1>2 DEF nlmon_list_filters

\* The calls that run and stop the monitor, which serial programs make.
LEMMA RunKeeps ==
  ASSUME NlmonAssumption, NlmonInv, NEW c \in Clients, nlmon_run(c)
  PROVE  NlmonInv'
<1> USE DEF ClientPlaces, Changing, Running
<1>0. TypeInv /\ UsageInv /\ ReaderInv /\ WalkInv
  BY DEF NlmonInv
<1> DEFINE r == IF g_run THEN Idle ELSE [Idle EXCEPT !.pc = "create"]
<1>1. /\ cl[c].pc = "idle" /\ usage # "overlap" /\ \A d \in Clients : cl[d].pc = "idle"
      /\ g_run' = TRUE /\ Goto(c, r)
      /\ UNCHANGED <<g_filters, g_thread, mem, want, stale, fault>>
  BY DEF nlmon_run, MayRun, MayCall, Return
<1>2. r \in ClientType /\ r.pc = (IF g_run THEN "idle" ELSE "create") /\ r.new = NULL
  BY DEF Idle, ClientType
<1> HIDE DEF r
<1>3. /\ cl'[c] = r /\ \A d \in Clients \ {c} : cl'[d] = cl[d]
      /\ UNCHANGED <<usage, th, called>> /\ cl' \in [Clients -> ClientType]
  BY <1>0, <1>1, <1>2, GotoFacts
<1>4. cl'[c].pc = (IF g_run THEN "idle" ELSE "create") /\ cl'[c].new \notin Slots
  BY <1>2, <1>3 DEF NlmonAssumption
<1>5. TypeInv'
  BY <1>0, <1>1, <1>3 DEF TypeInv, ClientType
<1>6. PlaceInv' /\ OwnInv' /\ ListInv' /\ SerialInv'
  BY <1>1, <1>3, <1>4, QuietLists
<1>7. UsageInv'
  BY <1>0, <1>1, <1>3, <1>4 DEF UsageInv
<1>8. ReaderInv'
  <2>1. IF g_run THEN "create" \in fault \/ ~AllGone ELSE AllGone
    BY <1>0, <1>1 DEF ReaderInv
  <2>2. AllGone' <=> AllGone
    BY <1>3 DEF AllGone
  <2>3. \A t \in Threads : th'[t].pc = "done" => "reader" \in fault'
    BY <1>0, <1>1, <1>3, <2>1 DEF ReaderInv, AllGone
  <2>4. \A t \in Threads : th'[t].pc # "gone" => g_thread' = t
    BY <1>0, <1>1, <1>3 DEF ReaderInv
  <2> QED
    BY <1>1, <1>3, <1>4, <2>1, <2>2, <2>3, <2>4 DEF ReaderInv
<1>9. WalkInv'
  BY <1>1, <1>3, QuietWalk
<1> QED
  BY <1>5, <1>6, <1>7, <1>8, <1>9 DEF NlmonInv

LEMMA StopKeeps ==
  ASSUME NlmonAssumption, NlmonInv, NEW c \in Clients, nlmon_stop(c)
  PROVE  NlmonInv'
<1> USE DEF ClientPlaces, Changing, Running
<1>0. TypeInv /\ UsageInv /\ ReaderInv /\ WalkInv
  BY DEF NlmonInv
<1> DEFINE r == [Idle EXCEPT !.pc = "join"]
<1>1. /\ cl[c].pc = "idle" /\ usage # "overlap" /\ \A d \in Clients : cl[d].pc = "idle"
      /\ g_run /\ g_run' = FALSE /\ Goto(c, r)
      /\ UNCHANGED <<g_filters, g_thread, mem, want, stale, fault>>
  BY DEF nlmon_stop, MayRun, MayCall
<1>2. r \in ClientType /\ r.pc = "join" /\ r.new = NULL
  BY DEF Idle, ClientType
<1> HIDE DEF r
<1>3. /\ cl'[c] = r /\ \A d \in Clients \ {c} : cl'[d] = cl[d]
      /\ UNCHANGED <<usage, th, called>> /\ cl' \in [Clients -> ClientType]
  BY <1>0, <1>1, <1>2, GotoFacts
<1>4. cl'[c].pc = "join" /\ cl'[c].new \notin Slots
  BY <1>2, <1>3 DEF NlmonAssumption
<1>5. TypeInv'
  BY <1>0, <1>1, <1>3 DEF TypeInv, ClientType
<1>6. PlaceInv' /\ OwnInv' /\ ListInv' /\ SerialInv'
  BY <1>1, <1>3, <1>4, QuietLists
<1>7. UsageInv'
  BY <1>0, <1>1, <1>3, <1>4 DEF UsageInv
<1>8. ReaderInv'
  <2>1. "create" \in fault \/ ~AllGone
    BY <1>0, <1>1 DEF ReaderInv
  <2>2. AllGone' <=> AllGone
    BY <1>3 DEF AllGone
  <2>3. \A t \in Threads : th'[t].pc # "gone" => g_thread' = t
    BY <1>0, <1>1, <1>3 DEF ReaderInv
  <2> QED
    BY <1>1, <1>3, <1>4, <2>1, <2>2, <2>3 DEF ReaderInv
<1>9. WalkInv'
  BY <1>1, <1>3, QuietWalk
<1> QED
  BY <1>5, <1>6, <1>7, <1>8, <1>9 DEF NlmonInv

LEMMA JoinKeeps ==
  ASSUME NlmonAssumption, NlmonInv, NEW c \in Clients, JoinThread(c)
  PROVE  NlmonInv'
<1> USE DEF ClientPlaces, Changing, Running
<1>0. TypeInv /\ UsageInv /\ ReaderInv /\ WalkInv
  BY DEF NlmonInv
<1> DEFINE r == [cl[c] EXCEPT !.pc = "wait", !.new = g_thread]
<1>1. /\ cl[c].pc = "join" /\ Goto(c, r)
      /\ stale' = (stale \/ g_thread = NULL \/ th[g_thread].pc = "gone")
      /\ UNCHANGED <<g_filters, g_run, g_thread, mem, want, fault>>
  BY DEF JoinThread, At, Note
<1>2. r \in ClientType /\ r.pc = "wait" /\ r.new = g_thread
  BY <1>0 DEF TypeInv, ClientType
<1> HIDE DEF r
<1>3. /\ cl'[c] = r /\ \A d \in Clients \ {c} : cl'[d] = cl[d]
      /\ UNCHANGED <<usage, th, called>> /\ cl' \in [Clients -> ClientType]
  BY <1>0, <1>1, <1>2, GotoFacts
<1>4. cl'[c].pc = "wait" /\ cl'[c].new = g_thread /\ g_thread \notin Slots
  BY <1>0, <1>2, <1>3 DEF NlmonAssumption, TypeInv
<1>5. usage # "overlap" /\ \A d \in Clients \ {c} : cl[d].pc = "idle"
  BY <1>0, <1>1 DEF UsageInv
<1>6. "create" \notin fault => g_thread \in Threads /\ th[g_thread].pc # "gone"
  BY <1>0, <1>1, <1>5 DEF ReaderInv, AllGone
<1>7. stale' \in BOOLEAN /\ ("create" \notin fault => stale' = stale)
  BY <1>0, <1>1, <1>6 DEF TypeInv, NlmonAssumption
<1>8. TypeInv'
  BY <1>0, <1>1, <1>3, <1>7 DEF TypeInv, ClientType
<1>9. PlaceInv' /\ OwnInv' /\ ListInv' /\ SerialInv'
  BY <1>1, <1>3, <1>4, QuietLists
<1>10. UsageInv'
  BY <1>0, <1>1, <1>3, <1>4, <1>5 DEF UsageInv
<1>11. ReaderInv'
  <2>1. AllGone' <=> AllGone
    BY <1>3 DEF AllGone
  <2> QED
    BY <1>0, <1>1, <1>3, <1>4, <1>5, <2>1 DEF ReaderInv
<1>12. WalkInv'
  BY <1>1, <1>3, <1>7, QuietWalk
<1> QED
  BY <1>8, <1>9, <1>10, <1>11, <1>12 DEF NlmonInv

LEMMA CreateKeeps ==
  ASSUME NlmonAssumption, NlmonInv, NEW c \in Clients, CreateThread(c)
  PROVE  NlmonInv'
<1> USE DEF ClientPlaces, Changing, Running
<1>0. TypeInv /\ UsageInv /\ ReaderInv /\ WalkInv
  BY DEF NlmonInv
<1>1. /\ cl[c].pc = "create" /\ cl' = [cl EXCEPT ![c] = Idle]
      /\ UNCHANGED <<usage, called, g_filters, g_run, mem, want, stale>>
  BY DEF CreateThread, At
<1>2. usage # "overlap" /\ g_run /\ AllGone /\ \A d \in Clients \ {c} : cl[d].pc = "idle"
  BY <1>0, <1>1 DEF UsageInv, ReaderInv
<1>3. /\ cl'[c] = Idle /\ cl'[c].pc = "idle" /\ cl'[c].new \notin Slots
      /\ \A d \in Clients \ {c} : cl'[d] = cl[d]
      /\ cl' \in [Clients -> ClientType]
  BY <1>0, <1>1, IdleFacts DEF TypeInv, ClientType, NlmonAssumption
<1>4. PlaceInv' /\ OwnInv' /\ ListInv' /\ SerialInv'
  BY <1>1, <1>3, QuietLists
<1>5. UsageInv'
  BY <1>0, <1>1, <1>2, <1>3 DEF UsageInv
<1>6. CASE Failed("create") /\ UNCHANGED <<g_thread, th>>
  <2>1. fault' = fault \cup {"create"} /\ UNCHANGED <<g_thread, th>>
    BY <1>6 DEF Failed
  <2>2. TypeInv'
    BY <1>0, <1>1, <1>3, <2>1 DEF TypeInv, ClientType
  <2>3. ReaderInv'
    BY <1>0, <1>1, <1>2, <1>3, <2>1 DEF ReaderInv, AllGone
  <2>4. WalkInv'
    BY <1>0, <1>1, <1>2, <2>1 DEF WalkInv, AllGone
  <2> QED
    BY <1>4, <1>5, <2>2, <2>3, <2>4 DEF NlmonInv
<1>7. ASSUME NEW t \in Threads, th' = [th EXCEPT ![t].pc = "open"], g_thread' = t, UNCHANGED fault
      PROVE  NlmonInv'
  <2>1. /\ th' \in [Threads -> ThreadType] /\ th'[t].pc = "open"
        /\ \A u \in Threads \ {t} : th'[u].pc = "gone"
    BY <1>0, <1>2, <1>7, ZenonT(40) DEF TypeInv, ThreadType, ThreadPlaces, AllGone
  <2>2. TypeInv'
    BY <1>0, <1>1, <1>3, <1>7, <2>1 DEF TypeInv, ClientType, ThreadType
  <2>3. ReaderInv'
    BY <1>1, <1>2, <1>3, <1>7, <2>1 DEF ReaderInv, AllGone
  <2>4. WalkInv'
    BY <1>0, <1>1, <1>7, <2>1 DEF WalkInv
  <2> QED
    BY <1>4, <1>5, <2>2, <2>3, <2>4 DEF NlmonInv
<1> QED
  BY <1>6, <1>7 DEF CreateThread

LEMMA JoinedKeeps ==
  ASSUME NlmonAssumption, NlmonInv, NEW c \in Clients, Joined(c)
  PROVE  NlmonInv'
<1> USE DEF ClientPlaces, Changing, Running
<1>0. TypeInv /\ UsageInv /\ ReaderInv /\ WalkInv
  BY DEF NlmonInv
<1>1. /\ cl[c].pc = "wait" /\ cl' = [cl EXCEPT ![c].pc = "drop", ![c].new = NULL]
      /\ th' = IF cl[c].new = NULL THEN th ELSE [th EXCEPT ![cl[c].new] = Gone]
      /\ UNCHANGED <<usage, called, g_filters, g_run, g_thread, mem, want, stale, fault>>
  BY DEF Joined, At, shared
<1>2. /\ usage # "overlap" /\ ~g_run /\ cl[c].new = g_thread
      /\ \A d \in Clients \ {c} : cl[d].pc = "idle"
  BY <1>0, <1>1 DEF UsageInv, ReaderInv
<1>3. /\ cl'[c].pc = "drop" /\ cl'[c].new \notin Slots
      /\ \A d \in Clients \ {c} : cl'[d] = cl[d]
      /\ cl' \in [Clients -> ClientType]
  <2> DEFINE r == [cl[c] EXCEPT !.pc = "drop", !.new = NULL]
  <2>1. cl' = [cl EXCEPT ![c] = r]
    BY <1>0, <1>1 DEF TypeInv
  <2>2. r \in ClientType /\ r.pc = "drop" /\ r.new = NULL
    BY <1>0 DEF TypeInv, ClientType
  <2> HIDE DEF r
  <2> QED
    BY <1>0, <2>1, <2>2 DEF TypeInv, ClientType, NlmonAssumption
<1>4. th' \in [Threads -> ThreadType] /\ AllGone'
  <2>1. \A t \in Threads : t # g_thread => th[t].pc = "gone"
    BY <1>0, <1>2 DEF ReaderInv
  <2>2. CASE g_thread = NULL
    BY <1>0, <1>1, <1>2, <2>1, <2>2 DEF AllGone, TypeInv, ThreadType, NlmonAssumption
  <2>3. CASE g_thread # NULL
    <3>1. g_thread \in Threads /\ th' = [th EXCEPT ![g_thread] = Gone]
      BY <1>0, <1>1, <1>2, <2>3 DEF TypeInv
    <3>2. th \in [Threads -> ThreadType]
      BY <1>0 DEF TypeInv, ThreadType
    <3>3. th' \in [Threads -> ThreadType] /\ \A t \in Threads : th'[t] = IF t = g_thread THEN Gone ELSE th[t]
      BY <3>1, <3>2, IdleFacts
    <3> QED
      BY <2>1, <3>3, IdleFacts DEF AllGone
  <2> QED
    BY <2>2, <2>3
<1>5. TypeInv'
  BY <1>0, <1>1, <1>3, <1>4 DEF TypeInv, ClientType, ThreadType
<1>6. PlaceInv' /\ OwnInv' /\ ListInv' /\ SerialInv'
  BY <1>1, <1>3, QuietLists
<1>7. UsageInv'
  BY <1>0, <1>1, <1>2, <1>3 DEF UsageInv
<1>8. ReaderInv'
  BY <1>1, <1>2, <1>3, <1>4 DEF ReaderInv, AllGone
<1>9. WalkInv'
  BY <1>0, <1>1, <1>4 DEF WalkInv, AllGone
<1> QED
  BY <1>5, <1>6, <1>7, <1>8, <1>9 DEF NlmonInv

\* A step of the thread disturbs only its own registers.
LEMMA ThreadFrame ==
  ASSUME NlmonAssumption, NlmonInv, NEW t \in Threads, NEW r, Step(t, r),
         th[t].pc # "gone", r \in ThreadType, r.pc # "gone",
         fault \subseteq fault', fault' \subseteq {"create", "reader"},
         r.pc = "done" => ~g_run \/ "reader" \in fault',
         stale' \in BOOLEAN, called' \in [got : Seq(Filters), due : Seq(Filters)]
  PROVE  /\ TypeInv' /\ PlaceInv' /\ OwnInv' /\ ListInv' /\ UsageInv' /\ SerialInv' /\ ReaderInv'
         /\ th'[t] = r /\ usage # "overlap" /\ g_thread = t
         /\ \A u \in Threads \ {t} : th'[u].pc = "gone"
<1> USE DEF ClientPlaces, Changing, Running
<1>0. TypeInv /\ PlaceInv /\ OwnInv /\ ListInv /\ UsageInv /\ SerialInv /\ ReaderInv
  BY DEF NlmonInv
<1>1. /\ th' = [th EXCEPT ![t] = r]
      /\ UNCHANGED <<usage, cl, g_filters, g_run, g_thread, mem, want>>
  BY DEF Step
<1>2. ~AllGone
  BY DEF AllGone
<1>3. usage # "overlap" /\ g_thread = t /\ \A u \in Threads \ {t} : th[u].pc = "gone"
  BY <1>0, <1>2 DEF UsageInv, ReaderInv
<1>4. th' \in [Threads -> ThreadType] /\ th'[t] = r /\ \A u \in Threads \ {t} : th'[u] = th[u]
  BY <1>0, <1>1 DEF TypeInv, ThreadType
<1>5. ~AllGone'
  BY <1>4 DEF AllGone
<1>6. TypeInv'
  BY <1>0, <1>1, <1>4 DEF TypeInv, ThreadType
<1>7. PlaceInv' /\ ListInv' /\ SerialInv'
  BY <1>0, <1>1 DEF PlaceInv, ListInv, SerialInv
<1>8. OwnInv'
  <2>1. \A d \in Clients, s \in Slots : Holds(d, s)' <=> Holds(d, s)
    BY <1>1 DEF Holds
  <2> QED
    BY <1>0, <1>1, <2>1 DEF OwnInv
<1>9. UsageInv'
  BY <1>0, <1>1, <1>2, <1>3 DEF UsageInv
<1>10. ReaderInv'
  <2>1. \A u \in Threads : th'[u].pc # "gone" => g_thread' = u
    BY <1>1, <1>3, <1>4
  <2>2. \A u \in Threads : th'[u].pc = "done" => ~g_run' \/ "reader" \in fault'
    BY <1>1, <1>3, <1>4
  <2>3. (\A c \in Clients : cl[c].pc \notin Running) => g_run
    BY <1>0, <1>2, <1>3 DEF ReaderInv
  <2> QED
    BY <1>0, <1>1, <1>2, <1>3, <1>5, <2>1, <2>2, <2>3 DEF ReaderInv
<1> QED
  BY <1>3, <1>4, <1>6, <1>7, <1>8, <1>9, <1>10

Jumped(pc) == [Gone EXCEPT !.pc = pc]

LEMMA JumpedFacts ==
  ASSUME NEW pc \in ThreadPlaces
  PROVE  Jumped(pc) \in ThreadType /\ Jumped(pc).pc = pc
  BY DEF Jumped, Gone, ThreadType

\* A step that leaves the list it walks, or has none yet.
LEMMA JumpKeeps ==
  ASSUME NlmonAssumption, NlmonInv, NEW t \in Threads, NEW pc \in {"loop", "select", "done"}, Jump(t, pc),
         th[t].pc # "gone", fault \subseteq fault', fault' \subseteq {"create", "reader"},
         pc = "done" => ~g_run \/ "reader" \in fault',
         stale' \in BOOLEAN, usage = "setup" /\ "create" \notin fault => stale' = stale,
         called' \in [got : Seq(Filters), due : Seq(Filters)],
         called' = called \/ called'.got = called'.due
  PROVE  NlmonInv'
<1>1. Step(t, Jumped(pc)) /\ Jumped(pc) \in ThreadType /\ Jumped(pc).pc = pc
  BY JumpedFacts DEF Jump, Jumped, ThreadPlaces
<1>2. /\ TypeInv' /\ PlaceInv' /\ OwnInv' /\ ListInv' /\ UsageInv' /\ SerialInv' /\ ReaderInv'
      /\ th'[t] = Jumped(pc) /\ \A u \in Threads \ {t} : th'[u].pc = "gone"
  BY <1>1, ThreadFrame
<1>3. \A u \in Threads : th'[u].pc # "handle"
  BY <1>1, <1>2
<1>4. WalkInv'
  BY <1>1, <1>3 DEF NlmonInv, WalkInv, Step
<1> QED
  BY <1>2, <1>4 DEF NlmonInv

LEMMA OpenKeeps ==
  ASSUME NlmonAssumption, NlmonInv, NEW t \in Threads, open_netlink_socket(t) \/ CheckRun(t)
  PROVE  NlmonInv'
<1>0. TypeInv
  BY DEF NlmonInv
<1>1. /\ stale' \in BOOLEAN /\ stale' = stale /\ called' = called
      /\ called' \in [got : Seq(Filters), due : Seq(Filters)]
      /\ fault \subseteq {"create", "reader"} /\ th[t].pc # "gone"
  BY <1>0 DEF TypeInv, open_netlink_socket, CheckRun, ThAt
<1>2. CASE Jump(t, "loop") /\ UNCHANGED fault
  BY <1>1, <1>2, JumpKeeps
<1>3. CASE Jump(t, "done") /\ Failed("reader")
  BY <1>1, <1>3, JumpKeeps DEF Failed
<1>4. CASE CheckRun(t)
  <2>1. CASE g_run
    BY <1>1, <1>4, <2>1, JumpKeeps DEF CheckRun
  <2>2. CASE ~g_run
    BY <1>1, <1>4, <2>2, JumpKeeps DEF CheckRun
  <2> QED
    BY <2>1, <2>2
<1> QED
  BY <1>2, <1>3, <1>4 DEF open_netlink_socket

LEMMA SelectKeeps ==
  ASSUME NlmonAssumption, NlmonInv, NEW t \in Threads, Select(t)
  PROVE  NlmonInv'
<1>0. TypeInv /\ OwnInv /\ SerialInv /\ WalkInv
  BY DEF NlmonInv
<1>1. /\ stale' \in BOOLEAN /\ stale' = stale
      /\ called \in [got : Seq(Filters), due : Seq(Filters)]
      /\ fault \subseteq {"create", "reader"} /\ th[t].pc = "select"
  BY <1>0 DEF TypeInv, Select, ThAt
<1>2. CASE Jump(t, "loop") /\ UNCHANGED <<called, fault>>
  BY <1>1, <1>2, JumpKeeps
<1>3. CASE Jump(t, "done") /\ Failed("reader") /\ UNCHANGED called
  BY <1>1, <1>3, JumpKeeps DEF Failed
<1>4. ASSUME NEW m \in Messages, called' = [got |-> <<>>, due |-> <<>>], UNCHANGED fault,
             IF g_filters = NULL THEN Jump(t, "loop")
             ELSE Step(t, [pc |-> "handle", list |-> g_filters, m |-> m, i |-> 1])
      PROVE  NlmonInv'
  <2>1. /\ called' \in [got : Seq(Filters), due : Seq(Filters)]
        /\ called'.got = <<>> /\ called'.due = <<>>
    BY <1>4, EmptySound
  <2>2. CASE g_filters = NULL
    BY <1>1, <1>4, <2>1, <2>2, JumpKeeps
  <2>3. CASE g_filters # NULL
    <3> DEFINE r == [pc |-> "handle", list |-> g_filters, m |-> m, i |-> 1]
    <3>1. r \in ThreadType /\ r.pc = "handle" /\ r.list = g_filters /\ r.i = 1
      BY <1>0 DEF TypeInv, ThreadType, ThreadPlaces
    <3>2. Step(t, r)
      BY <1>4, <2>3
    <3> HIDE DEF r
    <3>3. /\ TypeInv' /\ PlaceInv' /\ OwnInv' /\ ListInv' /\ UsageInv' /\ SerialInv' /\ ReaderInv'
          /\ th'[t] = r /\ \A u \in Threads \ {t} : th'[u].pc = "gone"
      BY <1>1, <1>4, <2>1, <3>1, <3>2, ThreadFrame
    <3>4. UNCHANGED <<usage, g_filters, want>>
      BY <3>2 DEF Step
    <3>5. \A A : Kept(want, A, 0) = <<>>
      BY <1>0, KeptDefined DEF TypeInv
    <3>a. Len(want) \in Nat /\ 1 <= Len(want) + 1 /\ 1 - 1 = 0
      BY <1>0 DEF TypeInv
    <3>6. WalkInv'
      BY <1>0, <1>1, <1>4, <2>1, <2>3, <3>1, <3>3, <3>4, <3>5, <3>a DEF WalkInv
    <3> QED
      BY <3>3, <3>6 DEF NlmonInv
  <2> QED
    BY <2>2, <2>3
<1> QED
  BY <1>1, <1>2, <1>3, <1>4 DEF Select

LEMMA MinOfTwo ==
  ASSUME NEW i \in Nat, NEW n \in Nat, i <= n
  PROVE  Min({i, n}) = i
  BY DEF Min

LEMMA HandleKeeps ==
  ASSUME NlmonAssumption, NlmonInv, NEW t \in Threads, handle_netlink_msg(t)
  PROVE  NlmonInv'
<1> DEFINE list == IF mem[th[t].list] = NULL THEN <<>> ELSE mem[th[t].list]
           i == th[t].i
           m == th[t].m
           A == {f \in Filters : Due(f, m)}
           r == [th[t] EXCEPT !.i = i + 1]
<1>0. TypeInv /\ OwnInv /\ SerialInv /\ WalkInv
  BY DEF NlmonInv
<1>1. /\ th[t].pc = "handle" /\ i \in Nat /\ fault' = fault /\ fault \subseteq {"create", "reader"}
      /\ stale' = (stale \/ mem[th[t].list] = NULL)
  BY <1>0 DEF handle_netlink_msg, ThAt, Read, Note, TypeInv
<1>2. usage = "setup" => /\ th[t].list = g_filters /\ g_filters \in Slots /\ mem[g_filters] # NULL
                         /\ list = want
                         /\ i >= 1 /\ i <= Len(want) + 1 /\ called.got = called.due
                         /\ called.due = Kept(want, A, i - 1)
  BY <1>0, <1>1 DEF WalkInv, SerialInv, OwnInv, TypeInv
<1>3. stale' \in BOOLEAN /\ (usage = "setup" => stale' = stale)
  BY <1>0, <1>1, <1>2 DEF TypeInv
<1>4. CASE i > Len(list)
  <2>1. Jump(t, "loop") /\ called' = called
    BY <1>4 DEF handle_netlink_msg
  <2>2. called' \in [got : Seq(Filters), due : Seq(Filters)]
    BY <1>0, <2>1 DEF TypeInv
  <2> QED
    BY <1>1, <1>3, <2>1, <2>2, JumpKeeps
<1>5. CASE ~(i > Len(list))
  <2>1. /\ Step(t, r)
        /\ called' =
             IF usage # "setup" THEN called
             ELSE [got |-> called.got \o (IF Matches(list[i], m) THEN <<list[i]>> ELSE <<>>),
                   due |-> Kept(want, A, Min({i, Len(want)}))]
    BY <1>5 DEF handle_netlink_msg
  <2>2. /\ r \in ThreadType /\ r.pc = "handle" /\ r.list = th[t].list /\ r.m = m /\ r.i = i + 1
    <3>1. th[t] \in ThreadType /\ i + 1 \in Nat
      BY <1>0, <1>1 DEF TypeInv, ThreadType
    <3>2. i + 1 \in Nat => r \in ThreadType /\ r.pc = th[t].pc /\ r.list = th[t].list /\ r.m = m /\ r.i = i + 1
      <4> DEFINE j == i + 1
      <4> HIDE DEF j
      <4>1. j \in Nat => /\ [th[t] EXCEPT !.i = j] \in ThreadType
                        /\ [th[t] EXCEPT !.i = j].pc = th[t].pc
                        /\ [th[t] EXCEPT !.i = j].list = th[t].list
                        /\ [th[t] EXCEPT !.i = j].m = th[t].m
                        /\ [th[t] EXCEPT !.i = j].i = j
        BY <3>1 DEF ThreadType
      <4> QED
        BY <4>1 DEF j
    <3> QED
      BY <1>1, <3>1, <3>2
  <2> HIDE DEF r
  <2>3. UNCHANGED <<usage, g_filters, want>>
    BY <2>1 DEF Step
  <2>4. CASE usage # "setup"
    <3>1. called' = called /\ called' \in [got : Seq(Filters), due : Seq(Filters)]
      BY <1>0, <2>1, <2>4 DEF TypeInv
    <3>2. TypeInv' /\ PlaceInv' /\ OwnInv' /\ ListInv' /\ UsageInv' /\ SerialInv' /\ ReaderInv'
      BY <1>1, <1>3, <2>1, <2>2, <3>1, ThreadFrame
    <3>3. WalkInv'
      BY <2>3, <2>4 DEF WalkInv
    <3> QED
      BY <3>2, <3>3 DEF NlmonInv
  <2>5. CASE usage = "setup"
    <3> DEFINE k == Kept(want, A, i - 1)
    <3>1. want \in Seq(Filters) /\ i \in 1 .. Len(want) /\ i - 1 \in 0 .. Len(want) /\ want[i] \in Filters
      BY <1>0, <1>1, <1>2, <1>5, <2>5 DEF TypeInv
    <3>2. Min({i, Len(want)}) = i
      BY <3>1, MinOfTwo
    <3>3. Matches(want[i], m) <=> want[i] \in A
      BY <3>1 DEF Matches, Due
    <3> HIDE DEF A
    <3>4. Kept(want, A, i) = IF want[i] \in A THEN Append(k, want[i]) ELSE k
      <4>1. \A j \in 1 .. Len(want) :
              Kept(want, A, j) = IF want[j] \in A THEN Append(Kept(want, A, j - 1), want[j]) ELSE Kept(want, A, j - 1)
        BY <3>1, KeptDefined
      <4> QED
        BY <3>1, <4>1
    <3>5. k \in Seq(Filters) /\ Kept(want, A, i) \in Seq(Filters)
      BY <3>1, KeptSound
    <3> HIDE DEF k
    <3>6. k \o (IF want[i] \in A THEN <<want[i]>> ELSE <<>>) = IF want[i] \in A THEN Append(k, want[i]) ELSE k
      <4>1. k \o <<>> = k /\ k \o <<want[i]>> = Append(k, want[i])
        BY <3>1, <3>5
      <4> QED
        BY <4>1
    <3>7. called'.got = Kept(want, A, i) /\ called'.due = Kept(want, A, i)
      <4>1. called' = [got |-> k \o (IF want[i] \in A THEN <<want[i]>> ELSE <<>>),
                       due |-> Kept(want, A, i)]
        BY <1>2, <2>1, <2>5, <3>2, <3>3 DEF k
      <4> QED
        BY <3>4, <3>6, <4>1
    <3>8. called' \in [got : Seq(Filters), due : Seq(Filters)]
      <4>1. called' = [got |-> called'.got, due |-> called'.due]
        BY <2>1, <2>5
      <4> QED
        BY <3>5, <3>7, <4>1
    <3>9. /\ TypeInv' /\ PlaceInv' /\ OwnInv' /\ ListInv' /\ UsageInv' /\ SerialInv' /\ ReaderInv'
          /\ th'[t] = r /\ \A u \in Threads \ {t} : th'[u].pc = "gone"
      BY <1>1, <1>3, <2>1, <2>2, <3>8, ThreadFrame
    <3>10. r.i >= 1 /\ r.i <= Len(want) + 1 /\ r.i - 1 = i
      BY <2>2, <3>1
    <3>11. WalkInv'
      BY <1>0, <1>1, <1>2, <1>3, <2>2, <2>3, <2>5, <3>7, <3>9, <3>10, ZenonT(40) DEF WalkInv, A, NlmonAssumption
    <3> QED
      BY <3>9, <3>11 DEF NlmonInv
  <2> QED
    BY <2>4, <2>5
<1> QED
  BY <1>4, <1>5

LEMMA NlmonInvStep ==
  ASSUME NlmonAssumption, NlmonInv, [Next]_vars
  PROVE  NlmonInv'
<1>1. CASE UNCHANGED vars
  <2>1. UNCHANGED <<usage, g_filters, g_run, g_thread, mem, cl, th, want, called, stale, fault>>
    BY <1>1 DEF vars
  <2>2. AllGone' <=> AllGone
    BY <2>1 DEF AllGone
  <2>3. \A c, s : Holds(c, s)' <=> Holds(c, s)
    BY <2>1 DEF Holds
  <2>4. TypeInv' /\ PlaceInv' /\ OwnInv' /\ ListInv'
    BY <2>1, <2>3 DEF NlmonInv, TypeInv, PlaceInv, OwnInv, ListInv
  <2>5. UsageInv' /\ SerialInv' /\ ReaderInv' /\ WalkInv'
    BY <2>1, <2>2 DEF NlmonInv, UsageInv, SerialInv, ReaderInv, WalkInv
  <2> QED
    BY <2>4, <2>5 DEF NlmonInv
<1>2. ASSUME NEW c \in Clients, Call(c) PROVE NlmonInv'
  BY <1>2, LoadListKeeps, ClearKeeps, ListKeeps, RunKeeps, StopKeeps DEF Call
<1>3. ASSUME NEW c \in Clients, ClientStep(c) PROVE NlmonInv'
  BY <1>3, AddKeeps, RemoveKeeps, PublishKeeps, FreeOldKeeps, ListKeeps, CreateKeeps, JoinKeeps,
     JoinedKeeps, ClearKeeps DEF ClientStep
<1>4. ASSUME NEW t \in Threads, ThreadStep(t) PROVE NlmonInv'
  BY <1>4, OpenKeeps, SelectKeeps, HandleKeeps DEF ThreadStep
<1> QED
  BY <1>1, <1>2, <1>3, <1>4 DEF Next

\* The invariant holds for any number of calling threads, readers, lists, filters and
\* messages, in each of the three usages.
THEOREM NlmonInvariant ==
  ASSUME NlmonAssumption
  PROVE  Spec => []NlmonInv
  BY NlmonInvInit, NlmonInvStep, PTL DEF Spec

\* However calls overlap, the exchange of g_filters gives every list exactly one owner,
\* so none is freed twice or lost, and the lists stay bounded and without duplicates; if
\* filters change only while the monitor is stopped, none is read after it was freed.
THEOREM ListsCorrect ==
  ASSUME NlmonAssumption
  PROVE  Spec => []NlmonListsOwned
<1>1. NlmonInv => NlmonListsOwned
  <2> SUFFICES ASSUME NlmonInv PROVE NlmonListsOwned
    OBVIOUS
  <2>0. TypeInv /\ PlaceInv /\ OwnInv /\ ListInv /\ WalkInv
    BY DEF NlmonInv
  <2>1. \A c \in Clients : Owned(c) \subseteq Slots /\ \A s \in Slots : s \in Owned(c) <=> Holds(c, s)
    <3> TAKE c \in Clients
    <3>1. cl[c].pc \in Changing => cl[c].pc # "free"
      BY DEF Changing
    <3>2. cl[c].new \in Slots <=> cl[c].pc \in Changing
      BY <2>0 DEF PlaceInv
    <3>3. cl[c].old \in Slots \cup {NULL}
      BY <2>0 DEF TypeInv
    <3>4. NULL \notin Slots
      BY DEF NlmonAssumption
    <3> QED
      BY <3>1, <3>2, <3>3, <3>4 DEF Owned, Holds, At
  <2>2. SlotsOwned
    <3>1. \A s : s \in UNION {Owned(c) : c \in Clients} <=> \E c \in Clients : s \in Owned(c)
      OBVIOUS
    <3>2. {s \in Slots : mem[s] # NULL} = ({g_filters} \ {NULL}) \cup UNION {Owned(c) : c \in Clients}
      BY <2>0, <2>1, <3>1 DEF OwnInv, TypeInv, NlmonAssumption
    <3>3. \A c \in Clients : g_filters \notin Owned(c)
      BY <2>0, <2>1 DEF OwnInv
    <3>4. \A c \in Clients : \A d \in Clients \ {c} : Owned(c) \cap Owned(d) = {}
      BY <2>0, <2>1 DEF OwnInv
    <3> QED
      BY <3>2, <3>3, <3>4 DEF SlotsOwned
  <2>3. ListSound
    BY <2>0 DEF ListSound, OwnInv, ListInv, TypeInv
  <2>4. NoUseAfterFree
    BY <2>0 DEF NoUseAfterFree, WalkInv
  <2> QED
    BY <2>2, <2>3, <2>4 DEF NlmonListsOwned
<1> QED
  BY <1>1, NlmonInvariant, PTL

\* Serial calls add up to the published list, there is one reader and a refused
\* nlmon_run means that it is alive, and a message is reported to exactly the filters
\* asked for that match it.
THEOREM FiltersCorrect ==
  ASSUME NlmonAssumption
  PROVE  Spec => []NlmonFiltersExact
<1>1. NlmonInv => NlmonFiltersExact
  <2> SUFFICES ASSUME NlmonInv PROVE NlmonFiltersExact
    OBVIOUS
  <2>0. TypeInv /\ SerialInv /\ ReaderInv /\ WalkInv
    BY DEF NlmonInv
  <2>1. FiltersExact
    BY <2>0 DEF FiltersExact, SerialInv
  <2>2. CallbacksExact
    BY <2>0 DEF CallbacksExact, WalkInv
  <2>3. OneReader
    <3> DEFINE alive == {t \in Threads : th[t].pc # "gone"}
    <3> SUFFICES ASSUME usage # "overlap"
                 PROVE  /\ \A t, u \in alive : t = u
                        /\ g_run /\ fault = {} /\ (\A c \in Clients : At(c, "idle")) =>
                             alive = {g_thread} /\ th[g_thread].pc # "done"
      BY DEF OneReader
    <3>1. \A t \in alive : t = g_thread
      BY <2>0 DEF ReaderInv
    <3>2. ASSUME g_run, fault = {}, \A c \in Clients : At(c, "idle")
          PROVE  alive = {g_thread} /\ th[g_thread].pc # "done"
      <4>1. ~AllGone
        BY <2>0, <3>2 DEF ReaderInv, At, Running
      <4>2. alive = {g_thread} /\ g_thread \in Threads
        BY <3>1, <4>1 DEF AllGone
      <4> QED
        BY <2>0, <3>2, <4>2 DEF ReaderInv
    <3> QED
      BY <3>1, <3>2
  <2> QED
    BY <2>1, <2>2, <2>3 DEF NlmonFiltersExact
<1> QED
  BY <1>1, NlmonInvariant, PTL

=============================================================================
