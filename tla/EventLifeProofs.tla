-------------------------- MODULE EventLifeProofs --------------------------
(***************************************************************************)
(* Proofs about EventLife: that the count of a slot is the number of       *)
(* references that exist, that slots are neither lost nor shared, and that *)
(* the assertion of uevent_refcount_dec_and_test holds, for any numbers of *)
(* clients, slots, events and kinds, with or without a worker, whether or  *)
(* not calls on one event overlap. LifeInv is the inductive invariant:     *)
(*                                                                         *)
(*   RefExact    a count is the sum of what frames, heap, descriptors,     *)
(*               tasks and the creator own;                                *)
(*   FramesInv   what each function still knows of its slot and event,     *)
(*               also while a function it called runs;                     *)
(*   ShapeInv    which function can be above which on a stack;             *)
(*   UniqueInv   what only one of all frames does;                         *)
(*   DelRefInv   why uevent_del outside the loop meets a live event;       *)
(*   EventInv, EpollInv, FreeSlots   slots, flags, heap, queue.            *)
(*                                                                         *)
(* They need each other: an event stays in its slot because a frame that   *)
(* uses it owns a reference and the count is exact, and the count is exact *)
(* because flags and heap change together with it in every frame.          *)
(*                                                                         *)
(* The proofs first describe a step by what it does to the stack of its    *)
(* thread (replace the last frame, call, return) and to the references the *)
(* frames own; then there is one lemma per action, in groups that change   *)
(* the same variables, and LifeNext puts them together.                    *)
(***************************************************************************)
EXTENDS EventLife, FiniteSetTheorems, SequenceTheorems, TLAPS

\* The calls that are made at all, and those made by threads other than the loop.
Ops == ClientOps \cup CbOps
Outside == ClientOps \cup (IF Pooled THEN CbOps ELSE {})
\* The kinds of events that are armed, that are freed, and that threads other than
\* the loop disarm or free.
Arms(k) == <<"add", k>> \in Ops
Frees(k) == <<"free", k>> \in Ops
Stops(k) == <<"del", k>> \in Outside \/ <<"free", k>> \in Outside

\* The discipline of the callers under which the counts are exact. An event that
\* has a descriptor, or that is disarmed outside the loop, is never freed; and if
\* some timer is disarmed or freed outside the loop, it is never armed, and no
\* event that is armed is freed. Without the first half the loop handles events
\* that are gone; without the second uevent_del, which tests active_timer and
\* takes the node out of the heap in two steps, drops the reference of the heap
\* a second time when the loop has fired the timer in between.
TimersLeftToLoop ==
  /\ \A k \in Kinds : "fd" \in k \/ <<"del", k>> \in Outside => ~Frees(k)
  /\ \A k \in Kinds : "timeout" \in k /\ Stops(k) =>
       ~Arms(k) /\ \A j \in Kinds : Arms(j) => ~Frees(j)

\* The second half of the discipline applies.
Strict == \E k \in Kinds : "timeout" \in k /\ Stops(k)

\* Places by the function they belong to: uevent_try_ref, uevent_put, the callers
\* that wait for the result of try_ref, uevent_add, uevent_del, and the callback.
RefP == {"ref", "refchk", "refundo"}
PutP == {"put", "dec", "destroy"}
RefTested == Tested \ {"tput"}
AddP == {"addchk", "addfd", "addctl", "addmark", "addfdref", "addtm", "addend"}
DelP == {"delfd", "delctl", "deltm", "delheap"}
CbP == {"cblock", "cb"}

\* The places a call made at place l can be at.
Above(l) ==
  CASE l \in RefTested -> RefP
    [] l \in {"deltm", "put", "tput", "wtake"} -> PutP
    [] l \in {"idle", "cb"} -> AddP \cup DelP \cup PutP
         \cup {"addref", "delref", "peekref", "create", "free", "freepend"}
    [] l \in {"freepend", "epoll"} -> DelP \cup PutP \cup {"delref"}
    [] l \in {"tlock", "epauto"} -> CbP \cup PutP \cup {"dispref"}
    [] l = "wfinal" -> CbP \cup PutP \cup {"wref"}
    [] OTHER -> {}

\* The places of a thread that is in no call.
Ground(p) ==
  IF p = Loop THEN {"wait", "tlock", "tmin", "tput", "tcb", "epoll", "eptest", "epauto"}
  ELSE IF p = Worker THEN {"wtake", "wfinal"} ELSE {"idle"}

\* A frame of the stack of a thread.
FrameType == [at : Places, s : Slots \cup {NULL}, o : Events \cup {NULL}, ret : BOOLEAN]

\* TypeOK without what the proof establishes otherwise.
TypeInv ==
  /\ ev \in [Slots -> Events \cup {NULL}]
  /\ refcount \in [Slots -> Int]
  /\ free_uev \in Seq(Slots)
  /\ mem \in [Events -> {"none", "live", "freed"}]
  /\ kind \in [Events -> SUBSET Flags]
  /\ uev \in [Events -> Slots \cup {NULL}]
  /\ released \subseteq Events /\ active_fd \subseteq Events /\ active_timer \subseteq Events
  /\ pending_free \subseteq Events /\ modification_lock \subseteq Events
  /\ heap \subseteq Events /\ epoll \subseteq Events
  /\ num_active_fd \in Int /\ num_active_timers \in Int
  /\ base_mut \in Threads \cup {NULL}
  /\ queue \in Seq(Slots)
  /\ th \in [Threads -> Seq(FrameType)]

\* Frames without a slot.
Unslotted == {"idle", "wtake", "wait", "tlock", "tmin", "epoll"}

\* Stacks are nested calls: a frame is a function that the one below it calls,
\* with the slot the caller passed, and only the last frame has a result.
ShapeInv ==
  \A p \in Threads :
    /\ Len(th[p]) > 0 /\ th[p][1].at \in Ground(p)
    /\ \A i \in 1 .. Len(th[p]) - 1 :
         /\ th[p][i + 1].at \in Above(th[p][i].at)
         /\ th[p][i].at \in RefTested => th[p][i + 1].s = th[p][i].s
         /\ ~th[p][i].ret
    /\ \A i \in DOMAIN th[p] :
         /\ th[p][i].at \notin Unslotted => th[p][i].s \in Slots
         /\ th[p][i].ret => th[p][i].at \in Tested \cup {"addctl"}

\* Frames that know that the slot has an event, because they own a reference to it
\* or are about to return one.
Named(f) == f.at \in {"put", "dec", "destroy", "wfinal"} \/ (f.at \in RefTested /\ f.ret)

\* What a frame knows of its slot and its event.
FrameInv(p, f) ==
  /\ f.at \in AddP \cup DelP \cup CbP => f.o # NULL /\ ev[f.s] = f.o
  /\ Named(f) => ev[f.s] # NULL
  /\ f.at = "destroy" => refcount[f.s] = 0
  /\ f.at = "create" => /\ f.o # NULL /\ ev[f.s] = NULL /\ uev[f.o] = f.s /\ mem[f.o] = "live"
                        /\ kind[f.o] \in Kinds /\ f.o \notin pending_free /\ base_mut = p
  /\ f.at \in {"free", "freepend"} =>
       /\ ev[f.s] # NULL /\ ev[f.s] \in released \ pending_free /\ Frees(kind[ev[f.s]])
       /\ p # Loop => Stops(kind[ev[f.s]])
  /\ f.at = "freepend" => f.o = ev[f.s]
  /\ f.at = "tput" => /\ f.o # NULL /\ ev[f.s] \in {f.o, NULL} /\ base_mut = Loop
                      /\ "timeout" \in kind[f.o] /\ ~Stops(kind[f.o])
  /\ f.at = "tmin" => base_mut = Loop
  /\ f.at \in DelP /\ p # Loop => Stops(kind[f.o])
  /\ f.at \in AddP /\ Strict => Arms(kind[f.o])
  /\ f.at = "addref" /\ Strict => ev[f.s] # NULL /\ Arms(kind[ev[f.s]])
  /\ f.at = "addtm" => "timeout" \in kind[f.o]
  /\ f.at \in {"addfd", "addctl", "addmark", "addfdref"} => "fd" \in kind[f.o]
  /\ f.at = "addmark" \/ (f.at = "addctl" /\ ~f.ret) => f.o \notin active_fd
  /\ f.at \in AddP \cup {"cb"} => f.o \in modification_lock

\* Every frame of every thread, callers included.
FramesInv == \A p \in Threads : \A i \in DOMAIN th[p] : FrameInv(p, th[p][i])

\* A thread other than the loop that enters uevent_del has an event that is not
\* pending: the creator's reference is there, and the event is not freed unless
\* this uevent_del is part of uevent_free.
DelRefInv ==
  \A p \in Threads \ {Loop} : \A i \in DOMAIN th[p] :
    th[p][i].at = "delref" =>
      LET o == ev[th[p][i].s] IN
      /\ o # NULL /\ o \notin pending_free /\ Stops(kind[o])
      /\ Frees(kind[o]) => i > 1 /\ th[p][i - 1].at = "freepend" /\ th[p][i - 1].s = th[p][i].s

\* What at most one frame does to one slot or event: destroy it, free it, change it
\* under modification_lock.
Clash(f, g) ==
  \/ f.at = "destroy" /\ g.at = "destroy" /\ f.s = g.s
  \/ f.at \in {"free", "freepend"} /\ g.at \in {"free", "freepend"} /\ f.s = g.s
  \/ f.at \in AddP \cup {"cb"} /\ g.at \in AddP \cup {"cb"} /\ f.o = g.o

\* No two frames clash.
UniqueInv ==
  \A p, q \in Threads : \A i \in DOMAIN th[p], j \in DOMAIN th[q] :
    Clash(th[p][i], th[q][j]) => p = q /\ i = j

\* What slots, flags, heap and queue say of an event.
EventInv ==
  /\ \A s \in Slots : ev[s] # NULL => uev[ev[s]] = s /\ mem[ev[s]] = "live" /\ kind[ev[s]] \in Kinds
  /\ \A o \in pending_free : Frees(kind[o]) /\ o \in released
  /\ \A o \in released : mem[o] # "none"
  /\ \A o \in active_timer : uev[o] \in Slots /\ ev[uev[o]] = o /\ "timeout" \in kind[o] /\ ~Stops(kind[o])
  /\ \A o \in active_fd : uev[o] \in Slots /\ ev[uev[o]] = o /\ "fd" \in kind[o]
  /\ \A o \in heap : o \in active_timer \/ (At(Loop, "delheap") /\ E(Loop) = o)
  /\ \A i \in DOMAIN queue : ev[queue[i]] # NULL
  /\ ~Pooled => queue = <<>> /\ At(Worker, "wtake")

\* A descriptor in epoll has, or had, a slot.
EpollInv == reported \subseteq Slots /\ \A o \in epoll : uev[o] \in Slots

\* The stack of free slots has the slots without an event, each of them once.
FreeSlots ==
  /\ \A i, j \in DOMAIN free_uev : free_uev[i] = free_uev[j] => i = j
  /\ \A i \in DOMAIN free_uev : ev[free_uev[i]] = NULL /\ refcount[free_uev[i]] = 0
  /\ \A s \in Slots : \/ \E i \in DOMAIN free_uev : free_uev[i] = s
                      \/ ev[s] # NULL \/ \E p \in Threads : At(p, "create") /\ U(p) = s

-----------------------------------------------------------------------------
(* The stack of a thread.                                                  *)

\* The step replaces the frames of p from position m on; n frames are left.
Moves(p, m, n) ==
  /\ th' \in [Threads -> Seq(FrameType)]
  /\ \A q \in Threads \ {p} : th'[q] = th[q]
  /\ m \in Nat /\ n \in Nat /\ 0 < m /\ m <= Len(th[p]) /\ m <= n
  /\ Len(th'[p]) = n
  /\ \A i \in 1 .. m - 1 : th'[p][i] = th[p][i]

\* What Frame builds is a frame.
LEMMA FrameTyped ==
  ASSUME NEW l \in Places, NEW s \in Slots \cup {NULL}, NEW o \in Events \cup {NULL}
  PROVE  Frame(l, s, o) \in FrameType
  BY DEF Frame, FrameType

\* Front and concatenation of stacks, position by position.
LEMMA FrontFacts ==
  ASSUME NEW c \in Seq(FrameType), Len(c) > 0
  PROVE  /\ Front(c) \in Seq(FrameType) /\ Len(Front(c)) = Len(c) - 1
         /\ \A i \in 1 .. Len(c) - 1 : Front(c)[i] = c[i]
<1> DEFINE m == Len(c) - 1
<1>1. m \in Nat /\ m + 1 = Len(c)
  OBVIOUS
<1>2. Front(c) = SubSeq(c, 1, m)
  BY DEF Front
<1>3. SubSeq(c, 1, m) \in Seq(FrameType) /\ Len(SubSeq(c, 1, m)) = m
      /\ \A i \in 1 .. m : SubSeq(c, 1, m)[i] = c[i]
  BY <1>1
<1> QED
  BY <1>1, <1>2, <1>3

LEMMA ConcatFacts ==
  ASSUME NEW b \in Seq(FrameType), NEW d \in Seq(FrameType)
  PROVE  /\ b \o d \in Seq(FrameType) /\ Len(b \o d) = Len(b) + Len(d)
         /\ \A i \in 1 .. Len(b) : (b \o d)[i] = b[i]
         /\ \A i \in 1 .. Len(d) : (b \o d)[Len(b) + i] = d[i]
  OBVIOUS

\* Replace and Return as moves: the frames that end up on top.
LEMMA ReplaceOne ==
  ASSUME TypeInv, NEW p \in Threads, NEW f \in FrameType, Len(th[p]) > 0, Replace(p, <<f>>)
  PROVE  Moves(p, Len(th[p]), Len(th[p])) /\ th'[p][Len(th[p])] = f
<1> DEFINE n == Len(th[p])
<1>1. th[p] \in Seq(FrameType) /\ n \in Nat /\ n > 0
  BY DEF TypeInv
<1>2. Front(th[p]) \in Seq(FrameType) /\ Len(Front(th[p])) = n - 1
      /\ \A i \in 1 .. n - 1 : Front(th[p])[i] = th[p][i]
  BY <1>1, FrontFacts
<1> DEFINE b == Front(th[p])
           d == <<f>>
           c == b \o d
<1>3. d \in Seq(FrameType) /\ Len(d) = 1 /\ d[1] = f
  OBVIOUS
<1>4. th' = [th EXCEPT ![p] = c] /\ th \in [Threads -> Seq(FrameType)]
  BY DEF Replace, TypeInv
<1> HIDE DEF b, d
<1>5. c \in Seq(FrameType) /\ Len(c) = Len(b) + Len(d)
      /\ (\A i \in 1 .. Len(b) : c[i] = b[i]) /\ (\A i \in 1 .. Len(d) : c[Len(b) + i] = d[i])
  BY <1>2, <1>3, ConcatFacts DEF b
<1>6. Len(b) = n - 1 /\ \A i \in 1 .. n - 1 : b[i] = th[p][i]
  BY <1>2 DEF b
<1> HIDE DEF c
<1>7. c[(n - 1) + 1] = f
  BY <1>1, <1>3, <1>5, <1>6
<1> QED
  BY <1>1, <1>3, <1>4, <1>5, <1>6, <1>7 DEF Moves

LEMMA ReplaceTwo ==
  ASSUME TypeInv, NEW p \in Threads, NEW f \in FrameType, NEW g \in FrameType, Len(th[p]) > 0,
         Replace(p, <<f, g>>)
  PROVE  /\ Moves(p, Len(th[p]), Len(th[p]) + 1)
         /\ th'[p][Len(th[p])] = f /\ th'[p][Len(th[p]) + 1] = g
<1> DEFINE n == Len(th[p])
<1>1. th[p] \in Seq(FrameType) /\ n \in Nat /\ n > 0
  BY DEF TypeInv
<1>2. Front(th[p]) \in Seq(FrameType) /\ Len(Front(th[p])) = n - 1
      /\ \A i \in 1 .. n - 1 : Front(th[p])[i] = th[p][i]
  BY <1>1, FrontFacts
<1> DEFINE b == Front(th[p])
           d == <<f, g>>
           c == b \o d
<1>3. d \in Seq(FrameType) /\ Len(d) = 2 /\ d[1] = f /\ d[2] = g
  OBVIOUS
<1>4. th' = [th EXCEPT ![p] = c] /\ th \in [Threads -> Seq(FrameType)]
  BY DEF Replace, TypeInv
<1> HIDE DEF b, d
<1>5. c \in Seq(FrameType) /\ Len(c) = Len(b) + Len(d)
      /\ (\A i \in 1 .. Len(b) : c[i] = b[i]) /\ (\A i \in 1 .. Len(d) : c[Len(b) + i] = d[i])
  BY <1>2, <1>3, ConcatFacts DEF b
<1>6. Len(b) = n - 1 /\ \A i \in 1 .. n - 1 : b[i] = th[p][i]
  BY <1>2 DEF b
<1> HIDE DEF c
<1>7. c[(n - 1) + 1] = f /\ c[(n - 1) + 2] = g
  BY <1>1, <1>3, <1>5, <1>6
<1> QED
  BY <1>1, <1>3, <1>4, <1>5, <1>6, <1>7 DEF Moves

LEMMA ReplaceThree ==
  ASSUME TypeInv, NEW p \in Threads, NEW f \in FrameType, NEW g \in FrameType, NEW h \in FrameType,
         Len(th[p]) > 0, Replace(p, <<f, g, h>>)
  PROVE  /\ Moves(p, Len(th[p]), Len(th[p]) + 2)
         /\ th'[p][Len(th[p])] = f /\ th'[p][Len(th[p]) + 1] = g /\ th'[p][Len(th[p]) + 2] = h
<1> DEFINE n == Len(th[p])
<1>1. th[p] \in Seq(FrameType) /\ n \in Nat /\ n > 0
  BY DEF TypeInv
<1>2. Front(th[p]) \in Seq(FrameType) /\ Len(Front(th[p])) = n - 1
      /\ \A i \in 1 .. n - 1 : Front(th[p])[i] = th[p][i]
  BY <1>1, FrontFacts
<1> DEFINE b == Front(th[p])
           d == <<f, g, h>>
           c == b \o d
<1>3. d \in Seq(FrameType) /\ Len(d) = 3 /\ d[1] = f /\ d[2] = g /\ d[3] = h
  OBVIOUS
<1>4. th' = [th EXCEPT ![p] = c] /\ th \in [Threads -> Seq(FrameType)]
  BY DEF Replace, TypeInv
<1> HIDE DEF b, d
<1>5. c \in Seq(FrameType) /\ Len(c) = Len(b) + Len(d)
      /\ (\A i \in 1 .. Len(b) : c[i] = b[i]) /\ (\A i \in 1 .. Len(d) : c[Len(b) + i] = d[i])
  BY <1>2, <1>3, ConcatFacts DEF b
<1>6. Len(b) = n - 1 /\ \A i \in 1 .. n - 1 : b[i] = th[p][i]
  BY <1>2 DEF b
<1> HIDE DEF c
<1>7. c[(n - 1) + 1] = f /\ c[(n - 1) + 2] = g /\ c[(n - 1) + 3] = h
  BY <1>1, <1>3, <1>5, <1>6
<1>8. (n - 1) + 1 = n /\ (n - 1) + 2 = n + 1 /\ (n - 1) + 3 = n + 2 /\ (n - 1) + Len(d) = n + 2
  BY <1>1, <1>3
<1>9. c[n] = f /\ c[n + 1] = g /\ c[n + 2] = h /\ Len(c) = n + 2 /\ \A i \in 1 .. n - 1 : c[i] = th[p][i]
  BY <1>1, <1>5, <1>6, <1>7, <1>8
<1>10. th'[p] = c /\ (\A q \in Threads \ {p} : th'[q] = th[q]) /\ th' \in [Threads -> Seq(FrameType)]
  BY <1>4, <1>5
<1>11. th'[p][n] = f /\ th'[p][n + 1] = g /\ th'[p][n + 2] = h
       /\ Len(th'[p]) = n + 2 /\ \A i \in 1 .. n - 1 : th'[p][i] = th[p][i]
  BY <1>9, <1>10
<1>12. n \in Nat /\ n + 2 \in Nat /\ 0 < n /\ n <= Len(th[p]) /\ n <= n + 2
  BY <1>1
<1>13. Moves(p, n, n + 2)
  BY <1>10, <1>11, <1>12 DEF Moves
<1> QED
  BY <1>11, <1>13

LEMMA ReturnMoves ==
  ASSUME TypeInv, NEW p \in Threads, NEW v \in BOOLEAN, Len(th[p]) > 1, Return(p, v)
  PROVE  LET n == Len(th[p]) - 1 IN
         /\ Moves(p, n, n)
         /\ th'[p][n] \in FrameType
         /\ th'[p][n].at = th[p][n].at /\ th'[p][n].s = th[p][n].s /\ th'[p][n].o = th[p][n].o
         /\ th'[p][n].ret <=> v /\ th[p][n].at \in Tested
<1> DEFINE n == Len(th[p]) - 1
           f == [th[p][n] EXCEPT !.ret = v /\ th[p][n].at \in Tested]
           c == [Front(th[p]) EXCEPT ![n] = f]
<1>1. th[p] \in Seq(FrameType) /\ n \in Nat /\ n > 0 /\ n + 1 = Len(th[p])
  BY DEF TypeInv
<1>2. Front(th[p]) \in Seq(FrameType) /\ Len(Front(th[p])) = n
      /\ \A i \in 1 .. n : Front(th[p])[i] = th[p][i]
  BY <1>1, FrontFacts
<1>3. th[p][n] \in FrameType
  BY <1>1
<1>4. f \in FrameType /\ f.at = th[p][n].at /\ f.s = th[p][n].s /\ f.o = th[p][n].o
      /\ (f.ret <=> v /\ th[p][n].at \in Tested)
  BY <1>3 DEF FrameType
<1>5. th' = [th EXCEPT ![p] = c] /\ th \in [Threads -> Seq(FrameType)]
  <2>1. Back(th[p], v) = c
    BY <1>1, <1>2, SMTT(30) DEF Back
  <2> QED
    BY <2>1 DEF Return, TypeInv
<1> HIDE DEF f
<1>6. c \in Seq(FrameType) /\ Len(c) = n /\ c[n] = f /\ \A i \in 1 .. n - 1 : c[i] = th[p][i]
  BY <1>1, <1>2, <1>4
<1> HIDE DEF c
<1> QED
  BY <1>1, <1>4, <1>5, <1>6 DEF Moves

-----------------------------------------------------------------------------
(* Counting references.                                                    *)

\* What frame i of thread p owns of slot s, 0 if there is no such frame.
Share(T, p, i, s) == IF i \in DOMAIN T[p] /\ T[p][i].s = s THEN Owned(T[p][i]) ELSE 0

\* What th is a member of.
Stacks == [Threads -> Seq(FrameType)]

\* A frame owns at most two references.
LEMMA OwnedFacts ==
  ASSUME NEW f
  PROVE  Owned(f) \in {0, 1, 2}
  BY DEF Owned

\* The members of Held: a thread, a position, and the number of the reference.
LEMMA HeldMember ==
  ASSUME NEW T \in Stacks, NEW s
  PROVE  /\ \A x \in Held(T, s) : /\ x = <<x[1], <<x[2][1], x[2][2]>>>>
                                  /\ x[1] \in Threads /\ x[2][1] \in DOMAIN T[x[1]] /\ x[2][2] \in {1, 2}
         /\ \A q, i, k : <<q, <<i, k>>>> \in Held(T, s) <=>
               /\ q \in Threads /\ i \in DOMAIN T[q] /\ k \in {1, 2}
               /\ T[q][i].s = s /\ k <= Owned(T[q][i])
<1>1. ASSUME NEW x \in Held(T, s)
      PROVE  /\ x = <<x[1], <<x[2][1], x[2][2]>>>>
             /\ x[1] \in Threads /\ x[2][1] \in DOMAIN T[x[1]] /\ x[2][2] \in {1, 2}
  <2>1. PICK q \in Threads : x \in {q} \X {h \in (DOMAIN T[q]) \X {1, 2} :
                                T[q][h[1]].s = s /\ h[2] <= Owned(T[q][h[1]])}
    BY DEF Held
  <2> QED
    BY <2>1
<1>2. ASSUME NEW q, NEW i, NEW k
      PROVE  <<q, <<i, k>>>> \in Held(T, s) <=>
               /\ q \in Threads /\ i \in DOMAIN T[q] /\ k \in {1, 2}
               /\ T[q][i].s = s /\ k <= Owned(T[q][i])
  BY DEF Held
<1> QED
  BY <1>1, <1>2

\* There are finitely many.
LEMMA HeldFinite ==
  ASSUME NEW T \in Stacks, NEW s
  PROVE  IsFiniteSet(Held(T, s))
<1> DEFINE part(p) == {p} \X {h \in (DOMAIN T[p]) \X {1, 2} :
                                T[p][h[1]].s = s /\ h[2] <= Owned(T[p][h[1]])}
           parts == {part(p) : p \in Threads}
           f == [p \in Threads |-> part(p)]
<1>1. IsFiniteSet(Threads)
  <2>1. IsFiniteSet(Clients \cup {Loop})
    BY LifeAssumption, FS_AddElement
  <2>2. IsFiniteSet((Clients \cup {Loop}) \cup {Worker})
    BY <2>1, FS_AddElement
  <2>3. Threads = (Clients \cup {Loop}) \cup {Worker}
    BY DEF Threads
  <2> QED
    BY <2>2, <2>3
<1>2. IsFiniteSet(parts)
  <2>1. f \in Surjection(Threads, parts)
    BY DEF Surjection
  <2> QED
    BY <1>1, <2>1, FS_Surjection
<1>3. ASSUME NEW p \in Threads
      PROVE  IsFiniteSet(part(p))
  <2> DEFINE D == 1 .. Len(T[p])
             A == D \X {1, 2}
             B == {h \in A : T[p][h[1]].s = s /\ h[2] <= Owned(T[p][h[1]])}
  <2>1. IsFiniteSet(D) /\ DOMAIN T[p] = D
    BY FS_Interval DEF Stacks
  <2>2. IsFiniteSet({1, 2})
    <3>1. IsFiniteSet({1} \cup {2})
      BY FS_Singleton, FS_AddElement
    <3>2. {1, 2} = {1} \cup {2}
      OBVIOUS
    <3> QED
      BY <3>1, <3>2
  <2>3. IsFiniteSet(A)
    BY <2>1, <2>2, FS_Product
  <2>4. IsFiniteSet(B)
    BY <2>3, FS_Subset, B \in SUBSET A
  <2>5. IsFiniteSet({p} \X B)
    BY <2>4, FS_Singleton, FS_Product
  <2>6. part(p) = {p} \X B
    BY <2>1
  <2> QED
    BY <2>5, <2>6
<1> HIDE DEF part
<1>4. \A A \in parts : IsFiniteSet(A)
  BY <1>3
<1>5. Held(T, s) = UNION parts
  BY DEF Held, part
<1> HIDE DEF parts
<1> QED
  BY <1>2, <1>4, <1>5, FS_UNION

\* The references of one frame.
LEMMA FrameCount ==
  ASSUME NEW T \in Stacks, NEW s, NEW p \in Threads, NEW i
  PROVE  LET A == {x \in Held(T, s) : x[1] = p /\ x[2][1] = i}
         IN  IsFiniteSet(A) /\ Cardinality(A) = Share(T, p, i, s)
<1> DEFINE A == {x \in Held(T, s) : x[1] = p /\ x[2][1] = i}
           a == <<p, <<i, 1>>>>
           b == <<p, <<i, 2>>>>
<1>1. \A x \in A : x = a \/ x = b
  BY HeldMember
<1>2. /\ a \in Held(T, s) <=> i \in DOMAIN T[p] /\ T[p][i].s = s /\ 1 <= Owned(T[p][i])
      /\ b \in Held(T, s) <=> i \in DOMAIN T[p] /\ T[p][i].s = s /\ 2 <= Owned(T[p][i])
  BY HeldMember
<1>3. a # b /\ a[1] = p /\ a[2][1] = i /\ b[1] = p /\ b[2][1] = i
  OBVIOUS
<1> HIDE DEF a, b
<1>4. /\ a \in A <=> Share(T, p, i, s) \in {1, 2}
      /\ b \in A <=> Share(T, p, i, s) = 2
      /\ Share(T, p, i, s) \in {0, 1, 2}
  BY <1>2, <1>3, OwnedFacts DEF Share
<1>5. CASE Share(T, p, i, s) = 0
  <2>1. A = {}
    BY <1>1, <1>4, <1>5
  <2> QED
    BY <1>5, <2>1, FS_EmptySet
<1>6. CASE Share(T, p, i, s) = 1
  <2>1. A = {a}
    BY <1>1, <1>4, <1>6
  <2> QED
    BY <1>6, <2>1, FS_Singleton
<1>7. CASE Share(T, p, i, s) = 2
  <2>1. A = {a} \cup {b}
    BY <1>1, <1>4, <1>7
  <2>2. IsFiniteSet({a}) /\ Cardinality({a}) = 1
    BY FS_Singleton
  <2>3. b \notin {a}
    BY <1>3
  <2>4. IsFiniteSet({a} \cup {b}) /\ Cardinality({a} \cup {b}) = Cardinality({a}) + 1
    BY <2>2, <2>3, FS_AddElement
  <2> QED
    BY <1>7, <2>1, <2>2, <2>4
<1> QED
  BY <1>4, <1>5, <1>6, <1>7

\* Taking three disjoint parts away from a finite set.
LEMMA ThreeParts ==
  ASSUME NEW S, IsFiniteSet(S), NEW A, NEW B, NEW C, NEW R,
         IsFiniteSet(A), IsFiniteSet(B), IsFiniteSet(C), IsFiniteSet(R),
         S = ((R \cup A) \cup B) \cup C,
         R \cap A = {}, (R \cup A) \cap B = {}, ((R \cup A) \cup B) \cap C = {}
  PROVE  Cardinality(S) = Cardinality(R) + Cardinality(A) + Cardinality(B) + Cardinality(C)
<1>1. IsFiniteSet(R \cup A) /\ Cardinality(R \cup A) = Cardinality(R) + Cardinality(A) - Cardinality(R \cap A)
  BY FS_Union
<1>2. IsFiniteSet((R \cup A) \cup B)
      /\ Cardinality((R \cup A) \cup B)
           = Cardinality(R \cup A) + Cardinality(B) - Cardinality((R \cup A) \cap B)
  BY <1>1, FS_Union
<1>3. Cardinality(((R \cup A) \cup B) \cup C)
           = Cardinality((R \cup A) \cup B) + Cardinality(C) - Cardinality(((R \cup A) \cup B) \cap C)
  BY <1>2, FS_Union
<1>4. Cardinality({}) = 0 /\ Cardinality(R) \in Nat /\ Cardinality(A) \in Nat /\ Cardinality(B) \in Nat
      /\ Cardinality(C) \in Nat
  BY FS_EmptySet, FS_CardinalityType
<1>5. /\ Cardinality(R \cap A) = 0 /\ Cardinality((R \cup A) \cap B) = 0
      /\ Cardinality(((R \cup A) \cup B) \cap C) = 0
      /\ Cardinality(S) = Cardinality(((R \cup A) \cup B) \cup C)
  BY <1>4
<1> DEFINE x1 == Cardinality(R \cup A)
           x2 == Cardinality((R \cup A) \cup B)
<1>6. x1 = Cardinality(R) + Cardinality(A)
  BY <1>1, <1>4, <1>5
<1>7. x2 = x1 + Cardinality(B)
  BY <1>2, <1>4, <1>5, <1>6
<1>8. Cardinality(S) = x2 + Cardinality(C)
  BY <1>3, <1>4, <1>5, <1>6, <1>7
<1> HIDE DEF x1, x2
<1> QED
  BY <1>4, <1>6, <1>7, <1>8

\* Two states of the stacks that differ in three consecutive frames of one thread
\* differ in the references of these frames only.
LEMMA HeldWindow ==
  ASSUME NEW T \in Stacks, NEW V \in Stacks, NEW s, NEW p \in Threads, NEW m \in Nat,
         \A q \in Threads \ {p} : V[q] = T[q],
         \A i \in Nat \ {m, m + 1, m + 2} :
            /\ i \in DOMAIN T[p] <=> i \in DOMAIN V[p]
            /\ i \in DOMAIN T[p] => V[p][i] = T[p][i]
  PROVE  /\ Cardinality(Held(T, s)) \in Nat /\ Cardinality(Held(V, s)) \in Nat
         /\ Cardinality(Held(V, s)) = Cardinality(Held(T, s))
              + Share(V, p, m, s) + Share(V, p, m + 1, s) + Share(V, p, m + 2, s)
              - Share(T, p, m, s) - Share(T, p, m + 1, s) - Share(T, p, m + 2, s)
<1> DEFINE Part(X, i) == {x \in Held(X, s) : x[1] = p /\ x[2][1] = i}
           Rest(X) == {x \in Held(X, s) : ~(x[1] = p /\ x[2][1] \in {m, m + 1, m + 2})}
<1>1. ASSUME NEW X \in Stacks
      PROVE  /\ Cardinality(Held(X, s)) \in Nat /\ Cardinality(Rest(X)) \in Nat
             /\ Cardinality(Held(X, s)) = Cardinality(Rest(X))
                 + Share(X, p, m, s) + Share(X, p, m + 1, s) + Share(X, p, m + 2, s)
  <2>1. IsFiniteSet(Held(X, s))
    BY HeldFinite
  <2>2. IsFiniteSet(Rest(X))
    BY <2>1, FS_Subset, Rest(X) \in SUBSET Held(X, s)
  <2>3. \A i : IsFiniteSet(Part(X, i)) /\ Cardinality(Part(X, i)) = Share(X, p, i, s)
    BY FrameCount
  <2>4. /\ Held(X, s) = ((Rest(X) \cup Part(X, m)) \cup Part(X, m + 1)) \cup Part(X, m + 2)
        /\ Rest(X) \cap Part(X, m) = {}
        /\ (Rest(X) \cup Part(X, m)) \cap Part(X, m + 1) = {}
        /\ ((Rest(X) \cup Part(X, m)) \cup Part(X, m + 1)) \cap Part(X, m + 2) = {}
    <3>1. m # m + 1 /\ m # m + 2 /\ m + 1 # m + 2
      OBVIOUS
    <3> QED
      BY <3>1
  <2> HIDE DEF Rest, Part
  <2>5. Cardinality(Held(X, s)) = Cardinality(Rest(X)) + Cardinality(Part(X, m))
          + Cardinality(Part(X, m + 1)) + Cardinality(Part(X, m + 2))
    BY <2>1, <2>2, <2>3, <2>4, ThreeParts, SMTT(30)
  <2> QED
    BY <2>1, <2>2, <2>3, <2>5, FS_CardinalityType
<1>2. Rest(V) = Rest(T)
  <2>1. ASSUME NEW q \in Threads, NEW i \in Nat, ~(q = p /\ i \in {m, m + 1, m + 2}), NEW k
        PROVE  <<q, <<i, k>>>> \in Held(T, s) <=> <<q, <<i, k>>>> \in Held(V, s)
    <3>1. /\ i \in DOMAIN T[q] <=> i \in DOMAIN V[q]
          /\ i \in DOMAIN T[q] => V[q][i] = T[q][i]
      BY <2>1
    <3> QED
      BY <3>1, HeldMember
  <2>2. \A q \in Threads : DOMAIN T[q] \subseteq Nat /\ DOMAIN V[q] \subseteq Nat
    BY DEF Stacks
  <2>3. ASSUME NEW x \in Rest(T)
        PROVE  x \in Rest(V)
    <3>1. x \in Held(T, s) /\ x = <<x[1], <<x[2][1], x[2][2]>>>> /\ x[1] \in Threads
          /\ x[2][1] \in DOMAIN T[x[1]]
      BY HeldMember
    <3>2. <<x[1], <<x[2][1], x[2][2]>>>> \in Held(V, s)
      BY <2>1, <2>2, <3>1
    <3> QED
      BY <3>1, <3>2
  <2>4. ASSUME NEW x \in Rest(V)
        PROVE  x \in Rest(T)
    <3>1. x \in Held(V, s) /\ x = <<x[1], <<x[2][1], x[2][2]>>>> /\ x[1] \in Threads
          /\ x[2][1] \in DOMAIN V[x[1]]
      BY HeldMember
    <3>2. <<x[1], <<x[2][1], x[2][2]>>>> \in Held(T, s)
      BY <2>1, <2>2, <3>1
    <3> QED
      BY <3>1, <3>2
  <2> QED
    BY <2>3, <2>4
<1> HIDE DEF Rest
<1>3. \A X \in Stacks : \A i : Share(X, p, i, s) \in Nat
  BY OwnedFacts DEF Share
<1> QED
  BY <1>1, <1>2, <1>3

\* What a frame owns of slot s.
Worth(f, s) == IF f.s = s THEN Owned(f) ELSE 0

\* Owned, place by place.
LEMMA WorthFacts ==
  ASSUME NEW f
  PROVE  /\ f.at \in {"delctl", "delheap"} => Owned(f) = 2
         /\ f.at \in {"refchk", "refundo", "put", "dec", "create", "addchk", "addfd",
                      "addctl", "addmark", "addtm", "addend", "delfd", "deltm",
                      "cblock", "cb", "wfinal"} => Owned(f) = 1
         /\ f.at \in RefTested => Owned(f) = (IF f.ret THEN 1 ELSE 0)
         /\ f.at \in {"idle", "wtake", "ref", "destroy", "addfdref", "free", "freepend", "wait", "tlock",
                      "tmin", "tput", "tcb", "epoll", "eptest", "epauto"} => Owned(f) = 0
         /\ \A s : Worth(f, s) \in {0, 1, 2}
  BY OwnedFacts DEF Owned, RefTested, Tested, Worth

\* A move that touches up to three frames changes the count by what they own.
LEMMA MoveCount ==
  ASSUME TypeInv, NEW p \in Threads, NEW m, NEW n, Moves(p, m, n),
         Len(th[p]) <= m + 2, n <= m + 2, NEW s
  PROVE  /\ Cardinality(Held(th, s)) \in Nat /\ Cardinality(Held(th', s)) \in Nat
         /\ Cardinality(Held(th', s)) = Cardinality(Held(th, s))
              + Share(th', p, m, s) + Share(th', p, m + 1, s) + Share(th', p, m + 2, s)
              - Share(th, p, m, s) - Share(th, p, m + 1, s) - Share(th, p, m + 2, s)
<1>1. th \in Stacks /\ th' \in Stacks /\ m \in Nat /\ n \in Nat /\ 0 < m
  BY DEF TypeInv, Moves, Stacks
<1>2. \A i \in Nat \ {m, m + 1, m + 2} :
            /\ i \in DOMAIN th[p] <=> i \in DOMAIN th'[p]
            /\ i \in DOMAIN th[p] => th'[p][i] = th[p][i]
  <2>1. th[p] \in Seq(FrameType) /\ th'[p] \in Seq(FrameType)
    BY <1>1 DEF Stacks
  <2>2. DOMAIN th[p] = 1 .. Len(th[p]) /\ DOMAIN th'[p] = 1 .. n /\ Len(th[p]) \in Nat
    BY <2>1 DEF Moves
  <2>3. m <= Len(th[p]) /\ m <= n /\ \A i \in 1 .. m - 1 : th'[p][i] = th[p][i]
    BY DEF Moves
  <2> QED
    BY <1>1, <2>2, <2>3
<1>3. \A q \in Threads \ {p} : th'[q] = th[q]
  BY DEF Moves
<1> QED
  BY <1>1, <1>2, <1>3, HeldWindow, ZenonT(40)

\* Share is Worth inside the stack.
LEMMA ShareFacts ==
  ASSUME NEW T \in Stacks, NEW p \in Threads, NEW i \in Nat, NEW s
  PROVE  /\ i \in 1 .. Len(T[p]) => Share(T, p, i, s) = Worth(T[p][i], s)
         /\ i \notin 1 .. Len(T[p]) => Share(T, p, i, s) = 0
  BY DEF Share, Worth, Stacks

\* The references after the last frame is replaced by one, two or three, and after a
\* return.
LEMMA CountOne ==
  ASSUME TypeInv, NEW p \in Threads, Moves(p, Len(th[p]), Len(th[p])), NEW s
  PROVE  LET n == Len(th[p]) IN
         /\ Cardinality(Held(th, s)) \in Nat /\ Cardinality(Held(th', s)) \in Nat
         /\ Cardinality(Held(th', s)) = Cardinality(Held(th, s)) + Worth(th'[p][n], s) - Worth(th[p][n], s)
<1> DEFINE n == Len(th[p])
<1>1. th \in Stacks /\ th' \in Stacks /\ n \in Nat /\ n > 0 /\ Len(th'[p]) = n
  BY DEF TypeInv, Moves, Stacks
<1>2. /\ Share(th, p, n, s) = Worth(th[p][n], s) /\ Share(th', p, n, s) = Worth(th'[p][n], s)
      /\ Share(th, p, n + 1, s) = 0 /\ Share(th', p, n + 1, s) = 0
      /\ Share(th, p, n + 2, s) = 0 /\ Share(th', p, n + 2, s) = 0
  BY <1>1, ShareFacts
<1>3. Worth(th[p][n], s) \in {0, 1, 2} /\ Worth(th'[p][n], s) \in {0, 1, 2}
  BY WorthFacts
<1> QED
  BY <1>1, <1>2, <1>3, MoveCount

\* A call: one frame becomes two.
LEMMA CountTwo ==
  ASSUME TypeInv, NEW p \in Threads, Moves(p, Len(th[p]), Len(th[p]) + 1), NEW s
  PROVE  LET n == Len(th[p]) IN
         /\ Cardinality(Held(th, s)) \in Nat /\ Cardinality(Held(th', s)) \in Nat
         /\ Cardinality(Held(th', s)) = Cardinality(Held(th, s))
              + Worth(th'[p][n], s) + Worth(th'[p][n + 1], s) - Worth(th[p][n], s)
<1> DEFINE n == Len(th[p])
<1>1. th \in Stacks /\ th' \in Stacks /\ n \in Nat /\ n > 0 /\ Len(th'[p]) = n + 1
  BY DEF TypeInv, Moves, Stacks
<1>2. /\ Share(th, p, n, s) = Worth(th[p][n], s) /\ Share(th', p, n, s) = Worth(th'[p][n], s)
      /\ Share(th, p, n + 1, s) = 0 /\ Share(th', p, n + 1, s) = Worth(th'[p][n + 1], s)
      /\ Share(th, p, n + 2, s) = 0 /\ Share(th', p, n + 2, s) = 0
  BY <1>1, ShareFacts
<1>3. Worth(th[p][n], s) \in {0, 1, 2} /\ Worth(th'[p][n], s) \in {0, 1, 2}
      /\ Worth(th'[p][n + 1], s) \in {0, 1, 2}
  BY WorthFacts
<1>4. /\ Cardinality(Held(th, s)) \in Nat /\ Cardinality(Held(th', s)) \in Nat
      /\ Cardinality(Held(th', s)) = Cardinality(Held(th, s))
           + Share(th', p, n, s) + Share(th', p, n + 1, s) + Share(th', p, n + 2, s)
           - Share(th, p, n, s) - Share(th, p, n + 1, s) - Share(th, p, n + 2, s)
  BY <1>1, MoveCount
<1> QED
  BY <1>1, <1>2, <1>3, <1>4

\* Two calls at once: one frame becomes three.
LEMMA CountThree ==
  ASSUME TypeInv, NEW p \in Threads, Moves(p, Len(th[p]), Len(th[p]) + 2), NEW s
  PROVE  LET n == Len(th[p]) IN
         /\ Cardinality(Held(th, s)) \in Nat /\ Cardinality(Held(th', s)) \in Nat
         /\ Cardinality(Held(th', s)) = Cardinality(Held(th, s))
              + Worth(th'[p][n], s) + Worth(th'[p][n + 1], s) + Worth(th'[p][n + 2], s)
              - Worth(th[p][n], s)
<1> DEFINE n == Len(th[p])
<1>1. th \in Stacks /\ th' \in Stacks /\ n \in Nat /\ n > 0 /\ Len(th'[p]) = n + 2
  BY DEF TypeInv, Moves, Stacks
<1>2. /\ Share(th, p, n, s) = Worth(th[p][n], s) /\ Share(th', p, n, s) = Worth(th'[p][n], s)
      /\ Share(th, p, n + 1, s) = 0 /\ Share(th', p, n + 1, s) = Worth(th'[p][n + 1], s)
      /\ Share(th, p, n + 2, s) = 0 /\ Share(th', p, n + 2, s) = Worth(th'[p][n + 2], s)
  BY <1>1, ShareFacts
<1>3. Worth(th[p][n], s) \in {0, 1, 2} /\ Worth(th'[p][n], s) \in {0, 1, 2}
      /\ Worth(th'[p][n + 1], s) \in {0, 1, 2} /\ Worth(th'[p][n + 2], s) \in {0, 1, 2}
  BY WorthFacts
<1> QED
  BY <1>1, <1>2, <1>3, MoveCount, SMTT(30)

\* A return: the last frame goes, the caller takes the result.
LEMMA CountReturn ==
  ASSUME TypeInv, NEW p \in Threads, Len(th[p]) > 1,
         Moves(p, Len(th[p]) - 1, Len(th[p]) - 1), NEW s
  PROVE  LET n == Len(th[p]) IN
         /\ Cardinality(Held(th, s)) \in Nat /\ Cardinality(Held(th', s)) \in Nat
         /\ Cardinality(Held(th', s)) = Cardinality(Held(th, s))
              + Worth(th'[p][n - 1], s) - Worth(th[p][n - 1], s) - Worth(th[p][n], s)
<1> DEFINE m == Len(th[p]) - 1
<1>1. th \in Stacks /\ th' \in Stacks /\ m \in Nat /\ m > 0 /\ Len(th'[p]) = m
      /\ Len(th[p]) = m + 1
  BY DEF TypeInv, Moves, Stacks
<1>2. /\ Share(th, p, m, s) = Worth(th[p][m], s) /\ Share(th', p, m, s) = Worth(th'[p][m], s)
      /\ Share(th, p, m + 1, s) = Worth(th[p][m + 1], s) /\ Share(th', p, m + 1, s) = 0
      /\ Share(th, p, m + 2, s) = 0 /\ Share(th', p, m + 2, s) = 0
  BY <1>1, ShareFacts
<1>3. Worth(th[p][m], s) \in {0, 1, 2} /\ Worth(th'[p][m], s) \in {0, 1, 2}
      /\ Worth(th[p][m + 1], s) \in {0, 1, 2}
  BY WorthFacts
<1>4. /\ Cardinality(Held(th, s)) \in Nat /\ Cardinality(Held(th', s)) \in Nat
      /\ Cardinality(Held(th', s)) = Cardinality(Held(th, s))
           + Share(th', p, m, s) + Share(th', p, m + 1, s) + Share(th', p, m + 2, s)
           - Share(th, p, m, s) - Share(th, p, m + 1, s) - Share(th, p, m + 2, s)
  BY <1>1, MoveCount
<1> QED
  BY <1>1, <1>2, <1>3, <1>4

\* The positions of the queue that hold slot s: a task owns a reference.
Queued(q, s) == {i \in DOMAIN q : q[i] = s}

\* They are finitely many; pushing and popping change their number by one.
LEMMA QueuedFinite ==
  ASSUME NEW q \in Seq(Slots), NEW s
  PROVE  IsFiniteSet(Queued(q, s)) /\ Cardinality(Queued(q, s)) \in Nat
<1>1. DOMAIN q = 1 .. Len(q) /\ Len(q) \in Int
  OBVIOUS
<1>2. IsFiniteSet(1 .. Len(q))
  BY <1>1, FS_Interval
<1>3. IsFiniteSet(Queued(q, s))
  BY <1>1, <1>2, FS_Subset, Queued(q, s) \in SUBSET (1 .. Len(q)) DEF Queued
<1> QED
  BY <1>3, FS_CardinalityType

LEMMA QueuedAppend ==
  ASSUME NEW q \in Seq(Slots), NEW t \in Slots, NEW s
  PROVE  Cardinality(Queued(Append(q, t), s)) = Cardinality(Queued(q, s)) + (IF t = s THEN 1 ELSE 0)
<1> DEFINE n == Len(q) + 1
<1>1. n \in Nat /\ DOMAIN q = 1 .. n - 1 /\ DOMAIN Append(q, t) = 1 .. n /\ Append(q, t)[n] = t
      /\ \A i \in 1 .. n - 1 : Append(q, t)[i] = q[i]
  OBVIOUS
<1>2. CASE t = s
  <2>1. Queued(Append(q, t), s) = Queued(q, s) \cup {n} /\ n \notin Queued(q, s)
    BY <1>1, <1>2 DEF Queued
  <2> QED
    BY <1>2, <2>1, QueuedFinite, FS_AddElement
<1>3. CASE t # s
  <2>1. Queued(Append(q, t), s) = Queued(q, s)
    BY <1>1, <1>3 DEF Queued
  <2> QED
    BY <1>3, <2>1, QueuedFinite
<1> QED
  BY <1>2, <1>3

LEMMA QueuedTail ==
  ASSUME NEW q \in Seq(Slots), q # <<>>, NEW s
  PROVE  /\ Tail(q) \in Seq(Slots) /\ Head(q) \in Slots
         /\ \A i \in DOMAIN Tail(q) : \E j \in DOMAIN q : Tail(q)[i] = q[j]
         /\ \E j \in DOMAIN q : q[j] = Head(q)
         /\ Cardinality(Queued(Tail(q), s)) = Cardinality(Queued(q, s)) - (IF Head(q) = s THEN 1 ELSE 0)
<1> DEFINE n == Len(q)
           r == Tail(q)
<1>1. /\ n \in Nat /\ n > 0 /\ DOMAIN q = 1 .. n /\ r \in Seq(Slots) /\ DOMAIN r = 1 .. n - 1
      /\ Head(q) = q[1] /\ q[1] \in Slots /\ \A i \in 1 .. n - 1 : r[i] = q[i + 1]
  OBVIOUS
<1> HIDE DEF r
<1> DEFINE A == Queued(r, s)
           B == Queued(q, s) \ {1}
           f == [i \in A |-> i + 1]
<1>2. f \in Bijection(A, B)
  <2>1. \A i \in A : i + 1 \in B
    BY <1>1 DEF Queued
  <2>2. \A j \in B : j - 1 \in A /\ (j - 1) + 1 = j
    BY <1>1 DEF Queued
  <2>3. A \subseteq Nat
    BY <1>1 DEF Queued
  <2> HIDE DEF A, B
  <2>4. f \in [A -> B]
    BY <2>1
  <2>5. \A j \in B : \E i \in A : f[i] = j
    BY <2>2
  <2>6. \A i, j \in A : f[i] = f[j] => i = j
    BY <2>3
  <2> QED
    BY <2>4, <2>5, <2>6 DEF Bijection, Injection, Surjection, IsInjective
<1>3. IsFiniteSet(A) /\ Cardinality(A) = Cardinality(B)
  <2>1. IsFiniteSet(A)
    BY <1>1, QueuedFinite
  <2>2. ExistsBijection(A, B)
    BY <1>2 DEF ExistsBijection
  <2> QED
    BY <2>1, <2>2, FS_Bijection
<1>4. Cardinality(B) = (IF 1 \in Queued(q, s) THEN Cardinality(Queued(q, s)) - 1 ELSE Cardinality(Queued(q, s)))
  BY QueuedFinite, FS_RemoveElement
<1>5. 1 \in Queued(q, s) <=> Head(q) = s
  BY <1>1 DEF Queued
<1>6. Cardinality(Queued(q, s)) \in Nat
  BY QueuedFinite
<1> QED
  BY <1>1, <1>3, <1>4, <1>5, <1>6 DEF r

\* The terms of References.
LEMMA ReferenceTerms ==
  ASSUME TypeInv, NEW s \in Slots
  PROVE  /\ References(s) = One(ev[s] # NULL /\ ev[s] \notin pending_free)
              + One(ev[s] \in active_timer) + One(ev[s] \in active_fd)
              + Cardinality(Queued(queue, s)) + Cardinality(Held(th, s))
         /\ Cardinality(Queued(queue, s)) \in Nat /\ Cardinality(Held(th, s)) \in Nat
<1>1. queue \in Seq(Slots) /\ th \in Stacks
  BY DEF TypeInv, Stacks
<1>2. IsFiniteSet(Held(th, s))
  BY <1>1, HeldFinite
<1> QED
  BY <1>1, <1>2, QueuedFinite, FS_CardinalityType DEF References, Queued

\* Whoever has a reference knows that the count is not zero.
LEMMA Positive ==
  ASSUME TypeInv, RefExact, NEW s \in Slots
  PROVE  /\ refcount[s] \in Nat
         /\ ev[s] # NULL /\ ev[s] \notin pending_free => refcount[s] >= 1
         /\ ev[s] \in active_timer \cup active_fd => refcount[s] >= 1
         /\ \A i \in DOMAIN queue : queue[i] = s => refcount[s] >= 1
         /\ \A p \in Threads : \A i \in DOMAIN th[p] : th[p][i].s = s => refcount[s] >= Owned(th[p][i])
<1>1. refcount[s] = References(s)
  BY DEF RefExact
<1>2. queue \in Seq(Slots) /\ th \in Stacks
  BY DEF TypeInv, Stacks
<1>3. ASSUME NEW i \in DOMAIN queue, queue[i] = s
      PROVE  Cardinality(Queued(queue, s)) >= 1
  <2>1. Queued(queue, s) # {}
    BY <1>3 DEF Queued
  <2> QED
    BY <1>2, <2>1, QueuedFinite, FS_EmptySet
<1>4. ASSUME NEW p \in Threads, NEW i \in DOMAIN th[p], th[p][i].s = s
      PROVE  Cardinality(Held(th, s)) >= Owned(th[p][i])
  <2> DEFINE A == {x \in Held(th, s) : x[1] = p /\ x[2][1] = i}
  <2>1. Cardinality(A) = Share(th, p, i, s)
    BY <1>2, FrameCount
  <2>2. Share(th, p, i, s) = Owned(th[p][i])
    BY <1>4 DEF Share
  <2>3. Cardinality(A) <= Cardinality(Held(th, s))
    BY <1>2, HeldFinite, FS_Subset, A \in SUBSET Held(th, s)
  <2> HIDE DEF A
  <2>4. Owned(th[p][i]) \in Nat
    BY OwnedFacts
  <2> QED
    BY <2>1, <2>2, <2>3, <2>4, ReferenceTerms
<1>6. /\ One(ev[s] # NULL /\ ev[s] \notin pending_free) \in {0, 1}
      /\ One(ev[s] \in active_timer) \in {0, 1} /\ One(ev[s] \in active_fd) \in {0, 1}
      /\ ev[s] # NULL /\ ev[s] \notin pending_free => One(ev[s] # NULL /\ ev[s] \notin pending_free) = 1
      /\ ev[s] \in active_timer => One(ev[s] \in active_timer) = 1
      /\ ev[s] \in active_fd => One(ev[s] \in active_fd) = 1
  BY DEF One
<1>7. \A p \in Threads : \A i : Owned(th[p][i]) \in Nat
  BY OwnedFacts
<1> QED
  BY <1>1, <1>3, <1>4, <1>6, <1>7, ReferenceTerms

-----------------------------------------------------------------------------
(* The shape of the stacks.                                                *)

\* A place that may stand wherever the other stood.
Follows(p, a, b) ==
  /\ \A l : a \in Above(l) => b \in Above(l)
  /\ a \in Ground(p) => b \in Ground(p)

\* ShapeInv, frame by frame and stack by stack.
FrameShape(f) ==
  /\ f.at \notin Unslotted => f.s \in Slots
  /\ f.ret => f.at \in Tested \cup {"addctl"}

StackShape(p, c) ==
  /\ Len(c) > 0 /\ c[1].at \in Ground(p)
  /\ \A i \in 1 .. Len(c) - 1 :
       /\ c[i + 1].at \in Above(c[i].at)
       /\ c[i].at \in RefTested => c[i + 1].s = c[i].s
       /\ ~c[i].ret
  /\ \A i \in DOMAIN c : FrameShape(c[i])

\* ShapeInv says that every stack has this shape.
LEMMA ShapeIsStackShape ==
  ShapeInv <=> \A p \in Threads : StackShape(p, th[p])
  BY DEF ShapeInv, StackShape, FrameShape

\* Callers of uevent_try_ref are only below its frames.
LEMMA AboveTested ==
  ASSUME NEW l \in RefTested
  PROVE  Above(l) = RefP
  BY DEF Above, RefTested, Tested

\* Replacing the last frame.
LEMMA ShapeOne ==
  ASSUME NEW p, NEW c \in Seq(FrameType), StackShape(p, c), p \in Threads,
         NEW d \in Seq(FrameType), Len(d) = Len(c), \A i \in 1 .. Len(c) - 1 : d[i] = c[i],
         Follows(p, c[Len(c)].at, d[Len(c)].at), d[Len(c)].s = c[Len(c)].s \/ c[Len(c)].at \notin RefP,
         FrameShape(d[Len(c)])
  PROVE  StackShape(p, d)
<1> DEFINE n == Len(c)
<1>1. /\ n \in Nat /\ n > 0 /\ DOMAIN c = 1 .. n /\ DOMAIN d = 1 .. n /\ Len(d) = n /\ Len(c) = n
      /\ \A i \in 1 .. n - 1 : d[i] = c[i]
      /\ Follows(p, c[n].at, d[n].at) /\ (d[n].s = c[n].s \/ c[n].at \notin RefP) /\ FrameShape(d[n])
  BY DEF StackShape
<1> HIDE DEF n
<1>2. d[1].at \in Ground(p)
  BY <1>1 DEF StackShape, Follows
<1>3. ASSUME NEW i \in 1 .. n - 1
      PROVE  /\ d[i + 1].at \in Above(d[i].at)
             /\ d[i].at \in RefTested => d[i + 1].s = d[i].s
             /\ ~d[i].ret
  <2>1. d[i] = c[i] /\ ~c[i].ret /\ c[i + 1].at \in Above(c[i].at)
        /\ (c[i].at \in RefTested => c[i + 1].s = c[i].s)
    BY <1>1 DEF StackShape
  <2>2. CASE i + 1 = n
    <3>1. c[i].at \in RefTested => c[n].at \in RefP
      BY <2>1, <2>2, AboveTested
    <3>2. c[n].at \in Above(c[i].at) /\ (c[i].at \in RefTested => c[n].s = c[i].s)
      BY <2>1, <2>2
    <3>3. d[n].at \in Above(c[i].at)
      BY <1>1, <3>2 DEF Follows
    <3>4. c[i].at \in RefTested => d[n].s = c[i].s
      BY <1>1, <3>1, <3>2
    <3> QED
      BY <2>1, <2>2, <3>3, <3>4
  <2>3. CASE i + 1 # n
    <3>1. i + 1 \in 1 .. n - 1
      BY <1>1, <2>3
    <3>2. d[i + 1] = c[i + 1]
      BY <1>1, <3>1
    <3> QED
      BY <2>1, <3>2
  <2> QED
    BY <2>2, <2>3
<1>4. \A i \in 1 .. n : FrameShape(d[i])
  <2>1. \A i \in 1 .. n - 1 : FrameShape(d[i])
    BY <1>1 DEF StackShape
  <2> QED
    BY <1>1, <2>1
<1> QED
  BY <1>1, <1>2, <1>3, <1>4 DEF StackShape

\* Putting a frame on top.
LEMMA ShapePush ==
  ASSUME NEW p, NEW c \in Seq(FrameType), StackShape(p, c),
         NEW d \in Seq(FrameType), Len(d) = Len(c) + 1, \A i \in 1 .. Len(c) : d[i] = c[i],
         ~c[Len(c)].ret, d[Len(c) + 1].at \in Above(c[Len(c)].at),
         c[Len(c)].at \in RefTested => d[Len(c) + 1].s = c[Len(c)].s, FrameShape(d[Len(c) + 1])
  PROVE  StackShape(p, d)
<1> DEFINE n == Len(c)
<1>1. n \in Nat /\ n > 0 /\ DOMAIN c = 1 .. n /\ DOMAIN d = 1 .. n + 1 /\ Len(d) = n + 1 /\ d[1] = c[1]
  BY DEF StackShape
<1>3. ASSUME NEW i \in 1 .. n
      PROVE  /\ d[i + 1].at \in Above(d[i].at)
             /\ d[i].at \in RefTested => d[i + 1].s = d[i].s
             /\ ~d[i].ret
  <2>2. CASE i = n
    BY <1>1, <2>2
  <2>3. CASE i # n
    <3>1. i \in 1 .. n - 1 /\ d[i + 1] = c[i + 1] /\ d[i] = c[i]
      BY <1>1, <2>3
    <3> QED
      BY <3>1 DEF StackShape
  <2> QED
    BY <2>2, <2>3
<1>4. \A i \in 1 .. n + 1 : FrameShape(d[i])
  <2>1. \A i \in 1 .. n : FrameShape(d[i])
    BY <1>1 DEF StackShape
  <2> QED
    BY <1>1, <2>1
<1> QED
  BY <1>1, <1>3, <1>4 DEF StackShape

\* Taking the last frame away.
LEMMA ShapePop ==
  ASSUME NEW p, NEW c \in Seq(FrameType), StackShape(p, c), Len(c) > 1,
         NEW d \in Seq(FrameType), Len(d) = Len(c) - 1, \A i \in 1 .. Len(c) - 2 : d[i] = c[i],
         d[Len(c) - 1].at = c[Len(c) - 1].at, d[Len(c) - 1].s = c[Len(c) - 1].s,
         d[Len(c) - 1].ret => d[Len(c) - 1].at \in Tested
  PROVE  StackShape(p, d)
<1> DEFINE n == Len(c) - 1
<1>1. n \in Nat /\ n > 0 /\ DOMAIN c = 1 .. n + 1 /\ DOMAIN d = 1 .. n /\ Len(d) = n /\ d[1].at = c[1].at
      /\ \A i \in 1 .. n - 1 : d[i] = c[i]
  BY DEF StackShape
<1>3. ASSUME NEW i \in 1 .. n - 1
      PROVE  /\ d[i + 1].at \in Above(d[i].at)
             /\ d[i].at \in RefTested => d[i + 1].s = d[i].s
             /\ ~d[i].ret
  <2>1. d[i] = c[i] /\ d[i + 1].at = c[i + 1].at /\ d[i + 1].s = c[i + 1].s
    BY <1>1
  <2> QED
    BY <1>1, <2>1 DEF StackShape
<1>4. \A i \in 1 .. n : FrameShape(d[i])
  <2>1. \A i \in 1 .. n - 1 : FrameShape(d[i])
    BY <1>1 DEF StackShape
  <2>2. FrameShape(c[n])
    BY <1>1 DEF StackShape
  <2>3. FrameShape(d[n])
    BY <2>2 DEF FrameShape
  <2> QED
    BY <1>1, <2>1, <2>3
<1> QED
  BY <1>1, <1>3, <1>4 DEF StackShape

\* The last frame, and the one below it if the place is not one a thread starts from.
LEMMA TopFacts ==
  ASSUME TypeInv, ShapeInv, NEW p \in Threads
  PROVE  LET n == Len(th[p]) IN
         /\ n \in Nat /\ n > 0 /\ th[p] \in Seq(FrameType) /\ DOMAIN th[p] = 1 .. n
         /\ Top(p) = th[p][n] /\ Top(p) \in FrameType /\ FrameShape(Top(p))
         /\ U(p) = Top(p).s /\ E(p) = Top(p).o /\ Returned(p) = Top(p).ret
         /\ Top(p).at \notin Ground(p) =>
              /\ n > 1 /\ Top(p).at \in Above(th[p][n - 1].at) /\ ~th[p][n - 1].ret
              /\ th[p][n - 1] \in FrameType /\ FrameShape(th[p][n - 1])
              /\ th[p][n - 1].at \in RefTested => U(p) = th[p][n - 1].s
<1> DEFINE n == Len(th[p])
<1>1. th[p] \in Seq(FrameType) /\ n \in Nat /\ DOMAIN th[p] = 1 .. n /\ StackShape(p, th[p])
  BY ShapeIsStackShape DEF TypeInv
<1>2. n > 0
  BY <1>1 DEF StackShape
<1>3. Top(p) = th[p][n] /\ Top(p) \in FrameType /\ FrameShape(Top(p))
  BY <1>1, <1>2 DEF Top, Last, StackShape
<1>4. ASSUME Top(p).at \notin Ground(p)
      PROVE  /\ n > 1 /\ Top(p).at \in Above(th[p][n - 1].at) /\ ~th[p][n - 1].ret
             /\ th[p][n - 1] \in FrameType /\ FrameShape(th[p][n - 1])
             /\ th[p][n - 1].at \in RefTested => U(p) = th[p][n - 1].s
  <2>1. n > 1
    BY <1>1, <1>2, <1>3, <1>4 DEF StackShape
  <2> DEFINE i == n - 1
  <2>2. i \in 1 .. n - 1 /\ i + 1 = n /\ i \in 1 .. n
    BY <1>1, <2>1
  <2>a. /\ \A j \in 1 .. n - 1 : /\ th[p][j + 1].at \in Above(th[p][j].at) /\ ~th[p][j].ret
                                 /\ th[p][j].at \in RefTested => th[p][j + 1].s = th[p][j].s
        /\ \A j \in 1 .. n : FrameShape(th[p][j]) /\ th[p][j] \in FrameType
    BY <1>1 DEF StackShape
  <2> HIDE DEF i
  <2>3. /\ th[p][i + 1].at \in Above(th[p][i].at) /\ ~th[p][i].ret
        /\ th[p][i].at \in RefTested => th[p][i + 1].s = th[p][i].s
        /\ FrameShape(th[p][i]) /\ th[p][i] \in FrameType
    BY <2>2, <2>a
  <2> QED
    BY <1>3, <2>1, <2>2, <2>3 DEF U, i
<1> QED
  BY <1>1, <1>2, <1>3, <1>4 DEF U, E, Returned

\* The threads that do not move keep their shape.
LEMMA ShapeOthers ==
  ASSUME TypeInv, ShapeInv, NEW p \in Threads, NEW m, NEW n, Moves(p, m, n), StackShape(p, th'[p])
  PROVE  ShapeInv'
<1>1. \A q \in Threads : StackShape(q, th'[q])
  BY ShapeIsStackShape DEF Moves
<1> QED
  BY <1>1 DEF ShapeInv, StackShape, FrameShape

\* The four ways to move a thread keep the shape of its stack.
LEMMA StepOne ==
  ASSUME TypeInv, ShapeInv, NEW p \in Threads, NEW g \in FrameType, Replace(p, <<g>>),
         Follows(p, Top(p).at, g.at), g.s = U(p) \/ Top(p).at \notin RefP, FrameShape(g)
  PROVE  LET n == Len(th[p]) IN
         /\ Moves(p, n, n) /\ th'[p][n] = g /\ ShapeInv'
<1> DEFINE n == Len(th[p])
<1>1. n \in Nat /\ n > 0 /\ th[p] \in Seq(FrameType) /\ Top(p) = th[p][n] /\ U(p) = th[p][n].s
  BY TopFacts
<1>2. Moves(p, n, n) /\ th'[p][n] = g
  BY <1>1, ReplaceOne
<1>3. th'[p] \in Seq(FrameType) /\ Len(th'[p]) = n /\ \A i \in 1 .. n - 1 : th'[p][i] = th[p][i]
  BY <1>2 DEF Moves
<1>4. StackShape(p, th[p])
  BY ShapeIsStackShape
<1>5. StackShape(p, th'[p])
  BY <1>1, <1>2, <1>3, <1>4, ShapeOne
<1> QED
  BY <1>2, <1>5, ShapeOthers

LEMMA StepTwo ==
  ASSUME TypeInv, ShapeInv, NEW p \in Threads, NEW g \in FrameType, NEW h \in FrameType,
         Replace(p, <<g, h>>), Follows(p, Top(p).at, g.at), g.s = U(p) \/ Top(p).at \notin RefP,
         FrameShape(g), ~g.ret, h.at \in Above(g.at), g.at \in RefTested => h.s = g.s, FrameShape(h)
  PROVE  LET n == Len(th[p]) IN
         /\ Moves(p, n, n + 1) /\ th'[p][n] = g /\ th'[p][n + 1] = h /\ ShapeInv'
<1> DEFINE n == Len(th[p])
           c == SubSeq(th'[p], 1, n)
<1>1. n \in Nat /\ n > 0 /\ th[p] \in Seq(FrameType) /\ Top(p) = th[p][n] /\ U(p) = th[p][n].s
  BY TopFacts
<1>2. Moves(p, n, n + 1) /\ th'[p][n] = g /\ th'[p][n + 1] = h
  BY <1>1, ReplaceTwo
<1>3. th'[p] \in Seq(FrameType) /\ Len(th'[p]) = n + 1 /\ \A i \in 1 .. n - 1 : th'[p][i] = th[p][i]
  BY <1>2 DEF Moves
<1>4. StackShape(p, th[p])
  BY ShapeIsStackShape
<1>5. c \in Seq(FrameType) /\ Len(c) = n /\ \A i \in 1 .. n : c[i] = th'[p][i]
  BY <1>1, <1>3
<1> HIDE DEF c
<1>6. c[n] = g /\ \A i \in 1 .. n - 1 : c[i] = th[p][i]
  <2>1. n \in 1 .. n /\ \A i \in 1 .. n - 1 : i \in 1 .. n
    BY <1>1
  <2> QED
    BY <1>2, <1>3, <1>5, <2>1
<1>7. StackShape(p, c)
  BY <1>1, <1>4, <1>5, <1>6, ShapeOne
<1>8. StackShape(p, th'[p])
  BY <1>2, <1>3, <1>5, <1>6, <1>7, ShapePush
<1> QED
  BY <1>2, <1>8, ShapeOthers

LEMMA StepThree ==
  ASSUME TypeInv, ShapeInv, NEW p \in Threads, NEW g \in FrameType, NEW h \in FrameType, NEW k \in FrameType,
         Replace(p, <<g, h, k>>), Follows(p, Top(p).at, g.at), g.s = U(p) \/ Top(p).at \notin RefP,
         FrameShape(g), ~g.ret, h.at \in Above(g.at), g.at \in RefTested => h.s = g.s, FrameShape(h),
         ~h.ret, k.at \in Above(h.at), h.at \in RefTested => k.s = h.s, FrameShape(k)
  PROVE  LET n == Len(th[p]) IN
         /\ Moves(p, n, n + 2) /\ th'[p][n] = g /\ th'[p][n + 1] = h /\ th'[p][n + 2] = k /\ ShapeInv'
<1> DEFINE n == Len(th[p])
           c == SubSeq(th'[p], 1, n)
           d == SubSeq(th'[p], 1, n + 1)
<1>1. n \in Nat /\ n > 0 /\ th[p] \in Seq(FrameType) /\ Top(p) = th[p][n] /\ U(p) = th[p][n].s
  BY TopFacts
<1>2. Moves(p, n, n + 2) /\ th'[p][n] = g /\ th'[p][n + 1] = h /\ th'[p][n + 2] = k
  BY <1>1, ReplaceThree
<1>3. th'[p] \in Seq(FrameType) /\ Len(th'[p]) = n + 2 /\ \A i \in 1 .. n - 1 : th'[p][i] = th[p][i]
  BY <1>2 DEF Moves
<1>4. StackShape(p, th[p])
  BY ShapeIsStackShape
<1>5. c \in Seq(FrameType) /\ Len(c) = n /\ \A i \in 1 .. n : c[i] = th'[p][i]
  BY <1>1, <1>3
<1>d. d \in Seq(FrameType) /\ Len(d) = n + 1 /\ \A i \in 1 .. n + 1 : d[i] = th'[p][i]
  BY <1>1, <1>3
<1> HIDE DEF c, d
<1>6. c[n] = g /\ \A i \in 1 .. n - 1 : c[i] = th[p][i]
  <2>1. n \in 1 .. n /\ \A i \in 1 .. n - 1 : i \in 1 .. n
    BY <1>1
  <2> QED
    BY <1>2, <1>3, <1>5, <2>1
<1>7. StackShape(p, c)
  BY <1>1, <1>4, <1>5, <1>6, ShapeOne
<1>8. d[n + 1] = h /\ \A i \in 1 .. n : d[i] = c[i]
  BY <1>1, <1>2, <1>5, <1>d
<1>9. StackShape(p, d)
  BY <1>1, <1>5, <1>6, <1>7, <1>8, <1>d, ShapePush
<1>10. \A i \in 1 .. Len(d) : th'[p][i] = d[i]
  BY <1>1, <1>d
<1>11. Len(th'[p]) = Len(d) + 1 /\ th'[p][Len(d) + 1] = k /\ d[Len(d)] = h
  BY <1>1, <1>2, <1>3, <1>8, <1>d
<1>12. StackShape(p, th'[p])
  BY <1>3, <1>9, <1>10, <1>11, <1>d, ShapePush
<1> QED
  BY <1>2, <1>12, ShapeOthers

LEMMA StepReturn ==
  ASSUME TypeInv, ShapeInv, NEW p \in Threads, NEW v \in BOOLEAN, Return(p, v), Top(p).at \notin Ground(p)
  PROVE  LET n == Len(th[p]) - 1 IN
         /\ n \in Nat /\ n > 0 /\ n + 1 = Len(th[p]) /\ Moves(p, n, n)
         /\ th'[p][n] \in FrameType
         /\ th'[p][n].at = th[p][n].at /\ th'[p][n].s = th[p][n].s /\ th'[p][n].o = th[p][n].o
         /\ th'[p][n].ret <=> v /\ th[p][n].at \in Tested
         /\ Top(p).at \in Above(th[p][n].at) /\ ~th[p][n].ret
         /\ th[p][n].at \in RefTested => U(p) = th[p][n].s
         /\ ShapeInv'
<1> DEFINE n == Len(th[p]) - 1
<1>1. /\ n \in Nat /\ n > 0 /\ n + 1 = Len(th[p]) /\ Len(th[p]) > 1 /\ th[p] \in Seq(FrameType)
      /\ Top(p).at \in Above(th[p][n].at) /\ ~th[p][n].ret
      /\ th[p][n].at \in RefTested => U(p) = th[p][n].s
  BY TopFacts
<1>2. /\ Moves(p, n, n) /\ th'[p][n] \in FrameType
      /\ th'[p][n].at = th[p][n].at /\ th'[p][n].s = th[p][n].s /\ th'[p][n].o = th[p][n].o
      /\ th'[p][n].ret <=> v /\ th[p][n].at \in Tested
  BY <1>1, ReturnMoves
<1>3. th'[p] \in Seq(FrameType) /\ Len(th'[p]) = n /\ \A i \in 1 .. n - 1 : th'[p][i] = th[p][i]
  BY <1>2 DEF Moves
<1>4. StackShape(p, th[p])
  BY ShapeIsStackShape
<1>5. Len(th[p]) - 2 = n - 1
  BY <1>1
<1>6. StackShape(p, th'[p])
  BY <1>1, <1>2, <1>3, <1>4, <1>5, ShapePop
<1> QED
  BY <1>1, <1>2, <1>6, ShapeOthers

-----------------------------------------------------------------------------
(* What a step leaves of the frames it does not touch.                     *)

\* Frames that clash with none, and frames that clash with what another did.
Quiet(f) == f.at \notin AddP \cup {"destroy", "free", "freepend", "cb"}
Inherits(g, f) ==
  /\ g.at = "destroy" => f.at = "destroy" /\ f.s = g.s
  /\ g.at \in {"free", "freepend"} => f.at \in {"free", "freepend"} /\ f.s = g.s
  /\ g.at \in AddP \cup {"cb"} => f.at \in AddP \cup {"cb"} /\ f.o = g.o

\* A frame after a move is one of the new ones or one that was there.
LEMMA MovedFrames ==
  ASSUME TypeInv, NEW p \in Threads, NEW m, NEW n, Moves(p, m, n), NEW q \in Threads, NEW i \in DOMAIN th'[q]
  PROVE  \/ q = p /\ i \in m .. n
         \/ i \in DOMAIN th[q] /\ th'[q][i] = th[q][i] /\ (q = p => i \in 1 .. m - 1)
<1>1. CASE q # p
  BY <1>1 DEF Moves
<1>2. CASE q = p
  <2>1. th'[p] \in Seq(FrameType) /\ th[p] \in Seq(FrameType)
    BY DEF Moves, TypeInv
  <2>2. DOMAIN th'[p] = 1 .. n /\ DOMAIN th[p] = 1 .. Len(th[p]) /\ Len(th[p]) \in Nat
        /\ m \in Nat /\ n \in Nat /\ 0 < m /\ m <= Len(th[p]) /\ m <= n
        /\ \A j \in 1 .. m - 1 : th'[p][j] = th[p][j]
    BY <2>1 DEF Moves
  <2> QED
    BY <1>2, <2>2
<1> QED
  BY <1>1, <1>2

\* New frames that are quiet or inherit leave UniqueInv true.
LEMMA UniqueMove ==
  ASSUME TypeInv, UniqueInv, NEW p \in Threads, NEW m, NEW n, Moves(p, m, n),
         \A i \in m .. n : Quiet(th'[p][i]) \/ (i \in DOMAIN th[p] /\ Inherits(th'[p][i], th[p][i]))
  PROVE  UniqueInv'
<1>1. ASSUME NEW q \in Threads, NEW i \in DOMAIN th'[q]
      PROVE  Quiet(th'[q][i]) \/ (i \in DOMAIN th[q] /\ Inherits(th'[q][i], th[q][i]))
  BY MovedFrames DEF Inherits
<1>2. ASSUME NEW q \in Threads, NEW r \in Threads, NEW i \in DOMAIN th'[q], NEW j \in DOMAIN th'[r],
             Clash(th'[q][i], th'[r][j])
      PROVE  q = r /\ i = j
  <2>1. ~Quiet(th'[q][i]) /\ ~Quiet(th'[r][j])
    BY <1>2 DEF Clash, Quiet
  <2>2. /\ i \in DOMAIN th[q] /\ Inherits(th'[q][i], th[q][i])
        /\ j \in DOMAIN th[r] /\ Inherits(th'[r][j], th[r][j])
    BY <1>1, <2>1
  <2>3. Clash(th[q][i], th[r][j])
    BY <1>2, <2>2 DEF Clash, Inherits
  <2> QED
    BY <2>2, <2>3 DEF UniqueInv
<1> QED
  BY <1>2 DEF UniqueInv, Clash

\* The last frame is new.
LEMMA UniqueFresh ==
  ASSUME TypeInv, UniqueInv, NEW p \in Threads, NEW m, NEW n, Moves(p, m, n),
         \A i \in m .. n - 1 : Quiet(th'[p][i]) \/ (i \in DOMAIN th[p] /\ Inherits(th'[p][i], th[p][i])),
         \A q \in Threads : \A j \in DOMAIN th[q] :
            Clash(th'[p][n], th[q][j]) \/ Clash(th[q][j], th'[p][n]) => q = p /\ j = n
  PROVE  UniqueInv'
<1>0. n \in Nat /\ m \in Nat
  BY DEF Moves
<1>1. ASSUME NEW q \in Threads, NEW i \in DOMAIN th'[q], ~(q = p /\ i = n)
      PROVE  Quiet(th'[q][i]) \/ (i \in DOMAIN th[q] /\ Inherits(th'[q][i], th[q][i]))
  <2>1. CASE q = p /\ i \in m .. n
    BY <1>0, <1>1, <2>1
  <2>2. CASE i \in DOMAIN th[q] /\ th'[q][i] = th[q][i]
    BY <2>2 DEF Inherits
  <2> QED
    BY <2>1, <2>2, MovedFrames
<1>2. ASSUME NEW q \in Threads, NEW r \in Threads, NEW i \in DOMAIN th'[q], NEW j \in DOMAIN th'[r],
             Clash(th'[q][i], th'[r][j])
      PROVE  q = r /\ i = j
  <2>1. ~Quiet(th'[q][i]) /\ ~Quiet(th'[r][j])
    BY <1>2 DEF Clash, Quiet
  <2>2. CASE ~(q = p /\ i = n) /\ ~(r = p /\ j = n)
    <3>2. /\ i \in DOMAIN th[q] /\ Inherits(th'[q][i], th[q][i])
          /\ j \in DOMAIN th[r] /\ Inherits(th'[r][j], th[r][j])
      BY <1>1, <2>1, <2>2
    <3>3. Clash(th[q][i], th[r][j])
      BY <1>2, <3>2 DEF Clash, Inherits
    <3> QED
      BY <3>2, <3>3 DEF UniqueInv
  <2>3. CASE q = p /\ i = n /\ ~(r = p /\ j = n)
    <3>2. j \in DOMAIN th[r] /\ Inherits(th'[r][j], th[r][j])
      BY <1>1, <2>1, <2>3
    <3>3. Clash(th'[p][n], th[r][j])
      BY <1>2, <2>3, <3>2 DEF Clash, Inherits
    <3> QED
      BY <2>3, <3>2, <3>3
  <2>4. CASE r = p /\ j = n /\ ~(q = p /\ i = n)
    <3>2. i \in DOMAIN th[q] /\ Inherits(th'[q][i], th[q][i])
      BY <1>1, <2>1, <2>4
    <3>3. Clash(th[q][i], th'[p][n])
      BY <1>2, <2>4, <3>2 DEF Clash, Inherits
    <3> QED
      BY <2>4, <3>2, <3>3
  <2> QED
    BY <2>2, <2>3, <2>4
<1> QED
  BY <1>2 DEF UniqueInv, Clash

\* The event that uevent_del waits for in a thread other than the loop stays with its slot
\* if it is not pending.
Steady ==
  \A q \in Threads \ {Loop} : \A i \in DOMAIN th[q] : \A s \in Slots :
    th[q][i].at = "delref" /\ th[q][i].s = s /\ ev[s] # NULL /\ ev[s] \notin pending_free =>
      ev'[s] = ev[s] /\ ev[s] \notin pending_free' /\ kind'[ev[s]] = kind[ev[s]]

\* uevent_del of a thread other than the loop: the event stays while it waits for its
\* reference, and only uevent_free calls it for an event that is freed.
DelRefOK(p, c, i) ==
  LET o == ev[c[i].s] IN
  /\ o # NULL /\ o \notin pending_free /\ Stops(kind[o])
  /\ Frees(kind[o]) => i > 1 /\ c[i - 1].at = "freepend" /\ c[i - 1].s = c[i].s

\* New frames that satisfy it leave DelRefInv true.
LEMMA DelRefMove ==
  ASSUME TypeInv, ShapeInv, DelRefInv, Steady, NEW p \in Threads, NEW m, NEW n, Moves(p, m, n),
         \A i \in m .. n : th'[p][i].at = "delref" /\ p # Loop =>
            \/ i = m /\ th[p][i].at = "delref" /\ th'[p][i].s = th[p][i].s
            \/ \A c : c = th'[p] => DelRefOK(p, c, i)'
  PROVE  DelRefInv'
<1> SUFFICES ASSUME NEW q \in Threads \ {Loop}, NEW i \in DOMAIN th'[q], th'[q][i].at = "delref"
             PROVE  LET o == ev'[th'[q][i].s] IN
                    /\ o # NULL /\ o \notin pending_free' /\ Stops(kind'[o])
                    /\ Frees(kind'[o]) => /\ i > 1 /\ th'[q][i - 1].at = "freepend"
                                          /\ th'[q][i - 1].s = th'[q][i].s
  BY DEF DelRefInv, Stops, Frees, Ops, Outside
<1>0. CASE q = p /\ i \in m .. n /\ \A c : c = th'[p] => DelRefOK(p, c, i)'
  BY <1>0 DEF DelRefOK, Stops, Frees, Ops, Outside
<1>a. CASE ~(q = p /\ i \in m .. n /\ \A c : c = th'[p] => DelRefOK(p, c, i)')
  <2>1. /\ i \in DOMAIN th[q] /\ th[q][i].at = "delref" /\ th'[q][i].s = th[q][i].s
        /\ q = p => i \in 1 .. m
    <3>1. m \in Nat /\ 0 < m /\ m <= Len(th[p]) /\ th[p] \in Seq(FrameType)
      BY DEF Moves, TypeInv
    <3> QED
      BY <1>a, <3>1, MovedFrames
  <2>2. i \in Nat /\ (i > 1 => th'[q][i - 1] = th[q][i - 1])
    <3>1. i \in Nat /\ i > 0
      BY <2>1 DEF TypeInv
    <3>2. CASE q # p
      BY <3>1, <3>2 DEF Moves
    <3>3. CASE q = p
      <4>1. m \in Nat /\ \A j \in 1 .. m - 1 : th'[p][j] = th[p][j]
        BY DEF Moves
      <4> QED
        BY <2>1, <3>1, <3>3, <4>1
    <3> QED
      BY <3>1, <3>2, <3>3
  <2>3. th[q][i].s \in Slots
    BY <2>1 DEF ShapeInv, Unslotted
  <2>4. LET o == ev[th[q][i].s] IN
        /\ o # NULL /\ o \notin pending_free /\ Stops(kind[o])
        /\ Frees(kind[o]) => i > 1 /\ th[q][i - 1].at = "freepend" /\ th[q][i - 1].s = th[q][i].s
    BY <2>1 DEF DelRefInv
  <2>5. LET o == ev[th[q][i].s] IN
        ev'[th[q][i].s] = o /\ o \notin pending_free' /\ kind'[o] = kind[o]
    BY <2>1, <2>3, <2>4 DEF Steady
  <2> QED
    BY <2>1, <2>2, <2>4, <2>5
<1> QED
  BY <1>0, <1>a

\* The frames that a step of p leaves alone still know what they knew.
FramesKept(p) ==
  \A q \in Threads : \A i \in DOMAIN th[q] : (q = p => i # Len(th[p])) =>
    \A f : f = th[q][i] => FrameInv(q, f)'

\* New frames that know what they must leave FramesInv true.
LEMMA FramesMove ==
  ASSUME TypeInv, NEW p \in Threads, NEW m, NEW n, Moves(p, m, n), FramesKept(p),
         \A i \in m .. n : \A f : f = th'[p][i] => FrameInv(p, f)'
  PROVE  FramesInv'
<1>1. ASSUME NEW q \in Threads, NEW i \in DOMAIN th'[q]
      PROVE  \A f : f = th'[q][i] => FrameInv(q, f)'
  <2>1. CASE q = p /\ i \in m .. n
    BY <2>1
  <2>2. CASE i \in DOMAIN th[q] /\ th'[q][i] = th[q][i] /\ (q = p => i \in 1 .. m - 1)
    <3>1. m \in Nat /\ m <= Len(th[p]) /\ Len(th[p]) \in Nat
      BY DEF Moves, TypeInv
    <3>2. q = p => i # Len(th[p])
      BY <2>2, <3>1
    <3> QED
      BY <2>2, <3>2 DEF FramesKept
  <2> QED
    BY <2>1, <2>2, MovedFrames
<1> QED
  BY <1>1 DEF FramesInv

\* The variables that FrameInv reads.
frameVars == <<ev, refcount, uev, mem, kind, pending_free, released, base_mut, active_fd,
               modification_lock>>

\* A step that leaves them alone leaves the knowledge of every frame alone.
LEMMA FramesSame ==
  ASSUME FramesInv, UNCHANGED frameVars
  PROVE  /\ \A q \in Threads : \A i \in DOMAIN th[q] : \A f : f = th[q][i] => FrameInv(q, f)'
         /\ \A p : FramesKept(p)
<1> SUFFICES ASSUME NEW q \in Threads, NEW i \in DOMAIN th[q], NEW f, f = th[q][i]
             PROVE  FrameInv(q, f)'
  BY DEF FramesKept
<1>1. FrameInv(q, f)
  BY DEF FramesInv
<1> QED
  BY <1>1 DEF FrameInv, frameVars, Named, Stops, Frees, Arms, Strict, Ops, Outside

-----------------------------------------------------------------------------
(* The invariant, and the ways a step moves a thread.                      *)

\* The inductive invariant.
LifeInv ==
  /\ TypeInv /\ ShapeInv /\ FramesInv /\ DelRefInv /\ UniqueInv
  /\ EventInv /\ EpollInv /\ FreeSlots /\ RefExact

\* What a move of thread p has to establish about the stacks.
Threaded(p) ==
  /\ th' \in Stacks /\ ShapeInv' /\ FramesInv' /\ DelRefInv' /\ UniqueInv'
  /\ \A q \in Threads \ {p} : Top(q)' = Top(q)

\* No frame but the last one of thread p clashes with g.
Fresh(p, g) ==
  \A q \in Threads : \A j \in DOMAIN th[q] :
    Clash(g, th[q][j]) \/ Clash(th[q][j], g) => q = p /\ j = Len(th[p])

\* A move changes the last frame of no other thread.
LEMMA TopsKept ==
  ASSUME NEW p \in Threads, NEW m, NEW n, Moves(p, m, n)
  PROVE  /\ th' \in Stacks
         /\ \A q \in Threads \ {p} : Top(q)' = Top(q)
         /\ Top(p)' = th'[p][n]
  BY DEF Moves, Stacks, Top, Last

\* Replacing the last frame, by one, by two or by three frames: the stacks keep
\* their invariants, and the count changes by what the frames own.
LEMMA OneFrame ==
  ASSUME LifeInv, NEW p \in Threads, NEW g \in FrameType, Replace(p, <<g>>),
         Follows(p, Top(p).at, g.at), g.s = U(p) \/ Top(p).at \notin RefP, FrameShape(g),
         Steady, FramesKept(p), FrameInv(p, g)', g.at # "delref",
         Quiet(g) \/ Inherits(g, Top(p)) \/ Fresh(p, g)
  PROVE  /\ Threaded(p) /\ Top(p)' = g
         /\ \A s : /\ Cardinality(Held(th, s)) \in Nat
                   /\ Cardinality(Held(th', s)) = Cardinality(Held(th, s)) + Worth(g, s) - Worth(Top(p), s)
<1> DEFINE n == Len(th[p])
<1>0. n \in Nat /\ n > 0 /\ Top(p) = th[p][n] /\ DOMAIN th[p] = 1 .. n
  BY TopFacts DEF LifeInv
<1>1. Moves(p, n, n) /\ th'[p][n] = g /\ ShapeInv'
  BY StepOne DEF LifeInv
<1>2. \A s : /\ Cardinality(Held(th, s)) \in Nat
             /\ Cardinality(Held(th', s)) = Cardinality(Held(th, s)) + Worth(g, s) - Worth(Top(p), s)
  BY <1>0, <1>1, CountOne DEF LifeInv
<1>3. FramesInv'
  <2>1. \A i \in n .. n : \A f : f = th'[p][i] => FrameInv(p, f)'
    BY <1>0, <1>1
  <2> QED
    BY <1>1, <2>1, FramesMove DEF LifeInv
<1>4. DelRefInv'
  <2>1. \A i \in n .. n : th'[p][i].at # "delref"
    BY <1>0, <1>1
  <2> QED
    BY <1>1, <2>1, DelRefMove DEF LifeInv
<1>5. UniqueInv'
  <2>1. CASE Quiet(g) \/ Inherits(g, Top(p))
    <3>1. \A i \in n .. n : Quiet(th'[p][i]) \/ (i \in DOMAIN th[p] /\ Inherits(th'[p][i], th[p][i]))
      BY <1>0, <1>1, <2>1
    <3> QED
      BY <1>1, <3>1, UniqueMove DEF LifeInv
  <2>2. CASE Fresh(p, g)
    <3>1. \A i \in n .. n - 1 : FALSE
      BY <1>0
    <3>2. \A q \in Threads : \A j \in DOMAIN th[q] :
            Clash(th'[p][n], th[q][j]) \/ Clash(th[q][j], th'[p][n]) => q = p /\ j = n
      BY <1>1, <2>2 DEF Fresh
    <3> QED
      BY <1>1, <3>1, <3>2, UniqueFresh DEF LifeInv
  <2> QED
    BY <2>1, <2>2
<1> QED
  BY <1>1, <1>2, <1>3, <1>4, <1>5, TopsKept DEF Threaded

LEMMA TwoFrames ==
  ASSUME LifeInv, NEW p \in Threads, NEW g \in FrameType, NEW h \in FrameType, Replace(p, <<g, h>>),
         Follows(p, Top(p).at, g.at), g.s = U(p) \/ Top(p).at \notin RefP,
         FrameShape(g), ~g.ret, h.at \in Above(g.at), g.at \in RefTested => h.s = g.s, FrameShape(h),
         Steady, FramesKept(p), FrameInv(p, g)', FrameInv(p, h)', g.at # "delref", h.at # "delref",
         Quiet(g) \/ Inherits(g, Top(p)), Quiet(h) \/ Fresh(p, h), ~Clash(Top(p), h), ~Clash(h, Top(p))
  PROVE  /\ Threaded(p) /\ Top(p)' = h
         /\ \A s : /\ Cardinality(Held(th, s)) \in Nat
                   /\ Cardinality(Held(th', s)) = Cardinality(Held(th, s))
                        + Worth(g, s) + Worth(h, s) - Worth(Top(p), s)
<1> DEFINE n == Len(th[p])
<1>0. n \in Nat /\ n > 0 /\ Top(p) = th[p][n] /\ DOMAIN th[p] = 1 .. n
  BY TopFacts DEF LifeInv
<1>1. Moves(p, n, n + 1) /\ th'[p][n] = g /\ th'[p][n + 1] = h /\ ShapeInv'
  BY StepTwo DEF LifeInv
<1>2. \A s : /\ Cardinality(Held(th, s)) \in Nat
             /\ Cardinality(Held(th', s)) = Cardinality(Held(th, s))
                  + Worth(g, s) + Worth(h, s) - Worth(Top(p), s)
  BY <1>0, <1>1, CountTwo DEF LifeInv
<1>a. \A i \in n .. n + 1 : i = n \/ i = n + 1
  BY <1>0
<1> HIDE DEF n
<1>3. FramesInv'
  <2>1. \A i \in n .. n + 1 : \A f : f = th'[p][i] => FrameInv(p, f)'
    BY <1>1, <1>a
  <2> QED
    BY <1>1, <2>1, FramesMove DEF LifeInv
<1>4. DelRefInv'
  <2>1. \A i \in n .. n + 1 : th'[p][i].at # "delref"
    BY <1>1, <1>a
  <2> QED
    BY <1>1, <2>1, DelRefMove DEF LifeInv
<1>5. UniqueInv'
  <2>0. Quiet(th'[p][n]) \/ (n \in DOMAIN th[p] /\ Inherits(th'[p][n], th[p][n]))
    BY <1>0, <1>1
  <2>1. CASE Quiet(h)
    <3>1. \A i \in n .. n + 1 : Quiet(th'[p][i]) \/ (i \in DOMAIN th[p] /\ Inherits(th'[p][i], th[p][i]))
      BY <1>1, <1>a, <2>0, <2>1
    <3> QED
      BY <1>1, <3>1, UniqueMove DEF LifeInv
  <2>2. CASE Fresh(p, h)
    <3>1. \A i \in n .. (n + 1) - 1 : Quiet(th'[p][i]) \/ (i \in DOMAIN th[p] /\ Inherits(th'[p][i], th[p][i]))
      <4>1. \A i \in n .. (n + 1) - 1 : i = n
        BY <1>0
      <4> QED
        BY <2>0, <4>1
    <3>2. \A q \in Threads : \A j \in DOMAIN th[q] :
            Clash(th'[p][n + 1], th[q][j]) \/ Clash(th[q][j], th'[p][n + 1]) => q = p /\ j = n + 1
      BY <1>0, <1>1, <2>2 DEF Fresh, n
    <3> QED
      BY <1>1, <3>1, <3>2, UniqueFresh DEF LifeInv
  <2> QED
    BY <2>1, <2>2
<1> QED
  BY <1>1, <1>2, <1>3, <1>4, <1>5, TopsKept DEF Threaded

LEMMA ThreeFrames ==
  ASSUME LifeInv, NEW p \in Threads, NEW g \in FrameType, NEW h \in FrameType, NEW k \in FrameType,
         Replace(p, <<g, h, k>>), Follows(p, Top(p).at, g.at), g.s = U(p) \/ Top(p).at \notin RefP,
         FrameShape(g), ~g.ret, h.at \in Above(g.at), g.at \in RefTested => h.s = g.s, FrameShape(h),
         ~h.ret, k.at \in Above(h.at), h.at \in RefTested => k.s = h.s, FrameShape(k),
         Steady, FramesKept(p), FrameInv(p, g)', FrameInv(p, h)', FrameInv(p, k)',
         g.at # "delref", k.at # "delref",
         h.at = "delref" /\ p # Loop =>
           LET o == ev'[h.s] IN
           /\ o # NULL /\ o \notin pending_free' /\ Stops(kind'[o])
           /\ Frees(kind'[o]) => g.at = "freepend" /\ g.s = h.s,
         Quiet(g) \/ Inherits(g, Top(p)), Quiet(h), Quiet(k)
  PROVE  /\ Threaded(p) /\ Top(p)' = k
         /\ \A s : /\ Cardinality(Held(th, s)) \in Nat
                   /\ Cardinality(Held(th', s)) = Cardinality(Held(th, s))
                        + Worth(g, s) + Worth(h, s) + Worth(k, s) - Worth(Top(p), s)
<1> DEFINE n == Len(th[p])
<1>0. n \in Nat /\ n > 0 /\ Top(p) = th[p][n] /\ DOMAIN th[p] = 1 .. n
  BY TopFacts DEF LifeInv
<1>1. Moves(p, n, n + 2) /\ th'[p][n] = g /\ th'[p][n + 1] = h /\ th'[p][n + 2] = k /\ ShapeInv'
  BY StepThree DEF LifeInv
<1>2. \A s : /\ Cardinality(Held(th, s)) \in Nat
             /\ Cardinality(Held(th', s)) = Cardinality(Held(th, s))
                  + Worth(g, s) + Worth(h, s) + Worth(k, s) - Worth(Top(p), s)
  BY <1>0, <1>1, CountThree DEF LifeInv
<1>a. \A i \in n .. n + 2 : i = n \/ i = n + 1 \/ i = n + 2
  BY <1>0
<1> HIDE DEF n
<1>3. FramesInv'
  <2>1. \A i \in n .. n + 2 : \A f : f = th'[p][i] => FrameInv(p, f)'
    BY <1>1, <1>a
  <2> QED
    BY <1>1, <2>1, FramesMove DEF LifeInv
<1>4. DelRefInv'
  <2>1. ASSUME NEW c, NEW i, i = n + 1, c = th'[p], h.at = "delref", p # Loop
        PROVE  DelRefOK(p, c, i)'
    <3>1. i - 1 = n /\ i > 1
      BY <1>0, <2>1
    <3>2. c[i - 1] = g /\ c[i] = h
      BY <1>1, <2>1, <3>1
    <3> QED
      BY <2>1, <3>1, <3>2 DEF DelRefOK, Stops, Frees, Ops, Outside
  <2>2. \A i \in n .. n + 2 : th'[p][i].at = "delref" /\ p # Loop => \A c : c = th'[p] => DelRefOK(p, c, i)'
    BY <1>1, <1>a, <2>1
  <2> QED
    BY <1>1, <2>2, DelRefMove DEF LifeInv
<1>5. UniqueInv'
  <2>1. \A i \in n .. n + 2 : Quiet(th'[p][i]) \/ (i \in DOMAIN th[p] /\ Inherits(th'[p][i], th[p][i]))
    BY <1>0, <1>1, <1>a
  <2> QED
    BY <1>1, <2>1, UniqueMove DEF LifeInv
<1> QED
  BY <1>1, <1>2, <1>3, <1>4, <1>5, TopsKept DEF Threaded

\* Places that make no calls, and places above which try_ref runs.
LEMMA AboveNone ==
  ASSUME NEW l, NEW k \in Above(l)
  PROVE  /\ l \notin {"addctl", "create", "delheap"}
         /\ k \in RefP <=> l \in RefTested
  BY DEF Above, RefTested, Tested, RefP, PutP, AddP, DelP, CbP

\* Returning: the caller of uevent_try_ref gets the reference.
LEMMA PopFrame ==
  ASSUME LifeInv, NEW p \in Threads, NEW v \in BOOLEAN, Return(p, v), Top(p).at \notin Ground(p),
         Steady, FramesKept(p), v /\ Top(p).at \in RefP => ev'[U(p)] # NULL
  PROVE  /\ Threaded(p)
         /\ Top(p)'.at \notin {"create", "delheap"} /\ Top(p).at \in Above(Top(p)'.at)
         /\ \A s : /\ Cardinality(Held(th, s)) \in Nat
                   /\ Cardinality(Held(th', s)) = Cardinality(Held(th, s)) - Worth(Top(p), s)
                        + (IF v /\ Top(p).at \in RefP /\ s = U(p) THEN 1 ELSE 0)
<1> DEFINE n == Len(th[p]) - 1
<1>1. /\ n \in Nat /\ n > 0 /\ n + 1 = Len(th[p]) /\ Moves(p, n, n)
      /\ th'[p][n] \in FrameType
      /\ th'[p][n].at = th[p][n].at /\ th'[p][n].s = th[p][n].s /\ th'[p][n].o = th[p][n].o
      /\ th'[p][n].ret <=> v /\ th[p][n].at \in Tested
      /\ Top(p).at \in Above(th[p][n].at) /\ ~th[p][n].ret
      /\ th[p][n].at \in RefTested => U(p) = th[p][n].s
      /\ ShapeInv'
  BY StepReturn DEF LifeInv
<1>0. Top(p) = th[p][Len(th[p])] /\ DOMAIN th[p] = 1 .. Len(th[p]) /\ th[p] \in Seq(FrameType)
  BY TopFacts DEF LifeInv
<1>a. th[p][n].at \notin {"addctl", "create", "delheap"} /\ (Top(p).at \in RefP <=> th[p][n].at \in RefTested)
  BY <1>1, AboveNone
<1>2. ASSUME NEW s
      PROVE  /\ Cardinality(Held(th, s)) \in Nat
             /\ Cardinality(Held(th', s)) = Cardinality(Held(th, s)) - Worth(Top(p), s)
                  + (IF v /\ Top(p).at \in RefP /\ s = U(p) THEN 1 ELSE 0)
  <2>1. /\ Cardinality(Held(th, s)) \in Nat
        /\ Cardinality(Held(th', s)) = Cardinality(Held(th, s))
             + Worth(th'[p][n], s) - Worth(th[p][n], s) - Worth(Top(p), s)
    BY <1>0, <1>1, CountReturn DEF LifeInv
  <2> DEFINE f == th'[p][n]
             b == th[p][n]
  <2>2. f.at = b.at /\ f.s = b.s /\ (f.ret <=> v /\ b.at \in Tested) /\ ~b.ret
    BY <1>1
  <2>3. f.at \in Tested \ {"tput"} <=> Top(p).at \in RefP
    BY <1>a, <2>2 DEF RefTested
  <2>4. Top(p).at \in RefP => U(p) = b.s
    BY <1>1, <1>a
  <2> HIDE DEF f, b
  <2>5. Owned(f) = Owned(b) + (IF v /\ Top(p).at \in RefP THEN 1 ELSE 0)
    BY <2>2, <2>3 DEF Owned, Tested
  <2>6. Worth(f, s) = Worth(b, s) + (IF v /\ Top(p).at \in RefP /\ s = U(p) THEN 1 ELSE 0)
    <3>1. CASE b.s = s
      BY <2>2, <2>4, <2>5, <3>1 DEF Worth
    <3>2. CASE b.s # s
      BY <2>2, <2>4, <3>2 DEF Worth
    <3> QED
      BY <3>1, <3>2
  <2>7. Worth(b, s) \in {0, 1, 2} /\ Worth(Top(p), s) \in {0, 1, 2}
    BY WorthFacts
  <2>8. Cardinality(Held(th', s)) = Cardinality(Held(th, s)) + Worth(f, s) - Worth(b, s) - Worth(Top(p), s)
    BY <2>1 DEF f, b
  <2> QED
    BY <2>1, <2>6, <2>7, <2>8
<1>3. FramesInv'
  <2>1. n \in DOMAIN th[p] /\ n # Len(th[p])
    BY <1>0, <1>1
  <2>2. \A b : b = th[p][n] => FrameInv(p, b)'
    BY <2>1 DEF FramesKept
  <2>3. ASSUME NEW f, f = th'[p][n], NEW b, b = th[p][n]
        PROVE  FrameInv(p, f)'
    <3>1. FrameInv(p, b)'
      BY <2>2, <2>3
    <3>2. /\ f.at = b.at /\ f.s = b.s /\ f.o = b.o /\ (f.ret <=> v /\ b.at \in Tested) /\ ~b.ret
          /\ b.at # "addctl" /\ (Top(p).at \in RefP <=> b.at \in RefTested) /\ (b.at \in RefTested => U(p) = b.s)
      BY <1>1, <1>a, <2>3
    <3>3. f.ret /\ f.at \in RefTested => ev'[f.s] # NULL
      BY <3>2
    <3>4. Named(f)' => ev'[f.s] # NULL
      BY <3>1, <3>2, <3>3 DEF FrameInv, Named
    <3> QED
      BY <3>1, <3>2, <3>4 DEF FrameInv
  <2>4. \A i \in n .. n : \A f : f = th'[p][i] => FrameInv(p, f)'
    BY <1>1, <2>3
  <2> QED
    BY <1>1, <2>4, FramesMove DEF LifeInv
<1>4. DelRefInv'
  <2>1. \A i \in n .. n : th'[p][i].at = "delref" /\ p # Loop =>
            i = n /\ th[p][i].at = "delref" /\ th'[p][i].s = th[p][i].s
    BY <1>1
  <2> HIDE DEF n
  <2> QED
    BY <1>1, <2>1, DelRefMove DEF LifeInv
<1>5. UniqueInv'
  <2>1. Inherits(th'[p][n], th[p][n]) /\ n \in DOMAIN th[p]
    BY <1>0, <1>1 DEF Inherits
  <2>2. \A i \in n .. n : Quiet(th'[p][i]) \/ (i \in DOMAIN th[p] /\ Inherits(th'[p][i], th[p][i]))
    BY <1>1, <2>1
  <2> QED
    BY <1>1, <2>2, UniqueMove DEF LifeInv
<1>6. th' \in Stacks /\ (\A q \in Threads \ {p} : Top(q)' = Top(q)) /\ Top(p)' = th'[p][n]
  BY <1>1, TopsKept
<1> QED
  BY <1>1, <1>2, <1>3, <1>4, <1>5, <1>6, <1>a DEF Threaded

\* The step changes nothing but a thread that the invariant speaks of.
lifeVars == <<ev, refcount, free_uev, mem, kind, uev, active_fd, active_timer, pending_free,
              modification_lock, heap, num_active_timers, queue>>

\* A thread that is neither in the middle of a creation nor of the removal of a timer.
Ordinary(p) ==
  /\ ~At(p, "create") /\ ~At(p, "delheap")
  /\ p = Worker => Pooled \/ ~At(p, "wtake")

\* A step that touches nothing the invariant counts preserves it.
LEMMA LifeSame ==
  ASSUME LifeInv, NEW p \in Threads, Threaded(p), Ordinary(p), UNCHANGED lifeVars,
         epoll' \subseteq Events, EpollInv', num_active_fd' \in Int, base_mut' \in Threads \cup {NULL},
         released' \subseteq Events, released \subseteq released', \A o \in released' : mem[o] # "none",
         \A s \in Slots : Cardinality(Held(th', s)) = Cardinality(Held(th, s))
  PROVE  LifeInv'
<1>1. TypeInv'
  BY DEF LifeInv, TypeInv, Threaded, Stacks, lifeVars
<1>2. EventInv'
  <2>1. ASSUME NEW o \in heap
        PROVE  o \in active_timer \/ (At(Loop, "delheap") /\ E(Loop) = o)'
    <3>1. o \in active_timer \/ (At(Loop, "delheap") /\ E(Loop) = o)
      BY DEF LifeInv, EventInv
    <3>2. p # Loop => Top(Loop)' = Top(Loop)
      BY DEF Threaded, Threads
    <3> QED
      BY <3>1, <3>2 DEF At, E, Ordinary
  <2>2. ~Pooled => p # Worker /\ queue = <<>> /\ At(Worker, "wtake")
    BY DEF LifeInv, EventInv, Ordinary
  <2>3. ~Pooled => At(Worker, "wtake")'
    BY <2>2 DEF Threaded, Threads, At
  <2> QED
    BY <2>1, <2>2, <2>3 DEF LifeInv, EventInv, lifeVars, Stops, Frees, Ops, Outside
<1>3. FreeSlots'
  <2>1. ASSUME NEW q \in Threads, At(q, "create")
        PROVE  q # p /\ Top(q)' = Top(q)
    BY <2>1 DEF Ordinary, Threaded
  <2>2. \A s \in Slots : (\E q \in Threads : At(q, "create") /\ U(q) = s) => (\E q \in Threads : At(q, "create") /\ U(q) = s)'
    BY <2>1 DEF At, U
  <2> QED
    BY <2>2 DEF LifeInv, FreeSlots, lifeVars
<1>4. RefExact'
  <2> SUFFICES ASSUME NEW s \in Slots PROVE refcount'[s] = References(s)'
    BY DEF RefExact
  <2>1. refcount[s] = References(s)
    BY DEF LifeInv, RefExact
  <2> QED
    BY <2>1 DEF References, lifeVars
<1> QED
  BY <1>1, <1>2, <1>3, <1>4 DEF LifeInv, Threaded

\* The step moves a thread, and changes at most the epoll set.
Still ==
  /\ UNCHANGED <<lifeVars, released, base_mut>>
  /\ epoll' \subseteq Events /\ EpollInv' /\ num_active_fd' \in Int

\* Then every frame keeps its knowledge.
LEMMA StillFacts ==
  ASSUME LifeInv, Still, NEW p \in Threads
  PROVE  /\ Steady /\ FramesKept(p)
         /\ \A g : FrameInv(p, g) => FrameInv(p, g)'
         /\ base_mut' \in Threads \cup {NULL}
         /\ released' \subseteq Events /\ released \subseteq released' /\ \A o \in released' : mem[o] # "none"
<1>1. UNCHANGED frameVars
  BY DEF Still, lifeVars, frameVars
<1>2. FramesKept(p)
  BY <1>1, FramesSame DEF LifeInv
<1>3. ASSUME NEW g, FrameInv(p, g) PROVE FrameInv(p, g)'
  BY <1>1, <1>3, SMTT(30) DEF FrameInv, frameVars, Named, Stops, Frees, Arms, Strict, Ops, Outside
<1>4. Steady
  BY <1>1 DEF Steady, frameVars
<1>5. base_mut \in Threads \cup {NULL} /\ released \subseteq Events /\ \A o \in released : mem[o] # "none"
  BY DEF LifeInv, TypeInv, EventInv
<1> QED
  BY <1>2, <1>3, <1>4, <1>5 DEF Still

\* What is known of the last frame.
LEMMA TopKnown ==
  ASSUME LifeInv, NEW p \in Threads
  PROVE  /\ FrameInv(p, Top(p)) /\ Top(p) \in FrameType /\ FrameShape(Top(p))
         /\ U(p) = Top(p).s /\ E(p) = Top(p).o /\ Returned(p) = Top(p).ret
<1> DEFINE n == Len(th[p])
<1>1. n \in DOMAIN th[p] /\ Top(p) = th[p][n]
  BY TopFacts DEF LifeInv
<1> HIDE DEF n
<1>2. FrameInv(p, th[p][n])
  BY <1>1 DEF LifeInv, FramesInv
<1> QED
  BY <1>1, <1>2, TopFacts DEF LifeInv

\* Steps that only move a thread, and whose frames own what the old one owned.
LEMMA SamePop ==
  ASSUME LifeInv, NEW p \in Threads, NEW v \in BOOLEAN, Return(p, v), Top(p).at \notin Ground(p),
         Ordinary(p), Still, v /\ Top(p).at \in RefP => ev[U(p)] # NULL,
         Owned(Top(p)) = (IF v /\ Top(p).at \in RefP THEN 1 ELSE 0)
  PROVE  LifeInv'
<1>0. Steady /\ FramesKept(p) /\ base_mut' \in Threads \cup {NULL}
      /\ released' \subseteq Events /\ released \subseteq released' /\ \A o \in released' : mem[o] # "none"
  BY StillFacts
<1>1. ev' = ev
  BY DEF Still, lifeVars
<1>2. Threaded(p)
  BY <1>0, <1>1, PopFrame
<1>3. ASSUME NEW s \in Slots PROVE Cardinality(Held(th', s)) = Cardinality(Held(th, s))
  <2>1. /\ Cardinality(Held(th, s)) \in Nat
        /\ Cardinality(Held(th', s)) = Cardinality(Held(th, s)) - Worth(Top(p), s)
             + (IF v /\ Top(p).at \in RefP /\ s = U(p) THEN 1 ELSE 0)
    BY <1>0, <1>1, PopFrame
  <2>2. Worth(Top(p), s) = (IF v /\ Top(p).at \in RefP /\ s = U(p) THEN 1 ELSE 0)
    BY DEF Worth, U
  <2> QED
    BY <2>1, <2>2
<1> QED
  BY <1>0, <1>2, <1>3, LifeSame DEF Still

LEMMA SameOne ==
  ASSUME LifeInv, NEW p \in Threads, NEW g \in FrameType, Replace(p, <<g>>),
         Follows(p, Top(p).at, g.at), g.s = U(p) \/ Top(p).at \notin RefP, FrameShape(g),
         Ordinary(p), Still, FrameInv(p, g), g.at # "delref",
         Quiet(g) \/ Inherits(g, Top(p)) \/ Fresh(p, g), \A s : Worth(g, s) = Worth(Top(p), s)
  PROVE  LifeInv'
<1>0. Steady /\ FramesKept(p) /\ FrameInv(p, g)' /\ base_mut' \in Threads \cup {NULL}
      /\ released' \subseteq Events /\ released \subseteq released' /\ \A o \in released' : mem[o] # "none"
  BY StillFacts
<1>1. Threaded(p)
  BY <1>0, OneFrame
<1>2. ASSUME NEW s \in Slots PROVE Cardinality(Held(th', s)) = Cardinality(Held(th, s))
  <2>1. /\ Cardinality(Held(th, s)) \in Nat
        /\ Cardinality(Held(th', s)) = Cardinality(Held(th, s)) + Worth(g, s) - Worth(Top(p), s)
    BY <1>0, OneFrame
  <2>2. Worth(Top(p), s) = Worth(g, s) /\ Worth(g, s) \in {0, 1, 2}
    BY WorthFacts
  <2> QED
    BY <2>1, <2>2
<1> QED
  BY <1>0, <1>1, <1>2, LifeSame DEF Still

LEMMA SameTwo ==
  ASSUME LifeInv, NEW p \in Threads, NEW g \in FrameType, NEW h \in FrameType, Replace(p, <<g, h>>),
         Follows(p, Top(p).at, g.at), g.s = U(p) \/ Top(p).at \notin RefP,
         FrameShape(g), ~g.ret, h.at \in Above(g.at), g.at \notin RefTested, FrameShape(h),
         Ordinary(p), Still, FrameInv(p, g), FrameInv(p, h), g.at # "delref", h.at # "delref",
         Quiet(g) \/ Inherits(g, Top(p)), Quiet(h),
         \A s : Worth(g, s) + Worth(h, s) = Worth(Top(p), s)
  PROVE  LifeInv'
<1>0. Steady /\ FramesKept(p) /\ FrameInv(p, g)' /\ FrameInv(p, h)' /\ base_mut' \in Threads \cup {NULL}
      /\ released' \subseteq Events /\ released \subseteq released' /\ \A o \in released' : mem[o] # "none"
  BY StillFacts
<1>a. ~Clash(Top(p), h) /\ ~Clash(h, Top(p))
  BY DEF Clash, Quiet, AddP
<1>1. Threaded(p)
  BY <1>0, <1>a, TwoFrames
<1>2. ASSUME NEW s \in Slots PROVE Cardinality(Held(th', s)) = Cardinality(Held(th, s))
  <2>1. /\ Cardinality(Held(th, s)) \in Nat
        /\ Cardinality(Held(th', s)) = Cardinality(Held(th, s)) + Worth(g, s) + Worth(h, s) - Worth(Top(p), s)
    BY <1>0, <1>a, TwoFrames
  <2>2. Worth(Top(p), s) = Worth(g, s) + Worth(h, s) /\ Worth(g, s) \in {0, 1, 2} /\ Worth(h, s) \in {0, 1, 2}
    BY WorthFacts
  <2> QED
    BY <2>1, <2>2
<1> QED
  BY <1>0, <1>1, <1>2, LifeSame DEF Still

\* The stacks Enter builds.
LEMMA AppendTwo ==
  ASSUME NEW g \in FrameType, NEW h \in FrameType, NEW k \in FrameType
  PROVE  Append(<<g, h>>, k) = <<g, h, k>> /\ Append(<<g>>, k) = <<g, k>>
<1>1. \A i \in 1 .. 3 : i = 1 \/ i = 2 \/ i = 3
  OBVIOUS
<1>2. \A i \in 1 .. 2 : i = 1 \/ i = 2
  OBVIOUS
<1>3. <<g, h>> \in Seq(FrameType) /\ <<g>> \in Seq(FrameType)
  OBVIOUS
<1>4. Append(<<g, h>>, k) = <<g, h, k>>
  <2> DEFINE a == Append(<<g, h>>, k)
             b == <<g, h, k>>
  <2>1. a \in Seq(FrameType) /\ Len(a) = 3 /\ a[1] = g /\ a[2] = h /\ a[3] = k
    BY <1>3
  <2>2. b \in Seq(FrameType) /\ Len(b) = 3 /\ b[1] = g /\ b[2] = h /\ b[3] = k
    OBVIOUS
  <2> HIDE DEF a, b
  <2>3. \A i \in 1 .. Len(a) : a[i] = b[i]
    BY <1>1, <2>1, <2>2
  <2>4. a = b
    BY <2>1, <2>2, <2>3, SeqEqual
  <2> QED
    BY <2>4 DEF a, b
<1>5. Append(<<g>>, k) = <<g, k>>
  <2> DEFINE a == Append(<<g>>, k)
             b == <<g, k>>
  <2>1. a \in Seq(FrameType) /\ Len(a) = 2 /\ a[1] = g /\ a[2] = k
    BY <1>3
  <2>2. b \in Seq(FrameType) /\ Len(b) = 2 /\ b[1] = g /\ b[2] = k
    OBVIOUS
  <2> HIDE DEF a, b
  <2>3. \A i \in 1 .. Len(a) : a[i] = b[i]
    BY <1>2, <2>1, <2>2
  <2>4. a = b
    BY <2>1, <2>2, <2>3, SeqEqual
  <2> QED
    BY <2>4 DEF a, b
<1> QED
  BY <1>4, <1>5

\* Entering uevent_try_ref: what holds of the three frames whatever else the step does.
LEMMA RefFrames ==
  ASSUME LifeInv, NEW p \in Threads, NEW s \in Slots, NEW l \in RefTested, NEW g \in FrameType,
         TryRefThen(p, s, l, g), Follows(p, Top(p).at, g.at), Top(p).at \notin RefP,
         FrameShape(g), ~g.ret, g.at # "delref", g.at \notin RefTested, l \in Above(g.at),
         Steady, FramesKept(p), FrameInv(p, g)',
         l = "addref" /\ Strict => ev'[s] # NULL /\ Arms(kind'[ev'[s]]),
         l = "delref" /\ p # Loop =>
           LET o == ev'[s] IN
           /\ o # NULL /\ o \notin pending_free' /\ Stops(kind'[o])
           /\ Frees(kind'[o]) => g.at = "freepend" /\ g.s = s,
         Quiet(g) \/ Inherits(g, Top(p))
  PROVE  /\ Threaded(p)
         /\ \A t : /\ Cardinality(Held(th, t)) \in Nat
                   /\ Cardinality(Held(th', t)) = Cardinality(Held(th, t)) + Worth(g, t) - Worth(Top(p), t)
<1>1. PICK h : h = Frame(l, s, NULL)
  OBVIOUS
<1>2. PICK k : k = Frame("ref", s, NULL)
  OBVIOUS
<1>3. l \in Places /\ "ref" \in Places /\ l \notin Unslotted
  BY DEF Places, RefTested, Tested, Unslotted
<1>4. h \in FrameType /\ k \in FrameType
  BY <1>1, <1>2, <1>3, FrameTyped
<1>5. /\ h.at = l /\ h.s = s /\ h.o = NULL /\ ~h.ret
      /\ k.at = "ref" /\ k.s = s /\ k.o = NULL /\ ~k.ret
  BY <1>1, <1>2 DEF Frame
<1>6. Replace(p, <<g, h, k>>)
  BY <1>1, <1>2, <1>4, AppendTwo DEF TryRefThen, Enter
<1>7. k.at \in Above(h.at)
  BY <1>5, AboveTested DEF RefP
<1>8. FrameShape(h) /\ FrameShape(k) /\ Quiet(h) /\ Quiet(k) /\ k.at # "delref"
  BY <1>5, <1>3 DEF FrameShape, Unslotted, Quiet, AddP, RefTested, Tested
<1>9. FrameInv(p, h)' /\ FrameInv(p, k)'
  <2>1. /\ l \notin AddP \cup DelP \cup CbP /\ l \notin {"put", "dec", "destroy", "wfinal", "create",
              "free", "freepend", "tput", "tmin", "addtm", "addfd", "addctl", "addmark", "addfdref", "cb"}
        /\ "ref" \notin AddP \cup DelP \cup CbP \cup RefTested
    BY DEF RefTested, Tested, AddP, DelP, CbP
  <2>2. ~Named(h)' /\ ~Named(k)'
    BY <1>5, <2>1 DEF Named
  <2>3. FrameInv(p, h)'
    BY <1>5, <2>1, <2>2 DEF FrameInv, Strict, Arms, Stops, Ops, Outside
  <2>4. FrameInv(p, k)'
    BY <1>5, <2>1, <2>2 DEF FrameInv
  <2> QED
    BY <2>3, <2>4
<1>10. \A t : Worth(h, t) = 0 /\ Worth(k, t) = 0
  BY <1>5, WorthFacts DEF Worth
<1>11. g.s = U(p) \/ Top(p).at \notin RefP
  OBVIOUS
<1>12. /\ Threaded(p)
       /\ \A t : /\ Cardinality(Held(th, t)) \in Nat
                 /\ Cardinality(Held(th', t)) = Cardinality(Held(th, t))
                      + Worth(g, t) + Worth(h, t) + Worth(k, t) - Worth(Top(p), t)
  BY <1>4, <1>5, <1>6, <1>7, <1>8, <1>9, <1>11, ThreeFrames
<1>13. \A t : Worth(g, t) \in {0, 1, 2} /\ Worth(Top(p), t) \in {0, 1, 2}
  BY WorthFacts
<1> QED
  BY <1>10, <1>12, <1>13

\* Where a call can stand, and the ways it goes on.
LEMMA AboveWhen ==
  ASSUME NEW l, NEW k
  PROVE  k \in Above(l) <=>
           \/ l \in RefTested /\ k \in RefP
           \/ l \in {"deltm", "put", "tput", "wtake"} /\ k \in PutP
           \/ l \in {"idle", "cb"} /\ k \in AddP \cup DelP \cup PutP
                \cup {"addref", "delref", "peekref", "create", "free", "freepend"}
           \/ l \in {"freepend", "epoll"} /\ k \in DelP \cup PutP \cup {"delref"}
           \/ l \in {"tlock", "epauto"} /\ k \in CbP \cup PutP \cup {"dispref"}
           \/ l = "wfinal" /\ k \in CbP \cup PutP \cup {"wref"}
<1>1. l \in RefTested => l \notin {"deltm", "put", "tput", "wtake", "idle", "cb", "freepend", "epoll",
                                   "tlock", "epauto", "wfinal"}
  BY DEF RefTested, Tested
<1> HIDE DEF RefTested, RefP, PutP, AddP, DelP, CbP
<1>2. CASE l \in RefTested
  BY <1>1, <1>2 DEF Above
<1>3. CASE l \in {"deltm", "put", "tput", "wtake"}
  BY <1>1, <1>3 DEF Above
<1>4. CASE l \in {"idle", "cb"}
  BY <1>1, <1>4 DEF Above
<1>5. CASE l \in {"freepend", "epoll"}
  BY <1>1, <1>5 DEF Above
<1>6. CASE l \in {"tlock", "epauto"}
  BY <1>1, <1>6 DEF Above
<1>7. CASE l = "wfinal"
  BY <1>1, <1>7 DEF Above
<1>8. CASE l \notin RefTested \cup {"deltm", "put", "tput", "wtake", "idle", "cb", "freepend", "epoll",
                                    "tlock", "epauto", "wfinal"}
  BY <1>8 DEF Above
<1> QED
  BY <1>2, <1>3, <1>4, <1>5, <1>6, <1>7, <1>8

\* The moves of the program from place to place.
LEMMA FollowsTable ==
  ASSUME NEW p \in Threads
  PROVE
  /\ \A l : Follows(p, l, l)
  /\ Follows(p, "ref", "refchk") /\ Follows(p, "refchk", "refundo")
  /\ Follows(p, "put", "dec") /\ Follows(p, "dec", "destroy")
  /\ \A l \in AddP \cup DelP \cup CbP \cup RefTested \cup {"freepend"} : Follows(p, l, "put")
  /\ \A l \in AddP \cup {"addref"} : \A k \in AddP : Follows(p, l, k)
  /\ \A l \in DelP \cup {"delref"} : \A k \in DelP : Follows(p, l, k)
  /\ \A l \in CbP \cup {"dispref", "wref"} : \A k \in {"cblock"} : Follows(p, l, k)
  /\ Follows(p, "cblock", "cb") /\ Follows(p, "free", "freepend")
  /\ \A l, k \in {"wait", "tlock", "tmin", "tput", "tcb", "eptest", "epoll", "epauto"} : Follows(p, l, k)
  /\ p = Worker => Follows(p, "wfinal", "wtake") /\ Follows(p, "wtake", "wfinal")
<1> USE DEF RefTested, Tested, RefP, PutP, AddP, DelP, CbP
<1>1. \A l : Follows(p, l, l)
  BY DEF Follows
<1>2. Follows(p, "ref", "refchk") /\ Follows(p, "refchk", "refundo") /\ Follows(p, "put", "dec") /\ Follows(p, "dec", "destroy")
  BY AboveWhen DEF Follows, Ground
<1>3. ASSUME NEW l \in AddP \cup DelP \cup CbP \cup RefTested \cup {"freepend"}
      PROVE  Follows(p, l, "put")
  BY AboveWhen DEF Follows, Ground
<1>4. ASSUME NEW l \in AddP \cup {"addref"}, NEW k \in AddP
      PROVE  Follows(p, l, k)
  BY AboveWhen DEF Follows, Ground
<1>5. ASSUME NEW l \in DelP \cup {"delref"}, NEW k \in DelP
      PROVE  Follows(p, l, k)
  BY AboveWhen DEF Follows, Ground
<1>6. ASSUME NEW l \in CbP \cup {"dispref", "wref"}
      PROVE  Follows(p, l, "cblock")
  BY AboveWhen DEF Follows, Ground
<1>7. Follows(p, "cblock", "cb") /\ Follows(p, "free", "freepend")
  BY AboveWhen DEF Follows, Ground
<1>8. ASSUME NEW l \in {"wait", "tlock", "tmin", "tput", "tcb", "eptest", "epoll", "epauto"},
             NEW k \in {"wait", "tlock", "tmin", "tput", "tcb", "eptest", "epoll", "epauto"}
      PROVE  Follows(p, l, k)
  BY AboveWhen DEF Follows, Ground
<1>9. ASSUME p = Worker
      PROVE  Follows(p, "wfinal", "wtake") /\ Follows(p, "wtake", "wfinal")
  <2>1. Ground(p) = {"wtake", "wfinal"}
    BY <1>9 DEF Ground, Loop, Worker
  <2>2. \A l : "wfinal" \notin Above(l) /\ "wtake" \notin Above(l)
    BY AboveWhen
  <2> QED
    BY <2>1, <2>2 DEF Follows
<1> QED
  BY <1>1, <1>2, <1>3, <1>4, <1>5, <1>6, <1>7, <1>8, <1>9

\* Where the threads start.
LEMMA GroundPlaces ==
  ASSUME NEW p \in Threads
  PROVE  Ground(p) \subseteq {"wait", "tlock", "tmin", "tput", "tcb", "epoll", "eptest", "epauto", "idle",
                              "wtake", "wfinal"}
  BY DEF Ground

\* A call of uevent_try_ref.
LEMMA CallRef ==
  ASSUME LifeInv, NEW p \in Threads, NEW s \in Slots, NEW l \in RefTested, NEW g \in FrameType,
         TryRefThen(p, s, l, g), Follows(p, Top(p).at, g.at), Top(p).at \notin RefP,
         FrameShape(g), ~g.ret, g.at # "delref", g.at \notin RefTested, l \in Above(g.at),
         Ordinary(p), Still, FrameInv(p, g),
         l = "addref" /\ Strict => ev[s] # NULL /\ Arms(kind[ev[s]]),
         l = "delref" /\ p # Loop =>
           LET o == ev[s] IN
           /\ o # NULL /\ o \notin pending_free /\ Stops(kind[o])
           /\ Frees(kind[o]) => g.at = "freepend" /\ g.s = s,
         Quiet(g) \/ Inherits(g, Top(p)), \A t : Worth(g, t) = Worth(Top(p), t)
  PROVE  LifeInv'
<1>0. Steady /\ FramesKept(p) /\ FrameInv(p, g)' /\ base_mut' \in Threads \cup {NULL}
      /\ released' \subseteq Events /\ released \subseteq released' /\ \A o \in released' : mem[o] # "none"
  BY StillFacts
<1>1. ev' = ev /\ kind' = kind /\ pending_free' = pending_free
  BY DEF Still, lifeVars
<1>2. /\ Threaded(p)
      /\ \A t : /\ Cardinality(Held(th, t)) \in Nat
                /\ Cardinality(Held(th', t)) = Cardinality(Held(th, t)) + Worth(g, t) - Worth(Top(p), t)
  BY <1>0, <1>1, RefFrames
<1>3. ASSUME NEW t \in Slots PROVE Cardinality(Held(th', t)) = Cardinality(Held(th, t))
  <2>1. /\ Cardinality(Held(th, t)) \in Nat
        /\ Cardinality(Held(th', t)) = Cardinality(Held(th, t)) + Worth(g, t) - Worth(Top(p), t)
    BY <1>2
  <2>2. Worth(Top(p), t) = Worth(g, t) /\ Worth(g, t) \in {0, 1, 2}
    BY WorthFacts
  <2> QED
    BY <2>1, <2>2
<1> QED
  BY <1>0, <1>2, <1>3, LifeSame DEF Still

\* The frame that Load leaves.
LEMMA LoadFrame ==
  ASSUME NEW p \in Threads, NEW l, NEW o, Load(p, l, o)
  PROVE  \A g : g = Frame(l, U(p), o) =>
           Replace(p, <<g>>) /\ g.at = l /\ g.s = U(p) /\ g.o = o /\ ~g.ret
  BY DEF Load, Frame

\* Load and Go, when nothing else changes.
LEMMA LoadStill ==
  ASSUME LifeInv, NEW p \in Threads, NEW l \in Places, NEW o \in Events \cup {NULL}, Load(p, l, o),
         Follows(p, Top(p).at, l), l \in Unslotted \/ U(p) \in Slots, Ordinary(p), Still, l # "delref",
         \A g : g.at = l /\ g.s = U(p) /\ g.o = o /\ ~g.ret =>
           /\ FrameInv(p, g) /\ (Quiet(g) \/ Inherits(g, Top(p)))
           /\ Owned(g) = Owned(Top(p))
  PROVE  LifeInv'
<1>1. PICK g : g = Frame(l, U(p), o)
  OBVIOUS
<1>2. Replace(p, <<g>>) /\ g.at = l /\ g.s = U(p) /\ g.o = o /\ ~g.ret
  BY <1>1, LoadFrame
<1>3. g \in FrameType
  BY <1>1, FrameTyped, TopKnown DEF FrameType
<1>4. FrameShape(g)
  BY <1>2 DEF FrameShape
<1>5. FrameInv(p, g) /\ (Quiet(g) \/ Inherits(g, Top(p))) /\ Owned(g) = Owned(Top(p))
  BY <1>2
<1>6. \A s : Worth(g, s) = Worth(Top(p), s)
  BY <1>2, <1>5 DEF Worth, U
<1> QED
  BY <1>2, <1>3, <1>4, <1>5, <1>6, SameOne

\* uevent_put reads pending_free.
LEMMA LifePutTest ==
  ASSUME LifeInv, NEW p \in Threads, PutTest(p)
  PROVE  LifeInv'
<1>1. Top(p).at = "put" /\ U(p) \in Slots /\ Ordinary(p) /\ Top(p).at \notin Ground(p) \cup RefP
      /\ Top(p).at \notin Unslotted
  BY TopKnown, GroundPlaces DEF PutTest, At, Ordinary, FrameShape, RefP, Unslotted
<1>2. Still
  BY DEF PutTest, Still, slots, memory, base, lists, flags, lifeVars, LifeInv, TypeInv, EpollInv
<1>3. ev[U(p)] # NULL /\ FrameInv(p, Top(p)) /\ Owned(Top(p)) = 1 /\ E(p) \in Events \cup {NULL}
  BY <1>1, TopKnown, WorthFacts DEF FrameInv, Named, FrameType
<1>4. refcount[U(p)] # 0
  <2>1. refcount[U(p)] >= 1
    BY <1>1, <1>3, Positive, TopFacts DEF LifeInv
  <2> QED
    BY <1>1, <2>1 DEF LifeInv, TypeInv
<1>5. Load(p, "dec", E(p))
  BY <1>4 DEF PutTest, Go
<1>6. ASSUME NEW g, g.at = "dec", g.s = U(p), g.o = E(p), ~g.ret
      PROVE  FrameInv(p, g) /\ Quiet(g) /\ Owned(g) = Owned(Top(p))
  <2>1. FrameInv(p, g)
    BY <1>3, <1>6 DEF FrameInv, Named, AddP, DelP, CbP
  <2> QED
    BY <1>3, <1>6, <2>1, WorthFacts DEF Quiet, AddP
<1>7. Follows(p, "put", "dec") /\ "dec" \in Places
  BY FollowsTable DEF Places
<1> QED
  BY <1>1, <1>2, <1>3, <1>5, <1>6, <1>7, LoadStill

\* uevent_try_ref tests pending_free.
LEMMA LifeTryCheck ==
  ASSUME LifeInv, NEW p \in Threads, TryCheck(p)
  PROVE  LifeInv'
<1>1. Top(p).at = "refchk" /\ U(p) \in Slots /\ Ordinary(p) /\ Top(p).at \notin Ground(p)
      /\ Top(p).at \in RefP /\ E(p) \in Events \cup {NULL}
  BY TopKnown, GroundPlaces DEF TryCheck, At, Ordinary, FrameShape, RefP, Unslotted, FrameType
<1>2. Still
  BY DEF TryCheck, Still, slots, memory, base, lists, flags, lifeVars, LifeInv, TypeInv, EpollInv
<1>3. Owned(Top(p)) = 1
  BY <1>1, WorthFacts
<1>4. CASE ev[U(p)] = NULL \/ ev[U(p)] \in pending_free
  <2>1. Load(p, "refundo", E(p))
    BY <1>4 DEF TryCheck, Go
  <2>2. ASSUME NEW g, g.at = "refundo", g.s = U(p), g.o = E(p), ~g.ret
        PROVE  FrameInv(p, g) /\ Quiet(g) /\ Owned(g) = Owned(Top(p))
    <3>1. FrameInv(p, g)
      BY <2>2 DEF FrameInv, Named, AddP, DelP, CbP
    <3> QED
      BY <1>3, <2>2, <3>1, WorthFacts DEF Quiet, AddP
  <2>3. Follows(p, "refchk", "refundo") /\ "refundo" \in Places
    BY FollowsTable DEF Places
  <2> QED
    BY <1>1, <1>2, <2>1, <2>2, <2>3, LoadStill
<1>5. CASE ~(ev[U(p)] = NULL \/ ev[U(p)] \in pending_free)
  <2>1. Return(p, TRUE)
    BY <1>5 DEF TryCheck
  <2> QED
    BY <1>1, <1>2, <1>3, <1>5, <2>1, SamePop
<1> QED
  BY <1>4, <1>5

\* The queries.
LEMMA LifePeek ==
  ASSUME LifeInv, NEW p \in Threads, Peek(p)
  PROVE  LifeInv'
<1>1. /\ Top(p).at = "peekref" /\ U(p) \in Slots /\ Ordinary(p) /\ Top(p).at \notin Ground(p)
      /\ Top(p).at \notin RefP /\ E(p) \in Events \cup {NULL} /\ Top(p).at \in RefTested
      /\ Returned(p) \in BOOLEAN /\ Returned(p) = Top(p).ret
  BY TopKnown, GroundPlaces DEF Peek, At, Ordinary, FrameShape, RefP, Unslotted, FrameType, RefTested, Tested
<1>2. Still
  BY DEF Peek, Still, slots, memory, base, lists, flags, lifeVars, LifeInv, TypeInv, EpollInv
<1>3. Owned(Top(p)) = IF Returned(p) THEN 1 ELSE 0
  BY <1>1, WorthFacts
<1>4. CASE Returned(p)
  <2>1. Load(p, "put", NULL)
    BY <1>4 DEF Peek, Go
  <2>2. ev[U(p)] # NULL
    BY <1>1, <1>4, TopKnown DEF FrameInv, Named
  <2>3. ASSUME NEW g, g.at = "put", g.s = U(p), g.o = NULL, ~g.ret
        PROVE  FrameInv(p, g) /\ Quiet(g) /\ Owned(g) = Owned(Top(p))
    <3>1. FrameInv(p, g)
      BY <2>2, <2>3 DEF FrameInv, Named, AddP, DelP, CbP
    <3> QED
      BY <1>3, <1>4, <2>3, <3>1, WorthFacts DEF Quiet, AddP
  <2>4. Follows(p, "peekref", "put") /\ "put" \in Places
    BY <1>1, FollowsTable DEF Places
  <2> QED
    BY <1>1, <1>2, <2>1, <2>3, <2>4, LoadStill
<1>5. CASE ~Returned(p)
  <2>1. Return(p, FALSE)
    BY <1>5 DEF Peek
  <2> QED
    BY <1>1, <1>2, <1>3, <1>5, <2>1, SamePop
<1> QED
  BY <1>4, <1>5

\* The frames of uevent_add go on to each other.
LEMMA AddFrame ==
  ASSUME LifeInv, NEW p \in Threads, Top(p).at \in AddP, NEW g, g.at \in AddP, g.s = U(p), g.o = E(p),
         g.at = "addtm" => "timeout" \in kind[E(p)],
         g.at \in {"addfd", "addctl", "addmark", "addfdref"} => "fd" \in kind[E(p)],
         g.at = "addmark" \/ (g.at = "addctl" /\ ~g.ret) => E(p) \notin active_fd
  PROVE  FrameInv(p, g) /\ Inherits(g, Top(p)) /\ Follows(p, Top(p).at, g.at)
<1>1. FrameInv(p, Top(p)) /\ U(p) = Top(p).s /\ E(p) = Top(p).o
  BY TopKnown
<1>2. /\ g.at \notin DelP \cup CbP \cup {"destroy", "create", "free", "freepend", "tput", "tmin", "addref", "cb"}
      /\ ~Named(g)
  BY DEF AddP, DelP, CbP, Named, RefTested, Tested
<1>3. FrameInv(p, g)
  BY <1>1, <1>2 DEF FrameInv
<1>4. Inherits(g, Top(p))
  BY <1>1, <1>2 DEF Inherits
<1> QED
  BY <1>3, <1>4, FollowsTable

\* A thread inside uevent_add.
LEMMA AddTop ==
  ASSUME LifeInv, NEW p \in Threads, Top(p).at \in AddP
  PROVE  /\ U(p) \in Slots /\ Ordinary(p) /\ Top(p).at \notin Ground(p) /\ Top(p).at \notin RefP
         /\ E(p) \in Events /\ ev[U(p)] = E(p) /\ AddP \subseteq Places
         /\ U(p) = Top(p).s /\ E(p) = Top(p).o /\ Returned(p) = Top(p).ret /\ FrameInv(p, Top(p))
         /\ \A f : f.at \in AddP => Owned(f) = IF f.at = "addfdref" THEN 0 ELSE 1
<1>1. /\ FrameInv(p, Top(p)) /\ Top(p) \in FrameType /\ FrameShape(Top(p))
      /\ U(p) = Top(p).s /\ E(p) = Top(p).o /\ Returned(p) = Top(p).ret
  BY TopKnown
<1>2. E(p) # NULL /\ ev[U(p)] = E(p)
  BY <1>1 DEF FrameInv
<1>3. Top(p).at \notin Ground(p) /\ Top(p).at \notin RefP /\ Top(p).at \notin Unslotted
      /\ Top(p).at \notin {"create", "delheap", "wtake"}
  BY GroundPlaces DEF AddP, RefP, Unslotted
<1>4. U(p) \in Slots /\ Ordinary(p) /\ E(p) \in Events
  BY <1>1, <1>2, <1>3 DEF FrameShape, Ordinary, At, FrameType
<1>5. \A f : f.at \in AddP => Owned(f) = IF f.at = "addfdref" THEN 0 ELSE 1
  BY WorthFacts DEF AddP
<1> QED
  BY <1>1, <1>2, <1>3, <1>4, <1>5 DEF AddP, Places

\* uevent_add tests for a descriptor.
LEMMA LifeAddCheck ==
  ASSUME LifeInv, NEW p \in Threads, AddCheck(p)
  PROVE  LifeInv'
<1>1. Top(p).at = "addchk" /\ Top(p).at \in AddP
  BY DEF AddCheck, At, AddP
<1>2. Still
  BY DEF AddCheck, Still, slots, memory, base, lists, flags, lifeVars, LifeInv, TypeInv, EpollInv
<1>3. PICK l : /\ Go(p, l) /\ l \in {"addend", "addfd", "addtm"}
               /\ l = "addtm" => "timeout" \in kind[E(p)]
               /\ l = "addfd" => "fd" \in kind[E(p)]
  BY DEF AddCheck, TimerPart
<1>4. Load(p, l, E(p)) /\ l \in AddP /\ l # "delref"
  BY <1>3 DEF Go, AddP
<1>5. ASSUME NEW g, g.at = l, g.s = U(p), g.o = E(p), ~g.ret
      PROVE  FrameInv(p, g) /\ Inherits(g, Top(p)) /\ Owned(g) = Owned(Top(p)) /\ Follows(p, Top(p).at, l)
  <2>1. Owned(g) = Owned(Top(p))
    BY <1>1, <1>3, <1>4, <1>5, AddTop
  <2> QED
    BY <1>1, <1>3, <1>4, <1>5, <2>1, AddFrame
<1>6. Follows(p, Top(p).at, l)
  BY <1>1, <1>4, FollowsTable
<1> QED
  BY <1>1, <1>2, <1>4, <1>5, <1>6, AddTop, LoadStill

\* uevent_add reads active_fd.
LEMMA LifeAddFdRead ==
  ASSUME LifeInv, NEW p \in Threads, AddFdRead(p)
  PROVE  LifeInv'
<1>1. Top(p).at = "addfd" /\ Top(p).at \in AddP
  BY DEF AddFdRead, At, AddP
<1>2. Still
  BY DEF AddFdRead, Still, slots, memory, base, lists, flags, lifeVars, LifeInv, TypeInv, EpollInv
<1>3. U(p) \in Slots /\ E(p) \in Events /\ E(p) = Top(p).o
  BY <1>1, AddTop
<1>4. PICK g : g = [Frame("addctl", U(p), E(p)) EXCEPT !.ret = E(p) \in active_fd]
  OBVIOUS
<1>5. g \in FrameType /\ g.at = "addctl" /\ g.s = U(p) /\ g.o = E(p) /\ (g.ret <=> E(p) \in active_fd)
      /\ Replace(p, <<g>>)
  <2>1. Replace(p, <<g>>)
    BY <1>4 DEF AddFdRead
  <2>2. g = [at |-> "addctl", s |-> U(p), o |-> E(p), ret |-> E(p) \in active_fd]
    BY <1>4 DEF Frame
  <2>3. "addctl" \in Places
    BY DEF Places
  <2>4. (E(p) \in active_fd) \in BOOLEAN
    OBVIOUS
  <2>5. g \in FrameType
    BY <1>3, <2>2, <2>3, <2>4 DEF FrameType
  <2>6. g.at = "addctl" /\ g.s = U(p) /\ g.o = E(p)
    BY <2>2
  <2>7. g.ret <=> E(p) \in active_fd
    BY <2>2, Zenon
  <2> QED
    BY <2>1, <2>5, <2>6, <2>7
<1>6. g.at \in AddP /\ FrameShape(g)
  BY <1>3, <1>5 DEF AddP, FrameShape
<1>7. "fd" \in kind[E(p)]
  BY <1>1, <1>3, TopKnown DEF FrameInv
<1>8. FrameInv(p, g) /\ Inherits(g, Top(p)) /\ Follows(p, Top(p).at, g.at)
  BY <1>1, <1>5, <1>6, <1>7, AddFrame
<1>9. \A s : Worth(g, s) = Worth(Top(p), s)
  BY <1>1, <1>5, <1>6, AddTop DEF Worth
<1> QED
  BY <1>1, <1>2, <1>5, <1>6, <1>8, <1>9, AddTop, SameOne

\* uevent_add calls epoll_ctl.
LEMMA LifeAddFdCtl ==
  ASSUME LifeInv, NEW p \in Threads, AddFdCtl(p)
  PROVE  LifeInv'
<1>1. Top(p).at = "addctl" /\ Top(p).at \in AddP
  BY DEF AddFdCtl, At, AddP
<1>2. U(p) \in Slots /\ E(p) \in Events /\ E(p) = Top(p).o /\ Returned(p) = Top(p).ret
  BY <1>1, AddTop
<1>a. uev[E(p)] \in Slots
  <2>1. ev[U(p)] = E(p) /\ E(p) # NULL
    BY <1>1, <1>2, AddTop, LifeAssumption
  <2> QED
    BY <1>2, <2>1 DEF LifeInv, EventInv
<1>3. Still
  BY <1>2, <1>a DEF AddFdCtl, Still, slots, memory, base, lists, flags, lifeVars, LifeInv, TypeInv, EpollInv
<1>4. "fd" \in kind[E(p)] /\ (~Returned(p) => E(p) \notin active_fd)
  BY <1>1, <1>2, TopKnown DEF FrameInv
<1>5. PICK l : /\ Go(p, l) /\ l \in {"addend", "addmark", "addtm"}
               /\ l = "addtm" => "timeout" \in kind[E(p)]
               /\ l = "addmark" => ~Returned(p)
  BY DEF AddFdCtl, TimerPart
<1>6. Load(p, l, E(p)) /\ l \in AddP /\ l # "delref"
  BY <1>5 DEF Go, AddP
<1>7. ASSUME NEW g, g.at = l, g.s = U(p), g.o = E(p), ~g.ret
      PROVE  FrameInv(p, g) /\ Inherits(g, Top(p)) /\ Owned(g) = Owned(Top(p))
  <2>1. Owned(g) = Owned(Top(p))
    BY <1>1, <1>5, <1>6, <1>7, AddTop
  <2> QED
    BY <1>1, <1>4, <1>5, <1>6, <1>7, <2>1, AddFrame
<1>8. Follows(p, Top(p).at, l)
  BY <1>1, <1>6, FollowsTable
<1> QED
  BY <1>1, <1>3, <1>6, <1>7, <1>8, AddTop, LoadStill

\* A callback runs in the loop, or in a worker if there is a pool.
LEMMA CallbackThread ==
  ASSUME LifeInv, NEW p \in Threads, At(p, "cb")
  PROVE  p = Loop \/ Pooled
<1> DEFINE n == Len(th[p])
<1>1. /\ n \in Nat /\ n > 1 /\ th[p] \in Seq(FrameType) /\ Top(p).at = "cb"
      /\ "cb" \in Above(th[p][n - 1].at)
  <2>1. "cb" \notin Ground(p)
    BY GroundPlaces
  <2>2. Top(p).at = "cb"
    BY DEF At
  <2>3. /\ n \in Nat /\ th[p] \in Seq(FrameType)
        /\ Top(p).at \notin Ground(p) => n > 1 /\ Top(p).at \in Above(th[p][n - 1].at)
    BY TopFacts DEF LifeInv
  <2> QED
    BY <2>1, <2>2, <2>3
<1>2. th[p][n - 1].at \in {"tlock", "epauto", "wfinal"}
  BY <1>1, AboveWhen DEF RefP, PutP, AddP, DelP, CbP
<1>3. n - 1 = 1
  <2>1. SUFFICES ASSUME n - 1 # 1 PROVE FALSE
    OBVIOUS
  <2> HIDE DEF n
  <2>2. n - 2 \in 1 .. n - 1 /\ (n - 2) + 1 = n - 1
    BY <1>1, <2>1
  <2>3. th[p][n - 1].at \in Above(th[p][n - 2].at)
    BY <2>2 DEF LifeInv, ShapeInv, n
  <2> QED
    BY <1>2, <2>3, AboveWhen DEF RefP, PutP, AddP, DelP, CbP
<1>4. th[p][n - 1].at \in Ground(p)
  BY <1>3 DEF LifeInv, ShapeInv
<1>5. p = Loop \/ p = Worker
  BY <1>2, <1>4 DEF Ground
<1>6. p = Worker => Pooled
  BY <1>1 DEF LifeInv, EventInv, At
<1> QED
  BY <1>5, <1>6

\* What the guard of a call says.
LEMMA MayUseFacts ==
  ASSUME LifeInv, NEW p \in Threads, NEW s \in Slots, NEW op, MayUse(p, op, s)
  PROVE  /\ ev[s] \in Events /\ ev[s] \notin released /\ ev[s] \notin pending_free /\ kind[ev[s]] \in Kinds
         /\ <<op, kind[ev[s]]>> \in Ops /\ (p # Loop => <<op, kind[ev[s]]>> \in Outside)
<1>1. ev[s] # NULL /\ ev[s] \notin released /\ MayCall(p, op, kind[ev[s]])
  BY DEF MayUse
<1>2. ev[s] \in Events /\ kind[ev[s]] \in Kinds /\ ev[s] \notin pending_free
  BY <1>1 DEF LifeInv, TypeInv, EventInv
<1>3. At(p, "cb") => p = Loop \/ Pooled
  BY CallbackThread
<1>4. p \in Clients => p # Loop
  BY LifeAssumption DEF Loop
<1> QED
  BY <1>1, <1>2, <1>3, <1>4 DEF MayCall, Ops, Outside

\* A thread that may begin a call.
LEMMA CallerFacts ==
  ASSUME LifeInv, NEW p \in Threads, NEW op, NEW k, MayCall(p, op, k)
  PROVE  /\ Top(p).at \in {"idle", "cb"} /\ Ordinary(p) /\ Top(p).at \notin RefP
         /\ \A g : g = Here(p) =>
              /\ g \in FrameType /\ FrameShape(g) /\ ~g.ret /\ g.at = Top(p).at /\ g.s = U(p) /\ g.o = E(p)
              /\ FrameInv(p, g) /\ g.at # "delref" /\ g.at \notin RefTested
              /\ (Quiet(g) \/ Inherits(g, Top(p))) /\ \A t : Worth(g, t) = Worth(Top(p), t)
              /\ Follows(p, Top(p).at, g.at)
<1>1. Top(p).at \in {"idle", "cb"} /\ (Top(p).at = "idle" => p \in Clients)
  BY DEF MayCall, At
<1>2. Ordinary(p) /\ Top(p).at \notin RefP
  BY <1>1, LifeAssumption DEF Ordinary, At, Worker, RefP
<1>3. /\ FrameInv(p, Top(p)) /\ Top(p) \in FrameType /\ FrameShape(Top(p))
      /\ U(p) = Top(p).s /\ E(p) = Top(p).o
  BY TopKnown
<1>4. ASSUME NEW g, g = Here(p)
      PROVE  /\ g \in FrameType /\ FrameShape(g) /\ ~g.ret /\ g.at = Top(p).at /\ g.s = U(p) /\ g.o = E(p)
             /\ FrameInv(p, g) /\ g.at # "delref" /\ g.at \notin RefTested
             /\ (Quiet(g) \/ Inherits(g, Top(p))) /\ \A t : Worth(g, t) = Worth(Top(p), t)
             /\ Follows(p, Top(p).at, g.at)
  <2>1. g.at = Top(p).at /\ g.s = Top(p).s /\ g.o = Top(p).o /\ ~g.ret
    BY <1>3, <1>4 DEF Here, Frame
  <2>2. g \in FrameType
    BY <1>3, <1>4, FrameTyped DEF Here, FrameType
  <2>3. FrameShape(g)
    BY <1>3, <2>1 DEF FrameShape
  <2>4. ~Named(g) /\ g.at \notin RefTested /\ g.at # "delref"
    BY <1>1, <2>1 DEF Named, RefTested, Tested
  <2>5. FrameInv(p, g)
    BY <1>1, <1>3, <2>1, <2>4 DEF FrameInv
  <2>6. Inherits(g, Top(p))
    BY <1>1, <2>1 DEF Inherits
  <2>7. Owned(g) = Owned(Top(p))
    BY <1>1, <2>1, WorthFacts
  <2>8. \A t : Worth(g, t) = Worth(Top(p), t)
    BY <2>1, <2>7 DEF Worth
  <2>9. Follows(p, Top(p).at, g.at)
    BY <2>1, FollowsTable
  <2> QED
    BY <1>3, <2>1, <2>2, <2>3, <2>4, <2>5, <2>6, <2>8, <2>9
<1> QED
  BY <1>1, <1>2, <1>4

\* A call begins.
LEMMA LifeBegin ==
  ASSUME TimersLeftToLoop, LifeInv, NEW p \in Threads, NEW op, NEW l,
         <<op, l>> \in {<<"add", "addref">>, <<"del", "delref">>, <<"peek", "peekref">>}, Begin(p, op, l)
  PROVE  LifeInv'
<1>1. PICK s \in Slots : MayUse(p, op, s) /\ TryRefThen(p, s, l, Here(p))
  BY DEF Begin
<1>2. Still
  BY DEF Begin, Still, slots, memory, base, lists, flags, lifeVars, LifeInv, TypeInv, EpollInv
<1>3. PICK g : g = Here(p)
  OBVIOUS
<1>4. MayCall(p, op, kind[ev[s]])
  BY <1>1 DEF MayUse
<1>5. /\ Top(p).at \in {"idle", "cb"} /\ Ordinary(p) /\ Top(p).at \notin RefP
      /\ g \in FrameType /\ FrameShape(g) /\ ~g.ret /\ g.at = Top(p).at
      /\ FrameInv(p, g) /\ g.at # "delref" /\ g.at \notin RefTested
      /\ (Quiet(g) \/ Inherits(g, Top(p))) /\ \A t : Worth(g, t) = Worth(Top(p), t)
      /\ Follows(p, Top(p).at, g.at)
  BY <1>3, <1>4, CallerFacts
<1>6. /\ ev[s] \in Events /\ ev[s] \notin released /\ ev[s] \notin pending_free /\ kind[ev[s]] \in Kinds
      /\ <<op, kind[ev[s]]>> \in Ops /\ (p # Loop => <<op, kind[ev[s]]>> \in Outside)
  BY <1>1, MayUseFacts
<1>7. ev[s] # NULL
  BY <1>6, LifeAssumption
<1>8. l \in RefTested /\ l \in Above(g.at)
  <2>1. l \in {"addref", "delref", "peekref"}
    OBVIOUS
  <2> QED
    BY <1>5, <2>1, AboveWhen DEF RefTested, Tested
<1>9. l = "addref" => Arms(kind[ev[s]])
  BY <1>6 DEF Arms
<1>10. l = "delref" /\ p # Loop => Stops(kind[ev[s]]) /\ ~Frees(kind[ev[s]])
  BY <1>6 DEF Stops, TimersLeftToLoop
<1>11. TryRefThen(p, s, l, g)
  BY <1>1, <1>3
<1> HIDE DEF Here
<1> QED
  BY <1>2, <1>5, <1>6, <1>7, <1>8, <1>9, <1>10, <1>11, CallRef

\* A place in the middle of a call.
LEMMA CallTop ==
  ASSUME LifeInv, NEW p \in Threads,
         NEW l \in RefP \cup PutP \cup RefTested \cup DelP \cup CbP \cup {"free", "freepend"}, At(p, l)
  PROVE  /\ Top(p).at = l /\ U(p) \in Slots /\ E(p) \in Events \cup {NULL} /\ Returned(p) \in BOOLEAN
         /\ U(p) = Top(p).s /\ E(p) = Top(p).o /\ Returned(p) = Top(p).ret
         /\ l # "delheap" => Ordinary(p)
         /\ Top(p).at \notin Ground(p) /\ Top(p).at \notin Unslotted /\ FrameInv(p, Top(p))
<1>1. Top(p).at = l
  BY DEF At
<1>2. l \notin Ground(p) /\ l \notin Unslotted /\ l # "create" /\ l # "wtake"
  BY GroundPlaces DEF RefP, PutP, RefTested, Tested, DelP, CbP, Unslotted
<1> QED
  BY <1>1, <1>2, TopKnown DEF FrameShape, FrameType, Ordinary, At

\* uevent_del has its reference.
LEMMA LifeDel ==
  ASSUME LifeInv, NEW p \in Threads, Del(p)
  PROVE  LifeInv'
<1>1. "delref" \in RefTested /\ "delref" \notin RefP /\ At(p, "delref")
  BY DEF Del, RefTested, Tested, RefP
<1>2. /\ Top(p).at = "delref" /\ U(p) \in Slots /\ Returned(p) \in BOOLEAN /\ Returned(p) = Top(p).ret
      /\ Ordinary(p) /\ Top(p).at \notin Ground(p) /\ FrameInv(p, Top(p)) /\ U(p) = Top(p).s
  BY <1>1, CallTop
<1>3. Still
  BY DEF Del, Still, slots, memory, base, lists, flags, lifeVars, LifeInv, TypeInv, EpollInv
<1>4. Owned(Top(p)) = IF Returned(p) THEN 1 ELSE 0
  BY <1>1, <1>2, WorthFacts
<1>5. CASE Returned(p)
  <2>1. Load(p, "delfd", ev[U(p)])
    BY <1>5 DEF Del
  <2>2. ev[U(p)] # NULL
    BY <1>1, <1>2, <1>5 DEF FrameInv, Named
  <2>3. ev[U(p)] \in Events \cup {NULL}
    BY <1>2 DEF LifeInv, TypeInv
  <2>4. p # Loop => Stops(kind[ev[U(p)]])
    <3>1. Len(th[p]) \in DOMAIN th[p] /\ Top(p) = th[p][Len(th[p])]
      BY TopFacts DEF LifeInv
    <3> QED
      BY <1>2, <3>1 DEF LifeInv, DelRefInv
  <2>5. ASSUME NEW g, g.at = "delfd", g.s = U(p), g.o = ev[U(p)], ~g.ret
        PROVE  FrameInv(p, g) /\ Quiet(g) /\ Owned(g) = Owned(Top(p))
    <3>1. FrameInv(p, g)
      BY <2>2, <2>4, <2>5 DEF FrameInv, Named, AddP, CbP, RefTested, Tested
    <3> QED
      BY <1>4, <1>5, <2>5, <3>1, WorthFacts DEF Quiet, AddP
  <2>6. Follows(p, "delref", "delfd") /\ "delfd" \in Places
    <3>1. "delfd" \in DelP /\ "delref" \in DelP \cup {"delref"}
      BY DEF DelP
    <3> QED
      BY <3>1, FollowsTable DEF Places
  <2> QED
    BY <1>2, <1>3, <2>1, <2>3, <2>5, <2>6, LoadStill
<1>6. CASE ~Returned(p)
  <2>1. Return(p, FALSE)
    BY <1>6 DEF Del
  <2> QED
    BY <1>1, <1>2, <1>3, <1>4, <1>6, <2>1, SamePop
<1> QED
  BY <1>2, <1>5, <1>6

\* A frame of uevent_put.
LEMMA PutFrame ==
  ASSUME LifeInv, NEW p \in Threads, NEW s \in Slots, ev[s] # NULL, NEW g, g = Frame("put", s, NULL)
  PROVE  /\ g \in FrameType /\ FrameShape(g) /\ FrameInv(p, g) /\ Quiet(g) /\ g.at = "put" /\ g.s = s
         /\ g.at # "delref" /\ ~g.ret /\ Owned(g) = 1
<1>1. g.at = "put" /\ g.s = s /\ ~g.ret
  BY DEF Frame
<1>2. g \in FrameType
  BY FrameTyped DEF Places
<1>3. FrameInv(p, g)
  BY <1>1 DEF FrameInv, Named, AddP, DelP, CbP
<1> QED
  BY <1>1, <1>2, <1>3, WorthFacts DEF FrameShape, Quiet, AddP

\* uevent_del takes the descriptor out of epoll.
LEMMA LifeDelFdCtl ==
  ASSUME LifeInv, NEW p \in Threads, DelFdCtl(p)
  PROVE  LifeInv'
<1>1. At(p, "delctl") /\ "delctl" \in DelP
  BY DEF DelFdCtl, DelP
<1>2. /\ Top(p).at = "delctl" /\ U(p) \in Slots /\ E(p) \in Events \cup {NULL}
      /\ Ordinary(p) /\ Top(p).at \notin Ground(p) /\ FrameInv(p, Top(p)) /\ U(p) = Top(p).s /\ E(p) = Top(p).o
  BY <1>1, CallTop
<1>3. Still
  BY DEF DelFdCtl, Still, slots, memory, base, lists, flags, lifeVars, LifeInv, TypeInv, EpollInv
<1>4. E(p) # NULL /\ ev[U(p)] = E(p) /\ (p # Loop => Stops(kind[E(p)])) /\ Owned(Top(p)) = 2
  BY <1>1, <1>2, WorthFacts DEF FrameInv
<1>5. PICK g : g = Frame("deltm", U(p), E(p))
  OBVIOUS
<1>6. PICK h : h = Frame("put", U(p), NULL)
  OBVIOUS
<1>7. g.at = "deltm" /\ g.s = U(p) /\ g.o = E(p) /\ ~g.ret
  BY <1>5 DEF Frame
<1>8. g \in FrameType /\ FrameShape(g)
  <2>1. g \in FrameType
    BY <1>2, <1>5, FrameTyped DEF Places
  <2> QED
    BY <1>2, <1>7, <2>1 DEF FrameShape
<1>9. FrameInv(p, g)
  BY <1>4, <1>7 DEF FrameInv, Named, AddP, CbP, RefTested, Tested
<1>10. /\ h \in FrameType /\ FrameShape(h) /\ FrameInv(p, h) /\ Quiet(h) /\ h.at = "put" /\ h.s = U(p)
       /\ h.at # "delref" /\ Owned(h) = 1
  BY <1>2, <1>4, <1>6, PutFrame
<1>11. Quiet(g) /\ Owned(g) = 1 /\ g.at \notin RefTested /\ g.at # "delref"
  BY <1>7, WorthFacts DEF Quiet, AddP, RefTested, Tested
<1>12. Replace(p, <<g, h>>)
  BY <1>5, <1>6, <1>8, <1>10, AppendTwo DEF DelFdCtl, Call, Enter
<1>13. Follows(p, Top(p).at, g.at) /\ h.at \in Above(g.at)
  <2>1. "deltm" \in DelP /\ "delctl" \in DelP \cup {"delref"}
    BY DEF DelP
  <2> QED
    BY <1>2, <1>7, <1>10, <2>1, FollowsTable, AboveWhen DEF PutP
<1>14. \A s : Worth(g, s) + Worth(h, s) = Worth(Top(p), s)
  BY <1>2, <1>4, <1>7, <1>10, <1>11 DEF Worth
<1> QED
  BY <1>2, <1>3, <1>7, <1>8, <1>9, <1>10, <1>11, <1>12, <1>13, <1>14, SameTwo

\* uevent_free goes on to uevent_del.
LEMMA LifeFree ==
  ASSUME LifeInv, NEW p \in Threads, Free(p)
  PROVE  LifeInv'
<1>1. /\ Top(p).at = "free" /\ U(p) \in Slots /\ Ordinary(p) /\ Top(p).at \notin Ground(p)
      /\ FrameInv(p, Top(p)) /\ U(p) = Top(p).s
  BY CallTop DEF Free
<1>2. Still
  BY DEF Free, Still, slots, memory, base, lists, flags, lifeVars, LifeInv, TypeInv, EpollInv
<1>3. Top(p).at \notin RefP /\ Owned(Top(p)) = 0
  BY <1>1, WorthFacts DEF RefP
<1>4. /\ ev[U(p)] # NULL /\ ev[U(p)] \in released \ pending_free /\ Frees(kind[ev[U(p)]])
      /\ p # Loop => Stops(kind[ev[U(p)]])
  BY <1>1 DEF FrameInv
<1>5. CASE Return(p, FALSE)
  BY <1>1, <1>2, <1>3, <1>5, SamePop
<1>6. CASE TryRefThen(p, U(p), "delref", Frame("freepend", U(p), ev[U(p)]))
  <2>1. PICK g : g = Frame("freepend", U(p), ev[U(p)])
    OBVIOUS
  <2>2. g.at = "freepend" /\ g.s = U(p) /\ g.o = ev[U(p)] /\ ~g.ret
    BY <2>1 DEF Frame
  <2>3. ev[U(p)] \in Events \cup {NULL}
    BY <1>1 DEF LifeInv, TypeInv
  <2>4. g \in FrameType
    BY <1>1, <2>1, <2>3, FrameTyped DEF Places
  <2>5. FrameInv(p, g)
    BY <1>4, <2>2 DEF FrameInv, Named, AddP, DelP, CbP, RefTested, Tested
  <2>6. FrameShape(g) /\ g.at # "delref" /\ g.at \notin RefTested
    BY <1>1, <2>2 DEF FrameShape, RefTested, Tested
  <2>7. Inherits(g, Top(p))
    BY <1>1, <2>2 DEF Inherits, AddP
  <2>8. \A t : Worth(g, t) = Worth(Top(p), t)
    BY <1>3, <2>2, WorthFacts DEF Worth
  <2>9. Follows(p, Top(p).at, g.at) /\ "delref" \in Above(g.at) /\ "delref" \in RefTested
    BY <1>1, <2>2, FollowsTable, AboveWhen DEF RefTested, Tested
  <2>10. TryRefThen(p, U(p), "delref", g)
    BY <1>6, <2>1
  <2> QED
    BY <1>1, <1>2, <1>3, <1>4, <2>2, <2>4, <2>5, <2>6, <2>7, <2>8, <2>9, <2>10, CallRef
<1> QED
  BY <1>5, <1>6 DEF Free

\* The places of the loop itself.
LoopP == {"wait", "tlock", "tmin", "tput", "tcb", "epoll", "eptest", "epauto"}

\* The loop at a place of its own.
LEMMA LoopTop ==
  ASSUME LifeInv, NEW l \in LoopP, At(Loop, l)
  PROVE  /\ Loop \in Threads /\ Top(Loop).at = l /\ Ordinary(Loop) /\ l \notin RefP
         /\ E(Loop) \in Events \cup {NULL} /\ (l \notin Unslotted => U(Loop) \in Slots)
         /\ U(Loop) = Top(Loop).s /\ E(Loop) = Top(Loop).o /\ Returned(Loop) = Top(Loop).ret
         /\ Returned(Loop) \in BOOLEAN /\ U(Loop) \in Slots \cup {NULL}
         /\ Owned(Top(Loop)) = 0 /\ FrameInv(Loop, Top(Loop))
         /\ \A k \in LoopP : Follows(Loop, l, k)
<1>1. Loop \in Threads /\ Loop # Worker
  BY DEF Threads, Loop, Worker
<1>2. Top(Loop).at = l /\ l # "create" /\ l # "delheap" /\ l \notin RefP
  BY DEF At, LoopP, RefP
<1>3. Owned(Top(Loop)) = 0
  BY <1>2, WorthFacts DEF LoopP
<1>4. \A k \in LoopP : Follows(Loop, l, k)
  BY <1>1, FollowsTable DEF LoopP
<1> QED
  BY <1>1, <1>2, <1>3, <1>4, TopKnown DEF FrameShape, FrameType, Ordinary, At

\* A frame of the loop that knows nothing.
LEMMA LoopFrame ==
  ASSUME LifeInv, NEW l \in LoopP \ {"tput", "tmin"}, NEW s \in Slots \cup {NULL}, NEW o \in Events \cup {NULL},
         l \in Unslotted \/ s \in Slots, NEW g, g = Frame(l, s, o)
  PROVE  /\ g \in FrameType /\ FrameShape(g) /\ FrameInv(Loop, g) /\ Quiet(g)
         /\ g.at = l /\ g.s = s /\ g.o = o /\ ~g.ret
         /\ g.at # "delref" /\ g.at \notin RefTested /\ Owned(g) = 0 /\ \A t : Worth(g, t) = 0
<1>1. g.at = l /\ g.s = s /\ g.o = o /\ ~g.ret
  BY DEF Frame
<1>2. l \in Places /\ l \notin RefTested /\ l # "delref" /\ l \notin AddP \cup DelP \cup CbP
      /\ l \notin {"put", "dec", "destroy", "wfinal", "create", "free", "freepend", "addref"}
  BY DEF LoopP, Places, RefTested, Tested, AddP, DelP, CbP
<1>3. g \in FrameType
  BY <1>2, FrameTyped
<1>4. ~Named(g)
  BY <1>1, <1>2 DEF Named
<1>5. FrameInv(Loop, g)
  BY <1>1, <1>2, <1>4 DEF FrameInv, AddP, LoopP
<1>6. Owned(g) = 0
  BY <1>1, WorthFacts DEF LoopP
<1> QED
  BY <1>1, <1>2, <1>3, <1>5, <1>6 DEF FrameShape, Quiet, LoopP, Worth

\* From one place of the loop to another.
LEMMA LoopStill ==
  ASSUME LifeInv, NEW l \in LoopP, At(Loop, l), Still,
         NEW k \in LoopP \ {"tput", "tmin"}, NEW s \in Slots \cup {NULL}, NEW o \in Events \cup {NULL},
         k \in Unslotted \/ s \in Slots, Replace(Loop, <<Frame(k, s, o)>>)
  PROVE  LifeInv'
<1>1. PICK g : g = Frame(k, s, o)
  OBVIOUS
<1>2. Replace(Loop, <<g>>)
  BY <1>1
<1>3. /\ g \in FrameType /\ FrameShape(g) /\ FrameInv(Loop, g) /\ Quiet(g) /\ g.at = k
      /\ g.at # "delref" /\ \A t : Worth(g, t) = 0
  BY <1>1, LoopFrame
<1>4. /\ Loop \in Threads /\ Top(Loop).at = l /\ Ordinary(Loop) /\ l \notin RefP /\ Owned(Top(Loop)) = 0
      /\ Follows(Loop, l, k)
  BY LoopTop
<1>5. \A t : Worth(g, t) = Worth(Top(Loop), t)
  BY <1>3, <1>4 DEF Worth
<1> QED
  BY <1>2, <1>3, <1>4, <1>5, SameOne

\* The loop calls uevent_try_ref.
LEMMA LoopCalls ==
  ASSUME LifeInv, NEW l \in LoopP, At(Loop, l), Still, NEW c \in RefTested \ {"addref"},
         NEW k \in LoopP \ {"tput", "tmin"}, NEW s \in Slots \cup {NULL}, NEW o \in Events \cup {NULL},
         k \in Unslotted \/ s \in Slots, NEW t \in Slots, TryRefThen(Loop, t, c, Frame(k, s, o)),
         c \in Above(k)
  PROVE  LifeInv'
<1>1. PICK g : g = Frame(k, s, o)
  OBVIOUS
<1>2. TryRefThen(Loop, t, c, g)
  BY <1>1
<1>3. /\ g \in FrameType /\ FrameShape(g) /\ FrameInv(Loop, g) /\ Quiet(g) /\ g.at = k
      /\ g.at # "delref" /\ g.at \notin RefTested /\ ~g.ret /\ \A u : Worth(g, u) = 0
  BY <1>1, LoopFrame
<1>4. /\ Loop \in Threads /\ Top(Loop).at = l /\ Ordinary(Loop) /\ l \notin RefP /\ Owned(Top(Loop)) = 0
      /\ Follows(Loop, l, k)
  BY LoopTop
<1>5. \A u : Worth(g, u) = Worth(Top(Loop), u)
  BY <1>3, <1>4 DEF Worth
<1>6. c \in RefTested /\ c # "addref"
  OBVIOUS
<1> QED
  BY <1>2, <1>3, <1>4, <1>5, <1>6, CallRef

\* epoll_wait returns.
LEMMA LifeEpollWait ==
  ASSUME LifeInv, EpollWait
  PROVE  LifeInv'
<1>1. At(Loop, "wait") /\ "wait" \in LoopP
  BY DEF EpollWait, LoopP
<1>2. Still
  BY DEF EpollWait, Still, slots, memory, base, lists, flags, lifeVars, LifeInv, TypeInv, EpollInv
<1>3. E(Loop) \in Events \cup {NULL} /\ U(Loop) \in Slots \cup {NULL}
  BY <1>1, LoopTop
<1>4. Replace(Loop, <<Frame("tlock", U(Loop), E(Loop))>>)
  BY DEF EpollWait, Go, Load
<1>5. "tlock" \in LoopP \ {"tput", "tmin"} /\ "tlock" \in Unslotted
  BY DEF LoopP, Unslotted
<1> QED
  BY <1>1, <1>2, <1>3, <1>4, <1>5, LoopStill

\* The list of ready descriptors ends.
LEMMA LifeEpollEnd ==
  ASSUME LifeInv, EpollEnd
  PROVE  LifeInv'
<1>1. At(Loop, "epoll") /\ "epoll" \in LoopP
  BY DEF EpollEnd, LoopP
<1>2. Still
  BY DEF EpollEnd, Still, slots, memory, base, lists, flags, lifeVars, LifeInv, TypeInv, EpollInv
<1>3. E(Loop) \in Events \cup {NULL} /\ U(Loop) \in Slots \cup {NULL}
  BY <1>1, LoopTop
<1>4. Replace(Loop, <<Frame("wait", U(Loop), E(Loop))>>)
  BY DEF EpollEnd, Go, Load
<1>5. "wait" \in LoopP \ {"tput", "tmin"} /\ "wait" \in Unslotted
  BY DEF LoopP, Unslotted
<1> QED
  BY <1>1, <1>2, <1>3, <1>4, <1>5, LoopStill

\* The loop goes to the next descriptor.
LEMMA LifeEpollNext ==
  ASSUME LifeInv, EpollNext
  PROVE  LifeInv'
<1>1. At(Loop, "epoll") /\ "epoll" \in LoopP
  BY DEF EpollNext, LoopP
<1>2. Still
  BY DEF EpollNext, Still, slots, memory, base, lists, flags, lifeVars, LifeInv, TypeInv, EpollInv
<1>3. PICK s \in reported : Replace(Loop, <<Frame("eptest", s, ev[s])>>)
  BY DEF EpollNext
<1>4. s \in Slots /\ ev[s] \in Events \cup {NULL}
  BY DEF LifeInv, TypeInv, EpollInv
<1>5. "eptest" \in LoopP \ {"tput", "tmin"}
  BY DEF LoopP
<1> QED
  BY <1>1, <1>2, <1>3, <1>4, <1>5, LoopStill

\* The loop dispatches a due timer.
LEMMA LifeTimerCallback ==
  ASSUME LifeInv, TimerCallback
  PROVE  LifeInv'
<1>1. At(Loop, "tcb") /\ "tcb" \in LoopP /\ "tcb" \notin Unslotted
  BY DEF TimerCallback, LoopP, Unslotted
<1>2. Still
  BY DEF TimerCallback, Still, slots, memory, base, lists, flags, lifeVars, LifeInv, TypeInv, EpollInv
<1>3. U(Loop) \in Slots
  BY <1>1, LoopTop
<1>4. "tlock" \in LoopP \ {"tput", "tmin"} /\ "tlock" \in Unslotted
      /\ "dispref" \in RefTested \ {"addref"} /\ "dispref" \in Above("tlock")
  BY AboveWhen DEF LoopP, Unslotted, RefTested, Tested
<1>5. CASE Replace(Loop, <<Frame("tlock", NULL, NULL)>>)
  BY <1>1, <1>2, <1>4, <1>5, LoopStill
<1>6. CASE TryRefThen(Loop, U(Loop), "dispref", Frame("tlock", NULL, NULL))
  BY <1>1, <1>2, <1>3, <1>4, <1>6, LoopCalls
<1> QED
  BY <1>5, <1>6 DEF TimerCallback, NoFrame

\* The loop looks at the event of a descriptor.
LEMMA LifeEpollTest ==
  ASSUME LifeInv, EpollTest
  PROVE  LifeInv'
<1>1. At(Loop, "eptest") /\ "eptest" \in LoopP /\ "eptest" \notin Unslotted
  BY DEF EpollTest, LoopP, Unslotted
<1>2. Still
  BY DEF EpollTest, Still, slots, memory, base, lists, flags, lifeVars, LifeInv, TypeInv, EpollInv
<1>3. U(Loop) \in Slots /\ E(Loop) \in Events \cup {NULL}
  BY <1>1, LoopTop
<1>4. {"epoll", "epauto"} \subseteq LoopP \ {"tput", "tmin"} /\ "epoll" \in Unslotted
      /\ "dispref" \in RefTested \ {"addref"} /\ "dispref" \in Above("epauto")
  BY AboveWhen DEF LoopP, Unslotted, RefTested, Tested
<1>5. CASE Replace(Loop, <<Frame("epoll", U(Loop), NULL)>>)
  BY <1>1, <1>2, <1>3, <1>4, <1>5, LoopStill
<1>6. CASE Replace(Loop, <<Frame("epauto", U(Loop), E(Loop))>>)
  BY <1>1, <1>2, <1>3, <1>4, <1>6, LoopStill
<1>7. CASE TryRefThen(Loop, U(Loop), "dispref", Frame("epauto", U(Loop), E(Loop)))
  BY <1>1, <1>2, <1>3, <1>4, <1>7, LoopCalls
<1> QED
  BY <1>5, <1>6, <1>7 DEF EpollTest, Load, Go

\* The loop disarms a one-shot descriptor.
LEMMA LifeEpollAutoDel ==
  ASSUME LifeInv, EpollAutoDel
  PROVE  LifeInv'
<1>1. At(Loop, "epauto") /\ "epauto" \in LoopP /\ "epauto" \notin Unslotted
  BY DEF EpollAutoDel, LoopP, Unslotted
<1>2. Still
  BY DEF EpollAutoDel, Still, slots, memory, base, lists, flags, lifeVars, LifeInv, TypeInv, EpollInv
<1>3. U(Loop) \in Slots
  BY <1>1, LoopTop
<1>4. "epoll" \in LoopP \ {"tput", "tmin"} /\ "epoll" \in Unslotted
      /\ "delref" \in RefTested \ {"addref"} /\ "delref" \in Above("epoll")
  BY AboveWhen DEF LoopP, Unslotted, RefTested, Tested
<1>5. CASE Replace(Loop, <<Frame("epoll", U(Loop), NULL)>>)
  BY <1>1, <1>2, <1>3, <1>4, <1>5, LoopStill
<1>6. CASE TryRefThen(Loop, U(Loop), "delref", Frame("epoll", NULL, NULL))
  BY <1>1, <1>2, <1>3, <1>4, <1>6, LoopCalls
<1> QED
  BY <1>5, <1>6 DEF EpollAutoDel, Load, NoFrame

\* The worker has tried to take a reference.
LEMMA LifeWorkerRef ==
  ASSUME LifeInv, WorkerRef
  PROVE  LifeInv'
<1>0. Worker \in Threads /\ "wref" \in RefTested /\ "wref" \notin RefP /\ At(Worker, "wref")
  BY DEF WorkerRef, Threads, RefTested, Tested, RefP
<1>1. /\ Top(Worker).at = "wref" /\ U(Worker) \in Slots /\ Returned(Worker) \in BOOLEAN
      /\ Returned(Worker) = Top(Worker).ret /\ Ordinary(Worker) /\ Top(Worker).at \notin Ground(Worker)
      /\ FrameInv(Worker, Top(Worker)) /\ U(Worker) = Top(Worker).s
  BY <1>0, CallTop
<1>2. Still
  BY DEF WorkerRef, Still, slots, memory, base, lists, flags, lifeVars, LifeInv, TypeInv, EpollInv
<1>3. Owned(Top(Worker)) = IF Returned(Worker) THEN 1 ELSE 0
  BY <1>0, <1>1, WorthFacts
<1>4. CASE ~Returned(Worker)
  <2>1. Return(Worker, FALSE)
    BY <1>4 DEF WorkerRef
  <2> QED
    BY <1>0, <1>1, <1>2, <1>3, <1>4, <2>1, SamePop
<1>5. CASE Returned(Worker)
  <2>1. ev[U(Worker)] # NULL
    BY <1>0, <1>1, <1>5 DEF FrameInv, Named
  <2>2. ev[U(Worker)] \in Events \cup {NULL}
    BY <1>1 DEF LifeInv, TypeInv
  <2>3. CASE Load(Worker, "put", NULL)
    <3>1. ASSUME NEW g, g.at = "put", g.s = U(Worker), g.o = NULL, ~g.ret
          PROVE  FrameInv(Worker, g) /\ Quiet(g) /\ Owned(g) = Owned(Top(Worker))
      <4>1. FrameInv(Worker, g)
        BY <2>1, <3>1 DEF FrameInv, Named, AddP, DelP, CbP
      <4> QED
        BY <1>3, <1>5, <3>1, <4>1, WorthFacts DEF Quiet, AddP
    <3>2. Follows(Worker, "wref", "put") /\ "put" \in Places
      BY <1>0, FollowsTable DEF Places
    <3> QED
      BY <1>0, <1>1, <1>2, <2>3, <3>1, <3>2, LoadStill
  <2>4. CASE Load(Worker, "cblock", ev[U(Worker)])
    <3>1. ASSUME NEW g, g.at = "cblock", g.s = U(Worker), g.o = ev[U(Worker)], ~g.ret
          PROVE  FrameInv(Worker, g) /\ Quiet(g) /\ Owned(g) = Owned(Top(Worker))
      <4>1. FrameInv(Worker, g)
        BY <2>1, <3>1 DEF FrameInv, Named, AddP, DelP, CbP, RefTested, Tested
      <4> QED
        BY <1>3, <1>5, <3>1, <4>1, WorthFacts DEF Quiet, AddP
    <3>2. Follows(Worker, "wref", "cblock") /\ "cblock" \in Places
      BY <1>0, FollowsTable DEF Places
    <3> QED
      BY <1>0, <1>1, <1>2, <2>2, <2>4, <3>1, <3>2, LoadStill
  <2> QED
    BY <1>5, <2>3, <2>4 DEF WorkerRef, Go
<1> QED
  BY <1>1, <1>4, <1>5

\* The frame of the worker between two tasks.
LEMMA TakeFrame ==
  ASSUME NEW p, NEW g, g = Frame("wtake", NULL, NULL)
  PROVE  /\ g \in FrameType /\ FrameShape(g) /\ FrameInv(p, g) /\ Quiet(g) /\ g.at = "wtake" /\ ~g.ret
         /\ g.at # "delref" /\ g.at \notin RefTested /\ Owned(g) = 0 /\ \A t : Worth(g, t) = 0
<1>1. g.at = "wtake" /\ ~g.ret
  BY DEF Frame
<1>2. g \in FrameType
  BY FrameTyped DEF Places
<1>3. FrameInv(p, g)
  BY <1>1 DEF FrameInv, Named, AddP, DelP, CbP, RefTested, Tested
<1> QED
  BY <1>1, <1>2, <1>3, WorthFacts DEF FrameShape, Unslotted, Quiet, AddP, RefTested, Tested, Worth

\* The worker drops the reference of the task.
LEMMA LifeWorkerFinal ==
  ASSUME LifeInv, WorkerFinal
  PROVE  LifeInv'
<1>0. Worker \in Threads /\ Top(Worker).at = "wfinal"
  BY DEF WorkerFinal, Threads, At
<1>1. Still
  BY DEF WorkerFinal, Still, slots, memory, base, lists, flags, lifeVars, LifeInv, TypeInv, EpollInv
<1>2. /\ U(Worker) \in Slots /\ ev[U(Worker)] # NULL /\ Ordinary(Worker) /\ Owned(Top(Worker)) = 1
      /\ U(Worker) = Top(Worker).s /\ Top(Worker).at \notin RefP
  BY <1>0, TopKnown, WorthFacts DEF FrameInv, Named, FrameShape, Unslotted, Ordinary, At, RefP
<1>3. PICK g : g = Frame("wtake", NULL, NULL)
  OBVIOUS
<1>4. PICK h : h = Frame("put", U(Worker), NULL)
  OBVIOUS
<1>5. /\ g \in FrameType /\ FrameShape(g) /\ FrameInv(Worker, g) /\ Quiet(g) /\ g.at = "wtake" /\ ~g.ret
      /\ g.at # "delref" /\ g.at \notin RefTested /\ \A t : Worth(g, t) = 0
  BY <1>3, TakeFrame
<1>6. /\ h \in FrameType /\ FrameShape(h) /\ FrameInv(Worker, h) /\ Quiet(h) /\ h.at = "put" /\ h.s = U(Worker)
      /\ h.at # "delref" /\ Owned(h) = 1
  BY <1>0, <1>2, <1>4, PutFrame
<1>7. Replace(Worker, <<g, h>>)
  BY <1>2, <1>3, <1>4, <1>5, <1>6, AppendTwo DEF WorkerFinal, Enter, NoFrame
<1>8. Follows(Worker, Top(Worker).at, g.at) /\ h.at \in Above(g.at)
  BY <1>0, <1>5, <1>6, FollowsTable, AboveWhen DEF PutP
<1>9. \A s : Worth(g, s) + Worth(h, s) = Worth(Top(Worker), s)
  BY <1>2, <1>5, <1>6 DEF Worth
<1> QED
  BY <1>0, <1>1, <1>2, <1>5, <1>6, <1>7, <1>8, <1>9, SameTwo

-----------------------------------------------------------------------------
(* Steps that change the count, the queue, base_mut, modification_lock or  *)
(* the events that uevent_free was called for.                             *)

\* A step that changes counts and queue by what its frames and tasks own.
LEMMA LifeMost ==
  ASSUME LifeInv, NEW p \in Threads, Threaded(p), Ordinary(p),
         UNCHANGED <<ev, free_uev, mem, kind, uev, active_fd, active_timer, pending_free, heap,
                     num_active_timers>>,
         refcount' \in [Slots -> Int], modification_lock' \subseteq Events, queue' \in Seq(Slots),
         epoll' \subseteq Events, EpollInv', num_active_fd' \in Int, base_mut' \in Threads \cup {NULL},
         released' \subseteq Events, released \subseteq released', \A o \in released' : mem[o] # "none",
         \A i \in DOMAIN queue' : ev[queue'[i]] # NULL, ~Pooled => queue' = <<>>,
         \A s \in Slots : refcount'[s] = refcount[s] \/ refcount[s] # 0 \/ ev[s] # NULL,
         \A s \in Slots : refcount'[s] = refcount[s]
           + (Cardinality(Queued(queue', s)) - Cardinality(Queued(queue, s)))
           + (Cardinality(Held(th', s)) - Cardinality(Held(th, s)))
  PROVE  LifeInv'
<1>1. TypeInv'
  BY DEF LifeInv, TypeInv, Threaded, Stacks
<1>2. EventInv'
  <2>1. ASSUME NEW o \in heap
        PROVE  o \in active_timer \/ (At(Loop, "delheap") /\ E(Loop) = o)'
    <3>1. o \in active_timer \/ (At(Loop, "delheap") /\ E(Loop) = o)
      BY DEF LifeInv, EventInv
    <3>2. p # Loop => Top(Loop)' = Top(Loop)
      BY DEF Threaded, Threads
    <3> QED
      BY <3>1, <3>2 DEF At, E, Ordinary
  <2>2. ~Pooled => p # Worker /\ At(Worker, "wtake")
    BY DEF LifeInv, EventInv, Ordinary
  <2>3. ~Pooled => At(Worker, "wtake")'
    BY <2>2 DEF Threaded, Threads, At
  <2> QED
    BY <2>1, <2>3 DEF LifeInv, EventInv, Stops, Frees, Ops, Outside
<1>3. FreeSlots'
  <2>1. ASSUME NEW q \in Threads, At(q, "create")
        PROVE  q # p /\ Top(q)' = Top(q)
    BY <2>1 DEF Ordinary, Threaded
  <2>2. \A s \in Slots : (\E q \in Threads : At(q, "create") /\ U(q) = s) => (\E q \in Threads : At(q, "create") /\ U(q) = s)'
    BY <2>1 DEF At, U
  <2>3. ASSUME NEW i \in DOMAIN free_uev
        PROVE  ev[free_uev[i]] = NULL /\ refcount'[free_uev[i]] = 0
    <3>1. free_uev[i] \in Slots
      BY DEF LifeInv, TypeInv
    <3>2. ev[free_uev[i]] = NULL /\ refcount[free_uev[i]] = 0
      BY DEF LifeInv, FreeSlots
    <3> QED
      BY <3>1, <3>2
  <2> QED
    BY <2>2, <2>3 DEF LifeInv, FreeSlots
<1>4. RefExact'
  <2> SUFFICES ASSUME NEW s \in Slots PROVE refcount'[s] = References(s)'
    BY DEF RefExact
  <2>1. refcount[s] = References(s)
    BY DEF LifeInv, RefExact
  <2>2. /\ References(s) = One(ev[s] # NULL /\ ev[s] \notin pending_free)
              + One(ev[s] \in active_timer) + One(ev[s] \in active_fd)
              + Cardinality(Queued(queue, s)) + Cardinality(Held(th, s))
        /\ Cardinality(Queued(queue, s)) \in Nat /\ Cardinality(Held(th, s)) \in Nat
    BY ReferenceTerms DEF LifeInv
  <2>3. /\ References(s)' = One(ev[s] # NULL /\ ev[s] \notin pending_free)
              + One(ev[s] \in active_timer) + One(ev[s] \in active_fd)
              + Cardinality(Queued(queue', s)) + Cardinality(Held(th', s))
    BY DEF References, Queued
  <2>4. Cardinality(Queued(queue', s)) \in Nat /\ Cardinality(Held(th', s)) \in Nat
    <3>1. th' \in Stacks /\ queue' \in Seq(Slots)
      BY DEF Threaded
    <3> QED
      BY <3>1, QueuedFinite, HeldFinite, FS_CardinalityType
  <2>5. /\ One(ev[s] # NULL /\ ev[s] \notin pending_free) \in {0, 1}
        /\ One(ev[s] \in active_timer) \in {0, 1} /\ One(ev[s] \in active_fd) \in {0, 1}
    BY DEF One
  <2>6. refcount'[s] = refcount[s]
           + (Cardinality(Queued(queue', s)) - Cardinality(Queued(queue, s)))
           + (Cardinality(Held(th', s)) - Cardinality(Held(th, s)))
    OBVIOUS
  <2> QED
    BY <2>1, <2>2, <2>3, <2>4, <2>5, <2>6, SMTT(30)
<1> QED
  BY <1>1, <1>2, <1>3, <1>4 DEF LifeInv, Threaded

\* When the knowledge of the other frames survives a step.
LEMMA FramesKeptWhen ==
  ASSUME LifeInv, NEW p \in Threads, UNCHANGED <<ev, uev, mem, kind, pending_free>>,
         released \subseteq released',
         \A s \in Slots : refcount'[s] = refcount[s] \/ refcount[s] # 0,
         \A q \in Threads : \A i \in DOMAIN th[q] : (q = p => i # Len(th[p])) =>
           /\ th[q][i].at \in {"addmark", "addctl"} /\ th[q][i].o \notin active_fd =>
                th[q][i].o \notin active_fd'
           /\ base_mut' = base_mut \/ th[q][i].at \notin {"create", "tput", "tmin"}
           /\ th[q][i].at \in AddP \cup {"cb"} /\ th[q][i].o \in modification_lock =>
                th[q][i].o \in modification_lock'
  PROVE  FramesKept(p)
<1> SUFFICES ASSUME NEW q \in Threads, NEW i \in DOMAIN th[q], q = p => i # Len(th[p]), NEW f, f = th[q][i]
             PROVE  FrameInv(q, f)'
  BY DEF FramesKept
<1>1. FrameInv(q, f)
  BY DEF LifeInv, FramesInv
<1>2. f.at = "destroy" => f.s \in Slots
  BY DEF LifeInv, ShapeInv, Unslotted
<1>3. f.at = "destroy" => refcount'[f.s] = 0
  <2>1. f.at = "destroy" => refcount[f.s] = 0
    BY <1>1 DEF FrameInv
  <2> QED
    BY <1>2, <2>1
<1>4. f.at \in AddP \cup {"cb"} => f.o \in modification_lock'
  <2>1. f.at \in AddP \cup {"cb"} => f.o \in modification_lock
    BY <1>1 DEF FrameInv
  <2> QED
    BY <2>1
<1>5. /\ f.at = "create" => base_mut' = q
      /\ f.at \in {"tput", "tmin"} => base_mut' = Loop
  BY <1>1 DEF FrameInv
<1>6. f.at = "addmark" \/ (f.at = "addctl" /\ ~f.ret) => f.o \notin active_fd'
  BY <1>1 DEF FrameInv
<1> HIDE DEF AddP, DelP, CbP
<1> QED
  BY <1>1, <1>3, <1>4, <1>5, <1>6 DEF FrameInv, Named, Stops, Frees, Arms, Strict, Ops, Outside

\* The steps of uevent_try_ref and uevent_put that change the count: nothing else changes
\* but the thread.
countOnly == <<ev, free_uev, memory, base, base_mut, lists, flags>>

\* A step that adds or drops one reference.
LEMMA CountStep ==
  ASSUME LifeInv, NEW p \in Threads, UNCHANGED countOnly, NEW t \in Slots, NEW d \in {-1, 1}, AddRef(t, d),
         refcount[t] # 0
  PROVE  /\ Steady /\ FramesKept(p) /\ ev' = ev /\ refcount'[t] = refcount[t] + d
         /\ Threaded(p) /\ Ordinary(p)
            /\ (\A s \in Slots : Cardinality(Held(th', s)) = Cardinality(Held(th, s)) + (IF s = t THEN d ELSE 0))
              => LifeInv'
<1>1. /\ refcount' \in [Slots -> Int] /\ refcount[t] \in Int
      /\ \A s \in Slots : refcount'[s] = refcount[s] + (IF s = t THEN d ELSE 0) /\ refcount[s] \in Int
  BY DEF AddRef, LifeInv, TypeInv
<1>2. /\ UNCHANGED <<ev, uev, mem, kind, pending_free, active_fd, active_timer, modification_lock, free_uev,
                     released, base_mut, queue, reported, epoll, heap, num_active_fd, num_active_timers>>
  BY DEF countOnly, memory, base, lists, flags
<1>3. Steady
  BY <1>2 DEF Steady
<1>4. \A s \in Slots : refcount'[s] = refcount[s] \/ refcount[s] # 0
  BY <1>1
<1>5. FramesKept(p)
  BY <1>2, <1>4, FramesKeptWhen
<1>6. ASSUME Threaded(p), Ordinary(p),
             \A s \in Slots : Cardinality(Held(th', s)) = Cardinality(Held(th, s)) + (IF s = t THEN d ELSE 0)
      PROVE  LifeInv'
  <2>1. ASSUME NEW s \in Slots
        PROVE  refcount'[s] = refcount[s]
           + (Cardinality(Queued(queue', s)) - Cardinality(Queued(queue, s)))
           + (Cardinality(Held(th', s)) - Cardinality(Held(th, s)))
    <3>1. Cardinality(Queued(queue, s)) \in Nat /\ Cardinality(Held(th, s)) \in Nat
      BY ReferenceTerms DEF LifeInv
    <3>2. Queued(queue', s) = Queued(queue, s)
      BY <1>2
    <3> QED
      BY <1>1, <1>6, <3>1, <3>2
  <2>2. /\ modification_lock \subseteq Events /\ queue \in Seq(Slots) /\ epoll \subseteq Events
        /\ num_active_fd \in Int /\ base_mut \in Threads \cup {NULL} /\ released \subseteq Events
    BY DEF LifeInv, TypeInv
  <2>3. (\A o \in released : mem[o] # "none") /\ (\A i \in DOMAIN queue : ev[queue[i]] # NULL)
        /\ (~Pooled => queue = <<>>)
    BY DEF LifeInv, EventInv
  <2>4. EpollInv'
    BY <1>2 DEF LifeInv, EpollInv
  <2> QED
    BY <1>1, <1>2, <1>4, <1>6, <2>1, <2>2, <2>3, <2>4, LifeMost
<1> QED
  BY <1>1, <1>2, <1>3, <1>5, <1>6

\* uevent_try_ref increments a count.
LEMMA LifeTryInc ==
  ASSUME LifeInv, NEW p \in Threads, TryInc(p)
  PROVE  LifeInv'
<1>0. At(p, "ref") /\ "ref" \in RefP
  BY DEF TryInc, RefP
<1>1. /\ Top(p).at = "ref" /\ U(p) \in Slots /\ E(p) \in Events \cup {NULL} /\ U(p) = Top(p).s
      /\ Ordinary(p) /\ Top(p).at \notin Ground(p) /\ FrameInv(p, Top(p))
  BY <1>0, CallTop
<1>2. Owned(Top(p)) = 0
  BY <1>1, WorthFacts
<1>3. CASE refcount[U(p)] = 0
  <2>1. Return(p, FALSE) /\ UNCHANGED refcount
    BY <1>3 DEF TryInc
  <2>2. Still
    BY <2>1 DEF TryInc, Still, slots, memory, base, lists, flags, lifeVars, LifeInv, TypeInv, EpollInv
  <2> QED
    BY <1>1, <1>2, <2>1, <2>2, SamePop
<1>4. CASE refcount[U(p)] # 0
  <2>1. AddRef(U(p), 1) /\ Load(p, "refchk", E(p)) /\ UNCHANGED countOnly
    BY <1>4 DEF TryInc, Go, countOnly
  <2>2. /\ Steady /\ FramesKept(p)
        /\ Threaded(p) /\ Ordinary(p)
            /\ (\A s \in Slots : Cardinality(Held(th', s)) = Cardinality(Held(th, s)) + (IF s = U(p) THEN 1 ELSE 0))
              => LifeInv'
    BY <1>1, <1>4, <2>1, CountStep
  <2>3. PICK g : g = Frame("refchk", U(p), E(p))
    OBVIOUS
  <2>4. Replace(p, <<g>>) /\ g.at = "refchk" /\ g.s = U(p) /\ g.o = E(p) /\ ~g.ret
    BY <2>1, <2>3, LoadFrame
  <2>5. g \in FrameType
    BY <1>1, <2>3, FrameTyped DEF Places
  <2>6. FrameInv(p, g)'
    BY <2>4 DEF FrameInv, Named, AddP, DelP, CbP, RefTested, Tested
  <2>7. FrameShape(g) /\ Quiet(g) /\ g.at # "delref" /\ Owned(g) = 1
    BY <1>1, <2>4, WorthFacts DEF FrameShape, Quiet, AddP
  <2>8. Follows(p, Top(p).at, g.at)
    BY <1>1, <2>4, FollowsTable
  <2>9. /\ Threaded(p)
        /\ \A s : /\ Cardinality(Held(th, s)) \in Nat
                  /\ Cardinality(Held(th', s)) = Cardinality(Held(th, s)) + Worth(g, s) - Worth(Top(p), s)
    BY <2>2, <2>4, <2>5, <2>6, <2>7, <2>8, OneFrame
  <2>10. \A s : Worth(g, s) = (IF s = U(p) THEN 1 ELSE 0) /\ Worth(Top(p), s) = 0
    BY <1>1, <1>2, <2>4, <2>7 DEF Worth
  <2>11. \A s \in Slots : Cardinality(Held(th', s)) = Cardinality(Held(th, s)) + (IF s = U(p) THEN 1 ELSE 0)
    BY <2>9, <2>10
  <2> QED
    BY <1>1, <2>2, <2>9, <2>11
<1> QED
  BY <1>3, <1>4

\* uevent_try_ref takes its increment back.
LEMMA LifeTryUndo ==
  ASSUME LifeInv, NEW p \in Threads, TryUndo(p)
  PROVE  LifeInv'
<1>0. At(p, "refundo") /\ "refundo" \in RefP
  BY DEF TryUndo, RefP
<1>1. /\ Top(p).at = "refundo" /\ U(p) \in Slots /\ U(p) = Top(p).s
      /\ Ordinary(p) /\ Top(p).at \notin Ground(p)
  BY <1>0, CallTop
<1>2. Owned(Top(p)) = 1
  BY <1>1, WorthFacts
<1>3. refcount[U(p)] # 0
  <2>1. refcount[U(p)] >= 1 /\ refcount[U(p)] \in Nat
    BY <1>1, <1>2, Positive, TopFacts DEF LifeInv
  <2> QED
    BY <2>1
<1>4. AddRef(U(p), -1) /\ Return(p, FALSE) /\ UNCHANGED countOnly
  BY DEF TryUndo, countOnly
<1>5. /\ Steady /\ FramesKept(p)
      /\ Threaded(p) /\ Ordinary(p)
          /\ (\A s \in Slots : Cardinality(Held(th', s)) = Cardinality(Held(th, s)) + (IF s = U(p) THEN -1 ELSE 0))
            => LifeInv'
  BY <1>1, <1>3, <1>4, CountStep
<1>6. /\ Threaded(p)
      /\ \A s : /\ Cardinality(Held(th, s)) \in Nat
                /\ Cardinality(Held(th', s)) = Cardinality(Held(th, s)) - Worth(Top(p), s)
                     + (IF FALSE /\ Top(p).at \in RefP /\ s = U(p) THEN 1 ELSE 0)
  BY <1>1, <1>4, <1>5, PopFrame
<1>7. \A s : Worth(Top(p), s) = (IF s = U(p) THEN 1 ELSE 0)
  BY <1>1, <1>2 DEF Worth
<1>8. \A s \in Slots : Cardinality(Held(th', s)) = Cardinality(Held(th, s)) + (IF s = U(p) THEN -1 ELSE 0)
  BY <1>6, <1>7
<1> QED
  BY <1>1, <1>5, <1>6, <1>8

\* uevent_put decrements.
LEMMA LifePutDec ==
  ASSUME LifeInv, NEW p \in Threads, PutDec(p)
  PROVE  LifeInv'
<1>0. At(p, "dec") /\ "dec" \in PutP
  BY DEF PutDec, PutP
<1>1. /\ Top(p).at = "dec" /\ U(p) \in Slots /\ U(p) = Top(p).s /\ E(p) \in Events \cup {NULL}
      /\ Ordinary(p) /\ Top(p).at \notin Ground(p) /\ FrameInv(p, Top(p))
  BY <1>0, CallTop
<1>2. Owned(Top(p)) = 1 /\ ev[U(p)] # NULL /\ Top(p).at \notin RefP
  BY <1>1, WorthFacts DEF FrameInv, Named, RefP
<1>3. refcount[U(p)] # 0 /\ refcount[U(p)] \in Nat
  <2>1. refcount[U(p)] >= 1 /\ refcount[U(p)] \in Nat
    BY <1>1, <1>2, Positive, TopFacts DEF LifeInv
  <2> QED
    BY <2>1
<1>4. AddRef(U(p), -1) /\ UNCHANGED countOnly
  BY DEF PutDec, countOnly
<1>5. /\ Steady /\ FramesKept(p) /\ ev' = ev /\ refcount'[U(p)] = refcount[U(p)] + -1
      /\ Threaded(p) /\ Ordinary(p)
          /\ (\A s \in Slots : Cardinality(Held(th', s)) = Cardinality(Held(th, s)) + (IF s = U(p) THEN -1 ELSE 0))
            => LifeInv'
  BY <1>1, <1>3, <1>4, CountStep
<1>6. \A s : Worth(Top(p), s) = (IF s = U(p) THEN 1 ELSE 0)
  BY <1>1, <1>2 DEF Worth
<1>7. CASE refcount[U(p)] # 1
  <2>1. Return(p, FALSE)
    BY <1>7 DEF PutDec
  <2>2. /\ Threaded(p)
        /\ \A s : /\ Cardinality(Held(th, s)) \in Nat
                  /\ Cardinality(Held(th', s)) = Cardinality(Held(th, s)) - Worth(Top(p), s)
                       + (IF FALSE /\ Top(p).at \in RefP /\ s = U(p) THEN 1 ELSE 0)
    BY <1>1, <1>5, <2>1, PopFrame
  <2>3. \A s \in Slots : Cardinality(Held(th', s)) = Cardinality(Held(th, s)) + (IF s = U(p) THEN -1 ELSE 0)
    BY <1>6, <2>2
  <2> QED
    BY <1>1, <1>5, <2>2, <2>3
<1>8. CASE refcount[U(p)] = 1
  <2>1. Load(p, "destroy", E(p))
    BY <1>8 DEF PutDec, Go
  <2>2. PICK g : g = Frame("destroy", U(p), E(p))
    OBVIOUS
  <2>3. Replace(p, <<g>>) /\ g.at = "destroy" /\ g.s = U(p) /\ g.o = E(p) /\ ~g.ret
    BY <2>1, <2>2, LoadFrame
  <2>4. g \in FrameType
    BY <1>1, <2>2, FrameTyped DEF Places
  <2>5. refcount'[U(p)] = 0 /\ ev'[U(p)] # NULL
    BY <1>2, <1>5, <1>8
  <2>6. FrameInv(p, g)'
    BY <2>3, <2>5 DEF FrameInv, Named, AddP, DelP, CbP, RefTested, Tested
  <2>7. FrameShape(g) /\ g.at # "delref" /\ Owned(g) = 0
    BY <1>1, <2>3, WorthFacts DEF FrameShape
  <2>8. Fresh(p, g)
    <3> SUFFICES ASSUME NEW q \in Threads, NEW j \in DOMAIN th[q], Clash(g, th[q][j]) \/ Clash(th[q][j], g)
                 PROVE  FALSE
      BY DEF Fresh
    <3>1. th[q][j].at = "destroy" /\ th[q][j].s = U(p)
      BY <2>3 DEF Clash, AddP
    <3>2. refcount[U(p)] = 0
      BY <3>1 DEF LifeInv, FramesInv, FrameInv
    <3> QED
      BY <1>8, <3>2
  <2>9. Follows(p, Top(p).at, g.at)
    BY <1>1, <2>3, FollowsTable
  <2>10. /\ Threaded(p)
         /\ \A s : /\ Cardinality(Held(th, s)) \in Nat
                   /\ Cardinality(Held(th', s)) = Cardinality(Held(th, s)) + Worth(g, s) - Worth(Top(p), s)
    BY <1>5, <2>3, <2>4, <2>6, <2>7, <2>8, <2>9, OneFrame
  <2>11. \A s : Worth(g, s) = 0
    BY <2>7 DEF Worth
  <2>12. \A s \in Slots : Cardinality(Held(th', s)) = Cardinality(Held(th, s)) + (IF s = U(p) THEN -1 ELSE 0)
    BY <1>6, <2>10, <2>11
  <2> QED
    BY <1>1, <1>5, <2>10, <2>12
<1> QED
  BY <1>7, <1>8

\* An armed descriptor gets its reference.
LEMMA LifeAddFdRef ==
  ASSUME TimersLeftToLoop, LifeInv, NEW p \in Threads, AddFdRef(p)
  PROVE  LifeInv'
<1>1. Top(p).at = "addfdref" /\ Top(p).at \in AddP
  BY DEF AddFdRef, At, AddP
<1>2. /\ U(p) \in Slots /\ E(p) \in Events /\ E(p) = Top(p).o /\ U(p) = Top(p).s /\ ev[U(p)] = E(p)
      /\ Ordinary(p) /\ Top(p).at \notin RefP /\ Owned(Top(p)) = 0
  BY <1>1, AddTop
<1>3. "fd" \in kind[E(p)]
  BY <1>1, <1>2, TopKnown DEF FrameInv
<1>4. E(p) # NULL /\ kind[E(p)] \in Kinds
  BY <1>2, LifeAssumption DEF LifeInv, EventInv
<1>5. E(p) \notin pending_free
  <2>1. ~Frees(kind[E(p)])
    BY <1>3, <1>4 DEF TimersLeftToLoop
  <2> QED
    BY <2>1 DEF LifeInv, EventInv
<1>6. refcount[U(p)] # 0
  <2>1. refcount[U(p)] >= 1 /\ refcount[U(p)] \in Nat
    BY <1>2, <1>4, <1>5, Positive DEF LifeInv
  <2> QED
    BY <2>1
<1>7. AddRef(U(p), 1) /\ UNCHANGED countOnly
  BY DEF AddFdRef, countOnly
<1>8. /\ Steady /\ FramesKept(p)
      /\ Threaded(p) /\ Ordinary(p)
          /\ (\A s \in Slots : Cardinality(Held(th', s)) = Cardinality(Held(th, s)) + (IF s = U(p) THEN 1 ELSE 0))
            => LifeInv'
  BY <1>2, <1>6, <1>7, CountStep
<1>9. PICK l : Go(p, l) /\ l \in {"addtm", "addend"} /\ (l = "addtm" => "timeout" \in kind[E(p)])
  BY DEF AddFdRef, TimerPart
<1>10. Load(p, l, E(p)) /\ l \in AddP /\ l # "delref" /\ l \in Places
  BY <1>9 DEF Go, AddP, Places
<1>11. PICK g : g = Frame(l, U(p), E(p))
  OBVIOUS
<1>12. Replace(p, <<g>>) /\ g.at = l /\ g.s = U(p) /\ g.o = E(p) /\ ~g.ret
  BY <1>10, <1>11, LoadFrame
<1>13. g \in FrameType /\ FrameShape(g)
  BY <1>2, <1>10, <1>11, <1>12, FrameTyped DEF FrameShape
<1>14. FrameInv(p, g) /\ Inherits(g, Top(p)) /\ Follows(p, Top(p).at, g.at)
  BY <1>1, <1>9, <1>10, <1>12, AddFrame
<1>15. FrameInv(p, g)'
  <2>1. UNCHANGED <<ev, uev, mem, kind, pending_free, active_fd, released, base_mut, modification_lock>>
    BY <1>7 DEF countOnly, memory, flags
  <2>2. g.at # "destroy"
    BY <1>9, <1>12
  <2> QED
    BY <1>14, <2>1, <2>2 DEF FrameInv, Named, Stops, Frees, Arms, Strict, Ops, Outside
<1>16. /\ Threaded(p)
       /\ \A s : /\ Cardinality(Held(th, s)) \in Nat
                 /\ Cardinality(Held(th', s)) = Cardinality(Held(th, s)) + Worth(g, s) - Worth(Top(p), s)
  BY <1>8, <1>10, <1>12, <1>13, <1>14, <1>15, OneFrame
<1>17. \A s : Worth(g, s) = (IF s = U(p) THEN 1 ELSE 0) /\ Worth(Top(p), s) = 0
  <2>1. Owned(g) = 1
    BY <1>9, <1>12, WorthFacts
  <2> QED
    BY <1>2, <1>12, <2>1 DEF Worth
<1>18. \A s \in Slots : Cardinality(Held(th', s)) = Cardinality(Held(th, s)) + (IF s = U(p) THEN 1 ELSE 0)
  BY <1>16, <1>17
<1> QED
  BY <1>2, <1>8, <1>16, <1>18

\* The loop runs or queues a callback.
LEMMA LifeDispatch ==
  ASSUME LifeInv, Dispatch(Loop)
  PROVE  LifeInv'
<1>0. Loop \in Threads /\ "dispref" \in RefTested /\ "dispref" \notin RefP /\ At(Loop, "dispref")
  BY DEF Dispatch, Threads, RefTested, Tested, RefP
<1>1. /\ Top(Loop).at = "dispref" /\ U(Loop) \in Slots /\ Returned(Loop) \in BOOLEAN
      /\ Returned(Loop) = Top(Loop).ret /\ Ordinary(Loop) /\ Top(Loop).at \notin Ground(Loop)
      /\ FrameInv(Loop, Top(Loop)) /\ U(Loop) = Top(Loop).s
  BY <1>0, CallTop
<1>2. Owned(Top(Loop)) = IF Returned(Loop) THEN 1 ELSE 0
  BY <1>0, <1>1, WorthFacts
<1>3. Returned(Loop) => ev[U(Loop)] # NULL
  BY <1>0, <1>1 DEF FrameInv, Named
<1>4. ev[U(Loop)] \in Events \cup {NULL}
  BY <1>1 DEF LifeInv, TypeInv
<1>5. ASSUME UNCHANGED <<refcount, queue>> PROVE Still
  BY <1>5 DEF Dispatch, Still, slots, memory, base, lists, flags, lifeVars, LifeInv, TypeInv, EpollInv
<1>6. Follows(Loop, "dispref", "put") /\ Follows(Loop, "dispref", "cblock") /\ {"put", "cblock"} \subseteq Places
  BY <1>0, FollowsTable DEF Places
<1>7. CASE ~Returned(Loop)
  <2>1. Return(Loop, FALSE) /\ UNCHANGED <<refcount, queue>>
    BY <1>7 DEF Dispatch
  <2> QED
    BY <1>0, <1>1, <1>2, <1>5, <1>7, <2>1, SamePop
<1>8. CASE Returned(Loop) /\ ~Pooled
  <2>1. Load(Loop, "cblock", ev[U(Loop)]) /\ UNCHANGED <<refcount, queue>>
    BY <1>8 DEF Dispatch
  <2>2. ASSUME NEW g, g.at = "cblock", g.s = U(Loop), g.o = ev[U(Loop)], ~g.ret
        PROVE  FrameInv(Loop, g) /\ Quiet(g) /\ Owned(g) = Owned(Top(Loop))
    <3>1. FrameInv(Loop, g)
      BY <1>3, <1>8, <2>2 DEF FrameInv, Named, AddP, DelP, CbP, RefTested, Tested
    <3> QED
      BY <1>2, <1>8, <2>2, <3>1, WorthFacts DEF Quiet, AddP
  <2> QED
    BY <1>0, <1>1, <1>4, <1>5, <1>6, <2>1, <2>2, LoadStill
<1>9. CASE Returned(Loop) /\ Pooled
  <2>0. Load(Loop, "put", NULL)
    BY <1>9 DEF Dispatch, Go
  <2>1. PICK g : g = Frame("put", U(Loop), NULL)
    OBVIOUS
  <2>2. /\ g \in FrameType /\ FrameShape(g) /\ FrameInv(Loop, g) /\ Quiet(g) /\ g.at = "put" /\ g.s = U(Loop)
        /\ g.at # "delref" /\ ~g.ret /\ Owned(g) = 1
    BY <1>0, <1>1, <1>3, <1>9, <2>1, PutFrame
  <2>3. Replace(Loop, <<g>>)
    BY <1>0, <2>0, <2>1, LoadFrame
  <2>4. \A s : Worth(g, s) = Worth(Top(Loop), s)
    BY <1>1, <1>2, <1>9, <2>2 DEF Worth
  <2>5. CASE ev[U(Loop)] \in is_in_worker_pool
    <3>1. UNCHANGED <<refcount, queue>>
      BY <2>5 DEF Dispatch
    <3>2. Still
      BY <1>5, <3>1
    <3> QED
      BY <1>0, <1>1, <1>6, <2>2, <2>3, <2>4, <3>2, SameOne
  <2>6. CASE ev[U(Loop)] \notin is_in_worker_pool
    <3>1. AddRef(U(Loop), 1) /\ queue' = Append(queue, U(Loop))
      BY <1>9, <2>6 DEF Dispatch, Enqueue
    <3>2. /\ UNCHANGED <<ev, uev, mem, kind, pending_free, active_fd, active_timer, modification_lock, free_uev,
                     released, base_mut, reported, epoll, heap, num_active_fd, num_active_timers>>
      BY DEF Dispatch, memory, base
    <3>3. refcount[U(Loop)] # 0
      <4>1. refcount[U(Loop)] >= 1 /\ refcount[U(Loop)] \in Nat
        BY <1>0, <1>1, <1>2, <1>9, Positive, TopFacts DEF LifeInv
      <4> QED
        BY <4>1
    <3>4. /\ refcount' \in [Slots -> Int]
          /\ \A s \in Slots : refcount'[s] = refcount[s] + (IF s = U(Loop) THEN 1 ELSE 0) /\ refcount[s] \in Int
      BY <1>1, <3>1 DEF AddRef, LifeInv, TypeInv
    <3>5. \A s \in Slots : refcount'[s] = refcount[s] \/ refcount[s] # 0
      BY <3>3, <3>4
    <3>6. FramesKept(Loop)
      BY <1>0, <3>2, <3>5, FramesKeptWhen
    <3>7. Steady
      BY <3>2 DEF Steady
    <3>8. FrameInv(Loop, g)'
      BY <2>2, <3>2 DEF FrameInv, Named, Stops, Frees, Arms, Strict, Ops, Outside, AddP, DelP, CbP
    <3>9. /\ Threaded(Loop)
          /\ \A s : /\ Cardinality(Held(th, s)) \in Nat
                    /\ Cardinality(Held(th', s)) = Cardinality(Held(th, s)) + Worth(g, s) - Worth(Top(Loop), s)
      BY <1>0, <1>1, <1>6, <2>2, <2>3, <3>6, <3>7, <3>8, OneFrame
    <3>10. queue \in Seq(Slots) /\ queue' \in Seq(Slots)
      BY <1>1, <3>1 DEF LifeInv, TypeInv
    <3>11. ASSUME NEW s \in Slots
           PROVE  refcount'[s] = refcount[s]
                    + (Cardinality(Queued(queue', s)) - Cardinality(Queued(queue, s)))
                    + (Cardinality(Held(th', s)) - Cardinality(Held(th, s)))
      <4>1. Cardinality(Queued(queue', s)) = Cardinality(Queued(queue, s)) + (IF U(Loop) = s THEN 1 ELSE 0)
        BY <1>1, <3>1, <3>10, QueuedAppend
      <4>2. Cardinality(Queued(queue, s)) \in Nat
        BY <3>10, QueuedFinite
      <4>3. Cardinality(Held(th', s)) = Cardinality(Held(th, s)) /\ Cardinality(Held(th, s)) \in Nat
        <5>1. Worth(g, s) \in {0, 1, 2}
          BY WorthFacts
        <5> QED
          BY <2>4, <3>9, <5>1
      <4> QED
        BY <3>4, <4>1, <4>2, <4>3
    <3>12. \A i \in DOMAIN queue' : ev[queue'[i]] # NULL
      <4>1. \A i \in DOMAIN queue : ev[queue[i]] # NULL
        BY DEF LifeInv, EventInv
      <4>2. ASSUME NEW i \in DOMAIN queue'
            PROVE  queue'[i] = U(Loop) \/ (i \in DOMAIN queue /\ queue'[i] = queue[i])
        BY <1>1, <3>1, <3>10
      <4> QED
        BY <1>3, <1>9, <4>1, <4>2
    <3>13. EpollInv'
      BY <3>2 DEF LifeInv, EpollInv
    <3>14. /\ modification_lock \subseteq Events /\ epoll \subseteq Events
           /\ num_active_fd \in Int /\ base_mut \in Threads \cup {NULL} /\ released \subseteq Events
           /\ \A o \in released : mem[o] # "none"
      BY DEF LifeInv, TypeInv, EventInv
    <3> QED
      BY <1>0, <1>1, <1>9, <3>2, <3>4, <3>5, <3>9, <3>10, <3>11, <3>12, <3>13, <3>14, LifeMost
  <2> QED
    BY <2>5, <2>6
<1> QED
  BY <1>1, <1>7, <1>8, <1>9

\* The worker takes a task: the reference of the queue becomes its own.
LEMMA LifeWorkerTake ==
  ASSUME LifeInv, WorkerTake
  PROVE  LifeInv'
<1>0. Worker \in Threads /\ Top(Worker).at = "wtake" /\ queue # <<>> /\ queue \in Seq(Slots)
  BY DEF WorkerTake, Threads, At, LifeInv, TypeInv
<1>1. PICK t : t = Head(queue)
  OBVIOUS
<1>2. t \in Slots /\ queue' = Tail(queue) /\ queue' \in Seq(Slots) /\ ev[t] # NULL
      /\ \A i \in DOMAIN queue' : ev[queue'[i]] # NULL
  <2>1. /\ Tail(queue) \in Seq(Slots) /\ Head(queue) \in Slots
        /\ \A i \in DOMAIN Tail(queue) : \E j \in DOMAIN queue : Tail(queue)[i] = queue[j]
        /\ \E j \in DOMAIN queue : queue[j] = Head(queue)
    BY <1>0, QueuedTail
  <2>2. queue' = Tail(queue)
    BY DEF WorkerTake
  <2>3. \A j \in DOMAIN queue : ev[queue[j]] # NULL
    BY DEF LifeInv, EventInv
  <2> QED
    BY <1>1, <2>1, <2>2, <2>3
<1>3. Pooled
  BY <1>0 DEF LifeInv, EventInv
<1>4. PICK g : g = Frame("wfinal", t, NULL)
  OBVIOUS
<1>5. g.at = "wfinal" /\ g.s = t /\ ~g.ret
  BY <1>4 DEF Frame
<1>6. g \in FrameType /\ FrameShape(g) /\ g.at # "delref" /\ g.at \notin RefTested /\ Quiet(g) /\ Owned(g) = 1
  <2>1. g \in FrameType
    BY <1>2, <1>4, FrameTyped DEF Places
  <2> QED
    BY <1>2, <1>5, <2>1, WorthFacts DEF FrameShape, RefTested, Tested, Quiet, AddP
<1>7. TryRefThen(Worker, t, "wref", g)
  BY <1>1, <1>4 DEF WorkerTake
<1>8. /\ UNCHANGED <<ev, refcount, uev, mem, kind, pending_free, active_fd, active_timer, modification_lock,
                     free_uev, released, base_mut, reported, epoll, heap, num_active_fd, num_active_timers>>
  BY DEF WorkerTake, slots, memory, base, flags
<1>9. Steady /\ FramesKept(Worker)
  BY <1>8, FramesSame DEF Steady, frameVars, LifeInv
<1>10. FrameInv(Worker, g)'
  BY <1>2, <1>5, <1>8 DEF FrameInv, Named, AddP, DelP, CbP, RefTested, Tested
<1>11. Follows(Worker, Top(Worker).at, g.at) /\ "wref" \in RefTested /\ "wref" \in Above(g.at)
       /\ Top(Worker).at \notin RefP
  BY <1>0, <1>5, FollowsTable, AboveWhen DEF RefTested, Tested, RefP
<1>12. /\ Threaded(Worker)
       /\ \A s : /\ Cardinality(Held(th, s)) \in Nat
                 /\ Cardinality(Held(th', s)) = Cardinality(Held(th, s)) + Worth(g, s) - Worth(Top(Worker), s)
  BY <1>0, <1>2, <1>5, <1>6, <1>7, <1>9, <1>10, <1>11, RefFrames
<1>13. \A s : Worth(g, s) = (IF s = t THEN 1 ELSE 0) /\ Worth(Top(Worker), s) = 0
  <2>1. Owned(Top(Worker)) = 0
    BY <1>0, WorthFacts
  <2> QED
    BY <1>5, <1>6, <2>1 DEF Worth
<1>14. ASSUME NEW s \in Slots
       PROVE  refcount'[s] = refcount[s]
                + (Cardinality(Queued(queue', s)) - Cardinality(Queued(queue, s)))
                + (Cardinality(Held(th', s)) - Cardinality(Held(th, s)))
  <2>1. Cardinality(Queued(queue', s)) = Cardinality(Queued(queue, s)) - (IF t = s THEN 1 ELSE 0)
    BY <1>0, <1>1, <1>2, QueuedTail
  <2>2. Cardinality(Queued(queue, s)) \in Nat /\ refcount[s] \in Int
    BY <1>0, QueuedFinite DEF LifeInv, TypeInv
  <2>3. Cardinality(Held(th', s)) = Cardinality(Held(th, s)) + (IF s = t THEN 1 ELSE 0)
        /\ Cardinality(Held(th, s)) \in Nat
    BY <1>12, <1>13
  <2> QED
    BY <1>8, <2>1, <2>2, <2>3
<1>15. EpollInv' /\ Ordinary(Worker) /\ refcount' \in [Slots -> Int]
  BY <1>0, <1>3, <1>8 DEF LifeInv, EpollInv, Ordinary, At, TypeInv
<1>16. /\ modification_lock \subseteq Events /\ epoll \subseteq Events
       /\ num_active_fd \in Int /\ base_mut \in Threads \cup {NULL} /\ released \subseteq Events
       /\ \A o \in released : mem[o] # "none"
  BY DEF LifeInv, TypeInv, EventInv
<1> QED
  BY <1>0, <1>2, <1>3, <1>8, <1>12, <1>14, <1>15, <1>16, LifeMost

\* A step that takes or gives back modification_lock, and changes the last frame.
lockOnly == <<slots, memory, base, base_mut, lists, active_fd, active_timer, pending_free>>

\* The frames that own modification_lock keep it.
LEMMA LockStep ==
  ASSUME LifeInv, NEW p \in Threads, UNCHANGED lockOnly, modification_lock' \subseteq Events, Ordinary(p),
         \A q \in Threads : \A i \in DOMAIN th[q] : (q = p => i # Len(th[p])) =>
           (th[q][i].at \in AddP \cup {"cb"} /\ th[q][i].o \in modification_lock =>
                th[q][i].o \in modification_lock'),
         NEW g \in FrameType, Replace(p, <<g>>), Follows(p, Top(p).at, g.at), Top(p).at \notin RefP,
         FrameShape(g), FrameInv(p, g)', g.at # "delref", g.s = U(p), Owned(g) = Owned(Top(p)),
         Quiet(g) \/ Fresh(p, g)
  PROVE  LifeInv'
<1>1. /\ UNCHANGED <<ev, refcount, uev, mem, kind, pending_free, active_fd, active_timer,
                     free_uev, released, base_mut, reported, queue, epoll, heap, num_active_fd, num_active_timers>>
  BY DEF lockOnly, slots, memory, base, lists
<1>2. Steady
  BY <1>1 DEF Steady
<1>3. FramesKept(p)
  BY <1>1, FramesKeptWhen
<1>4. /\ Threaded(p)
      /\ \A s : /\ Cardinality(Held(th, s)) \in Nat
                /\ Cardinality(Held(th', s)) = Cardinality(Held(th, s)) + Worth(g, s) - Worth(Top(p), s)
  BY <1>2, <1>3, OneFrame
<1>5. ASSUME NEW s \in Slots
      PROVE  refcount'[s] = refcount[s]
               + (Cardinality(Queued(queue', s)) - Cardinality(Queued(queue, s)))
               + (Cardinality(Held(th', s)) - Cardinality(Held(th, s)))
  <2>1. Cardinality(Queued(queue, s)) \in Nat /\ refcount[s] \in Int /\ Queued(queue', s) = Queued(queue, s)
    BY <1>1, ReferenceTerms DEF LifeInv, TypeInv
  <2>2. Worth(g, s) = Worth(Top(p), s) /\ Worth(g, s) \in {0, 1, 2}
    BY WorthFacts DEF Worth, U
  <2> QED
    BY <1>1, <1>4, <2>1, <2>2
<1>6. EpollInv' /\ refcount' \in [Slots -> Int]
  BY <1>1 DEF LifeInv, EpollInv, TypeInv
<1>7. /\ epoll \subseteq Events /\ queue \in Seq(Slots)
      /\ num_active_fd \in Int /\ base_mut \in Threads \cup {NULL} /\ released \subseteq Events
      /\ (\A o \in released : mem[o] # "none") /\ (\A i \in DOMAIN queue : ev[queue[i]] # NULL)
      /\ (~Pooled => queue = <<>>)
  BY DEF LifeInv, TypeInv, EventInv
<1> QED
  BY <1>1, <1>4, <1>5, <1>6, <1>7, LifeMost

\* Only one frame has the lock of an event.
LEMMA LockUnique ==
  ASSUME LifeInv, NEW p \in Threads, Top(p).at \in AddP \cup {"cb"}, NEW q \in Threads, NEW i \in DOMAIN th[q],
         q = p => i # Len(th[p]), th[q][i].at \in AddP \cup {"cb"}
  PROVE  th[q][i].o # E(p)
<1>1. Len(th[p]) \in DOMAIN th[p] /\ Top(p) = th[p][Len(th[p])] /\ E(p) = Top(p).o
  BY TopFacts DEF LifeInv
<1>2. th[q][i].o = E(p) => Clash(th[q][i], th[p][Len(th[p])])
  BY <1>1 DEF Clash
<1> QED
  BY <1>1, <1>2 DEF LifeInv, UniqueInv

\* Whoever takes it from nobody clashes with nobody.
LEMMA LockFresh ==
  ASSUME LifeInv, NEW p \in Threads, NEW g, g.at \in AddP \cup {"cb"}, g.o \notin modification_lock
  PROVE  Fresh(p, g)
<1> SUFFICES ASSUME NEW q \in Threads, NEW j \in DOMAIN th[q], Clash(g, th[q][j]) \/ Clash(th[q][j], g)
             PROVE  FALSE
  BY DEF Fresh
<1>1. th[q][j].at \in AddP \cup {"cb"} /\ th[q][j].o = g.o
  BY DEF Clash, AddP
<1> QED
  BY <1>1 DEF LifeInv, FramesInv, FrameInv

\* uevent_add gives modification_lock back.
LEMMA LifeAddEnd ==
  ASSUME LifeInv, NEW p \in Threads, AddEnd(p)
  PROVE  LifeInv'
<1>1. Top(p).at = "addend" /\ Top(p).at \in AddP
  BY DEF AddEnd, At, AddP
<1>2. /\ U(p) \in Slots /\ E(p) \in Events /\ ev[U(p)] = E(p) /\ Ordinary(p) /\ Top(p).at \notin RefP
      /\ Owned(Top(p)) = 1
  BY <1>1, AddTop
<1>3. ev[U(p)] # NULL
  BY <1>2, LifeAssumption
<1>4. PICK g : g = Frame("put", U(p), NULL)
  OBVIOUS
<1>5. /\ g \in FrameType /\ FrameShape(g) /\ FrameInv(p, g) /\ Quiet(g) /\ g.at = "put" /\ g.s = U(p)
      /\ g.at # "delref" /\ Owned(g) = 1
  BY <1>2, <1>3, <1>4, PutFrame
<1>6. modification_lock' = modification_lock \ {E(p)} /\ Replace(p, <<g>>) /\ UNCHANGED lockOnly
  BY <1>4 DEF AddEnd, Go, Load, lockOnly
<1>7. modification_lock' \subseteq Events
  BY <1>6 DEF LifeInv, TypeInv
<1>8. FrameInv(p, g)'
  BY <1>3, <1>5, <1>6 DEF FrameInv, Named, AddP, DelP, CbP, lockOnly, slots
<1>9. Follows(p, Top(p).at, g.at)
  BY <1>1, <1>5, FollowsTable
<1>10. \A q \in Threads : \A i \in DOMAIN th[q] : (q = p => i # Len(th[p])) =>
         (th[q][i].at \in AddP \cup {"cb"} /\ th[q][i].o \in modification_lock =>
              th[q][i].o \in modification_lock')
  BY <1>1, <1>6, LockUnique
<1> QED
  BY <1>2, <1>5, <1>6, <1>7, <1>8, <1>9, <1>10, LockStep

\* A callback returns.
LEMMA LifeCbEnd ==
  ASSUME LifeInv, NEW p \in Threads, CbEnd(p)
  PROVE  LifeInv'
<1>0. At(p, "cb") /\ "cb" \in CbP
  BY DEF CbEnd, CbP
<1>1. /\ Top(p).at = "cb" /\ U(p) \in Slots /\ Ordinary(p) /\ FrameInv(p, Top(p)) /\ U(p) = Top(p).s
      /\ E(p) = Top(p).o
  BY <1>0, CallTop
<1>2. ev[U(p)] # NULL /\ Owned(Top(p)) = 1 /\ Top(p).at \notin RefP
  BY <1>0, <1>1, WorthFacts DEF FrameInv, RefP
<1>4. PICK g : g = Frame("put", U(p), NULL)
  OBVIOUS
<1>5. /\ g \in FrameType /\ FrameShape(g) /\ FrameInv(p, g) /\ Quiet(g) /\ g.at = "put" /\ g.s = U(p)
      /\ g.at # "delref" /\ Owned(g) = 1
  BY <1>1, <1>2, <1>4, PutFrame
<1>6. modification_lock' = modification_lock \ {E(p)} /\ Replace(p, <<g>>) /\ UNCHANGED lockOnly
  BY <1>4 DEF CbEnd, Go, Load, lockOnly
<1>7. modification_lock' \subseteq Events
  BY <1>6 DEF LifeInv, TypeInv
<1>8. FrameInv(p, g)'
  BY <1>2, <1>5, <1>6 DEF FrameInv, Named, AddP, DelP, CbP, lockOnly, slots
<1>9. Follows(p, Top(p).at, g.at)
  BY <1>0, <1>1, <1>5, FollowsTable
<1>10. \A q \in Threads : \A i \in DOMAIN th[q] : (q = p => i # Len(th[p])) =>
         (th[q][i].at \in AddP \cup {"cb"} /\ th[q][i].o \in modification_lock =>
              th[q][i].o \in modification_lock')
  BY <1>1, <1>6, LockUnique
<1> QED
  BY <1>1, <1>2, <1>5, <1>6, <1>7, <1>8, <1>9, <1>10, LockStep

\* A callback waits for modification_lock.
LEMMA LifeCbLock ==
  ASSUME LifeInv, NEW p \in Threads, CbLock(p)
  PROVE  LifeInv'
<1>0. At(p, "cblock") /\ "cblock" \in CbP
  BY DEF CbLock, CbP
<1>1. /\ Top(p).at = "cblock" /\ U(p) \in Slots /\ Ordinary(p) /\ FrameInv(p, Top(p)) /\ U(p) = Top(p).s
      /\ E(p) = Top(p).o /\ E(p) \in Events \cup {NULL}
  BY <1>0, CallTop
<1>2. ev[U(p)] = E(p) /\ E(p) # NULL /\ Owned(Top(p)) = 1 /\ Top(p).at \notin RefP
  BY <1>0, <1>1, WorthFacts DEF FrameInv, RefP
<1>3. modification_lock' = modification_lock \cup {E(p)} /\ UNCHANGED lockOnly
  BY DEF CbLock, lockOnly
<1>4. modification_lock' \subseteq Events
  BY <1>1, <1>2, <1>3 DEF LifeInv, TypeInv
<1>5. \A q \in Threads : \A i \in DOMAIN th[q] : (q = p => i # Len(th[p])) =>
         (th[q][i].at \in AddP \cup {"cb"} /\ th[q][i].o \in modification_lock =>
              th[q][i].o \in modification_lock')
  BY <1>3
<1>6. CASE E(p) \in modification_lock
  <2>1. PICK g : g = Frame("put", U(p), NULL)
    OBVIOUS
  <2>2. /\ g \in FrameType /\ FrameShape(g) /\ FrameInv(p, g) /\ Quiet(g) /\ g.at = "put" /\ g.s = U(p)
        /\ g.at # "delref" /\ Owned(g) = 1
    BY <1>1, <1>2, <2>1, PutFrame
  <2>3. Replace(p, <<g>>)
    BY <1>6, <2>1 DEF CbLock, Go, Load
  <2>4. FrameInv(p, g)'
    BY <1>2, <1>3, <2>2 DEF FrameInv, Named, AddP, DelP, CbP, lockOnly, slots
  <2>5. Follows(p, Top(p).at, g.at)
    BY <1>0, <1>1, <2>2, FollowsTable
  <2> QED
    BY <1>1, <1>2, <1>3, <1>4, <1>5, <2>2, <2>3, <2>4, <2>5, LockStep
<1>7. CASE E(p) \notin modification_lock
  <2>1. PICK g : g = Frame("cb", U(p), E(p))
    OBVIOUS
  <2>2. g.at = "cb" /\ g.s = U(p) /\ g.o = E(p) /\ ~g.ret
    BY <2>1 DEF Frame
  <2>3. g \in FrameType
    BY <1>1, <2>1, FrameTyped DEF Places
  <2>4. FrameShape(g) /\ g.at # "delref" /\ Owned(g) = 1 /\ g.at \in AddP \cup {"cb"}
    BY <1>1, <2>2, WorthFacts DEF FrameShape
  <2>5. Replace(p, <<g>>)
    BY <1>7, <2>1 DEF CbLock, Go, Load
  <2>6. FrameInv(p, g)'
    BY <1>2, <1>3, <2>2 DEF FrameInv, Named, AddP, DelP, CbP, RefTested, Tested, lockOnly, slots
  <2>7. Follows(p, Top(p).at, g.at)
    BY <1>1, <2>2, FollowsTable
  <2>8. Fresh(p, g)
    BY <1>7, <2>2, <2>4, LockFresh
  <2> QED
    BY <1>1, <1>2, <1>3, <1>4, <1>5, <2>2, <2>3, <2>4, <2>5, <2>6, <2>7, <2>8, LockStep
<1> QED
  BY <1>6, <1>7

\* uevent_add takes modification_lock.
LEMMA LifeAddLock ==
  ASSUME LifeInv, NEW p \in Threads, AddLock(p)
  PROVE  LifeInv'
<1>0. At(p, "addref") /\ "addref" \in RefTested /\ "addref" \notin RefP
  BY DEF AddLock, RefTested, Tested, RefP
<1>1. /\ Top(p).at = "addref" /\ U(p) \in Slots /\ Ordinary(p) /\ FrameInv(p, Top(p)) /\ U(p) = Top(p).s
      /\ Returned(p) \in BOOLEAN /\ Returned(p) = Top(p).ret /\ Top(p).at \notin Ground(p)
  BY <1>0, CallTop
<1>2. Owned(Top(p)) = IF Returned(p) THEN 1 ELSE 0
  BY <1>0, <1>1, WorthFacts
<1>3. /\ Returned(p) => ev[U(p)] # NULL
      /\ Strict => Arms(kind[ev[U(p)]])
      /\ ev[U(p)] \in Events \cup {NULL}
  BY <1>0, <1>1 DEF FrameInv, Named, LifeInv, TypeInv
<1>4. ASSUME UNCHANGED modification_lock PROVE Still
  BY <1>4 DEF AddLock, Still, slots, memory, base, lists, flags, lifeVars, LifeInv, TypeInv, EpollInv
<1>5. CASE ~Returned(p)
  <2>1. Return(p, FALSE) /\ UNCHANGED modification_lock
    BY <1>5 DEF AddLock
  <2> QED
    BY <1>0, <1>1, <1>2, <1>4, <1>5, <2>1, SamePop
<1>6. CASE Returned(p) /\ ev[U(p)] \in modification_lock
  <2>1. Load(p, "put", NULL) /\ UNCHANGED modification_lock
    BY <1>6 DEF AddLock, Go
  <2>2. ASSUME NEW g, g.at = "put", g.s = U(p), g.o = NULL, ~g.ret
        PROVE  FrameInv(p, g) /\ Quiet(g) /\ Owned(g) = Owned(Top(p))
    <3>1. FrameInv(p, g)
      BY <1>3, <1>6, <2>2 DEF FrameInv, Named, AddP, DelP, CbP
    <3> QED
      BY <1>2, <1>6, <2>2, <3>1, WorthFacts DEF Quiet, AddP
  <2>3. Follows(p, "addref", "put") /\ "put" \in Places
    BY <1>0, FollowsTable DEF Places
  <2> QED
    BY <1>1, <1>4, <2>1, <2>2, <2>3, LoadStill
<1>7. CASE Returned(p) /\ ev[U(p)] \notin modification_lock
  <2>1. PICK g : g = Frame("addchk", U(p), ev[U(p)])
    OBVIOUS
  <2>2. g.at = "addchk" /\ g.s = U(p) /\ g.o = ev[U(p)] /\ ~g.ret
    BY <2>1 DEF Frame
  <2>3. g \in FrameType
    BY <1>1, <1>3, <2>1, FrameTyped DEF Places
  <2>4. FrameShape(g) /\ g.at # "delref" /\ Owned(g) = 1 /\ g.at \in AddP
    BY <1>1, <2>2, WorthFacts DEF FrameShape, AddP
  <2>5. Replace(p, <<g>>) /\ modification_lock' = modification_lock \cup {ev[U(p)]} /\ UNCHANGED lockOnly
    BY <1>7, <2>1 DEF AddLock, Load, lockOnly
  <2>6. modification_lock' \subseteq Events
    BY <1>3, <1>7, <2>5 DEF LifeInv, TypeInv
  <2>7. FrameInv(p, g)'
    <3>1. ev' = ev /\ kind' = kind
      BY <2>5 DEF lockOnly, slots, memory
    <3> QED
      BY <1>3, <1>7, <2>2, <2>5, <3>1
      DEF FrameInv, Named, AddP, DelP, CbP, RefTested, Tested, Strict, Stops, Outside, Arms, Ops
  <2>8. Follows(p, Top(p).at, g.at)
    BY <1>1, <2>2, <2>4, FollowsTable
  <2>9. Fresh(p, g)
    BY <1>7, <2>2, <2>4, LockFresh
  <2>10. \A q \in Threads : \A i \in DOMAIN th[q] : (q = p => i # Len(th[p])) =>
           (th[q][i].at \in AddP \cup {"cb"} /\ th[q][i].o \in modification_lock =>
                th[q][i].o \in modification_lock')
    BY <2>5
  <2> QED
    BY <1>0, <1>1, <1>2, <1>7, <2>2, <2>3, <2>4, <2>5, <2>6, <2>7, <2>8, <2>9, <2>10, LockStep
<1> QED
  BY <1>1, <1>5, <1>6, <1>7

\* uevent_free is called.
LEMMA LifeFreeBegin ==
  ASSUME LifeInv, NEW p \in Threads, FreeBegin(p)
  PROVE  LifeInv'
<1>1. PICK s \in Slots : /\ MayUse(p, "free", s) /\ Enter(p, "free", s, <<Here(p)>>)
                         /\ released' = released \cup {ev[s]}
  BY DEF FreeBegin
<1>2. UNCHANGED lifeVars /\ UNCHANGED <<ev, uev, mem, kind, pending_free, active_fd, refcount, base_mut,
                                        modification_lock, reported, epoll, num_active_fd>>
  BY DEF FreeBegin, slots, base, lists, flags, lifeVars
<1>3. PICK g : g = Here(p)
  OBVIOUS
<1>4. MayCall(p, "free", kind[ev[s]])
  BY <1>1 DEF MayUse
<1>5. /\ Top(p).at \in {"idle", "cb"} /\ Ordinary(p) /\ Top(p).at \notin RefP
      /\ g \in FrameType /\ FrameShape(g) /\ ~g.ret /\ g.at = Top(p).at
      /\ FrameInv(p, g) /\ g.at # "delref" /\ g.at \notin RefTested
      /\ (Quiet(g) \/ Inherits(g, Top(p))) /\ (\A t : Worth(g, t) = Worth(Top(p), t))
      /\ Follows(p, Top(p).at, g.at)
  BY <1>3, <1>4, CallerFacts
<1>6. /\ ev[s] \in Events /\ ev[s] \notin released /\ ev[s] \notin pending_free
      /\ <<"free", kind[ev[s]]>> \in Ops /\ (p # Loop => <<"free", kind[ev[s]]>> \in Outside)
  BY <1>1, MayUseFacts
<1>7. ev[s] # NULL
  BY <1>6, LifeAssumption
<1>8. PICK h : h = Frame("free", s, NULL)
  OBVIOUS
<1>9. h.at = "free" /\ h.s = s /\ ~h.ret
  BY <1>8 DEF Frame
<1>10. h \in FrameType
  BY <1>8, FrameTyped DEF Places
<1>11. FrameShape(h) /\ h.at # "delref" /\ Owned(h) = 0 /\ h.at \in Above(g.at)
       /\ ~Clash(Top(p), h) /\ ~Clash(h, Top(p))
  BY <1>5, <1>9, WorthFacts, AboveWhen DEF FrameShape, Clash, AddP
<1>12. Replace(p, <<g, h>>)
  BY <1>1, <1>3, <1>5, <1>8, <1>10, AppendTwo DEF Enter
<1> HIDE DEF Here
<1>13. Steady /\ FramesKept(p)
  <2>1. released \subseteq released'
    BY <1>1
  <2>2. FramesKept(p)
    BY <1>2, <2>1, FramesKeptWhen
  <2> QED
    BY <1>2, <2>2 DEF Steady
<1>14. FrameInv(p, h)'
  BY <1>1, <1>2, <1>6, <1>7, <1>9
  DEF FrameInv, Named, AddP, DelP, CbP, RefTested, Tested, Stops, Frees, Ops, Outside
<1>15. FrameInv(p, g)'
  BY <1>2, <1>5 DEF FrameInv, Named, AddP, DelP, RefTested, Tested, Stops, Frees, Arms, Strict, Ops, Outside
<1>16. Fresh(p, h)
  <2> SUFFICES ASSUME NEW q \in Threads, NEW j \in DOMAIN th[q], Clash(h, th[q][j]) \/ Clash(th[q][j], h)
               PROVE  FALSE
    BY DEF Fresh
  <2>1. th[q][j].at \in {"free", "freepend"} /\ th[q][j].s = s
    BY <1>9 DEF Clash, AddP
  <2>2. ev[s] \in released
    BY <2>1 DEF LifeInv, FramesInv, FrameInv
  <2> QED
    BY <1>6, <2>2
<1>17. /\ Threaded(p)
       /\ \A t : /\ Cardinality(Held(th, t)) \in Nat
                 /\ Cardinality(Held(th', t)) = Cardinality(Held(th, t))
                      + Worth(g, t) + Worth(h, t) - Worth(Top(p), t)
  BY <1>5, <1>10, <1>11, <1>12, <1>13, <1>14, <1>15, <1>16, TwoFrames
<1>18. ASSUME NEW t \in Slots PROVE Cardinality(Held(th', t)) = Cardinality(Held(th, t))
  <2>1. Worth(g, t) = Worth(Top(p), t) /\ Worth(g, t) \in {0, 1, 2} /\ Worth(h, t) = 0
    BY <1>5, <1>11, WorthFacts DEF Worth
  <2>2. /\ Cardinality(Held(th, t)) \in Nat
        /\ Cardinality(Held(th', t)) = Cardinality(Held(th, t)) + Worth(g, t) + Worth(h, t) - Worth(Top(p), t)
    BY <1>17
  <2> QED
    BY <2>1, <2>2
<1>19. EpollInv' /\ epoll' \subseteq Events /\ num_active_fd' \in Int /\ base_mut' \in Threads \cup {NULL}
  BY <1>2 DEF LifeInv, EpollInv, TypeInv
<1>20. released' \subseteq Events /\ released \subseteq released' /\ \A o \in released' : mem[o] # "none"
  <2>1. mem[ev[s]] # "none"
    BY <1>7 DEF LifeInv, EventInv
  <2> QED
    BY <1>1, <1>6, <2>1 DEF LifeInv, TypeInv, EventInv
<1> QED
  BY <1>2, <1>5, <1>17, <1>18, <1>19, <1>20, LifeSame

\* A thread at one of its own places is in no call.
LEMMA AlonePlace ==
  ASSUME LifeInv, NEW l \in LoopP, At(Loop, l)
  PROVE  Len(th[Loop]) = 1
<1> DEFINE n == Len(th[Loop])
<1>1. Loop \in Threads
  BY DEF Threads
<1>2. n \in Nat /\ n > 0 /\ th[Loop][n].at = l
  BY <1>1, TopFacts DEF LifeInv, At
<1>3. \A k : l \notin Above(k)
  BY AboveWhen DEF LoopP, RefP, PutP, AddP, DelP, CbP
<1>4. SUFFICES ASSUME n # 1 PROVE FALSE
  OBVIOUS
<1> HIDE DEF n
<1>5. n - 1 \in 1 .. n - 1 /\ (n - 1) + 1 = n
  BY <1>2, <1>4
<1>6. th[Loop][(n - 1) + 1].at \in Above(th[Loop][n - 1].at)
  BY <1>1, <1>5 DEF LifeInv, ShapeInv, n
<1> QED
  BY <1>2, <1>3, <1>5, <1>6

\* The mutex of the loop: the frames that depend on it are the owner's.
LEMMA LifeTimersLock ==
  ASSUME LifeInv, TimersLock
  PROVE  LifeInv'
<1>1. At(Loop, "tlock") /\ "tlock" \in LoopP /\ "tmin" \in LoopP /\ base_mut = NULL /\ base_mut' = Loop
  BY DEF TimersLock, LoopP, MutexFree
<1>2. /\ Loop \in Threads /\ Top(Loop).at = "tlock" /\ Ordinary(Loop) /\ "tlock" \notin RefP
      /\ E(Loop) \in Events \cup {NULL} /\ U(Loop) \in Slots \cup {NULL}
      /\ Owned(Top(Loop)) = 0 /\ Follows(Loop, "tlock", "tmin")
  BY <1>1, LoopTop
<1>3. UNCHANGED lifeVars /\ UNCHANGED <<ev, uev, mem, kind, pending_free, active_fd, refcount, released,
                                        modification_lock, reported, epoll, num_active_fd>>
  BY DEF TimersLock, slots, memory, base, lists, flags, lifeVars
<1>4. \A q \in Threads : \A i \in DOMAIN th[q] : th[q][i].at \notin {"create", "tput", "tmin"}
  <2> SUFFICES ASSUME NEW q \in Threads, NEW i \in DOMAIN th[q], th[q][i].at \in {"create", "tput", "tmin"}
               PROVE  FALSE
    OBVIOUS
  <2>1. FrameInv(q, th[q][i])
    BY DEF LifeInv, FramesInv
  <2>2. base_mut \in Threads
    BY <1>2, <2>1 DEF FrameInv
  <2> QED
    BY <1>1, <2>2, LifeAssumption DEF Threads, Loop, Worker
<1>5. Steady /\ FramesKept(Loop)
  <2>1. FramesKept(Loop)
    BY <1>2, <1>3, <1>4, FramesKeptWhen
  <2> QED
    BY <1>3, <2>1 DEF Steady
<1>6. PICK g : g = Frame("tmin", U(Loop), E(Loop))
  OBVIOUS
<1>7. g.at = "tmin" /\ ~g.ret /\ Replace(Loop, <<g>>)
  BY <1>6 DEF Frame, TimersLock, Go, Load
<1>8. g \in FrameType
  BY <1>2, <1>6, FrameTyped DEF Places
<1>9. FrameShape(g) /\ Quiet(g) /\ g.at # "delref" /\ Owned(g) = 0
  BY <1>7, WorthFacts DEF FrameShape, Unslotted, Quiet, AddP
<1>10. FrameInv(Loop, g)'
  BY <1>1, <1>7 DEF FrameInv, Named, AddP, DelP, CbP, RefTested, Tested
<1>11. /\ Threaded(Loop)
       /\ \A s : /\ Cardinality(Held(th, s)) \in Nat
                 /\ Cardinality(Held(th', s)) = Cardinality(Held(th, s)) + Worth(g, s) - Worth(Top(Loop), s)
  BY <1>2, <1>5, <1>7, <1>8, <1>9, <1>10, OneFrame
<1>12. \A s \in Slots : Cardinality(Held(th', s)) = Cardinality(Held(th, s))
  <2>1. \A s : Worth(g, s) = 0 /\ Worth(Top(Loop), s) = 0
    BY <1>2, <1>9 DEF Worth
  <2> QED
    BY <1>11, <2>1
<1>13. EpollInv' /\ epoll' \subseteq Events /\ num_active_fd' \in Int /\ base_mut' \in Threads \cup {NULL}
       /\ released' \subseteq Events /\ released \subseteq released' /\ \A o \in released' : mem[o] # "none"
  BY <1>1, <1>2, <1>3 DEF LifeInv, EpollInv, TypeInv, EventInv
<1> QED
  BY <1>2, <1>3, <1>11, <1>12, <1>13, LifeSame

\* While the loop has base_mut no other frame depends on it.
LEMMA MutexOwner ==
  ASSUME LifeInv, NEW l \in {"tmin", "tput"}, At(Loop, l), NEW q \in Threads, NEW i \in DOMAIN th[q],
         q = Loop => i # Len(th[Loop])
  PROVE  th[q][i].at \notin {"create", "tput", "tmin"}
<1>0. l \in LoopP
  BY DEF LoopP
<1>1. base_mut = Loop /\ Loop \in Threads
  BY <1>0, LoopTop DEF FrameInv
<1>2. th[q][i].at = "create" => base_mut = q
  BY DEF LifeInv, FramesInv, FrameInv
<1>3. q # Loop
  <2>1. Len(th[Loop]) = 1
    BY <1>0, AlonePlace
  <2>2. DOMAIN th[Loop] = 1 .. Len(th[Loop])
    BY <1>1, TopFacts DEF LifeInv
  <2>3. \A j \in 1 .. 1 : j = 1
    OBVIOUS
  <2> QED
    BY <2>1, <2>2, <2>3
<1>4. th[q][i].at \notin {"tput", "tmin"}
  <2>1. \A k : {"tput", "tmin"} \cap Above(k) = {}
    BY AboveWhen DEF RefP, PutP, AddP, DelP, CbP
  <2>2. {"tput", "tmin"} \cap Ground(q) = {}
    BY <1>3 DEF Ground
  <2>3. i \in Nat /\ i > 0 /\ i <= Len(th[q]) /\ Len(th[q]) \in Nat
    BY DEF LifeInv, TypeInv
  <2>4. CASE i = 1
    BY <2>2, <2>4 DEF LifeInv, ShapeInv
  <2>5. CASE i # 1
    <3>1. i - 1 \in 1 .. Len(th[q]) - 1 /\ (i - 1) + 1 = i
      BY <2>3, <2>5
    <3>2. th[q][(i - 1) + 1].at \in Above(th[q][i - 1].at)
      BY <3>1 DEF LifeInv, ShapeInv
    <3> QED
      BY <2>1, <3>1, <3>2
  <2> QED
    BY <2>4, <2>5
<1> QED
  BY <1>1, <1>2, <1>3, <1>4

\* The loop has no more due timers.
LEMMA LifeTimersEnd ==
  ASSUME LifeInv, TimersEnd
  PROVE  LifeInv'
<1>1. At(Loop, "tmin") /\ "tmin" \in LoopP /\ "epoll" \in LoopP \ {"tput", "tmin"} /\ base_mut' = NULL
      /\ "epoll" \in Unslotted
  BY DEF TimersEnd, LoopP, Unslotted
<1>2. /\ Loop \in Threads /\ Top(Loop).at = "tmin" /\ Ordinary(Loop) /\ "tmin" \notin RefP
      /\ E(Loop) \in Events \cup {NULL} /\ U(Loop) \in Slots \cup {NULL}
      /\ Owned(Top(Loop)) = 0 /\ Follows(Loop, "tmin", "epoll") /\ FrameInv(Loop, Top(Loop))
  BY <1>1, LoopTop
<1>3. UNCHANGED lifeVars /\ UNCHANGED <<ev, uev, mem, kind, pending_free, active_fd, refcount, released,
                                        modification_lock, reported, epoll, num_active_fd>>
  BY DEF TimersEnd, slots, memory, base, lists, flags, lifeVars
<1>4. \A q \in Threads : \A i \in DOMAIN th[q] : (q = Loop => i # Len(th[Loop])) =>
        th[q][i].at \notin {"create", "tput", "tmin"}
  BY <1>1, MutexOwner
<1>5. Steady /\ FramesKept(Loop)
  <2>1. FramesKept(Loop)
    BY <1>2, <1>3, <1>4, FramesKeptWhen
  <2> QED
    BY <1>3, <2>1 DEF Steady
<1>6. PICK g : g = Frame("epoll", U(Loop), E(Loop))
  OBVIOUS
<1>7. /\ g \in FrameType /\ FrameShape(g) /\ Quiet(g) /\ g.at = "epoll"
      /\ g.at # "delref" /\ \A t : Worth(g, t) = 0
  BY <1>1, <1>2, <1>6, LoopFrame
<1>8. Replace(Loop, <<g>>)
  BY <1>6 DEF TimersEnd, Go, Load
<1>9. FrameInv(Loop, g)'
  BY <1>7 DEF FrameInv, Named, AddP, DelP, CbP, RefTested, Tested
<1>10. /\ Threaded(Loop)
       /\ \A s : /\ Cardinality(Held(th, s)) \in Nat
                 /\ Cardinality(Held(th', s)) = Cardinality(Held(th, s)) + Worth(g, s) - Worth(Top(Loop), s)
  BY <1>2, <1>5, <1>7, <1>8, <1>9, OneFrame
<1>11. \A s \in Slots : Cardinality(Held(th', s)) = Cardinality(Held(th, s))
  <2>1. \A s : Worth(Top(Loop), s) = 0
    BY <1>2 DEF Worth
  <2> QED
    BY <1>7, <1>10, <2>1
<1>12. EpollInv' /\ epoll' \subseteq Events /\ num_active_fd' \in Int /\ base_mut' \in Threads \cup {NULL}
       /\ released' \subseteq Events /\ released \subseteq released' /\ \A o \in released' : mem[o] # "none"
  BY <1>1, <1>3 DEF LifeInv, EpollInv, TypeInv, EventInv
<1> QED
  BY <1>2, <1>3, <1>10, <1>11, <1>12, LifeSame


-----------------------------------------------------------------------------
(* Arming and disarming: the flags, the heap and the count change together. *)

\* An event has one slot.
LEMMA OneSlot ==
  ASSUME LifeInv, NEW s \in Slots, NEW t \in Slots, ev[s] # NULL, ev[s] = ev[t]
  PROVE  s = t
  BY DEF LifeInv, EventInv

\* What a step may do to the flags, to the heap and to the mutex.
LEMMA LifeFlags ==
  ASSUME LifeInv, NEW p \in Threads, Threaded(p), ~At(p, "create"), p = Worker => Pooled \/ ~At(p, "wtake"),
         UNCHANGED <<ev, free_uev, mem, kind, uev, pending_free, queue, reported, epoll, released,
                     modification_lock>>,
         refcount' \in [Slots -> Int], num_active_fd' \in Int, num_active_timers' \in Int,
         base_mut' \in Threads \cup {NULL},
         active_fd' \subseteq Events, active_timer' \subseteq Events, heap' \subseteq Events,
         \A o \in active_fd' : uev[o] \in Slots /\ ev[uev[o]] = o /\ "fd" \in kind[o],
         \A o \in active_timer' : uev[o] \in Slots /\ ev[uev[o]] = o /\ "timeout" \in kind[o] /\ ~Stops(kind[o]),
         \A o \in heap' : o \in active_timer' \/ (At(Loop, "delheap") /\ E(Loop) = o)',
         \A s \in Slots : refcount'[s] = refcount[s] \/ refcount[s] # 0 \/ ev[s] # NULL,
         \A s \in Slots : refcount'[s] = refcount[s]
           + (One(ev[s] \in active_timer') - One(ev[s] \in active_timer))
           + (One(ev[s] \in active_fd') - One(ev[s] \in active_fd))
           + (Cardinality(Held(th', s)) - Cardinality(Held(th, s)))
  PROVE  LifeInv'
<1>1. TypeInv'
  BY DEF LifeInv, TypeInv, Threaded, Stacks
<1>2. EventInv'
  <2>1. ~Pooled => p # Worker /\ At(Worker, "wtake")
    BY DEF LifeInv, EventInv
  <2>2. ~Pooled => At(Worker, "wtake")'
    BY <2>1 DEF Threaded, Threads, At
  <2> QED
    BY <2>2 DEF LifeInv, EventInv, Stops, Frees, Ops, Outside
<1>3. FreeSlots'
  <2>1. ASSUME NEW q \in Threads, At(q, "create")
        PROVE  q # p /\ Top(q)' = Top(q)
    BY <2>1 DEF Threaded
  <2>2. \A s \in Slots : (\E q \in Threads : At(q, "create") /\ U(q) = s) => (\E q \in Threads : At(q, "create") /\ U(q) = s)'
    BY <2>1 DEF At, U
  <2>3. ASSUME NEW i \in DOMAIN free_uev
        PROVE  ev[free_uev[i]] = NULL /\ refcount'[free_uev[i]] = 0
    <3>1. free_uev[i] \in Slots
      BY DEF LifeInv, TypeInv
    <3>2. ev[free_uev[i]] = NULL /\ refcount[free_uev[i]] = 0
      BY DEF LifeInv, FreeSlots
    <3> QED
      BY <3>1, <3>2
  <2> QED
    BY <2>2, <2>3 DEF LifeInv, FreeSlots
<1>4. RefExact'
  <2> SUFFICES ASSUME NEW s \in Slots PROVE refcount'[s] = References(s)'
    BY DEF RefExact
  <2>1. refcount[s] = References(s)
    BY DEF LifeInv, RefExact
  <2>2. /\ References(s) = One(ev[s] # NULL /\ ev[s] \notin pending_free)
              + One(ev[s] \in active_timer) + One(ev[s] \in active_fd)
              + Cardinality(Queued(queue, s)) + Cardinality(Held(th, s))
        /\ Cardinality(Queued(queue, s)) \in Nat /\ Cardinality(Held(th, s)) \in Nat
    BY ReferenceTerms DEF LifeInv
  <2>3. /\ References(s)' = One(ev[s] # NULL /\ ev[s] \notin pending_free)
              + One(ev[s] \in active_timer') + One(ev[s] \in active_fd')
              + Cardinality(Queued(queue, s)) + Cardinality(Held(th', s))
    BY DEF References, Queued
  <2>4. Cardinality(Held(th', s)) \in Nat
    <3>1. th' \in Stacks
      BY DEF Threaded
    <3> QED
      BY <3>1, HeldFinite, FS_CardinalityType
  <2>5. /\ One(ev[s] # NULL /\ ev[s] \notin pending_free) \in {0, 1}
        /\ One(ev[s] \in active_timer) \in {0, 1} /\ One(ev[s] \in active_fd) \in {0, 1}
        /\ One(ev[s] \in active_timer') \in {0, 1} /\ One(ev[s] \in active_fd') \in {0, 1}
    BY DEF One
  <2>6. refcount'[s] = refcount[s]
           + (One(ev[s] \in active_timer') - One(ev[s] \in active_timer))
           + (One(ev[s] \in active_fd') - One(ev[s] \in active_fd))
           + (Cardinality(Held(th', s)) - Cardinality(Held(th, s)))
    OBVIOUS
  <2> QED
    BY <2>1, <2>2, <2>3, <2>4, <2>5, <2>6
<1>5. EpollInv'
  BY DEF LifeInv, EpollInv
<1> QED
  BY <1>1, <1>2, <1>3, <1>4, <1>5 DEF LifeInv, Threaded

\* A node that stays in the heap keeps its flag when the step is not of a
\* thread at delheap.
LEMMA HeapKept ==
  ASSUME LifeInv, NEW p \in Threads, Threaded(p), p = Loop => ~At(Loop, "delheap"), NEW o \in heap
  PROVE  o \in active_timer \/ (At(Loop, "delheap") /\ E(Loop) = o)'
<1>1. o \in active_timer \/ (At(Loop, "delheap") /\ E(Loop) = o)
  BY DEF LifeInv, EventInv
<1>2. p # Loop => Top(Loop)' = Top(Loop)
  BY DEF Threaded, Threads
<1> QED
  BY <1>1, <1>2 DEF At, E

\* uevent_add sets active_fd.
LEMMA LifeAddFdMark ==
  ASSUME LifeInv, NEW p \in Threads, AddFdMark(p)
  PROVE  LifeInv'
<1>1. Top(p).at = "addmark" /\ Top(p).at \in AddP
  BY DEF AddFdMark, At, AddP
<1>2. /\ U(p) \in Slots /\ E(p) \in Events /\ E(p) = Top(p).o /\ U(p) = Top(p).s /\ ev[U(p)] = E(p)
      /\ Ordinary(p) /\ Top(p).at \notin RefP /\ Owned(Top(p)) = 1
  BY <1>1, AddTop
<1>3. "fd" \in kind[E(p)] /\ E(p) \notin active_fd /\ E(p) # NULL /\ uev[E(p)] = U(p)
  <2>1. "fd" \in kind[E(p)] /\ E(p) \notin active_fd
    BY <1>1, <1>2, TopKnown DEF FrameInv
  <2>2. E(p) # NULL
    BY <1>2, LifeAssumption
  <2> QED
    BY <1>2, <2>1, <2>2 DEF LifeInv, EventInv
<1>4. /\ active_fd' = active_fd \cup {E(p)} /\ num_active_fd' = num_active_fd + 1
      /\ UNCHANGED <<ev, refcount, free_uev, mem, kind, uev, released, heap, epoll, num_active_timers, base_mut,
                     reported, queue, active_timer, pending_free, modification_lock>>
      /\ Load(p, "addfdref", E(p))
  BY DEF AddFdMark, slots, memory, lists, Go
<1>5. Steady
  BY <1>4 DEF Steady
<1>6. FramesKept(p)
  <2>1. \A q \in Threads : \A i \in DOMAIN th[q] : (q = p => i # Len(th[p])) =>
          (th[q][i].at \in {"addmark", "addctl"} => th[q][i].o # E(p))
    BY <1>1, LockUnique DEF AddP
  <2> QED
    BY <1>4, <2>1, FramesKeptWhen
<1>7. PICK g : g = Frame("addfdref", U(p), E(p))
  OBVIOUS
<1>8. Replace(p, <<g>>) /\ g.at = "addfdref" /\ g.s = U(p) /\ g.o = E(p) /\ ~g.ret
  BY <1>4, <1>7, LoadFrame
<1>9. g \in FrameType /\ FrameShape(g) /\ g.at # "delref" /\ Owned(g) = 0 /\ g.at \in AddP
  <2>1. g \in FrameType
    BY <1>2, <1>7, FrameTyped DEF Places
  <2> QED
    BY <1>2, <1>8, <2>1, WorthFacts DEF FrameShape, AddP
<1>10. FrameInv(p, g) /\ Inherits(g, Top(p)) /\ Follows(p, Top(p).at, g.at)
  BY <1>1, <1>3, <1>8, <1>9, AddFrame
<1>11. FrameInv(p, g)'
  BY <1>4, <1>8, <1>10 DEF FrameInv, Named, Stops, Frees, Arms, Strict, Ops, Outside
<1>12. /\ Threaded(p)
       /\ \A s : /\ Cardinality(Held(th, s)) \in Nat
                 /\ Cardinality(Held(th', s)) = Cardinality(Held(th, s)) + Worth(g, s) - Worth(Top(p), s)
  BY <1>2, <1>5, <1>6, <1>8, <1>9, <1>10, <1>11, OneFrame
<1>13. \A s : Worth(g, s) = 0 /\ Worth(Top(p), s) = (IF s = U(p) THEN 1 ELSE 0)
  BY <1>2, <1>9 DEF Worth
<1>14. ASSUME NEW s \in Slots
       PROVE  One(ev[s] \in active_fd') = One(ev[s] \in active_fd) + (IF s = U(p) THEN 1 ELSE 0)
  <2>1. ev[s] = E(p) <=> s = U(p)
    BY <1>2, <1>3, OneSlot
  <2> QED
    BY <1>3, <1>4, <2>1 DEF One
<1>15. ASSUME NEW s \in Slots
       PROVE  refcount'[s] = refcount[s]
                + (One(ev[s] \in active_timer') - One(ev[s] \in active_timer))
                + (One(ev[s] \in active_fd') - One(ev[s] \in active_fd))
                + (Cardinality(Held(th', s)) - Cardinality(Held(th, s)))
  <2>1. One(ev[s] \in active_timer') = One(ev[s] \in active_timer) /\ One(ev[s] \in active_timer) \in {0, 1}
        /\ One(ev[s] \in active_fd) \in {0, 1}
    BY <1>4 DEF One
  <2>2. refcount'[s] = refcount[s] /\ refcount[s] \in Int
    BY <1>4 DEF LifeInv, TypeInv
  <2> QED
    BY <1>12, <1>13, <1>14, <2>1, <2>2
<1>16. \A o \in active_fd' : uev[o] \in Slots /\ ev[uev[o]] = o /\ "fd" \in kind[o]
  BY <1>2, <1>3, <1>4 DEF LifeInv, EventInv
<1>17. \A o \in heap' : o \in active_timer' \/ (At(Loop, "delheap") /\ E(Loop) = o)'
  BY <1>2, <1>4, <1>12, HeapKept DEF Ordinary
<1>18. /\ refcount' \in [Slots -> Int] /\ num_active_fd' \in Int /\ num_active_timers' \in Int
       /\ base_mut' \in Threads \cup {NULL} /\ active_fd' \subseteq Events /\ active_timer' \subseteq Events
       /\ heap' \subseteq Events
       /\ \A o \in active_timer' : uev[o] \in Slots /\ ev[uev[o]] = o /\ "timeout" \in kind[o] /\ ~Stops(kind[o])
  BY <1>2, <1>4 DEF LifeInv, TypeInv, EventInv
<1> QED
  BY <1>2, <1>4, <1>12, <1>15, <1>16, <1>17, <1>18, LifeFlags DEF Ordinary


\* uevent_del clears active_fd.
LEMMA LifeDelFdFlag ==
  ASSUME LifeInv, NEW p \in Threads, DelFdFlag(p)
  PROVE  LifeInv'
<1>0. At(p, "delfd") /\ "delfd" \in DelP
  BY DEF DelFdFlag, DelP
<1>1. /\ Top(p).at = "delfd" /\ U(p) \in Slots /\ E(p) \in Events \cup {NULL} /\ U(p) = Top(p).s /\ E(p) = Top(p).o
      /\ Ordinary(p) /\ FrameInv(p, Top(p))
  BY <1>0, CallTop
<1>2. Owned(Top(p)) = 1 /\ E(p) # NULL /\ ev[U(p)] = E(p) /\ Top(p).at \notin RefP
      /\ (p # Loop => Stops(kind[E(p)]))
  BY <1>0, <1>1, WorthFacts DEF FrameInv, RefP
<1>3. /\ active_fd' = active_fd \ {E(p)}
      /\ UNCHANGED <<ev, refcount, free_uev, mem, kind, uev, released, heap, epoll, num_active_fd,
                     num_active_timers, base_mut, reported, queue, active_timer, pending_free, modification_lock>>
  BY DEF DelFdFlag, slots, memory, base, lists
<1>4. PICK l : /\ l = (IF E(p) \in active_fd THEN "delctl" ELSE "deltm") /\ Load(p, l, E(p))
               /\ l \in DelP /\ l \in Places
  BY DEF DelFdFlag, Go, DelP, Places
<1>5. Steady /\ FramesKept(p)
  <2>1. FramesKept(p)
    BY <1>3, FramesKeptWhen
  <2> QED
    BY <1>3, <2>1 DEF Steady
<1>6. PICK g : g = Frame(l, U(p), E(p))
  OBVIOUS
<1>7. Replace(p, <<g>>) /\ g.at = l /\ g.s = U(p) /\ g.o = E(p) /\ ~g.ret
  BY <1>4, <1>6, LoadFrame
<1>8. g \in FrameType
  BY <1>1, <1>4, <1>6, FrameTyped
<1>9. FrameShape(g) /\ g.at # "delref" /\ Quiet(g) /\ Owned(g) = (IF E(p) \in active_fd THEN 2 ELSE 1)
  BY <1>1, <1>4, <1>7, WorthFacts DEF FrameShape, Quiet, AddP
<1>10. FrameInv(p, g)'
  <2>1. g.at \in {"delctl", "deltm"}
    BY <1>4, <1>7
  <2> QED
    BY <1>2, <1>3, <1>7, <2>1 DEF FrameInv, Named, AddP, DelP, CbP, RefTested, Tested, Stops, Outside
<1>11. Follows(p, Top(p).at, g.at)
  BY <1>0, <1>1, <1>4, <1>7, FollowsTable
<1>12. /\ Threaded(p)
       /\ \A s : /\ Cardinality(Held(th, s)) \in Nat
                 /\ Cardinality(Held(th', s)) = Cardinality(Held(th, s)) + Worth(g, s) - Worth(Top(p), s)
  BY <1>2, <1>5, <1>7, <1>8, <1>9, <1>10, <1>11, OneFrame
<1>13. \A s : /\ Worth(g, s) = (IF s = U(p) THEN Owned(g) ELSE 0)
              /\ Worth(Top(p), s) = (IF s = U(p) THEN 1 ELSE 0)
  BY <1>1, <1>2, <1>7 DEF Worth
<1>14. ASSUME NEW s \in Slots
       PROVE  One(ev[s] \in active_fd') = One(ev[s] \in active_fd) - (IF s = U(p) THEN Owned(g) - 1 ELSE 0)
  <2>1. ev[s] = E(p) <=> s = U(p)
    BY <1>1, <1>2, OneSlot
  <2> QED
    BY <1>3, <1>9, <2>1 DEF One
<1>15. ASSUME NEW s \in Slots
       PROVE  refcount'[s] = refcount[s]
                + (One(ev[s] \in active_timer') - One(ev[s] \in active_timer))
                + (One(ev[s] \in active_fd') - One(ev[s] \in active_fd))
                + (Cardinality(Held(th', s)) - Cardinality(Held(th, s)))
  <2>1. One(ev[s] \in active_timer') = One(ev[s] \in active_timer) /\ One(ev[s] \in active_timer) \in {0, 1}
        /\ One(ev[s] \in active_fd) \in {0, 1}
    BY <1>3 DEF One
  <2>2. refcount'[s] = refcount[s] /\ refcount[s] \in Int
    BY <1>3 DEF LifeInv, TypeInv
  <2> QED
    BY <1>9, <1>12, <1>13, <1>14, <2>1, <2>2
<1>16. \A o \in active_fd' : uev[o] \in Slots /\ ev[uev[o]] = o /\ "fd" \in kind[o]
  BY <1>3 DEF LifeInv, EventInv
<1>17. \A o \in heap' : o \in active_timer' \/ (At(Loop, "delheap") /\ E(Loop) = o)'
  BY <1>1, <1>3, <1>12, HeapKept DEF Ordinary
<1>18. /\ refcount' \in [Slots -> Int] /\ num_active_fd' \in Int /\ num_active_timers' \in Int
       /\ base_mut' \in Threads \cup {NULL} /\ active_fd' \subseteq Events /\ active_timer' \subseteq Events
       /\ heap' \subseteq Events
       /\ \A o \in active_timer' : uev[o] \in Slots /\ ev[uev[o]] = o /\ "timeout" \in kind[o] /\ ~Stops(kind[o])
  BY <1>3 DEF LifeInv, TypeInv, EventInv
<1> QED
  BY <1>1, <1>3, <1>12, <1>15, <1>16, <1>17, <1>18, LifeFlags DEF Ordinary

\* Only the loop finds a timer armed: nobody else stops an event whose timer can be.
LEMMA LifeDelTimerFlag ==
  ASSUME LifeInv, NEW p \in Threads, DelTimerFlag(p)
  PROVE  LifeInv'
<1>0. At(p, "deltm") /\ "deltm" \in DelP
  BY DEF DelTimerFlag, DelP
<1>1. /\ Top(p).at = "deltm" /\ U(p) \in Slots /\ E(p) \in Events \cup {NULL} /\ U(p) = Top(p).s /\ E(p) = Top(p).o
      /\ Ordinary(p) /\ FrameInv(p, Top(p))
  BY <1>0, CallTop
<1>2. Owned(Top(p)) = 1 /\ E(p) # NULL /\ ev[U(p)] = E(p) /\ Top(p).at \notin RefP
      /\ (p # Loop => Stops(kind[E(p)]))
  BY <1>0, <1>1, WorthFacts DEF FrameInv, RefP
<1>3. /\ active_timer' = active_timer \ {E(p)}
      /\ UNCHANGED <<ev, refcount, free_uev, mem, kind, uev, released, heap, epoll, num_active_fd,
                     num_active_timers, base_mut, reported, queue, active_fd, pending_free, modification_lock>>
  BY DEF DelTimerFlag, slots, memory, base, lists
<1>4. PICK l, x : /\ l = (IF E(p) \in active_timer THEN "delheap" ELSE "put")
                  /\ x = (IF E(p) \in active_timer THEN E(p) ELSE NULL)
                  /\ Load(p, l, x) /\ l \in DelP \cup {"put"} /\ l \in Places
  BY DEF DelTimerFlag, Go, DelP, Places
<1>5. Steady /\ FramesKept(p)
  <2>1. FramesKept(p)
    BY <1>3, FramesKeptWhen
  <2> QED
    BY <1>3, <2>1 DEF Steady
<1>6. PICK g : g = Frame(l, U(p), x)
  OBVIOUS
<1>7. Replace(p, <<g>>) /\ g.at = l /\ g.s = U(p) /\ g.o = x /\ ~g.ret
  BY <1>4, <1>6, LoadFrame
<1>8. g \in FrameType
  BY <1>1, <1>4, <1>6, FrameTyped
<1>9. FrameShape(g) /\ g.at # "delref" /\ Quiet(g) /\ Owned(g) = (IF E(p) \in active_timer THEN 2 ELSE 1)
  BY <1>1, <1>4, <1>7, WorthFacts DEF FrameShape, Quiet, AddP
<1>10. FrameInv(p, g)'
  <2>1. CASE E(p) \in active_timer
    BY <1>2, <1>3, <1>4, <1>7, <2>1 DEF FrameInv, Named, AddP, DelP, CbP, RefTested, Tested, Stops, Outside
  <2>2. CASE E(p) \notin active_timer
    BY <1>2, <1>3, <1>4, <1>7, <2>2 DEF FrameInv, Named, AddP, DelP, CbP, RefTested, Tested, Stops, Outside
  <2> QED
    BY <2>1, <2>2
<1>11. Follows(p, Top(p).at, g.at)
  BY <1>0, <1>1, <1>4, <1>7, FollowsTable
<1>12. /\ Threaded(p) /\ Top(p)' = g
       /\ \A s : /\ Cardinality(Held(th, s)) \in Nat
                 /\ Cardinality(Held(th', s)) = Cardinality(Held(th, s)) + Worth(g, s) - Worth(Top(p), s)
  BY <1>2, <1>5, <1>7, <1>8, <1>9, <1>10, <1>11, OneFrame
<1>13. \A s : /\ Worth(g, s) = (IF s = U(p) THEN Owned(g) ELSE 0)
              /\ Worth(Top(p), s) = (IF s = U(p) THEN 1 ELSE 0)
  BY <1>1, <1>2, <1>7 DEF Worth
<1>14. ASSUME NEW s \in Slots
       PROVE  One(ev[s] \in active_timer') = One(ev[s] \in active_timer) - (IF s = U(p) THEN Owned(g) - 1 ELSE 0)
  <2>1. ev[s] = E(p) <=> s = U(p)
    BY <1>1, <1>2, OneSlot
  <2> QED
    BY <1>3, <1>9, <2>1 DEF One
<1>15. ASSUME NEW s \in Slots
       PROVE  refcount'[s] = refcount[s]
                + (One(ev[s] \in active_timer') - One(ev[s] \in active_timer))
                + (One(ev[s] \in active_fd') - One(ev[s] \in active_fd))
                + (Cardinality(Held(th', s)) - Cardinality(Held(th, s)))
  <2>1. One(ev[s] \in active_fd') = One(ev[s] \in active_fd) /\ One(ev[s] \in active_timer) \in {0, 1}
        /\ One(ev[s] \in active_fd) \in {0, 1}
    BY <1>3 DEF One
  <2>2. refcount'[s] = refcount[s] /\ refcount[s] \in Int
    BY <1>3 DEF LifeInv, TypeInv
  <2> QED
    BY <1>9, <1>12, <1>13, <1>14, <2>1, <2>2
<1>16. \A o \in active_timer' : uev[o] \in Slots /\ ev[uev[o]] = o /\ "timeout" \in kind[o] /\ ~Stops(kind[o])
  BY <1>3 DEF LifeInv, EventInv
<1>17. ASSUME NEW o \in heap'
       PROVE  o \in active_timer' \/ (At(Loop, "delheap") /\ E(Loop) = o)'
  <2>1. o \in heap /\ (o \in active_timer \/ (At(Loop, "delheap") /\ E(Loop) = o)')
    BY <1>1, <1>3, <1>12, HeapKept DEF Ordinary
  <2>2. CASE o # E(p) \/ E(p) \notin active_timer
    BY <1>3, <2>1, <2>2
  <2>3. CASE o = E(p) /\ E(p) \in active_timer
    <3>1. p = Loop
      BY <1>2, <2>3 DEF LifeInv, EventInv
    <3> QED
      BY <1>4, <1>7, <1>12, <2>3, <3>1 DEF At, E
  <2> QED
    BY <2>2, <2>3
<1>18. /\ refcount' \in [Slots -> Int] /\ num_active_fd' \in Int /\ num_active_timers' \in Int
       /\ base_mut' \in Threads \cup {NULL} /\ active_fd' \subseteq Events /\ active_timer' \subseteq Events
       /\ heap' \subseteq Events
       /\ \A o \in active_fd' : uev[o] \in Slots /\ ev[uev[o]] = o /\ "fd" \in kind[o]
  BY <1>3 DEF LifeInv, TypeInv, EventInv
<1> QED
  BY <1>1, <1>3, <1>12, <1>15, <1>16, <1>17, <1>18, LifeFlags DEF Ordinary

\* uevent_del takes the node out of the heap.
LEMMA LifeDelTimerHeap ==
  ASSUME LifeInv, NEW p \in Threads, DelTimerHeap(p)
  PROVE  LifeInv'
<1>0. At(p, "delheap") /\ "delheap" \in DelP
  BY DEF DelTimerHeap, DelP
<1>1. /\ Top(p).at = "delheap" /\ U(p) \in Slots /\ E(p) \in Events \cup {NULL} /\ U(p) = Top(p).s /\ E(p) = Top(p).o
      /\ FrameInv(p, Top(p))
  BY <1>0, CallTop
<1>2. Owned(Top(p)) = 2 /\ E(p) # NULL /\ ev[U(p)] = E(p) /\ Top(p).at \notin RefP
  BY <1>0, <1>1, WorthFacts DEF FrameInv, RefP
<1>3. /\ heap' = heap \ {E(p)} /\ num_active_timers' = num_active_timers - 1
      /\ UNCHANGED <<ev, refcount, free_uev, mem, kind, uev, released, epoll, num_active_fd, base_mut, reported,
                     queue, active_fd, active_timer, pending_free, modification_lock>>
  BY DEF DelTimerHeap, slots, memory, lists, flags
<1>4. Steady /\ FramesKept(p)
  <2>1. FramesKept(p)
    BY <1>3, FramesKeptWhen
  <2> QED
    BY <1>3, <2>1 DEF Steady
<1>5. PICK g : g = Frame("put", U(p), E(p))
  OBVIOUS
<1>6. PICK h : h = Frame("put", U(p), NULL)
  OBVIOUS
<1>7. g.at = "put" /\ g.s = U(p) /\ ~g.ret /\ h.at = "put" /\ h.s = U(p) /\ ~h.ret
  BY <1>5, <1>6 DEF Frame
<1>8. g \in FrameType /\ h \in FrameType
  BY <1>1, <1>5, <1>6, FrameTyped DEF Places
<1>9. /\ FrameShape(g) /\ FrameShape(h) /\ Quiet(g) /\ Quiet(h) /\ Owned(g) = 1 /\ Owned(h) = 1
      /\ g.at # "delref" /\ h.at # "delref" /\ h.at \in Above(g.at) /\ g.at \notin RefTested
      /\ ~Clash(Top(p), h) /\ ~Clash(h, Top(p))
  BY <1>1, <1>7, WorthFacts, AboveWhen DEF FrameShape, Quiet, AddP, PutP, RefTested, Tested, Clash
<1>10. Replace(p, <<g, h>>)
  BY <1>5, <1>6, <1>8, AppendTwo DEF DelTimerHeap, Call, Enter
<1>11. FrameInv(p, g)' /\ FrameInv(p, h)'
  BY <1>2, <1>3, <1>7 DEF FrameInv, Named, AddP, DelP, CbP, RefTested, Tested
<1>12. Follows(p, Top(p).at, g.at)
  BY <1>0, <1>1, <1>7, FollowsTable
<1>13. /\ Threaded(p)
       /\ \A s : /\ Cardinality(Held(th, s)) \in Nat
                 /\ Cardinality(Held(th', s)) = Cardinality(Held(th, s))
                      + Worth(g, s) + Worth(h, s) - Worth(Top(p), s)
  BY <1>2, <1>4, <1>7, <1>8, <1>9, <1>10, <1>11, <1>12, TwoFrames
<1>14. \A s : /\ Worth(g, s) = (IF s = U(p) THEN 1 ELSE 0) /\ Worth(h, s) = (IF s = U(p) THEN 1 ELSE 0)
              /\ Worth(Top(p), s) = (IF s = U(p) THEN 2 ELSE 0)
  BY <1>1, <1>2, <1>7, <1>9 DEF Worth
<1>15. ASSUME NEW s \in Slots
       PROVE  refcount'[s] = refcount[s]
                + (One(ev[s] \in active_timer') - One(ev[s] \in active_timer))
                + (One(ev[s] \in active_fd') - One(ev[s] \in active_fd))
                + (Cardinality(Held(th', s)) - Cardinality(Held(th, s)))
  <2>1. One(ev[s] \in active_fd') = One(ev[s] \in active_fd) /\ One(ev[s] \in active_timer) \in {0, 1}
        /\ One(ev[s] \in active_fd) \in {0, 1} /\ One(ev[s] \in active_timer') = One(ev[s] \in active_timer)
    BY <1>3 DEF One
  <2>2. refcount'[s] = refcount[s] /\ refcount[s] \in Int
    BY <1>3 DEF LifeInv, TypeInv
  <2> QED
    BY <1>13, <1>14, <2>1, <2>2
<1>16. ASSUME NEW o \in heap'
       PROVE  o \in active_timer' \/ (At(Loop, "delheap") /\ E(Loop) = o)'
  <2>1. CASE p = Loop
    BY <1>3, <2>1 DEF LifeInv, EventInv
  <2>2. CASE p # Loop
    BY <1>3, <1>13, <2>2, HeapKept
  <2> QED
    BY <2>1, <2>2
<1>17. /\ refcount' \in [Slots -> Int] /\ num_active_fd' \in Int /\ num_active_timers' \in Int
       /\ base_mut' \in Threads \cup {NULL} /\ active_fd' \subseteq Events /\ active_timer' \subseteq Events
       /\ heap' \subseteq Events
       /\ (\A o \in active_fd' : uev[o] \in Slots /\ ev[uev[o]] = o /\ "fd" \in kind[o])
       /\ \A o \in active_timer' : uev[o] \in Slots /\ ev[uev[o]] = o /\ "timeout" \in kind[o] /\ ~Stops(kind[o])
  BY <1>3 DEF LifeInv, TypeInv, EventInv
<1>18. ~At(p, "create") /\ ~At(p, "wtake")
  BY <1>1 DEF At
<1> QED
  BY <1>1, <1>3, <1>13, <1>15, <1>16, <1>17, <1>18, LifeFlags


\* insert_timer_to_heap counts a reference exactly when it sets the flag.
LEMMA InsertFacts ==
  ASSUME LifeInv, NEW s \in Slots, NEW o, o = ev[s], o # NULL, "timeout" \in kind[o], ~Stops(kind[o]),
         refcount[s] # 0, InsertTimer(s, o)
  PROVE  /\ refcount' \in [Slots -> Int] /\ num_active_timers' \in Int
         /\ active_timer' = active_timer \cup {o} /\ heap' = heap \cup {o}
         /\ active_timer' \subseteq Events /\ heap' \subseteq Events
         /\ \A x \in active_timer' : uev[x] \in Slots /\ ev[uev[x]] = x /\ "timeout" \in kind[x] /\ ~Stops(kind[x])
         /\ \A t \in Slots : refcount'[t] = refcount[t] \/ refcount[t] # 0
         /\ \A t \in Slots : refcount'[t] = refcount[t] + (One(ev[t] \in active_timer') - One(ev[t] \in active_timer))
<1>1. active_timer' = active_timer \cup {o} /\ heap' = heap \cup {o}
  BY DEF InsertTimer
<1>2. o \in Events /\ uev[o] = s
  BY DEF LifeInv, TypeInv, EventInv
<1>3. \A x \in active_timer' : uev[x] \in Slots /\ ev[uev[x]] = x /\ "timeout" \in kind[x] /\ ~Stops(kind[x])
  BY <1>1, <1>2 DEF LifeInv, EventInv
<1>4. active_timer' \subseteq Events /\ heap' \subseteq Events
  BY <1>1, <1>2 DEF LifeInv, TypeInv
<1>5. ASSUME NEW t \in Slots PROVE ev[t] = o <=> t = s
  BY OneSlot
<1>6. CASE o \in active_timer
  <2>1. UNCHANGED <<num_active_timers, refcount>>
    BY <1>6 DEF InsertTimer
  <2>2. active_timer' = active_timer
    BY <1>1, <1>6
  <2>3. \A t \in Slots : refcount'[t] = refcount[t] + (One(ev[t] \in active_timer') - One(ev[t] \in active_timer))
    BY <2>1, <2>2 DEF One, LifeInv, TypeInv
  <2> QED
    BY <1>1, <1>3, <1>4, <2>1, <2>3 DEF LifeInv, TypeInv
<1>7. CASE o \notin active_timer
  <2>1. num_active_timers' = num_active_timers + 1 /\ AddRef(s, 1)
    BY <1>7 DEF InsertTimer
  <2>2. /\ refcount' \in [Slots -> Int] /\ num_active_timers' \in Int
        /\ \A t \in Slots : refcount'[t] = refcount[t] + (IF t = s THEN 1 ELSE 0) /\ refcount[t] \in Int
    BY <2>1 DEF AddRef, LifeInv, TypeInv
  <2>3. ASSUME NEW t \in Slots
        PROVE  One(ev[t] \in active_timer') - One(ev[t] \in active_timer) = IF t = s THEN 1 ELSE 0
    <3>1. CASE t = s
      BY <1>1, <1>5, <1>7, <3>1 DEF One
    <3>2. CASE t # s
      <4>1. ev[t] \in active_timer' <=> ev[t] \in active_timer
        BY <1>1, <1>5, <3>2
      <4> QED
        BY <3>2, <4>1 DEF One
    <3> QED
      BY <3>1, <3>2
  <2>4. \A t \in Slots : refcount'[t] = refcount[t] \/ refcount[t] # 0
    BY <2>2
  <2>5. \A t \in Slots : refcount'[t] = refcount[t] + (One(ev[t] \in active_timer') - One(ev[t] \in active_timer))
    BY <2>2, <2>3
  <2> QED
    BY <1>1, <1>3, <1>4, <2>2, <2>4, <2>5
<1> QED
  BY <1>6, <1>7

\* uevent_add arms the timer.
LEMMA LifeAddTimer ==
  ASSUME TimersLeftToLoop, LifeInv, NEW p \in Threads, AddTimer(p)
  PROVE  LifeInv'
<1>1. Top(p).at = "addtm" /\ Top(p).at \in AddP
  BY DEF AddTimer, At, AddP
<1>2. /\ U(p) \in Slots /\ E(p) \in Events /\ E(p) = Top(p).o /\ U(p) = Top(p).s /\ ev[U(p)] = E(p)
      /\ Ordinary(p) /\ Top(p).at \notin RefP /\ Owned(Top(p)) = 1
  BY <1>1, AddTop
<1>3. "timeout" \in kind[E(p)] /\ E(p) # NULL /\ kind[E(p)] \in Kinds /\ (Strict => Arms(kind[E(p)]))
  <2>1. "timeout" \in kind[E(p)] /\ (Strict => Arms(kind[E(p)]))
    BY <1>1, <1>2, TopKnown DEF FrameInv
  <2>2. E(p) # NULL
    BY <1>2, LifeAssumption
  <2> QED
    BY <1>2, <2>1, <2>2 DEF LifeInv, EventInv
<1>4. ~Stops(kind[E(p)])
  BY <1>3 DEF TimersLeftToLoop, Strict
<1>5. refcount[U(p)] # 0
  <2>1. refcount[U(p)] >= 1 /\ refcount[U(p)] \in Nat
    BY <1>2, Positive, TopFacts DEF LifeInv
  <2> QED
    BY <2>1
<1>6. /\ InsertTimer(U(p), E(p)) /\ Load(p, "addend", E(p))
      /\ UNCHANGED <<ev, free_uev, mem, kind, uev, released, epoll, num_active_fd, base_mut, reported, queue,
                     active_fd, pending_free, modification_lock>>
  BY DEF AddTimer, memory, lists, Go
<1>7. /\ refcount' \in [Slots -> Int] /\ num_active_timers' \in Int
      /\ active_timer' = active_timer \cup {E(p)} /\ heap' = heap \cup {E(p)}
      /\ active_timer' \subseteq Events /\ heap' \subseteq Events
      /\ (\A x \in active_timer' : uev[x] \in Slots /\ ev[uev[x]] = x /\ "timeout" \in kind[x] /\ ~Stops(kind[x]))
      /\ (\A t \in Slots : refcount'[t] = refcount[t] \/ refcount[t] # 0)
      /\ (\A t \in Slots : refcount'[t] = refcount[t] + (One(ev[t] \in active_timer') - One(ev[t] \in active_timer)))
  BY <1>2, <1>3, <1>4, <1>5, <1>6, InsertFacts
<1>8. Steady /\ FramesKept(p)
  <2>1. FramesKept(p)
    BY <1>6, <1>7, FramesKeptWhen
  <2> QED
    BY <1>6, <2>1 DEF Steady
<1>9. PICK g : g = Frame("addend", U(p), E(p))
  OBVIOUS
<1>10. Replace(p, <<g>>) /\ g.at = "addend" /\ g.s = U(p) /\ g.o = E(p) /\ ~g.ret
  BY <1>6, <1>9, LoadFrame
<1>11. g \in FrameType
  BY <1>2, <1>9, FrameTyped DEF Places
<1>12. FrameShape(g) /\ g.at # "delref" /\ Owned(g) = 1 /\ g.at \in AddP
  BY <1>2, <1>10, WorthFacts DEF FrameShape, AddP
<1>13. FrameInv(p, g) /\ Inherits(g, Top(p)) /\ Follows(p, Top(p).at, g.at)
  BY <1>1, <1>10, <1>12, AddFrame
<1>14. FrameInv(p, g)'
  BY <1>6, <1>10, <1>13 DEF FrameInv, Named, Stops, Frees, Arms, Strict, Ops, Outside
<1>15. /\ Threaded(p)
       /\ \A s : /\ Cardinality(Held(th, s)) \in Nat
                 /\ Cardinality(Held(th', s)) = Cardinality(Held(th, s)) + Worth(g, s) - Worth(Top(p), s)
  BY <1>2, <1>8, <1>10, <1>11, <1>12, <1>13, <1>14, OneFrame
<1>16. ASSUME NEW s \in Slots
       PROVE  refcount'[s] = refcount[s]
                + (One(ev[s] \in active_timer') - One(ev[s] \in active_timer))
                + (One(ev[s] \in active_fd') - One(ev[s] \in active_fd))
                + (Cardinality(Held(th', s)) - Cardinality(Held(th, s)))
  <2>1. One(ev[s] \in active_fd') = One(ev[s] \in active_fd) /\ One(ev[s] \in active_timer) \in {0, 1}
        /\ One(ev[s] \in active_fd) \in {0, 1} /\ One(ev[s] \in active_timer') \in {0, 1}
    BY <1>6 DEF One
  <2>2. Worth(g, s) = Worth(Top(p), s) /\ Worth(g, s) \in {0, 1, 2}
    BY <1>2, <1>10, <1>12, WorthFacts DEF Worth
  <2>3. refcount[s] \in Int
    BY DEF LifeInv, TypeInv
  <2> QED
    BY <1>7, <1>15, <2>1, <2>2, <2>3
<1>17. \A o \in heap' : o \in active_timer' \/ (At(Loop, "delheap") /\ E(Loop) = o)'
  BY <1>2, <1>7, <1>15, HeapKept DEF Ordinary
<1>18. /\ num_active_fd' \in Int /\ base_mut' \in Threads \cup {NULL} /\ active_fd' \subseteq Events
       /\ \A o \in active_fd' : uev[o] \in Slots /\ ev[uev[o]] = o /\ "fd" \in kind[o]
  BY <1>6 DEF LifeInv, TypeInv, EventInv
<1> QED
  BY <1>2, <1>6, <1>7, <1>15, <1>16, <1>17, <1>18, LifeFlags DEF Ordinary

\* The loop takes a due timer.
LEMMA LifeTimerTake ==
  ASSUME LifeInv, NEW o \in Events, TimerTake(o)
  PROVE  LifeInv'
<1>1. At(Loop, "tmin") /\ "tmin" \in LoopP /\ "tput" \in LoopP /\ o \in heap
  BY DEF TimerTake, LoopP
<1>2. /\ Loop \in Threads /\ Top(Loop).at = "tmin" /\ Ordinary(Loop) /\ "tmin" \notin RefP
      /\ Owned(Top(Loop)) = 0 /\ Follows(Loop, "tmin", "tput") /\ FrameInv(Loop, Top(Loop))
  BY <1>1, LoopTop
<1>3. base_mut = Loop
  BY <1>2 DEF FrameInv
<1>4. o \in active_timer
  BY <1>1, <1>2 DEF LifeInv, EventInv, Ordinary
<1>5. PICK s : s = uev[o]
  OBVIOUS
<1>6. s \in Slots /\ ev[s] = o /\ "timeout" \in kind[o] /\ ~Stops(kind[o]) /\ o # NULL
  BY <1>4, <1>5, LifeAssumption DEF LifeInv, EventInv
<1>7. /\ heap' = heap \ {o} /\ active_timer' = active_timer \ {o} /\ num_active_timers' = num_active_timers - 1
      /\ UNCHANGED <<ev, refcount, free_uev, mem, kind, uev, released, epoll, num_active_fd, base_mut, reported,
                     queue, active_fd, pending_free, modification_lock>>
  BY DEF TimerTake, slots, memory, lists
<1>8. Steady /\ FramesKept(Loop)
  <2>1. FramesKept(Loop)
    BY <1>2, <1>7, FramesKeptWhen
  <2> QED
    BY <1>7, <2>1 DEF Steady
<1>9. PICK g : g = Frame("tput", s, o)
  OBVIOUS
<1>10. PICK h : h = Frame("put", s, NULL)
  OBVIOUS
<1>11. g.at = "tput" /\ g.s = s /\ g.o = o /\ ~g.ret /\ h.at = "put" /\ h.s = s /\ ~h.ret
  BY <1>9, <1>10 DEF Frame
<1>12. g \in FrameType /\ h \in FrameType
  BY <1>6, <1>9, <1>10, FrameTyped DEF Places
<1>13. /\ FrameShape(g) /\ FrameShape(h) /\ Quiet(g) /\ Quiet(h) /\ Owned(g) = 0 /\ Owned(h) = 1
       /\ g.at # "delref" /\ h.at # "delref" /\ h.at \in Above(g.at) /\ g.at \notin RefTested
       /\ ~Clash(Top(Loop), h) /\ ~Clash(h, Top(Loop))
  BY <1>2, <1>6, <1>11, WorthFacts, AboveWhen DEF FrameShape, Quiet, AddP, PutP, RefTested, Tested, Clash
<1>14. Replace(Loop, <<g, h>>)
  BY <1>5, <1>9, <1>10, <1>12, AppendTwo DEF TimerTake, Enter
<1>15. FrameInv(Loop, g)'
  BY <1>3, <1>6, <1>7, <1>11 DEF FrameInv, Named, AddP, DelP, CbP, RefTested, Tested, Stops, Outside
<1>16. FrameInv(Loop, h)'
  BY <1>6, <1>7, <1>11 DEF FrameInv, Named, AddP, DelP, CbP, RefTested, Tested
<1>17. /\ Threaded(Loop)
       /\ \A t : /\ Cardinality(Held(th, t)) \in Nat
                 /\ Cardinality(Held(th', t)) = Cardinality(Held(th, t))
                      + Worth(g, t) + Worth(h, t) - Worth(Top(Loop), t)
  BY <1>2, <1>8, <1>11, <1>12, <1>13, <1>14, <1>15, <1>16, TwoFrames
<1>18. \A t : /\ Worth(g, t) = 0 /\ Worth(h, t) = (IF t = s THEN 1 ELSE 0) /\ Worth(Top(Loop), t) = 0
  BY <1>2, <1>11, <1>13 DEF Worth
<1>19. ASSUME NEW t \in Slots
       PROVE  refcount'[t] = refcount[t]
                + (One(ev[t] \in active_timer') - One(ev[t] \in active_timer))
                + (One(ev[t] \in active_fd') - One(ev[t] \in active_fd))
                + (Cardinality(Held(th', t)) - Cardinality(Held(th, t)))
  <2>1. One(ev[t] \in active_fd') = One(ev[t] \in active_fd) /\ One(ev[t] \in active_fd) \in {0, 1}
    BY <1>7 DEF One
  <2>2. One(ev[t] \in active_timer') - One(ev[t] \in active_timer) = IF t = s THEN -1 ELSE 0
    <3>1. ev[t] = o <=> t = s
      BY <1>6, OneSlot
    <3> QED
      BY <1>4, <1>7, <3>1 DEF One
  <2>3. refcount'[t] = refcount[t] /\ refcount[t] \in Int
    BY <1>7 DEF LifeInv, TypeInv
  <2> QED
    BY <1>17, <1>18, <2>1, <2>2, <2>3
<1>20. ASSUME NEW x \in heap'
       PROVE  x \in active_timer' \/ (At(Loop, "delheap") /\ E(Loop) = x)'
  BY <1>2, <1>7 DEF LifeInv, EventInv, Ordinary
<1>21. /\ refcount' \in [Slots -> Int] /\ num_active_fd' \in Int /\ num_active_timers' \in Int
       /\ base_mut' \in Threads \cup {NULL} /\ active_fd' \subseteq Events /\ active_timer' \subseteq Events
       /\ heap' \subseteq Events
       /\ (\A x \in active_fd' : uev[x] \in Slots /\ ev[uev[x]] = x /\ "fd" \in kind[x])
       /\ \A x \in active_timer' : uev[x] \in Slots /\ ev[uev[x]] = x /\ "timeout" \in kind[x] /\ ~Stops(kind[x])
  BY <1>7 DEF LifeInv, TypeInv, EventInv
<1> QED
  BY <1>2, <1>7, <1>17, <1>19, <1>20, <1>21, LifeFlags DEF Ordinary


\* The loop arms a persistent timer again.
LEMMA LifeTimerRearm ==
  ASSUME LifeInv, TimerRearm
  PROVE  LifeInv'
<1>1. At(Loop, "tput") /\ "tput" \in LoopP /\ "tmin" \in LoopP /\ "tcb" \in LoopP \ {"tput", "tmin"}
      /\ "tmin" \in Unslotted /\ "tput" \notin Unslotted
  BY DEF TimerRearm, LoopP, Unslotted
<1>2. /\ Loop \in Threads /\ Top(Loop).at = "tput" /\ Ordinary(Loop) /\ "tput" \notin RefP
      /\ E(Loop) \in Events \cup {NULL} /\ U(Loop) \in Slots /\ U(Loop) = Top(Loop).s /\ E(Loop) = Top(Loop).o
      /\ Owned(Top(Loop)) = 0 /\ FrameInv(Loop, Top(Loop))
      /\ Follows(Loop, "tput", "tmin") /\ Follows(Loop, "tput", "tcb")
  BY <1>1, LoopTop
<1>3. /\ E(Loop) # NULL /\ ev[U(Loop)] \in {E(Loop), NULL} /\ base_mut = Loop
      /\ "timeout" \in kind[E(Loop)] /\ ~Stops(kind[E(Loop)])
  BY <1>2 DEF FrameInv
<1>4. UNCHANGED <<ev, free_uev, mem, kind, uev, released, epoll, num_active_fd, reported, queue, active_fd,
                  pending_free, modification_lock>>
  BY DEF TimerRearm, memory, lists
<1>5. CASE Returned(Loop)
  <2>1. Load(Loop, "tmin", NULL) /\ UNCHANGED <<heap, active_timer, num_active_timers, refcount, base_mut>>
    BY <1>5 DEF TimerRearm
  <2>2. Still
    BY <1>4, <2>1 DEF Still, lifeVars, LifeInv, TypeInv, EpollInv
  <2>3. ASSUME NEW g, g.at = "tmin", g.s = U(Loop), g.o = NULL, ~g.ret
        PROVE  FrameInv(Loop, g) /\ Quiet(g) /\ Owned(g) = Owned(Top(Loop))
    <3>1. FrameInv(Loop, g)
      BY <1>3, <2>3 DEF FrameInv, Named, AddP, DelP, CbP, RefTested, Tested
    <3> QED
      BY <1>2, <2>3, <3>1, WorthFacts DEF Quiet, AddP
  <2>4. "tmin" \in Places /\ NULL \in Events \cup {NULL}
    BY DEF Places
  <2> QED
    BY <1>1, <1>2, <2>1, <2>2, <2>3, <2>4, LoadStill
<1>6. CASE ~Returned(Loop)
  <2>1. Load(Loop, "tcb", E(Loop)) /\ base_mut' = NULL
    BY <1>6 DEF TimerRearm, Go
  <2>2. /\ refcount' \in [Slots -> Int] /\ num_active_timers' \in Int
        /\ active_timer' \subseteq Events /\ heap' \subseteq Events
        /\ (\A x \in active_timer' : uev[x] \in Slots /\ ev[uev[x]] = x /\ "timeout" \in kind[x] /\ ~Stops(kind[x]))
        /\ (\A t \in Slots : refcount'[t] = refcount[t] \/ refcount[t] # 0)
        /\ (\A t \in Slots : refcount'[t] = refcount[t] + (One(ev[t] \in active_timer') - One(ev[t] \in active_timer)))
        /\ \A x \in heap' : x \in active_timer'
    <3>0. \A x \in heap : x \in active_timer
      BY <1>2 DEF LifeInv, EventInv, Ordinary
    <3>1. CASE UNCHANGED <<heap, active_timer, num_active_timers, refcount>>
      <4>1. \A t \in Slots : refcount[t] \in Int /\ One(ev[t] \in active_timer) \in {0, 1}
        BY DEF LifeInv, TypeInv, One
      <4>2. \A t \in Slots : refcount'[t] = refcount[t] + (One(ev[t] \in active_timer') - One(ev[t] \in active_timer))
        BY <3>1, <4>1
      <4> QED
        BY <3>0, <3>1, <4>2 DEF LifeInv, TypeInv, EventInv
    <3>2. CASE ev[U(Loop)] # NULL /\ ev[U(Loop)] \notin pending_free /\ InsertTimer(U(Loop), ev[U(Loop)])
      <4>1. ev[U(Loop)] = E(Loop)
        BY <1>3, <3>2
      <4>2. refcount[U(Loop)] # 0
        <5>1. refcount[U(Loop)] >= 1 /\ refcount[U(Loop)] \in Nat
          BY <1>2, <3>2, Positive DEF LifeInv
        <5> QED
          BY <5>1
      <4>3. /\ refcount' \in [Slots -> Int] /\ num_active_timers' \in Int
            /\ active_timer' = active_timer \cup {E(Loop)} /\ heap' = heap \cup {E(Loop)}
            /\ active_timer' \subseteq Events /\ heap' \subseteq Events
            /\ (\A x \in active_timer' : uev[x] \in Slots /\ ev[uev[x]] = x /\ "timeout" \in kind[x] /\ ~Stops(kind[x]))
            /\ (\A t \in Slots : refcount'[t] = refcount[t] \/ refcount[t] # 0)
            /\ (\A t \in Slots : refcount'[t] = refcount[t]
                  + (One(ev[t] \in active_timer') - One(ev[t] \in active_timer)))
        BY <1>2, <1>3, <3>2, <4>1, <4>2, InsertFacts
      <4> QED
        BY <3>0, <4>3
    <3> QED
      BY <3>1, <3>2 DEF TimerRearm
  <2>3. Steady /\ FramesKept(Loop)
    <3>1. \A q \in Threads : \A i \in DOMAIN th[q] : (q = Loop => i # Len(th[Loop])) =>
            th[q][i].at \notin {"create", "tput", "tmin"}
      BY <1>1, MutexOwner
    <3>2. FramesKept(Loop)
      BY <1>2, <1>4, <2>2, <3>1, FramesKeptWhen
    <3> QED
      BY <1>4, <3>2 DEF Steady
  <2>4. PICK g : g = Frame("tcb", U(Loop), E(Loop))
    OBVIOUS
  <2>5. /\ g \in FrameType /\ FrameShape(g) /\ Quiet(g) /\ g.at = "tcb" /\ g.at # "delref" /\ \A t : Worth(g, t) = 0
    BY <1>1, <1>2, <2>4, LoopFrame
  <2>6. Replace(Loop, <<g>>)
    BY <1>2, <2>1, <2>4, LoadFrame
  <2>7. FrameInv(Loop, g)'
    BY <2>5 DEF FrameInv, Named, AddP, DelP, CbP, RefTested, Tested
  <2>8. /\ Threaded(Loop)
        /\ \A s : /\ Cardinality(Held(th, s)) \in Nat
                  /\ Cardinality(Held(th', s)) = Cardinality(Held(th, s)) + Worth(g, s) - Worth(Top(Loop), s)
    BY <1>2, <2>3, <2>5, <2>6, <2>7, OneFrame
  <2>9. ASSUME NEW s \in Slots
        PROVE  refcount'[s] = refcount[s]
                 + (One(ev[s] \in active_timer') - One(ev[s] \in active_timer))
                 + (One(ev[s] \in active_fd') - One(ev[s] \in active_fd))
                 + (Cardinality(Held(th', s)) - Cardinality(Held(th, s)))
    <3>1. One(ev[s] \in active_fd') = One(ev[s] \in active_fd) /\ One(ev[s] \in active_timer) \in {0, 1}
          /\ One(ev[s] \in active_fd) \in {0, 1} /\ One(ev[s] \in active_timer') \in {0, 1}
      BY <1>4 DEF One
    <3>2. Worth(Top(Loop), s) = 0 /\ refcount[s] \in Int
      BY <1>2 DEF Worth, LifeInv, TypeInv
    <3> QED
      BY <2>2, <2>5, <2>8, <3>1, <3>2
  <2>10. /\ num_active_fd' \in Int /\ base_mut' \in Threads \cup {NULL} /\ active_fd' \subseteq Events
         /\ \A o \in active_fd' : uev[o] \in Slots /\ ev[uev[o]] = o /\ "fd" \in kind[o]
    BY <1>4, <2>1 DEF LifeInv, TypeInv, EventInv
  <2> QED
    BY <1>2, <1>4, <2>2, <2>8, <2>9, <2>10, LifeFlags DEF Ordinary
<1> QED
  BY <1>5, <1>6

-----------------------------------------------------------------------------
(* The steps that change what a slot refers to.                            *)

\* uevent_free drops the creator's reference: only this call has the event.
LEMMA LifeFreePend ==
  ASSUME LifeInv, NEW p \in Threads, FreePend(p)
  PROVE  LifeInv'
<1>0. At(p, "freepend")
  BY DEF FreePend
<1>1. /\ Top(p).at = "freepend" /\ U(p) \in Slots /\ E(p) \in Events \cup {NULL} /\ U(p) = Top(p).s /\ E(p) = Top(p).o
      /\ Ordinary(p) /\ FrameInv(p, Top(p))
  BY <1>0, CallTop
<1>2. /\ ev[U(p)] = E(p) /\ E(p) # NULL /\ E(p) \in released \ pending_free /\ Frees(kind[E(p)])
      /\ Owned(Top(p)) = 0 /\ Top(p).at \notin RefP /\ uev[E(p)] = U(p)
  <2>1. ev[U(p)] = E(p) /\ E(p) # NULL /\ E(p) \in released \ pending_free /\ Frees(kind[E(p)])
    BY <1>1 DEF FrameInv
  <2> QED
    BY <1>1, <2>1, WorthFacts DEF RefP, LifeInv, EventInv
<1>3. /\ pending_free' = pending_free \cup {E(p)} /\ Load(p, "put", NULL)
      /\ UNCHANGED <<ev, refcount, free_uev, mem, kind, uev, released, heap, epoll, num_active_fd,
                     num_active_timers, base_mut, reported, queue, active_fd, active_timer, modification_lock>>
  BY <1>2 DEF FreePend, slots, memory, base, lists, Go
<1>4. /\ Len(th[p]) \in DOMAIN th[p] /\ th[p][Len(th[p])] = Top(p) /\ DOMAIN th[p] = 1 .. Len(th[p])
      /\ Len(th[p]) \in Nat
  BY TopFacts DEF LifeInv
<1>5. ASSUME NEW q \in Threads, NEW i \in DOMAIN th[q], th[q][i].at \in {"free", "freepend"}, th[q][i].s = U(p)
      PROVE  q = p /\ i = Len(th[p])
  <2>1. Clash(th[q][i], th[p][Len(th[p])])
    BY <1>1, <1>4, <1>5 DEF Clash
  <2> QED
    BY <1>4, <2>1 DEF LifeInv, UniqueInv
<1>6. \A s \in Slots : ev[s] = E(p) <=> s = U(p)
  BY <1>1, <1>2, OneSlot
<1>7. Steady
  <2> SUFFICES ASSUME NEW q \in Threads \ {Loop}, NEW i \in DOMAIN th[q], th[q][i].at = "delref", th[q][i].s = U(p)
               PROVE  FALSE
    BY <1>3, <1>6 DEF Steady
  <2>1. i > 1 /\ th[q][i - 1].at = "freepend" /\ th[q][i - 1].s = U(p)
    BY <1>2 DEF LifeInv, DelRefInv
  <2>2. i \in Nat /\ DOMAIN th[q] = 1 .. Len(th[q]) /\ Len(th[q]) \in Nat
    BY DEF LifeInv, TypeInv
  <2>3. i - 1 \in DOMAIN th[q]
    BY <2>1, <2>2
  <2>4. q = p /\ i - 1 = Len(th[p])
    BY <1>5, <2>1, <2>3
  <2> QED
    BY <2>2, <2>4
<1>8. FramesKept(p)
  <2> SUFFICES ASSUME NEW q \in Threads, NEW i \in DOMAIN th[q], q = p => i # Len(th[p]), NEW f, f = th[q][i]
               PROVE  FrameInv(q, f)'
    BY DEF FramesKept
  <2>1. FrameInv(q, f)
    BY DEF LifeInv, FramesInv
  <2>2. f.at = "create" => f.o # E(p)
    BY <1>2, <2>1 DEF FrameInv
  <2>3. f.at \in {"free", "freepend"} => f.s \in Slots /\ f.s # U(p)
    BY <1>5 DEF LifeInv, ShapeInv, Unslotted
  <2>4. f.at \in {"free", "freepend"} => ev[f.s] # E(p)
    BY <1>6, <2>3
  <2> HIDE DEF AddP, DelP, CbP
  <2> QED
    BY <1>3, <2>1, <2>2, <2>4 DEF FrameInv, Named, Stops, Frees, Arms, Strict, Ops, Outside
<1>9. PICK g : g = Frame("put", U(p), NULL)
  OBVIOUS
<1>10. /\ g \in FrameType /\ FrameShape(g) /\ Quiet(g) /\ g.at = "put" /\ g.s = U(p) /\ g.at # "delref" /\ Owned(g) = 1
  BY <1>1, <1>2, <1>9, PutFrame
<1>11. Replace(p, <<g>>)
  BY <1>3, <1>9, LoadFrame
<1>12. FrameInv(p, g)'
  BY <1>2, <1>3, <1>10 DEF FrameInv, Named, AddP, DelP, CbP, RefTested, Tested
<1>13. Follows(p, Top(p).at, g.at)
  BY <1>1, <1>10, FollowsTable
<1>14. /\ Threaded(p)
       /\ \A s : /\ Cardinality(Held(th, s)) \in Nat
                 /\ Cardinality(Held(th', s)) = Cardinality(Held(th, s)) + Worth(g, s) - Worth(Top(p), s)
  BY <1>2, <1>7, <1>8, <1>10, <1>11, <1>12, <1>13, OneFrame
<1>15. \A s : Worth(g, s) = (IF s = U(p) THEN 1 ELSE 0) /\ Worth(Top(p), s) = 0
  BY <1>2, <1>10 DEF Worth
<1>16. TypeInv'
  BY <1>1, <1>2, <1>3, <1>14 DEF LifeInv, TypeInv, Threaded, Stacks
<1>17. EventInv'
  <2>1. \A o \in heap : o \in active_timer \/ (At(Loop, "delheap") /\ E(Loop) = o)'
    BY <1>1, <1>14, HeapKept DEF Ordinary
  <2>2. ~Pooled => p # Worker /\ At(Worker, "wtake")
    BY <1>1 DEF LifeInv, EventInv, Ordinary
  <2>3. ~Pooled => At(Worker, "wtake")'
    BY <1>14, <2>2 DEF Threaded, Threads, At
  <2> QED
    BY <1>2, <1>3, <2>1, <2>3 DEF LifeInv, EventInv, Stops, Frees, Ops, Outside
<1>18. FreeSlots'
  <2>1. ASSUME NEW q \in Threads, At(q, "create")
        PROVE  q # p /\ Top(q)' = Top(q)
    BY <1>1, <1>14, <2>1 DEF Threaded, Ordinary
  <2>2. \A s \in Slots : (\E q \in Threads : At(q, "create") /\ U(q) = s) => (\E q \in Threads : At(q, "create") /\ U(q) = s)'
    BY <2>1 DEF At, U
  <2> QED
    BY <1>3, <2>2 DEF LifeInv, FreeSlots
<1>19. RefExact'
  <2> SUFFICES ASSUME NEW s \in Slots PROVE refcount'[s] = References(s)'
    BY DEF RefExact
  <2>1. refcount[s] = References(s)
    BY DEF LifeInv, RefExact
  <2>2. /\ References(s) = One(ev[s] # NULL /\ ev[s] \notin pending_free)
              + One(ev[s] \in active_timer) + One(ev[s] \in active_fd)
              + Cardinality(Queued(queue, s)) + Cardinality(Held(th, s))
        /\ Cardinality(Queued(queue, s)) \in Nat /\ Cardinality(Held(th, s)) \in Nat
    BY ReferenceTerms DEF LifeInv
  <2>3. /\ References(s)' = One(ev[s] # NULL /\ ev[s] \notin pending_free')
              + One(ev[s] \in active_timer) + One(ev[s] \in active_fd)
              + Cardinality(Queued(queue, s)) + Cardinality(Held(th', s))
    BY <1>3 DEF References, Queued
  <2>4. One(ev[s] # NULL /\ ev[s] \notin pending_free')
          = One(ev[s] # NULL /\ ev[s] \notin pending_free) - (IF s = U(p) THEN 1 ELSE 0)
    <3>1. CASE s = U(p)
      BY <1>2, <1>3, <3>1 DEF One
    <3>2. CASE s # U(p)
      <4>1. ev[s] \in pending_free' <=> ev[s] \in pending_free
        BY <1>3, <1>6, <3>2
      <4> QED
        BY <3>2, <4>1 DEF One
    <3> QED
      BY <3>1, <3>2
  <2>5. /\ One(ev[s] # NULL /\ ev[s] \notin pending_free) \in {0, 1}
        /\ One(ev[s] \in active_timer) \in {0, 1} /\ One(ev[s] \in active_fd) \in {0, 1}
    BY DEF One
  <2>6. Cardinality(Held(th', s)) = Cardinality(Held(th, s)) + (IF s = U(p) THEN 1 ELSE 0)
    BY <1>14, <1>15
  <2>7. refcount'[s] = refcount[s]
    BY <1>3
  <2> QED
    BY <2>1, <2>2, <2>3, <2>4, <2>5, <2>6, <2>7
<1>20. EpollInv'
  BY <1>3 DEF LifeInv, EpollInv
<1> QED
  BY <1>14, <1>16, <1>17, <1>18, <1>19, <1>20 DEF LifeInv, Threaded


\* The last reference of an event that is pending: no frame uses it any more.
LEMMA LifeDestroy ==
  ASSUME TimersLeftToLoop, LifeInv, NEW p \in Threads, Destroy(p)
  PROVE  LifeInv'
<1>0. At(p, "destroy") /\ "destroy" \in PutP
  BY DEF Destroy, PutP
<1>1. /\ Top(p).at = "destroy" /\ U(p) \in Slots /\ U(p) = Top(p).s
      /\ Ordinary(p) /\ FrameInv(p, Top(p)) /\ Top(p).at \notin Ground(p)
  BY <1>0, CallTop
<1>2. Owned(Top(p)) = 0 /\ Top(p).at \notin RefP /\ ev[U(p)] # NULL /\ refcount[U(p)] = 0
  BY <1>1, WorthFacts DEF RefP, FrameInv, Named
<1>3. PICK u, o : u = U(p) /\ o = ev[u]
  OBVIOUS
<1>4. /\ u \in Slots /\ o \in Events /\ o # NULL /\ refcount[u] = 0 /\ uev[o] = u /\ kind[o] \in Kinds
      /\ \A s \in Slots : ev[s] = o <=> s = u
  <2>1. u \in Slots /\ o \in Events /\ o # NULL /\ refcount[u] = 0 /\ uev[o] = u /\ kind[o] \in Kinds
    BY <1>1, <1>2, <1>3 DEF LifeInv, TypeInv, EventInv
  <2> QED
    BY <1>3, <2>1, OneSlot
<1>5. /\ o \in pending_free /\ o \notin active_timer /\ o \notin active_fd
      /\ (\A i \in DOMAIN queue : queue[i] # u)
      /\ \A q \in Threads : \A i \in DOMAIN th[q] : th[q][i].s = u => Owned(th[q][i]) = 0
  <2>0. /\ ev[u] # NULL /\ ev[u] \notin pending_free => refcount[u] >= 1
        /\ ev[u] \in active_timer \cup active_fd => refcount[u] >= 1
        /\ \A i \in DOMAIN queue : queue[i] = u => refcount[u] >= 1
        /\ \A q \in Threads : \A i \in DOMAIN th[q] : th[q][i].s = u => refcount[u] >= Owned(th[q][i])
    BY <1>4, Positive DEF LifeInv
  <2>1. ~(refcount[u] >= 1)
    BY <1>4
  <2>2. ASSUME NEW q \in Threads, NEW i \in DOMAIN th[q], th[q][i].s = u
        PROVE  Owned(th[q][i]) = 0
    <3>1. 0 >= Owned(th[q][i]) /\ Owned(th[q][i]) \in {0, 1, 2}
      BY <1>4, <2>0, <2>2, OwnedFacts
    <3> QED
      BY <3>1
  <2> QED
    BY <1>3, <1>4, <2>0, <2>1, <2>2
<1>6. Frees(kind[o]) /\ "fd" \notin kind[o] /\ (Strict => ~Arms(kind[o]))
  <2>1. Frees(kind[o])
    BY <1>5 DEF LifeInv, EventInv
  <2> QED
    BY <1>4, <2>1 DEF TimersLeftToLoop, Strict
<1>7. /\ ev' = [ev EXCEPT ![u] = NULL] /\ free_uev' = Append(free_uev, u) /\ mem' = [mem EXCEPT ![o] = "freed"]
      /\ Return(p, TRUE)
      /\ UNCHANGED <<refcount, kind, uev, released, heap, epoll, num_active_fd,
                     num_active_timers, base_mut, reported, queue, active_fd, active_timer, pending_free,
                     modification_lock>>
  BY <1>2, <1>3 DEF Destroy, base, lists, flags
<1>8. /\ ev'[u] = NULL /\ \A s \in Slots : s # u => ev'[s] = ev[s]
  BY <1>4, <1>7 DEF LifeInv, TypeInv
<1>9. \A x \in Events : x # o => mem'[x] = mem[x]
  BY <1>7 DEF LifeInv, TypeInv
<1>10. Steady
  BY <1>3, <1>5, <1>7, <1>8 DEF Steady
<1>11. FramesKept(p)
  <2> SUFFICES ASSUME NEW q \in Threads, NEW i \in DOMAIN th[q], q = p => i # Len(th[p]), NEW f, f = th[q][i]
               PROVE  FrameInv(q, f)'
    BY DEF FramesKept
  <2>1. FrameInv(q, f) /\ f \in FrameType
    BY DEF LifeInv, FramesInv, TypeInv
  <2>2. f.at \notin Unslotted => f.s \in Slots
    BY DEF LifeInv, ShapeInv
  <2>3. CASE f.at \in Unslotted
    BY <1>7, <2>1, <2>3 DEF FrameInv, Named, AddP, DelP, CbP, RefTested, Tested, Unslotted
  <2>4. CASE f.at \notin Unslotted /\ f.s # u
    <3>1. ev'[f.s] = ev[f.s]
      BY <1>8, <2>2, <2>4
    <3>2. f.at = "create" => mem'[f.o] = mem[f.o]
      <4>1. f.at = "create" => f.o # o /\ f.o \in Events
        BY <1>5, <2>1 DEF FrameInv, FrameType
      <4> QED
        BY <1>9, <4>1
    <3>3. UNCHANGED <<refcount, kind, uev, released, base_mut, active_fd, pending_free, modification_lock>>
      BY <1>7
    <3> HIDE DEF AddP, DelP, CbP
    <3> QED
      BY <2>1, <3>1, <3>2, <3>3 DEF FrameInv, Named, Stops, Frees, Arms, Strict, Ops, Outside
  <2>5. CASE f.at \notin Unslotted /\ f.s = u
    <3>1. Owned(f) = 0
      BY <1>5, <2>5
    <3>2. f.at \notin {"delctl", "delheap", "refchk", "refundo", "put", "dec", "create", "addchk", "addfd",
                       "addctl", "addmark", "addtm", "addend", "delfd", "deltm", "cblock", "cb", "wfinal"}
      BY <3>1, WorthFacts
    <3>3. ~(f.at \in RefTested /\ f.ret)
      BY <3>1, WorthFacts
    <3>4. f.at # "addfdref"
      BY <1>3, <1>6, <2>1, <2>5 DEF FrameInv, AddP
    <3>5. f.at # "destroy"
      <4>1. f.at = "destroy" => Clash(f, th[p][Len(th[p])])
        BY <1>1, <1>3, <2>5, TopFacts DEF Clash, LifeInv
      <4>2. Len(th[p]) \in DOMAIN th[p]
        BY TopFacts DEF LifeInv
      <4> QED
        BY <4>1, <4>2 DEF LifeInv, UniqueInv
    <3>6. f.at \notin {"free", "freepend"}
      BY <1>3, <1>5, <2>1, <2>5 DEF FrameInv
    <3>7. ~(f.at = "addref" /\ Strict)
      BY <1>3, <1>6, <2>1, <2>5 DEF FrameInv
    <3>8. f.at = "tput" => (f.o # NULL /\ base_mut = Loop /\ "timeout" \in kind[f.o] /\ ~Stops(kind[f.o]))
      BY <2>1 DEF FrameInv
    <3>9. f.at # "tmin"
      BY <2>5 DEF Unslotted
    <3>10. f.at \notin AddP \cup DelP \cup CbP /\ ~Named(f)
      BY <3>2, <3>3, <3>4, <3>5 DEF AddP, DelP, CbP, Named
    <3>11. UNCHANGED <<kind, base_mut>> /\ ev'[f.s] = NULL
      BY <1>7, <1>8, <2>5
    <3> HIDE DEF AddP, DelP, CbP
    <3> QED
      BY <3>2, <3>4, <3>5, <3>6, <3>7, <3>8, <3>9, <3>10, <3>11 DEF FrameInv, Named, Strict, Stops, Outside
  <2> QED
    BY <2>3, <2>4, <2>5
<1>12. /\ Threaded(p)
       /\ \A s : /\ Cardinality(Held(th, s)) \in Nat
                 /\ Cardinality(Held(th', s)) = Cardinality(Held(th, s)) - Worth(Top(p), s)
                      + (IF TRUE /\ Top(p).at \in RefP /\ s = U(p) THEN 1 ELSE 0)
  BY <1>1, <1>2, <1>7, <1>10, <1>11, PopFrame
<1>13. \A s : Cardinality(Held(th', s)) = Cardinality(Held(th, s))
  <2>1. \A s : Worth(Top(p), s) = 0
    BY <1>2 DEF Worth
  <2> QED
    BY <1>2, <1>12, <2>1
<1>14. TypeInv'
  <2>1. free_uev' \in Seq(Slots) /\ ev' \in [Slots -> Events \cup {NULL}]
        /\ mem' \in [Events -> {"none", "live", "freed"}]
    BY <1>4, <1>7 DEF LifeInv, TypeInv
  <2> QED
    BY <1>7, <1>12, <2>1 DEF LifeInv, TypeInv, Threaded, Stacks
<1>15. EventInv'
  <2>1. \A x \in heap : x \in active_timer \/ (At(Loop, "delheap") /\ E(Loop) = x)'
    BY <1>1, <1>12, HeapKept DEF Ordinary
  <2>2. ~Pooled => p # Worker /\ At(Worker, "wtake")
    BY <1>1 DEF LifeInv, EventInv, Ordinary
  <2>3. ~Pooled => At(Worker, "wtake")'
    BY <1>12, <2>2 DEF Threaded, Threads, At
  <2>4. ASSUME NEW s \in Slots, ev'[s] # NULL
        PROVE  uev[ev'[s]] = s /\ mem'[ev'[s]] = "live" /\ kind[ev'[s]] \in Kinds
    <3>1. s # u /\ ev'[s] = ev[s] /\ ev[s] # o /\ ev[s] \in Events /\ ev[s] # NULL
      BY <1>4, <1>8, <2>4 DEF LifeInv, TypeInv
    <3> QED
      BY <1>9, <3>1 DEF LifeInv, EventInv
  <2>5. \A x \in released : mem'[x] # "none"
    <3>1. mem'[o] = "freed"
      BY <1>4, <1>7 DEF LifeInv, TypeInv
    <3> QED
      BY <1>9, <3>1 DEF LifeInv, TypeInv, EventInv
  <2>6. \A x \in active_timer \cup active_fd : uev[x] \in Slots /\ ev'[uev[x]] = x
    <3>1. \A x \in active_timer \cup active_fd : uev[x] \in Slots /\ ev[uev[x]] = x /\ x # o
      BY <1>5 DEF LifeInv, EventInv
    <3> QED
      BY <1>3, <1>8, <3>1
  <2>7. \A i \in DOMAIN queue : ev'[queue[i]] # NULL
    <3>1. \A i \in DOMAIN queue : ev[queue[i]] # NULL /\ queue[i] # u /\ queue[i] \in Slots
      BY <1>5 DEF LifeInv, EventInv, TypeInv
    <3> QED
      BY <1>8, <3>1
  <2>8. /\ \A x \in pending_free : Frees(kind[x]) /\ x \in released
        /\ \A x \in active_timer : "timeout" \in kind[x] /\ ~Stops(kind[x])
        /\ \A x \in active_fd : "fd" \in kind[x]
        /\ ~Pooled => queue = <<>>
    BY DEF LifeInv, EventInv
  <2> QED
    BY <1>7, <2>1, <2>3, <2>4, <2>5, <2>6, <2>7, <2>8 DEF EventInv, Stops, Frees, Ops, Outside
<1>16. FreeSlots'
  <2>1. ASSUME NEW q \in Threads, At(q, "create")
        PROVE  q # p /\ Top(q)' = Top(q)
    BY <1>1, <1>12, <2>1 DEF Threaded, Ordinary
  <2>2. \A s \in Slots : (\E q \in Threads : At(q, "create") /\ U(q) = s) => (\E q \in Threads : At(q, "create") /\ U(q) = s)'
    BY <2>1 DEF At, U
  <2>3. free_uev \in Seq(Slots) /\ Len(free_uev) \in Nat /\ DOMAIN free_uev = 1 .. Len(free_uev)
    BY DEF LifeInv, TypeInv
  <2>4. /\ DOMAIN free_uev' = 1 .. Len(free_uev) + 1
        /\ free_uev'[Len(free_uev) + 1] = u
        /\ \A i \in DOMAIN free_uev : free_uev'[i] = free_uev[i]
    BY <1>4, <1>7, <2>3
  <2>5. \A i \in DOMAIN free_uev : free_uev[i] # u /\ free_uev[i] \in Slots /\ ev[free_uev[i]] = NULL
           /\ refcount[free_uev[i]] = 0
    BY <1>3, <1>4, <2>3 DEF LifeInv, FreeSlots
  <2>6. \A i \in DOMAIN free_uev' : i \in DOMAIN free_uev \/ i = Len(free_uev) + 1
    BY <2>3, <2>4
  <2>7. \A i \in DOMAIN free_uev : i \in DOMAIN free_uev'
    BY <2>3, <2>4
  <2>8. \A i, j \in DOMAIN free_uev' : free_uev'[i] = free_uev'[j] => i = j
    BY <2>4, <2>5, <2>6 DEF LifeInv, FreeSlots
  <2>9. \A i \in DOMAIN free_uev' : ev'[free_uev'[i]] = NULL /\ refcount[free_uev'[i]] = 0
    BY <1>4, <1>8, <2>4, <2>5, <2>6
  <2>10. ASSUME NEW s \in Slots
         PROVE  \/ \E i \in DOMAIN free_uev' : free_uev'[i] = s
                \/ ev'[s] # NULL \/ (\E q \in Threads : At(q, "create") /\ U(q) = s)'
    <3>1. CASE s = u
      <4>1. Len(free_uev) + 1 \in DOMAIN free_uev'
        BY <2>3, <2>4
      <4> QED
        BY <2>4, <3>1, <4>1
    <3>2. CASE s # u
      <4>1. \/ \E i \in DOMAIN free_uev : free_uev[i] = s
            \/ ev[s] # NULL \/ \E q \in Threads : At(q, "create") /\ U(q) = s
        BY DEF LifeInv, FreeSlots
      <4> QED
        BY <1>8, <2>2, <2>4, <2>7, <3>2, <4>1
    <3> QED
      BY <3>1, <3>2
  <2> QED
    BY <1>7, <2>8, <2>9, <2>10 DEF FreeSlots
<1>17. RefExact'
  <2> SUFFICES ASSUME NEW s \in Slots PROVE refcount'[s] = References(s)'
    BY DEF RefExact
  <2>1. refcount[s] = References(s)
    BY DEF LifeInv, RefExact
  <2>2. /\ References(s) = One(ev[s] # NULL /\ ev[s] \notin pending_free)
              + One(ev[s] \in active_timer) + One(ev[s] \in active_fd)
              + Cardinality(Queued(queue, s)) + Cardinality(Held(th, s))
        /\ Cardinality(Queued(queue, s)) \in Nat /\ Cardinality(Held(th, s)) \in Nat
    BY ReferenceTerms DEF LifeInv
  <2>3. References(s)' = One(ev'[s] # NULL /\ ev'[s] \notin pending_free)
              + One(ev'[s] \in active_timer) + One(ev'[s] \in active_fd)
              + Cardinality(Queued(queue, s)) + Cardinality(Held(th', s))
    BY <1>7 DEF References, Queued
  <2>4. /\ One(ev'[s] # NULL /\ ev'[s] \notin pending_free) = One(ev[s] # NULL /\ ev[s] \notin pending_free)
        /\ One(ev'[s] \in active_timer) = One(ev[s] \in active_timer)
        /\ One(ev'[s] \in active_fd) = One(ev[s] \in active_fd)
    <3>1. CASE s # u
      BY <1>8, <3>1
    <3>2. CASE s = u
      <4>1. NULL \notin active_timer /\ NULL \notin active_fd
        BY LifeAssumption DEF LifeInv, TypeInv
      <4> QED
        BY <1>3, <1>5, <1>8, <3>2, <4>1 DEF One
    <3> QED
      BY <3>1, <3>2
  <2> QED
    BY <1>7, <1>13, <2>1, <2>2, <2>3, <2>4
<1>18. EpollInv'
  BY <1>7 DEF LifeInv, EpollInv
<1> QED
  BY <1>12, <1>14, <1>15, <1>16, <1>17, <1>18 DEF LifeInv, Threaded


\* Taking the last of the free slots.
LEMMA TakeSlot ==
  ASSUME NEW c \in Seq(Slots), c # <<>>
  PROVE  LET n == Len(c) IN
         /\ n \in Nat /\ n > 0 /\ DOMAIN c = 1 .. n /\ Last(c) = c[n] /\ Last(c) \in Slots
         /\ Front(c) \in Seq(Slots) /\ DOMAIN Front(c) = 1 .. n - 1
         /\ \A i \in 1 .. n - 1 : Front(c)[i] = c[i]
<1> DEFINE m == Len(c) - 1
<1>0. Len(c) # 0
  OBVIOUS
<1>1. m \in Nat /\ m + 1 = Len(c) /\ Len(c) \in Nat
  BY <1>0
<1>2. Front(c) = SubSeq(c, 1, m)
  BY DEF Front
<1>3. SubSeq(c, 1, m) \in Seq(Slots) /\ Len(SubSeq(c, 1, m)) = m
      /\ \A i \in 1 .. m : SubSeq(c, 1, m)[i] = c[i]
  BY <1>1
<1>4. Last(c) = c[Len(c)] /\ c[Len(c)] \in Slots
  BY <1>1 DEF Last
<1> QED
  BY <1>1, <1>2, <1>3, <1>4

\* A slot is taken for a new event.
LEMMA LifeCreateBegin ==
  ASSUME LifeInv, NEW p \in Threads, NEW k \in Kinds, NEW o \in Events, CreateBegin(p, k, o)
  PROVE  LifeInv'
<1>1. MayCall(p, "create", k) /\ base_mut = NULL /\ free_uev # <<>> /\ mem[o] = "none"
  BY DEF CreateBegin, MutexFree
<1>2. PICK s : s = Last(free_uev)
  OBVIOUS
<1>3. PICK g, h : g = Here(p) /\ h = Frame("create", s, o)
  OBVIOUS
<1>4. /\ refcount' = [refcount EXCEPT ![s] = 1] /\ uev' = [uev EXCEPT ![o] = s] /\ Replace(p, <<g, h>>)
      /\ free_uev' = Front(free_uev) /\ mem' = [mem EXCEPT ![o] = "live"] /\ kind' = [kind EXCEPT ![o] = k]
      /\ base_mut' = p
      /\ UNCHANGED <<ev, released, heap, epoll, num_active_fd, num_active_timers, reported, queue, active_fd,
                     active_timer, pending_free, modification_lock>>
  BY <1>2, <1>3 DEF CreateBegin, base, lists, flags
<1>5. /\ Top(p).at \in {"idle", "cb"} /\ Ordinary(p) /\ Top(p).at \notin RefP
      /\ g \in FrameType /\ FrameShape(g) /\ ~g.ret /\ g.at = Top(p).at
      /\ FrameInv(p, g) /\ g.at # "delref" /\ g.at \notin RefTested
      /\ (Quiet(g) \/ Inherits(g, Top(p))) /\ (\A t : Worth(g, t) = Worth(Top(p), t))
      /\ Follows(p, Top(p).at, g.at)
  BY <1>1, <1>3, CallerFacts
<1>6. /\ Len(free_uev) \in Nat /\ Len(free_uev) > 0 /\ DOMAIN free_uev = 1 .. Len(free_uev)
      /\ s = free_uev[Len(free_uev)] /\ s \in Slots
      /\ free_uev' \in Seq(Slots) /\ DOMAIN free_uev' = 1 .. Len(free_uev) - 1
      /\ \A i \in 1 .. Len(free_uev) - 1 : free_uev'[i] = free_uev[i]
  BY <1>1, <1>2, <1>4, TakeSlot DEF LifeInv, TypeInv
<1>7. ev[s] = NULL /\ refcount[s] = 0
  <2>1. Len(free_uev) \in DOMAIN free_uev
    BY <1>6
  <2> QED
    BY <1>6, <2>1 DEF LifeInv, FreeSlots
<1>8. /\ o # NULL /\ (\A t \in Slots : ev[t] # o) /\ o \notin released /\ o \notin pending_free
      /\ o \notin active_timer /\ o \notin active_fd
  <2>1. o # NULL
    BY LifeAssumption
  <2>2. \A t \in Slots : ev[t] # o
    BY <1>1, <2>1 DEF LifeInv, EventInv
  <2> QED
    BY <1>1, <2>1, <2>2 DEF LifeInv, EventInv
<1>9. /\ refcount' \in [Slots -> Int] /\ refcount'[s] = 1 /\ \A t \in Slots : t # s => refcount'[t] = refcount[t]
  BY <1>4, <1>6 DEF LifeInv, TypeInv
<1>10. /\ uev'[o] = s /\ mem'[o] = "live" /\ kind'[o] = k
       /\ \A x \in Events : x # o => uev'[x] = uev[x] /\ mem'[x] = mem[x] /\ kind'[x] = kind[x]
  BY <1>4 DEF LifeInv, TypeInv
<1>11. Steady
  <2>1. \A t \in Slots : ev[t] # NULL => kind'[ev[t]] = kind[ev[t]]
    BY <1>8, <1>10 DEF LifeInv, TypeInv
  <2> QED
    BY <1>4, <2>1 DEF Steady
<1>12. FramesKept(p)
  <2> SUFFICES ASSUME NEW q \in Threads, NEW i \in DOMAIN th[q], NEW f, f = th[q][i]
               PROVE  FrameInv(q, f)'
    BY DEF FramesKept
  <2>1. FrameInv(q, f) /\ f \in FrameType /\ (f.at \notin Unslotted => f.s \in Slots)
    BY DEF LifeInv, FramesInv, TypeInv, ShapeInv
  <2>2. f.at \notin {"create", "tput", "tmin"}
    <3>1. Loop \in Threads /\ NULL \notin Threads
      BY LifeAssumption DEF Threads, Loop, Worker
    <3> QED
      BY <1>1, <2>1, <3>1 DEF FrameInv
  <2>3. f.at \notin Unslotted /\ ev[f.s] # NULL => ev[f.s] \in Events /\ ev[f.s] # o
    BY <1>8, <2>1 DEF LifeInv, TypeInv
  <2>4. f.at \in AddP \cup DelP \cup CbP \cup {"destroy"} => f.at \notin Unslotted
    BY DEF AddP, DelP, CbP, Unslotted
  <2>5. f.at = "destroy" => refcount'[f.s] = 0
    <3>1. f.at = "destroy" => ev[f.s] # NULL /\ refcount[f.s] = 0 /\ f.s \in Slots
      BY <2>1, <2>4 DEF FrameInv, Named
    <3> QED
      BY <1>7, <1>9, <3>1
  <2>6. f.at \in AddP \cup DelP \cup CbP => f.o # NULL /\ ev[f.s] = f.o /\ kind'[f.o] = kind[f.o]
    <3>1. f.at \in AddP \cup DelP \cup CbP => f.o # NULL /\ ev[f.s] = f.o
      BY <2>1 DEF FrameInv
    <3> QED
      BY <1>10, <2>3, <2>4, <3>1
  <2>7. f.at \in {"free", "freepend", "addref"} /\ ev[f.s] # NULL => kind'[ev[f.s]] = kind[ev[f.s]]
    BY <1>10, <2>3 DEF Unslotted
  <2>8. UNCHANGED <<ev, released, active_fd, pending_free, modification_lock>>
    BY <1>4
  <2>9. f.at \in {"addtm", "addfd", "addctl", "addmark", "addfdref"} => f.at \in AddP
    BY DEF AddP
  <2> HIDE DEF AddP, DelP, CbP
  <2> QED
    BY <2>1, <2>2, <2>5, <2>6, <2>7, <2>8, <2>9 DEF FrameInv, Named, Stops, Frees, Arms, Strict, Ops, Outside
<1>13. h.at = "create" /\ h.s = s /\ h.o = o /\ ~h.ret
  BY <1>3 DEF Frame
<1>14. h \in FrameType
  BY <1>3, <1>6, FrameTyped DEF Places
<1>15. /\ FrameShape(h) /\ h.at # "delref" /\ Owned(h) = 1 /\ h.at \in Above(g.at) /\ Quiet(h)
       /\ ~Clash(Top(p), h) /\ ~Clash(h, Top(p))
  BY <1>5, <1>6, <1>13, WorthFacts, AboveWhen DEF FrameShape, Clash, AddP, Quiet
<1>16. FrameInv(p, h)'
  BY <1>4, <1>7, <1>8, <1>10, <1>13 DEF FrameInv, Named, AddP, DelP, CbP, RefTested, Tested
<1>17. FrameInv(p, g)'
  <2>1. g.at \in {"idle", "cb"} /\ UNCHANGED <<ev, modification_lock>>
    BY <1>4, <1>5
  <2>2. g.at = "cb" => g.o # NULL /\ ev[g.s] = g.o /\ g.o \in modification_lock
    BY <1>5 DEF FrameInv, CbP
  <2> QED
    BY <2>1, <2>2 DEF FrameInv, Named, AddP, DelP, CbP, RefTested, Tested
<1>18. /\ Threaded(p) /\ Top(p)' = h
       /\ \A t : /\ Cardinality(Held(th, t)) \in Nat
                 /\ Cardinality(Held(th', t)) = Cardinality(Held(th, t))
                      + Worth(g, t) + Worth(h, t) - Worth(Top(p), t)
  BY <1>4, <1>5, <1>11, <1>12, <1>13, <1>14, <1>15, <1>16, <1>17, TwoFrames
<1>19. \A t : Cardinality(Held(th', t)) = Cardinality(Held(th, t)) + (IF t = s THEN 1 ELSE 0)
  <2>1. \A t : /\ Worth(g, t) = Worth(Top(p), t) /\ Worth(g, t) \in {0, 1, 2}
               /\ Worth(h, t) = (IF t = s THEN 1 ELSE 0)
    BY <1>5, <1>13, <1>15, WorthFacts DEF Worth
  <2> QED
    BY <1>18, <2>1
<1>20. TypeInv'
  <2>1. /\ mem' \in [Events -> {"none", "live", "freed"}] /\ kind' \in [Events -> SUBSET Flags]
        /\ uev' \in [Events -> Slots \cup {NULL}]
    BY <1>4, <1>6, LifeAssumption DEF LifeInv, TypeInv
  <2> QED
    BY <1>4, <1>6, <1>9, <1>18, <2>1 DEF LifeInv, TypeInv, Threaded, Stacks
<1>21. EventInv'
  <2>1. \A x \in heap : x \in active_timer \/ (At(Loop, "delheap") /\ E(Loop) = x)'
    BY <1>5, <1>18, HeapKept DEF Ordinary
  <2>2. ~Pooled => p # Worker /\ At(Worker, "wtake")
    BY <1>5 DEF LifeInv, EventInv, Ordinary
  <2>3. ~Pooled => At(Worker, "wtake")'
    BY <1>18, <2>2 DEF Threaded, Threads, At
  <2>4. ASSUME NEW t \in Slots, ev[t] # NULL
        PROVE  uev'[ev[t]] = t /\ mem'[ev[t]] = "live" /\ kind'[ev[t]] \in Kinds
    <3>1. ev[t] \in Events /\ ev[t] # o
      BY <1>8, <2>4 DEF LifeInv, TypeInv
    <3> QED
      BY <1>10, <2>4, <3>1 DEF LifeInv, EventInv
  <2>5. \A x \in released : mem'[x] # "none"
    BY <1>10 DEF LifeInv, TypeInv, EventInv
  <2>6. \A x \in active_timer : uev'[x] \in Slots /\ ev[uev'[x]] = x /\ "timeout" \in kind'[x] /\ ~Stops(kind'[x])
    BY <1>8, <1>10 DEF LifeInv, TypeInv, EventInv
  <2>7. \A x \in active_fd : uev'[x] \in Slots /\ ev[uev'[x]] = x /\ "fd" \in kind'[x]
    BY <1>8, <1>10 DEF LifeInv, TypeInv, EventInv
  <2>8. \A x \in pending_free : Frees(kind'[x]) /\ x \in released
    BY <1>8, <1>10 DEF LifeInv, TypeInv, EventInv
  <2>9. (\A i \in DOMAIN queue : ev[queue[i]] # NULL) /\ (~Pooled => queue = <<>>)
    BY DEF LifeInv, EventInv
  <2> QED
    BY <1>4, <2>1, <2>3, <2>4, <2>5, <2>6, <2>7, <2>8, <2>9 DEF EventInv, Stops, Frees, Ops, Outside
<1>22. FreeSlots'
  <2>1. ASSUME NEW q \in Threads, At(q, "create")
        PROVE  q # p /\ Top(q)' = Top(q)
    BY <1>5, <1>18, <2>1 DEF Threaded, Ordinary
  <2>2. \A t \in Slots : (\E q \in Threads : At(q, "create") /\ U(q) = t) => (\E q \in Threads : At(q, "create") /\ U(q) = t)'
    BY <2>1 DEF At, U
  <2>3. \A i \in DOMAIN free_uev' : i \in DOMAIN free_uev /\ i # Len(free_uev) /\ free_uev'[i] = free_uev[i]
    BY <1>6
  <2>4. \A i \in DOMAIN free_uev : i # Len(free_uev) => i \in DOMAIN free_uev'
    BY <1>6
  <2>5. \A i, j \in DOMAIN free_uev' : free_uev'[i] = free_uev'[j] => i = j
    BY <2>3 DEF LifeInv, FreeSlots
  <2>6. ASSUME NEW i \in DOMAIN free_uev' PROVE ev[free_uev'[i]] = NULL /\ refcount'[free_uev'[i]] = 0
    <3>1. /\ i \in DOMAIN free_uev /\ i # Len(free_uev) /\ free_uev'[i] = free_uev[i] /\ free_uev[i] \in Slots
          /\ Len(free_uev) \in DOMAIN free_uev
      BY <1>6, <2>3 DEF LifeInv, TypeInv
    <3>2. free_uev[i] # s
      BY <1>6, <3>1 DEF LifeInv, FreeSlots
    <3> QED
      BY <1>9, <3>1, <3>2 DEF LifeInv, FreeSlots
  <2>7. ASSUME NEW t \in Slots
        PROVE  \/ \E i \in DOMAIN free_uev' : free_uev'[i] = t
               \/ ev[t] # NULL \/ (\E q \in Threads : At(q, "create") /\ U(q) = t)'
    <3>1. CASE t = s
      BY <1>13, <1>18, <3>1 DEF At, U
    <3>2. CASE t # s
      <4>1. \/ \E i \in DOMAIN free_uev : free_uev[i] = t
            \/ ev[t] # NULL \/ \E q \in Threads : At(q, "create") /\ U(q) = t
        BY DEF LifeInv, FreeSlots
      <4> QED
        BY <1>6, <2>2, <2>3, <2>4, <3>2, <4>1
    <3> QED
      BY <3>1, <3>2
  <2> QED
    BY <1>4, <2>5, <2>6, <2>7 DEF FreeSlots
<1>23. RefExact'
  <2> SUFFICES ASSUME NEW t \in Slots PROVE refcount'[t] = References(t)'
    BY DEF RefExact
  <2>1. refcount[t] = References(t)
    BY DEF LifeInv, RefExact
  <2>2. /\ References(t) = One(ev[t] # NULL /\ ev[t] \notin pending_free)
              + One(ev[t] \in active_timer) + One(ev[t] \in active_fd)
              + Cardinality(Queued(queue, t)) + Cardinality(Held(th, t))
        /\ Cardinality(Queued(queue, t)) \in Nat /\ Cardinality(Held(th, t)) \in Nat
    BY ReferenceTerms DEF LifeInv
  <2>3. References(t)' = One(ev[t] # NULL /\ ev[t] \notin pending_free)
              + One(ev[t] \in active_timer) + One(ev[t] \in active_fd)
              + Cardinality(Queued(queue, t)) + Cardinality(Held(th', t))
    BY <1>4 DEF References, Queued
  <2>4. /\ One(ev[t] # NULL /\ ev[t] \notin pending_free) \in {0, 1}
        /\ One(ev[t] \in active_timer) \in {0, 1} /\ One(ev[t] \in active_fd) \in {0, 1}
    BY DEF One
  <2>5. refcount'[t] = refcount[t] + (IF t = s THEN 1 ELSE 0)
    BY <1>7, <1>9, <2>1, <2>2, <2>4
  <2>6. Cardinality(Held(th', t)) = Cardinality(Held(th, t)) + (IF t = s THEN 1 ELSE 0)
    BY <1>19
  <2> QED
    BY <2>1, <2>2, <2>3, <2>4, <2>5, <2>6
<1>24. EpollInv'
  BY <1>4, <1>6, <1>10 DEF LifeInv, EpollInv, TypeInv
<1> QED
  BY <1>18, <1>20, <1>21, <1>22, <1>23, <1>24 DEF LifeInv, Threaded


\* Nobody is on a frame of the timers while a slot is being created.
LEMMA CreatorOwns ==
  ASSUME LifeInv, NEW p \in Threads, At(p, "create"), NEW q \in Threads, NEW i \in DOMAIN th[q],
         q = p => i # Len(th[p])
  PROVE  th[q][i].at \notin {"create", "tput", "tmin"}
<1> DEFINE n == Len(th[p])
<1>1. /\ n = Len(th[p]) /\ n \in Nat /\ n > 0 /\ th[p][n].at = "create" /\ Top(p) = th[p][n] /\ DOMAIN th[p] = 1 .. n
  BY TopFacts DEF LifeInv, At
<1>2. base_mut = p
  BY <1>1, TopKnown DEF FrameInv
<1>3. n > 1 /\ "create" \in Above(th[p][n - 1].at)
  <2>1. "create" \notin Ground(p)
    BY GroundPlaces
  <2> QED
    BY <1>1, <2>1, TopFacts DEF LifeInv
<1>4. th[p][n - 1].at \in {"idle", "cb"}
  BY <1>3, AboveWhen DEF RefP, PutP, CbP, DelP
<1> HIDE DEF n
<1>5. ASSUME NEW r \in Threads, NEW j \in 2 .. Len(th[r])
      PROVE  j - 1 \in 1 .. Len(th[r]) - 1 /\ th[r][j].at \in Above(th[r][j - 1].at)
  <2>1. Len(th[r]) \in Nat
    BY DEF LifeInv, TypeInv
  <2>2. j - 1 \in 1 .. Len(th[r]) - 1 /\ (j - 1) + 1 = j
    BY <2>1
  <2>3. th[r][(j - 1) + 1].at \in Above(th[r][j - 1].at)
    BY <2>2 DEF LifeInv, ShapeInv
  <2> QED
    BY <2>2, <2>3
<1>6. i \in Nat /\ i > 0 /\ i <= Len(th[q]) /\ Len(th[q]) \in Nat
  BY DEF LifeInv, TypeInv
<1>7. th[q][i].at # "create"
  <2> SUFFICES ASSUME th[q][i].at = "create" PROVE FALSE
    OBVIOUS
  <2>1. q = p
    BY <1>2 DEF LifeInv, FramesInv, FrameInv
  <2>2. i + 1 \in 2 .. Len(th[p]) /\ (i + 1) - 1 = i
    BY <1>6, <2>1
  <2>3. th[p][i + 1].at \in Above("create")
    BY <1>5, <2>1, <2>2
  <2> QED
    BY <2>3, AboveWhen DEF RefTested, Tested
<1>8. th[q][i].at \notin {"tput", "tmin"}
  <2> SUFFICES ASSUME th[q][i].at \in {"tput", "tmin"} PROVE FALSE
    OBVIOUS
  <2>1. p = Loop
    BY <1>2 DEF LifeInv, FramesInv, FrameInv
  <2>2. i = 1
    <3> SUFFICES ASSUME i # 1 PROVE FALSE
      OBVIOUS
    <3>1. i \in 2 .. Len(th[q])
      BY <1>6
    <3>2. th[q][i].at \in Above(th[q][i - 1].at)
      BY <1>5, <3>1
    <3> QED
      BY <3>2, AboveWhen DEF RefP, PutP, AddP, DelP, CbP
  <2>3. q = Loop
    BY <2>2 DEF LifeInv, ShapeInv, Ground
  <2>4. n - 1 # 1
    <3>1. n - 1 = 1 => th[p][1].at \in {"idle", "cb"}
      BY <1>4
    <3> QED
      BY <2>1, <2>2, <2>3, <3>1
  <2>a. n \in Nat /\ n > 1
    BY <1>1, <1>3
  <2>5. n - 1 \in 2 .. n /\ (n - 1) - 1 = n - 2
    BY <2>4, <2>a
  <2>6. th[p][n - 1].at \in Above(th[p][n - 2].at)
    BY <1>1, <1>5, <2>5
  <2>7. th[p][n - 2].at \in {"tlock", "epauto", "wfinal"}
    BY <1>4, <2>6, AboveWhen DEF RefP, PutP, AddP, DelP, CbP
  <2>8. CASE n - 2 = 1
    <3>1. th[p][1].at \in {"tlock", "epauto", "wfinal"}
      BY <2>7, <2>8
    <3> QED
      BY <2>1, <2>2, <2>3, <3>1
  <2>9. CASE n - 2 # 1
    <3>1. n - 2 \in 2 .. n
      BY <2>4, <2>9, <2>a
    <3>2. th[p][n - 2].at \in Above(th[p][(n - 2) - 1].at)
      BY <1>1, <1>5, <3>1
    <3> QED
      BY <2>7, <3>2, AboveWhen DEF RefP, PutP, AddP, DelP, CbP
  <2> QED
    BY <2>8, <2>9
<1> QED
  BY <1>7, <1>8

\* The event is published.
LEMMA LifeCreateStore ==
  ASSUME LifeInv, NEW p \in Threads, CreateStore(p)
  PROVE  LifeInv'
<1>0. At(p, "create")
  BY DEF CreateStore
<1>1. /\ Top(p).at = "create" /\ FrameInv(p, Top(p)) /\ Top(p) \in FrameType /\ FrameShape(Top(p))
      /\ U(p) = Top(p).s /\ E(p) = Top(p).o
  BY <1>0, TopKnown DEF At
<1>2. PICK u, o : u = U(p) /\ o = E(p)
  OBVIOUS
<1>3. /\ u \in Slots /\ o \in Events /\ o # NULL /\ ev[u] = NULL /\ uev[o] = u /\ mem[o] = "live"
      /\ kind[o] \in Kinds /\ o \notin pending_free /\ base_mut = p /\ Owned(Top(p)) = 1
      /\ Top(p).at \notin Ground(p) /\ Top(p).at \notin RefP
  <2>1. /\ u \in Slots /\ o # NULL /\ ev[u] = NULL /\ uev[o] = u /\ mem[o] = "live"
        /\ kind[o] \in Kinds /\ o \notin pending_free /\ base_mut = p
    BY <1>1, <1>2 DEF FrameInv, FrameShape, Unslotted
  <2>2. o \in Events
    BY <1>1, <1>2, <2>1 DEF FrameType
  <2>3. Top(p).at \notin Ground(p) /\ Top(p).at \notin RefP
    BY <1>1, GroundPlaces DEF RefP
  <2> QED
    BY <1>1, <2>1, <2>2, <2>3, WorthFacts
<1>4. /\ ev' = [ev EXCEPT ![u] = o] /\ base_mut' = NULL /\ Return(p, FALSE)
      /\ UNCHANGED <<refcount, free_uev, mem, kind, uev, released, heap, epoll, num_active_fd, num_active_timers,
                     reported, queue, active_fd, active_timer, pending_free, modification_lock>>
  BY <1>2 DEF CreateStore, memory, base, lists, flags
<1>5. /\ ev'[u] = o /\ \A s \in Slots : s # u => ev'[s] = ev[s]
  BY <1>3, <1>4 DEF LifeInv, TypeInv
<1>6. \A s \in Slots : ev[s] # NULL => ev'[s] = ev[s]
  BY <1>3, <1>5
<1>7. o \notin active_timer /\ o \notin active_fd
  BY <1>3 DEF LifeInv, EventInv
<1>8. Steady
  BY <1>4, <1>6 DEF Steady
<1>9. FramesKept(p)
  <2> SUFFICES ASSUME NEW q \in Threads, NEW i \in DOMAIN th[q], q = p => i # Len(th[p]), NEW f, f = th[q][i]
               PROVE  FrameInv(q, f)'
    BY DEF FramesKept
  <2>1. FrameInv(q, f) /\ (f.at \notin Unslotted => f.s \in Slots)
    BY DEF LifeInv, FramesInv, ShapeInv
  <2>2. f.at \notin {"create", "tput", "tmin"}
    BY <1>0, CreatorOwns
  <2>3. f.at \notin Unslotted /\ ev[f.s] # NULL => ev'[f.s] = ev[f.s]
    BY <1>6, <2>1
  <2>4. f.at \in AddP \cup DelP \cup CbP \/ Named(f) \/ f.at \in {"destroy", "free", "freepend", "addref"}
          => f.at \notin Unslotted
    BY DEF AddP, DelP, CbP, Unslotted, Named, RefTested, Tested
  <2>5. UNCHANGED <<refcount, kind, released, active_fd, pending_free, modification_lock>>
    BY <1>4
  <2>6. /\ f.at \in AddP \cup DelP \cup CbP => f.o # NULL /\ ev'[f.s] = f.o
        /\ Named(f) => ev'[f.s] # NULL
        /\ f.at \in {"free", "freepend"} => ev[f.s] # NULL /\ ev'[f.s] = ev[f.s]
        /\ f.at = "addref" /\ Strict => ev[f.s] # NULL /\ ev'[f.s] = ev[f.s]
    BY <2>1, <2>3, <2>4 DEF FrameInv
  <2> HIDE DEF AddP, DelP, CbP
  <2> QED
    BY <2>1, <2>2, <2>5, <2>6, SMTT(30) DEF FrameInv, Named, Stops, Frees, Arms, Strict, Ops, Outside
<1>10. /\ Threaded(p)
       /\ \A s : /\ Cardinality(Held(th, s)) \in Nat
                 /\ Cardinality(Held(th', s)) = Cardinality(Held(th, s)) - Worth(Top(p), s)
                      + (IF FALSE /\ Top(p).at \in RefP /\ s = U(p) THEN 1 ELSE 0)
  BY <1>3, <1>4, <1>8, <1>9, PopFrame
<1>11. \A s : Cardinality(Held(th', s)) = Cardinality(Held(th, s)) - (IF s = u THEN 1 ELSE 0)
  <2>1. \A s : Worth(Top(p), s) = IF s = u THEN 1 ELSE 0
    BY <1>1, <1>2, <1>3 DEF Worth
  <2> QED
    BY <1>10, <2>1
<1>12. TypeInv'
  <2>1. ev' \in [Slots -> Events \cup {NULL}]
    BY <1>3, <1>4 DEF LifeInv, TypeInv
  <2> QED
    BY <1>4, <1>10, <2>1 DEF LifeInv, TypeInv, Threaded, Stacks
<1>13. EventInv'
  <2>1. \A x \in heap : x \in active_timer \/ (At(Loop, "delheap") /\ E(Loop) = x)'
    BY <1>1, <1>10, HeapKept DEF At
  <2>2. ~Pooled => p # Worker /\ At(Worker, "wtake")
    BY <1>1 DEF LifeInv, EventInv, At
  <2>3. ~Pooled => At(Worker, "wtake")'
    BY <1>10, <2>2 DEF Threaded, Threads, At
  <2>4. ASSUME NEW s \in Slots, ev'[s] # NULL
        PROVE  uev[ev'[s]] = s /\ mem[ev'[s]] = "live" /\ kind[ev'[s]] \in Kinds
    <3>1. CASE s = u
      BY <1>3, <1>5, <3>1
    <3>2. CASE s # u
      BY <1>5, <2>4, <3>2 DEF LifeInv, EventInv
    <3> QED
      BY <3>1, <3>2
  <2>5. \A x \in active_timer \cup active_fd : uev[x] \in Slots /\ ev'[uev[x]] = x
    <3>1. \A x \in active_timer \cup active_fd : uev[x] \in Slots /\ ev[uev[x]] = x /\ x # NULL
      BY LifeAssumption DEF LifeInv, TypeInv, EventInv
    <3> QED
      BY <1>6, <3>1
  <2>6. \A i \in DOMAIN queue : ev'[queue[i]] # NULL
    <3>1. \A i \in DOMAIN queue : ev[queue[i]] # NULL /\ queue[i] \in Slots
      BY DEF LifeInv, EventInv, TypeInv
    <3> QED
      BY <1>6, <3>1
  <2>7. /\ \A x \in pending_free : Frees(kind[x]) /\ x \in released
        /\ \A x \in released : mem[x] # "none"
        /\ \A x \in active_timer : "timeout" \in kind[x] /\ ~Stops(kind[x])
        /\ \A x \in active_fd : "fd" \in kind[x]
        /\ ~Pooled => queue = <<>>
    BY DEF LifeInv, EventInv
  <2> QED
    BY <1>4, <2>1, <2>3, <2>4, <2>5, <2>6, <2>7 DEF EventInv, Stops, Frees, Ops, Outside
<1>14. FreeSlots'
  <2>1. ASSUME NEW s \in Slots, s # u, NEW q \in Threads, At(q, "create"), U(q) = s
        PROVE  q # p /\ Top(q)' = Top(q)
    BY <1>2, <1>10, <2>1 DEF Threaded
  <2>2. \A s \in Slots : s # u /\ (\E q \in Threads : At(q, "create") /\ U(q) = s)
          => (\E q \in Threads : At(q, "create") /\ U(q) = s)'
    BY <2>1 DEF At, U
  <2>3. ASSUME NEW i \in DOMAIN free_uev
        PROVE  ev'[free_uev[i]] = NULL /\ refcount[free_uev[i]] = 0
    <3>1. free_uev[i] \in Slots /\ ev[free_uev[i]] = NULL /\ refcount[free_uev[i]] = 0
      BY DEF LifeInv, TypeInv, FreeSlots
    <3>2. refcount[u] >= 1
      BY <1>1, <1>2, <1>3, Positive, TopFacts DEF LifeInv
    <3>3. free_uev[i] # u
      BY <3>1, <3>2
    <3> QED
      BY <1>5, <3>1, <3>3
  <2>4. ASSUME NEW s \in Slots
        PROVE  \/ \E i \in DOMAIN free_uev : free_uev[i] = s
               \/ ev'[s] # NULL \/ (\E q \in Threads : At(q, "create") /\ U(q) = s)'
    <3>1. CASE s = u
      BY <1>3, <1>5, <3>1
    <3>2. CASE s # u
      <4>1. \/ \E i \in DOMAIN free_uev : free_uev[i] = s
            \/ ev[s] # NULL \/ \E q \in Threads : At(q, "create") /\ U(q) = s
        BY DEF LifeInv, FreeSlots
      <4> QED
        BY <1>5, <2>2, <3>2, <4>1
    <3> QED
      BY <3>1, <3>2
  <2> QED
    BY <1>4, <2>3, <2>4 DEF LifeInv, FreeSlots
<1>15. RefExact'
  <2> SUFFICES ASSUME NEW s \in Slots PROVE refcount'[s] = References(s)'
    BY DEF RefExact
  <2>1. refcount[s] = References(s)
    BY DEF LifeInv, RefExact
  <2>2. /\ References(s) = One(ev[s] # NULL /\ ev[s] \notin pending_free)
              + One(ev[s] \in active_timer) + One(ev[s] \in active_fd)
              + Cardinality(Queued(queue, s)) + Cardinality(Held(th, s))
        /\ Cardinality(Queued(queue, s)) \in Nat /\ Cardinality(Held(th, s)) \in Nat
    BY ReferenceTerms DEF LifeInv
  <2>3. References(s)' = One(ev'[s] # NULL /\ ev'[s] \notin pending_free)
              + One(ev'[s] \in active_timer) + One(ev'[s] \in active_fd)
              + Cardinality(Queued(queue, s)) + Cardinality(Held(th', s))
    BY <1>4 DEF References, Queued
  <2>4. /\ One(ev'[s] # NULL /\ ev'[s] \notin pending_free)
             = One(ev[s] # NULL /\ ev[s] \notin pending_free) + (IF s = u THEN 1 ELSE 0)
        /\ One(ev'[s] \in active_timer) = One(ev[s] \in active_timer)
        /\ One(ev'[s] \in active_fd) = One(ev[s] \in active_fd)
    <3>1. CASE s # u
      BY <1>5, <3>1 DEF One
    <3>2. CASE s = u
      <4>1. NULL \notin active_timer /\ NULL \notin active_fd
        BY LifeAssumption DEF LifeInv, TypeInv
      <4> QED
        BY <1>3, <1>5, <1>7, <3>2, <4>1 DEF One
    <3> QED
      BY <3>1, <3>2
  <2>5. /\ One(ev[s] # NULL /\ ev[s] \notin pending_free) \in {0, 1}
        /\ One(ev[s] \in active_timer) \in {0, 1} /\ One(ev[s] \in active_fd) \in {0, 1}
    BY DEF One
  <2>6. Cardinality(Held(th', s)) = Cardinality(Held(th, s)) - (IF s = u THEN 1 ELSE 0)
    BY <1>11
  <2> QED
    BY <1>4, <2>1, <2>2, <2>3, <2>4, <2>5, <2>6
<1>16. EpollInv'
  BY <1>4 DEF LifeInv, EpollInv
<1> QED
  BY <1>10, <1>12, <1>13, <1>14, <1>15, <1>16 DEF LifeInv, Threaded


-----------------------------------------------------------------------------
(* The invariant of the specification.                                     *)

\* SetToSeq lists every slot once.
LEMMA AllSlots ==
  LET c == SetToSeq(Slots) IN
  /\ c \in Seq(Slots)
  /\ \A i, j \in DOMAIN c : c[i] = c[j] => i = j
  /\ \A s \in Slots : \E i \in DOMAIN c : c[i] = s
<1> DEFINE n == Cardinality(Slots)
           c == SetToSeq(Slots)
<1>1. n \in Nat /\ ExistsBijection(1 .. n, Slots)
  BY LifeAssumption, FS_CardinalityType
<1> HIDE DEF n
<1>2. \E f \in [1 .. n -> Slots] : IsInjective(f)
  BY <1>1 DEF ExistsBijection, Bijection, Injection
<1>3. c = CHOOSE f \in [1 .. n -> Slots] : IsInjective(f)
  BY DEF SetToSeq, n
<1> HIDE DEF c
<1>4. c \in [1 .. n -> Slots] /\ IsInjective(c)
  BY <1>2, <1>3
<1>5. c \in Injection(1 .. n, Slots) /\ IsFiniteSet(Slots)
  BY <1>4, LifeAssumption DEF Injection
<1>6. Cardinality(1 .. n) = Cardinality(Slots)
  BY <1>1, FS_Interval DEF n
<1>7. c \in Surjection(1 .. n, Slots)
  BY <1>5, <1>6, FS_Injection
<1>8. c \in Seq(Slots)
  BY <1>1, <1>4
<1> QED
  BY <1>4, <1>7, <1>8 DEF c, IsInjective, Surjection

\* The initial states satisfy the invariant: every slot is free, every thread rests.
LEMMA LifeInit ==
  ASSUME Init
  PROVE  LifeInv
<1>1. \A p \in Threads : \E f \in FrameType :
        th[p] = <<f>> /\ f.at = Start(p) /\ f.s = NULL /\ f.o = NULL /\ ~f.ret
  <2> SUFFICES ASSUME NEW p \in Threads
               PROVE  \E f \in FrameType : th[p] = <<f>> /\ f.at = Start(p)
                        /\ f.s = NULL /\ f.o = NULL /\ ~f.ret
    OBVIOUS
  <2>1. PICK f : f = NoFrame(Start(p))
    OBVIOUS
  <2>2. f.at = Start(p) /\ f.s = NULL /\ f.o = NULL /\ ~f.ret
    BY <2>1 DEF NoFrame, Frame
  <2>3. f \in FrameType
    BY <2>1, FrameTyped DEF NoFrame, Places, Start
  <2>4. th[p] = <<f>>
    BY <2>1 DEF Init
  <2> QED
    BY <2>2, <2>3, <2>4
<1>2. /\ th \in [Threads -> Seq(FrameType)]
      /\ \A p \in Threads :
           /\ Len(th[p]) = 1 /\ DOMAIN th[p] = {1} /\ Top(p) = th[p][1]
           /\ th[p][1].at = Start(p) /\ ~th[p][1].ret /\ th[p][1] \in FrameType
  <2>1. \A p \in Threads :
           /\ th[p] \in Seq(FrameType) /\ Len(th[p]) = 1 /\ DOMAIN th[p] = {1} /\ Last(th[p]) = th[p][1]
           /\ th[p][1].at = Start(p) /\ ~th[p][1].ret /\ th[p][1] \in FrameType
    <3> SUFFICES ASSUME NEW p \in Threads
                 PROVE  /\ th[p] \in Seq(FrameType) /\ Len(th[p]) = 1 /\ DOMAIN th[p] = {1} /\ Last(th[p]) = th[p][1]
                        /\ th[p][1].at = Start(p) /\ ~th[p][1].ret
                        /\ th[p][1] \in FrameType
      OBVIOUS
    <3>1. PICK f \in FrameType : th[p] = <<f>> /\ f.at = Start(p) /\ ~f.ret
      BY <1>1
    <3>2. <<f>> \in Seq(FrameType) /\ Len(<<f>>) = 1 /\ DOMAIN <<f>> = {1} /\ <<f>>[1] = f
      OBVIOUS
    <3> QED
      BY <3>1, <3>2 DEF Last
  <2>2. \E S : th \in [Threads -> S]
    <3>1. th = [p \in Threads |-> <<NoFrame(Start(p))>>]
      BY DEF Init
    <3>2. th \in [Threads -> {<<NoFrame(Start(p))>> : p \in Threads}]
      BY <3>1
    <3> QED
      BY <3>2
  <2> QED
    BY <2>1, <2>2 DEF Top
<1>3. /\ free_uev \in Seq(Slots)
      /\ (\A i, j \in DOMAIN free_uev : free_uev[i] = free_uev[j] => i = j)
      /\ \A s \in Slots : \E i \in DOMAIN free_uev : free_uev[i] = s
  BY AllSlots DEF Init
<1>4. /\ ev = [s \in Slots |-> NULL] /\ refcount = [s \in Slots |-> 0] /\ queue = <<>>
      /\ released = {} /\ active_fd = {} /\ active_timer = {} /\ pending_free = {} /\ modification_lock = {}
      /\ heap = {} /\ epoll = {} /\ reported = {}
  BY DEF Init
<1>5. TypeInv
  BY <1>2, <1>3 DEF Init, TypeInv
<1>6. ShapeInv
  BY <1>2 DEF ShapeInv, Ground, Unslotted, Start
<1>7. FramesInv
  BY <1>2 DEF FramesInv, FrameInv, Named, AddP, DelP, CbP, RefTested, Tested, Start
<1>8. DelRefInv /\ UniqueInv
  BY <1>2 DEF DelRefInv, UniqueInv, Clash, AddP, Start
<1>9. EventInv
  BY <1>2, <1>4 DEF EventInv, At, Threads, Loop, Worker, Start
<1>10. FreeSlots
  BY <1>3, <1>4 DEF FreeSlots
<1>11. RefExact
  <2> SUFFICES ASSUME NEW s \in Slots PROVE refcount[s] = References(s)
    BY DEF RefExact
  <2>1. Held(th, s) = {}
    <3>1. \A x \in Held(th, s) : /\ x = <<x[1], <<x[2][1], x[2][2]>>>>
                                 /\ x[1] \in Threads /\ x[2][1] \in DOMAIN th[x[1]] /\ x[2][2] \in {1, 2}
      BY <1>2, HeldMember DEF Stacks
    <3>2. \A q, i, k : <<q, <<i, k>>>> \in Held(th, s) =>
            q \in Threads /\ i \in DOMAIN th[q] /\ k \in {1, 2} /\ k <= Owned(th[q][i])
      BY <1>2, HeldMember DEF Stacks
    <3>3. \A q \in Threads : \A i \in DOMAIN th[q] : Owned(th[q][i]) = 0
      BY <1>2, WorthFacts DEF Start
    <3>4. \A k \in {1, 2} : ~(k <= 0)
      OBVIOUS
    <3>5. ASSUME NEW x \in Held(th, s) PROVE FALSE
      <4>1. PICK q, i, k : x = <<q, <<i, k>>>>
        BY <3>1
      <4> QED
        BY <3>2, <3>3, <3>4, <4>1
    <3> QED
      BY <3>5
  <2>2. Queued(queue, s) = {}
    BY <1>4 DEF Queued
  <2>3. Cardinality({}) = 0
    BY FS_EmptySet
  <2>4. References(s) = One(ev[s] # NULL /\ ev[s] \notin pending_free)
              + One(ev[s] \in active_timer) + One(ev[s] \in active_fd)
              + Cardinality(Queued(queue, s)) + Cardinality(Held(th, s))
    BY <1>5, ReferenceTerms
  <2>5. ev[s] = NULL /\ refcount[s] = 0
    BY <1>4
  <2> QED
    BY <1>4, <2>1, <2>2, <2>3, <2>4, <2>5 DEF One
<1>12. EpollInv
  BY <1>4 DEF EpollInv
<1> QED
  BY <1>5, <1>6, <1>7, <1>8, <1>9, <1>10, <1>11, <1>12 DEF LifeInv

\* A step that changes nothing.
LEMMA LifeStutter ==
  ASSUME LifeInv, UNCHANGED vars
  PROVE  LifeInv'
<1>1. UNCHANGED <<ev, refcount, free_uev, mem, kind, uev, released, heap, epoll, num_active_fd, num_active_timers,
                  base_mut, reported, queue, active_fd, active_timer, pending_free, modification_lock, th>>
  BY DEF vars, slots, memory, base, lists, flags
<1>2. TypeInv'
  BY <1>1 DEF LifeInv, TypeInv
<1>3. ShapeInv' /\ UniqueInv'
  BY <1>1 DEF LifeInv, ShapeInv, UniqueInv
<1>4. FramesInv'
  BY <1>1, FramesSame DEF LifeInv, FramesInv, frameVars
<1>5. DelRefInv'
  BY <1>1 DEF LifeInv, DelRefInv, Stops, Frees, Ops, Outside
<1>6. EventInv'
  BY <1>1 DEF LifeInv, EventInv, At, E, Top, Stops, Frees, Ops, Outside
<1>7. EpollInv'
  BY <1>1 DEF LifeInv, EpollInv
<1>8. FreeSlots'
  BY <1>1 DEF LifeInv, FreeSlots, At, U, Top
<1>9. RefExact'
  BY <1>1 DEF LifeInv, RefExact, References
<1> QED
  BY <1>2, <1>3, <1>4, <1>5, <1>6, <1>7, <1>8, <1>9 DEF LifeInv

\* Every step preserves the invariant, action by action.
LEMMA LifeNext ==
  ASSUME TimersLeftToLoop, LifeInv, [Next]_vars
  PROVE  LifeInv'
<1>1. CASE UNCHANGED vars
  BY <1>1, LifeStutter
<1>2. ASSUME NEW p \in Threads, NewCall(p)
      PROVE  LifeInv'
  <2>1. CASE \E k \in Kinds, o \in Events : CreateBegin(p, k, o)
    BY <2>1, LifeCreateBegin
  <2>2. CASE Begin(p, "add", "addref")
    BY <2>2, LifeBegin
  <2>3. CASE Begin(p, "del", "delref")
    BY <2>3, LifeBegin
  <2>4. CASE Begin(p, "peek", "peekref")
    BY <2>4, LifeBegin
  <2>5. CASE FreeBegin(p)
    BY <2>5, LifeFreeBegin
  <2> QED
    BY <1>2, <2>1, <2>2, <2>3, <2>4, <2>5 DEF NewCall
<1>3. ASSUME NEW p \in Threads, Reference(p)
      PROVE  LifeInv'
  BY <1>3, LifeTryInc, LifeTryCheck, LifeTryUndo, LifePutTest, LifePutDec, LifeDestroy DEF Reference
<1>4. ASSUME NEW p \in Threads, InCall(p)
      PROVE  LifeInv'
  <2>1. CASE CreateStore(p) \/ Peek(p) \/ AddLock(p) \/ AddCheck(p) \/ AddFdRead(p) \/ AddFdCtl(p)
    BY <2>1, LifeCreateStore, LifePeek, LifeAddLock, LifeAddCheck, LifeAddFdRead, LifeAddFdCtl
  <2>2. CASE AddFdMark(p) \/ AddFdRef(p) \/ AddTimer(p) \/ AddEnd(p)
    BY <2>2, LifeAddFdMark, LifeAddFdRef, LifeAddTimer, LifeAddEnd
  <2>3. CASE Del(p) \/ DelFdFlag(p) \/ DelFdCtl(p) \/ DelTimerFlag(p) \/ DelTimerHeap(p)
    BY <2>3, LifeDel, LifeDelFdFlag, LifeDelFdCtl, LifeDelTimerFlag, LifeDelTimerHeap
  <2>4. CASE Free(p) \/ FreePend(p)
    BY <2>4, LifeFree, LifeFreePend
  <2> QED
    BY <1>4, <2>1, <2>2, <2>3, <2>4 DEF InCall
<1>5. ASSUME LoopStep PROVE LifeInv'
  <2>1. CASE EpollWait \/ TimersLock \/ (\E o \in Events : TimerTake(o)) \/ TimersEnd
    BY <2>1, LifeEpollWait, LifeTimersLock, LifeTimerTake, LifeTimersEnd
  <2>2. CASE TimerRearm \/ TimerCallback \/ EpollNext
    BY <2>2, LifeTimerRearm, LifeTimerCallback, LifeEpollNext
  <2>3. CASE EpollEnd \/ EpollTest \/ EpollAutoDel \/ Dispatch(Loop)
    BY <2>3, LifeEpollEnd, LifeEpollTest, LifeEpollAutoDel, LifeDispatch
  <2> QED
    BY <1>5, <2>1, <2>2, <2>3 DEF LoopStep
<1>6. ASSUME WorkerStep PROVE LifeInv'
  BY <1>6, LifeWorkerTake, LifeWorkerRef, LifeWorkerFinal DEF WorkerStep
<1>7. ASSUME NEW p \in Threads, CbLock(p) \/ CbEnd(p) PROVE LifeInv'
  BY <1>7, LifeCbLock, LifeCbEnd
<1> QED
  BY <1>1, <1>2, <1>3, <1>4, <1>5, <1>6, <1>7 DEF Next, Progress

\* The invariant holds in every state of every behaviour: the calls of the
\* API, the loop and the worker in any interleaving keep the slots, the flags,
\* the stacks of the threads and the counts in step, provided that the threads
\* other than the loop leave the events alone whose timer may be armed.
THEOREM LifeInvariant ==
  ASSUME TimersLeftToLoop
  PROVE  Spec => []LifeInv
<1>1. Init => LifeInv
  BY LifeInit
<1>2. LifeInv /\ [Next]_vars => LifeInv'
  BY LifeNext
<1> QED
  BY <1>1, <1>2, PTL DEF Spec

\* The count of a slot is the number of references that exist: uevent_ref,
\* uevent_try_ref and uevent_put are matched on every path of every call.
THEOREM RefsCorrect ==
  ASSUME TimersLeftToLoop
  PROVE  Spec => []RefExact
<1>1. LifeInv => RefExact
  BY DEF LifeInv
<1> QED
  BY <1>1, LifeInvariant, PTL

\* The stack of free slots has every slot at most once and none in use, and
\* an event has one slot: uev_get_unused and uev_return neither lose nor share
\* a slot.
THEOREM SlotsCorrect ==
  ASSUME TimersLeftToLoop
  PROVE  Spec => []SlotsExact
<1>1. ASSUME LifeInv PROVE SlotsExact
  <2>1. IsInjective(free_uev)
    BY <1>1 DEF LifeInv, FreeSlots, IsInjective
  <2>2. \A s : s \in Range(free_uev) <=> \E i \in DOMAIN free_uev : free_uev[i] = s
    BY DEF Range
  <2>3. ASSUME NEW s \in Slots
        PROVE  /\ s \in Range(free_uev) => ev[s] = NULL /\ refcount[s] = 0
               /\ s \in Range(free_uev) \/ ev[s] # NULL
                    \/ \E p \in Threads : At(p, "create") /\ U(p) = s
    BY <1>1, <2>2 DEF LifeInv, FreeSlots
  <2>4. \A s, t \in Slots : ev[s] # NULL /\ ev[s] = ev[t] => s = t
    BY <1>1, OneSlot
  <2> QED
    BY <2>1, <2>3, <2>4 DEF SlotsExact
<1> QED
  BY <1>1, LifeInvariant, PTL

\* Under the discipline, that is if threads other than the loop neither uevent_del nor
\* uevent_free a timer that is ever armed, the assertion of uevent_refcount_dec_and_test
\* does not fail: uevent_put only decrements a count that still has the reference it drops.
\* uevent.h allows these calls from any thread, and with them the assertion does fail
\* (run life_del_race): the discipline is a condition on callers that the code needs and
\* does not state.
THEOREM AssertionUnderDiscipline ==
  ASSUME TimersLeftToLoop
  PROVE  Spec => []RefcountAssertion
<1>1. ASSUME LifeInv PROVE RefcountAssertion
  <2> SUFFICES ASSUME NEW p \in Threads, At(p, "dec") PROVE refcount[U(p)] > 0
    BY DEF RefcountAssertion
  <2>1. /\ Top(p).at = "dec" /\ U(p) \in Slots /\ U(p) = Top(p).s
    BY <1>1, CallTop DEF PutP
  <2>2. Owned(Top(p)) = 1
    BY <2>1, WorthFacts
  <2>3. Len(th[p]) \in DOMAIN th[p] /\ Top(p) = th[p][Len(th[p])]
    BY <1>1, TopFacts DEF LifeInv
  <2>4. refcount[U(p)] >= 1 /\ refcount[U(p)] \in Nat
    BY <1>1, <2>1, <2>2, <2>3, Positive DEF LifeInv
  <2> QED
    BY <2>4
<1> QED
  BY <1>1, LifeInvariant, PTL

=============================================================================
