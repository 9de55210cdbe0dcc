-------------------------- MODULE EventUseProofs ---------------------------
(***************************************************************************)
(* Proofs about EventLife, continued: no freed event is used. They rest on *)
(* LifeInv, which EventLifeProofs shows to hold in every state: whoever    *)
(* owns a reference has a live event. UseInv is about the others: callers  *)
(* before uevent_try_ref has succeeded, the loop between the report of a   *)
(* descriptor and its callback, and the loop after it has dropped the      *)
(* reference of a timer that fires. For each it says why the event cannot  *)
(* have been given to uevent_free, or why nobody can complete that call.   *)
(***************************************************************************)
EXTENDS EventLifeProofs

\* Calls on one event do not overlap, or events that are armed are not freed.
ArmedKept == Exclusive \/ \A k \in Kinds : Arms(k) => ~Frees(k)

\* The creator's reference to the event of slot s is there.
Alive(s) == ev[s] # NULL /\ ev[s] \notin pending_free

\* uevent_add, from its call on.
AddC == AddP \cup {"addref"}

\* What keeps the event of a frame alive if it is not a reference of the frame:
\* an event that is being armed has not been given to uevent_free; the loop has
\* the event of a descriptor, which is never freed, or of a timer that only the
\* loop itself could free.
UseFrame(f) ==
  /\ f.at \in AddC => Alive(f.s) /\ ev[f.s] \notin released /\ Arms(kind[ev[f.s]])
  /\ f.at \in {"eptest", "epauto"} => f.o # NULL /\ ev[f.s] = f.o /\ "fd" \in kind[f.o]
  /\ f.at \in {"tput", "tcb"} =>
       f.o # NULL /\ ev[f.s] = f.o /\ f.o \notin pending_free /\ ~Stops(kind[f.o])

\* Every frame of every thread.
UseFrames == \A p \in Threads : \A i \in DOMAIN th[p] : UseFrame(th[p][i])

\* Callers g for whom uevent_try_ref succeeds, and why: nobody else may free the
\* event of the call f, or nobody frees it at all.
Sure(g) == Exclusive \/ g.at = "freepend"
Known(g, f) ==
  Sure(g) =>
    /\ Alive(f.s)
    /\ g.at \in {"idle", "cb"} => ev[f.s] \notin released
    /\ g.at \in {"epoll", "epauto"} => "fd" \in kind[ev[f.s]]
    /\ g.at = "tlock" => ~Stops(kind[ev[f.s]])

\* A stack that is inside uevent_try_ref or has its result. The worker is left
\* out: it holds the reference of the task, and try_ref may fail.
CallOK(c) ==
  LET n == Len(c) IN
  /\ n > 1 /\ c[n].at \in RefTested \ {"wref"} => Known(c[n - 1], c[n]) /\ (Sure(c[n - 1]) => c[n].ret)
  /\ n > 2 /\ c[n].at \in RefP /\ c[n - 1].at # "wref" =>
       Known(c[n - 2], c[n - 1]) /\ (Sure(c[n - 2]) => c[n].at # "refundo")

\* Every stack.
CallInv == \A p \in Threads : CallOK(th[p])

\* uevent_free and uevent_del pass on their slot.
SlotInv ==
  \A p \in Threads : \A i \in 1 .. Len(th[p]) - 1 :
    th[p][i].at \in {"freepend", "deltm"} => th[p][i + 1].s = th[p][i].s

\* uevent_del before it has cleared active_timer.
Disarming == {"delref", "delfd", "delctl", "deltm"}

\* While the loop fires a timer it is in no other call; and when its uevent_free
\* has called uevent_del the timer is no longer armed.
LoopInv ==
  /\ th[Loop][1].at = "tput" => Len(th[Loop]) <= 2
  /\ \A i \in DOMAIN th[Loop] : th[Loop][i].at = "freepend" /\ th[Loop][i].o \in active_timer =>
       i < Len(th[Loop]) /\ th[Loop][i + 1].at \in Disarming

\* Descriptors that are registered or reported have their event.
EpollUse ==
  /\ \A o \in epoll : ev[uev[o]] = o /\ "fd" \in kind[o]
  /\ \A s \in reported : ev[s] # NULL /\ "fd" \in kind[ev[s]]

\* No event that was freed is armed.
TimerUse == \A o \in active_timer : o \notin pending_free

\* The inductive invariant, on top of LifeInv.
UseInv == UseFrames /\ CallInv /\ SlotInv /\ LoopInv /\ EpollUse /\ TimerUse

-----------------------------------------------------------------------------
(* What a step leaves of the frames that are there.                        *)

\* The old frames and stacks are still right after the step.
UseKept ==
  /\ \A q \in Threads : \A i \in DOMAIN th[q] : \A f : f = th[q][i] => UseFrame(f)'
  /\ \A q \in Threads : \A c : c = th[q] => CallOK(c)'
  /\ \A o \in epoll : ev'[uev'[o]] = o /\ "fd" \in kind'[o]
  /\ \A s \in reported : ev'[s] # NULL /\ "fd" \in kind'[ev'[s]]

\* The step takes no event away that its creator still has.
Conserved ==
  /\ \A s \in Slots : Alive(s) => ev'[s] = ev[s]
  /\ \A s \in Slots : ev[s] # NULL => kind'[ev[s]] = kind[ev[s]]
  /\ \A o \in epoll : uev'[o] = uev[o]
  /\ released' = released /\ pending_free' = pending_free

\* Events with a descriptor are not freed.
LEMMA FdAlive ==
  ASSUME TimersLeftToLoop, LifeInv, NEW s \in Slots, ev[s] # NULL, "fd" \in kind[ev[s]]
  PROVE  Alive(s)
  BY DEF TimersLeftToLoop, LifeInv, EventInv, Alive

\* An event that is destroyed was given to uevent_free.
LEMMA DestroyedPending ==
  ASSUME LifeInv, NEW p \in Threads, At(p, "destroy")
  PROVE  U(p) \in Slots /\ ~Alive(U(p))
<1>1. U(p) \in Slots /\ FrameInv(p, Top(p)) /\ Top(p).at = "destroy" /\ U(p) = Top(p).s
  BY CallTop DEF PutP
<1>2. refcount[U(p)] = 0
  BY <1>1 DEF FrameInv
<1> QED
  BY <1>1, <1>2, Positive DEF LifeInv, Alive

\* A step that takes nothing away leaves what the frames know.
LEMMA ConservedUse ==
  ASSUME TimersLeftToLoop, LifeInv, UseInv, Conserved
  PROVE  UseKept
<1>1. ASSUME NEW s \in Slots, Alive(s)
      PROVE  Alive(s)' /\ ev'[s] = ev[s] /\ kind'[ev'[s]] = kind[ev[s]] /\ (ev[s] \in released' <=> ev[s] \in released)
  BY <1>1 DEF Conserved, Alive
<1>2. ASSUME NEW q \in Threads, NEW i \in DOMAIN th[q], NEW f, f = th[q][i]
      PROVE  UseFrame(f)'
  <2>1. UseFrame(f) /\ f \in FrameType /\ FrameShape(f)
    BY <1>2 DEF UseInv, UseFrames, LifeInv, TypeInv, ShapeInv, FrameShape
  <2>2. f.at \in AddC \cup {"eptest", "epauto", "tput", "tcb"} => f.s \in Slots
    BY <2>1 DEF FrameShape, Unslotted, AddC, AddP
  <2>3. f.at \in AddC => (Alive(f.s) /\ ev[f.s] \notin released /\ Arms(kind[ev[f.s]]))'
    BY <1>1, <2>1, <2>2 DEF UseFrame, Arms, Ops
  <2>4. f.at \in {"eptest", "epauto"} => (f.o # NULL /\ ev[f.s] = f.o /\ "fd" \in kind[f.o])'
    BY <1>1, <2>1, <2>2, FdAlive DEF UseFrame
  <2>5. f.at \in {"tput", "tcb"} => (f.o # NULL /\ ev[f.s] = f.o /\ f.o \notin pending_free /\ ~Stops(kind[f.o]))'
    BY <1>1, <2>1, <2>2 DEF UseFrame, Alive, Stops, Outside
  <2> QED
    BY <2>3, <2>4, <2>5 DEF UseFrame
<1>3. ASSUME NEW g, NEW f, f.s \in Slots, Known(g, f)
      PROVE  Known(g, f)'
  BY <1>1, <1>3 DEF Known, Sure, Stops, Outside
<1>4. ASSUME NEW q \in Threads, NEW c, c = th[q]
      PROVE  CallOK(c)'
  <2>1. CallOK(c) /\ c \in Seq(FrameType) /\ \A i \in DOMAIN c : c[i].at \notin Unslotted => c[i].s \in Slots
    BY <1>4 DEF UseInv, CallInv, LifeInv, TypeInv, ShapeInv
  <2>2. RefTested \cap Unslotted = {} /\ RefP \cap Unslotted = {}
    BY DEF RefTested, Tested, RefP, Unslotted
  <2>3. Len(c) \in Nat /\ DOMAIN c = 1 .. Len(c)
    BY <2>1
  <2>4. Len(c) > 1 /\ c[Len(c)].at \in RefTested => c[Len(c)].s \in Slots
    BY <2>1, <2>2, <2>3
  <2>5. Len(c) > 2 /\ c[Len(c) - 1].at \in RefTested => c[Len(c) - 1].s \in Slots
    BY <2>1, <2>2, <2>3
  <2>6. Len(c) > 2 /\ c[Len(c)].at \in RefP => c[Len(c) - 1].at \in RefTested
    <3> SUFFICES ASSUME Len(c) > 2, c[Len(c)].at \in RefP PROVE c[Len(c) - 1].at \in RefTested
      OBVIOUS
    <3> DEFINE i == Len(c) - 1
    <3>1. i \in 1 .. Len(c) - 1 /\ i + 1 = Len(c)
      BY <2>3
    <3>2. c[i + 1].at \in Above(c[i].at)
      BY <1>4, <3>1 DEF LifeInv, ShapeInv
    <3> QED
      BY <3>1, <3>2, AboveNone
  <2> QED
    BY <1>3, <2>1, <2>4, <2>5, <2>6 DEF CallOK, Sure
<1>5. ASSUME NEW o \in epoll
      PROVE  ev'[uev'[o]] = o /\ "fd" \in kind'[o]
  <2>1. uev[o] \in Slots /\ ev[uev[o]] = o /\ "fd" \in kind[o] /\ o \in Events
    BY DEF UseInv, EpollUse, LifeInv, EpollInv, TypeInv
  <2>2. o # NULL
    BY <2>1, LifeAssumption
  <2> QED
    BY <1>1, <2>1, <2>2, FdAlive DEF Conserved
<1>6. ASSUME NEW s \in reported
      PROVE  ev'[s] # NULL /\ "fd" \in kind'[ev'[s]]
  <2>1. s \in Slots /\ ev[s] # NULL /\ "fd" \in kind[ev[s]]
    BY DEF UseInv, EpollUse, LifeInv, EpollInv
  <2> QED
    BY <1>1, <2>1, FdAlive
<1> QED
  BY <1>2, <1>4, <1>5, <1>6 DEF UseKept

-----------------------------------------------------------------------------
(* The moves of a thread.                                                  *)

\* The parts of UseInv about the stacks.
StackUse == UseFrames /\ CallInv /\ SlotInv /\ LoopInv

\* No timer is armed that the loop is freeing.
ArmsKept ==
  \A i \in DOMAIN th[Loop] :
    th[Loop][i].at = "freepend" /\ th[Loop][i].o \in active_timer' => th[Loop][i].o \in active_timer

\* It is enough to look at the stack of the thread that moves.
LEMMA UseMoves ==
  ASSUME LifeInv, UseInv, UseKept, ArmsKept, NEW p \in Threads, NEW m, NEW n, Moves(p, m, n),
         \A i \in m .. n : \A f : f = th'[p][i] => UseFrame(f)',
         \A c : c = th'[p] => CallOK(c)',
         \A i \in (m - 1) .. (n - 1) : i > 0 /\ th'[p][i].at \in {"freepend", "deltm"} =>
            th'[p][i + 1].s = th'[p][i].s,
         p = Loop => /\ th'[p][1].at = "tput" => n <= 2
                     /\ \A i \in (m - 1) .. n :
                          i > 0 /\ th'[p][i].at = "freepend" /\ th'[p][i].o \in active_timer' =>
                            i < n /\ th'[p][i + 1].at \in Disarming
  PROVE  StackUse'
<1>1. m \in Nat /\ n \in Nat /\ m > 0 /\ m <= n /\ Len(th'[p]) = n /\ th' \in [Threads -> Seq(FrameType)]
      /\ (\A q \in Threads \ {p} : th'[q] = th[q]) /\ (\A i \in 1 .. m - 1 : th'[p][i] = th[p][i])
      /\ m <= Len(th[p]) /\ th \in [Threads -> Seq(FrameType)]
  BY DEF Moves, LifeInv, TypeInv
<1>2. UseFrames'
  <2> SUFFICES ASSUME NEW q \in Threads, NEW i \in DOMAIN th'[q]
               PROVE  \A f : f = th'[q][i] => UseFrame(f)'
    BY DEF UseFrames
  <2>1. CASE q = p /\ i \in m .. n
    BY <2>1
  <2>2. CASE i \in DOMAIN th[q] /\ th'[q][i] = th[q][i]
    BY <2>2 DEF UseKept
  <2> QED
    BY <2>1, <2>2, MovedFrames DEF LifeInv
<1>3. CallInv'
  <2> SUFFICES ASSUME NEW q \in Threads PROVE \A c : c = th'[q] => CallOK(c)'
    BY DEF CallInv
  <2>1. CASE q = p
    BY <2>1
  <2>2. CASE q # p
    BY <1>1, <2>2 DEF UseKept
  <2> QED
    BY <2>1, <2>2
<1>4. SlotInv'
  <2> SUFFICES ASSUME NEW q \in Threads, NEW i \in 1 .. Len(th'[q]) - 1, th'[q][i].at \in {"freepend", "deltm"}
               PROVE  th'[q][i + 1].s = th'[q][i].s
    BY DEF SlotInv
  <2>1. CASE q # p
    BY <1>1, <2>1 DEF UseInv, SlotInv
  <2>2. CASE q = p /\ i < m - 1
    <3>1. i \in 1 .. Len(th[p]) - 1 /\ i \in 1 .. m - 1 /\ i + 1 \in 1 .. m - 1
      BY <1>1, <2>2
    <3> QED
      BY <1>1, <2>2, <3>1 DEF UseInv, SlotInv
  <2>3. CASE q = p /\ i >= m - 1
    BY <1>1, <2>3
  <2> QED
    BY <1>1, <2>1, <2>2, <2>3
<1>5. LoopInv'
  <2>0. Loop \in Threads
    BY DEF Threads
  <2>1. CASE p # Loop
    <3>1. th'[Loop] = th[Loop]
      BY <1>1, <2>0, <2>1
    <3> QED
      BY <3>1 DEF UseInv, LoopInv, ArmsKept
  <2>2. CASE p = Loop
    <3>1. ASSUME NEW i \in DOMAIN th'[Loop], th'[Loop][i].at = "freepend", th'[Loop][i].o \in active_timer'
          PROVE  i < Len(th'[Loop]) /\ th'[Loop][i + 1].at \in Disarming
      <4>1. i \in 1 .. n
        BY <1>1, <2>2
      <4>2. CASE i < m - 1
        <5>1. i \in DOMAIN th[Loop] /\ i \in 1 .. m - 1 /\ i + 1 \in 1 .. m - 1 /\ i < n
          BY <1>1, <2>2, <4>1, <4>2
        <5>2. th[Loop][i].at = "freepend" /\ th[Loop][i].o \in active_timer
          BY <1>1, <2>2, <3>1, <5>1 DEF ArmsKept
        <5> QED
          BY <1>1, <2>2, <5>1, <5>2 DEF UseInv, LoopInv
      <4>3. CASE i >= m - 1
        <5>1. i \in (m - 1) .. n /\ i > 0
          BY <1>1, <4>1, <4>3
        <5> QED
          BY <1>1, <2>2, <3>1, <5>1
      <4> QED
        BY <1>1, <4>1, <4>2, <4>3
    <3>2. th'[Loop][1].at = "tput" => Len(th'[Loop]) <= 2
      BY <1>1, <2>2
    <3> QED
      BY <3>1, <3>2 DEF LoopInv
  <2> QED
    BY <2>1, <2>2
<1> QED
  BY <1>2, <1>3, <1>4, <1>5 DEF StackUse

\* Below uevent_del and uevent_put there may be uevent_free or uevent_del.
LEMMA BelowTop ==
  ASSUME LifeInv, NEW p \in Threads, Len(th[p]) > 1
  PROVE  LET n == Len(th[p]) IN
         /\ n \in Nat /\ n - 1 \in DOMAIN th[p] /\ Top(p) = th[p][n] /\ n \in DOMAIN th[p]
         /\ Top(p).at \in Above(th[p][n - 1].at) /\ (n - 1) + 1 = n
         /\ th[p][n - 1].at \in {"freepend", "deltm"} => Top(p).at \in DelP \cup PutP \cup {"delref"}
<1> DEFINE n == Len(th[p])
           i == n - 1
<1>1. n \in Nat /\ n > 1 /\ Top(p) = th[p][n] /\ DOMAIN th[p] = 1 .. n
  BY TopFacts DEF LifeInv
<1>2. i \in 1 .. n - 1 /\ i + 1 = n
  BY <1>1
<1>3. th[p][i + 1].at \in Above(th[p][i].at)
  BY <1>2 DEF LifeInv, ShapeInv
<1>4. th[p][i].at \in {"freepend", "deltm"} => th[p][i + 1].at \in DelP \cup PutP \cup {"delref"}
  BY <1>3, AboveWhen DEF RefTested, Tested
<1> QED
  BY <1>1, <1>2, <1>3, <1>4

\* The event of uevent_free is the one its uevent_del has.
LEMMA SameEvent ==
  ASSUME LifeInv, UseInv, NEW p \in Threads, Len(th[p]) > 1, th[p][Len(th[p]) - 1].at = "freepend",
         Top(p).at \in DelP
  PROVE  th[p][Len(th[p]) - 1].o = E(p)
<1> DEFINE n == Len(th[p])
           i == n - 1
<1>1. n \in Nat /\ i \in DOMAIN th[p] /\ Top(p) = th[p][n] /\ i + 1 = n /\ i \in 1 .. n - 1
  BY BelowTop
<1>2. th[p][i].s = Top(p).s
  BY <1>1 DEF UseInv, SlotInv
<1>3. FrameInv(p, th[p][i]) /\ FrameInv(p, Top(p)) /\ E(p) = Top(p).o
  BY <1>1, TopKnown DEF LifeInv, FramesInv
<1> QED
  BY <1>1, <1>2, <1>3 DEF FrameInv

\* A thread replaces its top frame by one that is right.
LEMMA UseOne ==
  ASSUME LifeInv, UseInv, UseKept, ArmsKept, NEW p \in Threads, NEW g \in FrameType, Replace(p, <<g>>),
         UseFrame(g)',
         g.at \in RefTested \cup RefP => \A c : c = th'[p] => CallOK(c)',
         Top(p).at \in DelP \cup PutP \cup {"delref"} => g.s = U(p),
         p = Loop => g.at \notin {"tput", "freepend"},
         p = Loop /\ Top(p).at \in Disarming =>
           g.at \in Disarming \/ (Top(p).at \in DelP /\ E(p) \notin active_timer')
  PROVE  StackUse'
<1> DEFINE n == Len(th[p])
<1>1. n \in Nat /\ n > 0 /\ Top(p) = th[p][n] /\ U(p) = Top(p).s /\ DOMAIN th[p] = 1 .. n
  BY TopFacts DEF LifeInv
<1>2. Moves(p, n, n) /\ th'[p][n] = g
  BY <1>1, ReplaceOne DEF LifeInv
<1>3. Len(th'[p]) = n /\ \A i \in 1 .. n - 1 : th'[p][i] = th[p][i]
  BY <1>2 DEF Moves
<1>4. \A c : c = th'[p] => CallOK(c)'
  <2>1. CASE g.at \in RefTested \cup RefP
    BY <2>1
  <2>2. CASE g.at \notin RefTested \cup RefP
    BY <1>2, <1>3, <2>2 DEF CallOK
  <2> QED
    BY <2>1, <2>2
<1>5. ASSUME NEW i \in (n - 1) .. (n - 1), i > 0, th'[p][i].at \in {"freepend", "deltm"}
      PROVE  th'[p][i + 1].s = th'[p][i].s
  <2>1. i = n - 1 /\ n > 1 /\ i \in 1 .. n - 1 /\ i + 1 = n
    BY <1>1, <1>5
  <2>2. th[p][i].at \in {"freepend", "deltm"} /\ th'[p][i] = th[p][i]
    BY <1>3, <1>5, <2>1
  <2>3. Top(p).at \in DelP \cup PutP \cup {"delref"}
    BY <2>1, <2>2, BelowTop
  <2>4. th[p][i + 1].s = th[p][i].s
    BY <2>1, <2>2 DEF UseInv, SlotInv
  <2> QED
    BY <1>1, <1>2, <2>1, <2>2, <2>3, <2>4
<1>6. ASSUME p = Loop, NEW i \in (n - 1) .. n, i > 0, th'[p][i].at = "freepend", th'[p][i].o \in active_timer'
      PROVE  i < n /\ th'[p][i + 1].at \in Disarming
  <2>1. i = n - 1 /\ n > 1 /\ i \in 1 .. n - 1 /\ i + 1 = n /\ i \in DOMAIN th[p] /\ i < n
    BY <1>1, <1>2, <1>6
  <2>2. th[p][i].at = "freepend" /\ th'[p][i] = th[p][i]
    BY <1>3, <1>6, <2>1
  <2>3. th[p][i].o \in active_timer
    BY <1>6, <2>1, <2>2 DEF ArmsKept
  <2>4. Top(p).at \in Disarming
    BY <1>1, <1>6, <2>1, <2>2, <2>3 DEF UseInv, LoopInv
  <2>5. Top(p).at \in DelP => th[p][i].o = E(p)
    BY <2>1, <2>2, SameEvent
  <2> QED
    BY <1>2, <1>6, <2>1, <2>2, <2>4, <2>5
<1>7. p = Loop => (th'[p][1].at = "tput" => n <= 2)
  <2>1. CASE n = 1
    BY <2>1
  <2>2. CASE n > 1
    BY <1>1, <1>3, <2>2 DEF UseInv, LoopInv
  <2> QED
    BY <1>1, <2>1, <2>2
<1>8. \A i \in n .. n : \A f : f = th'[p][i] => UseFrame(f)'
  BY <1>1, <1>2
<1> QED
  BY <1>2, <1>4, <1>5, <1>6, <1>7, <1>8, UseMoves

\* A thread replaces its top frame by a frame and a call above it.
LEMMA UseTwo ==
  ASSUME LifeInv, UseInv, UseKept, ArmsKept, NEW p \in Threads, NEW g \in FrameType, NEW h \in FrameType,
         Replace(p, <<g, h>>), UseFrame(g)', UseFrame(h)',
         h.at \notin RefTested \cup RefP \cup {"tput", "freepend"}, g.at # "freepend",
         g.at = "deltm" => h.s = g.s, p = Loop /\ g.at = "tput" => Len(th[p]) = 1,
         Top(p).at \in DelP \cup PutP \cup {"delref"} => g.s = U(p),
         p = Loop /\ Top(p).at \in Disarming => g.at \in Disarming,
         Top(p).at \notin PutP
  PROVE  StackUse'
<1> DEFINE n == Len(th[p])
<1>1. n \in Nat /\ n > 0 /\ Top(p) = th[p][n] /\ U(p) = Top(p).s /\ DOMAIN th[p] = 1 .. n
  BY TopFacts DEF LifeInv
<1>2. Moves(p, n, n + 1) /\ th'[p][n] = g /\ th'[p][n + 1] = h
  BY <1>1, ReplaceTwo DEF LifeInv
<1>3. Len(th'[p]) = n + 1 /\ \A i \in 1 .. n - 1 : th'[p][i] = th[p][i]
  BY <1>2 DEF Moves
<1>4. \A c : c = th'[p] => CallOK(c)'
  BY <1>2, <1>3 DEF CallOK
<1>5. ASSUME NEW i \in (n - 1) .. (n + 1 - 1), i > 0, th'[p][i].at \in {"freepend", "deltm"}
      PROVE  th'[p][i + 1].s = th'[p][i].s
  <2>1. CASE i = n
    BY <1>2, <1>5, <2>1
  <2>2. CASE i # n
    <3>1. i = n - 1 /\ n > 1 /\ i \in 1 .. n - 1 /\ i + 1 = n
      BY <1>1, <1>5, <2>2
    <3>2. th[p][i].at \in {"freepend", "deltm"} /\ th'[p][i] = th[p][i]
      BY <1>3, <1>5, <3>1
    <3>3. Top(p).at \in DelP \cup PutP \cup {"delref"}
      BY <3>1, <3>2, BelowTop
    <3>4. th[p][i + 1].s = th[p][i].s
      BY <3>1, <3>2 DEF UseInv, SlotInv
    <3> QED
      BY <1>1, <1>2, <3>1, <3>2, <3>3, <3>4
  <2> QED
    BY <2>1, <2>2
<1>6. ASSUME p = Loop, NEW i \in (n - 1) .. (n + 1), i > 0, th'[p][i].at = "freepend", th'[p][i].o \in active_timer'
      PROVE  i < n + 1 /\ th'[p][i + 1].at \in Disarming
  <2>1. i # n /\ i # n + 1
    BY <1>2, <1>6
  <2>2. i = n - 1 /\ n > 1 /\ i \in 1 .. n - 1 /\ i + 1 = n /\ i \in DOMAIN th[p] /\ i < n + 1
    BY <1>1, <1>6, <2>1
  <2>3. th[p][i].at = "freepend" /\ th'[p][i] = th[p][i]
    BY <1>3, <1>6, <2>2
  <2>4. th[p][i].o \in active_timer
    BY <1>6, <2>2, <2>3 DEF ArmsKept
  <2>5. Top(p).at \in Disarming
    BY <1>1, <1>6, <2>2, <2>3, <2>4 DEF UseInv, LoopInv
  <2> QED
    BY <1>2, <1>6, <2>2, <2>5
<1>7. p = Loop => (th'[p][1].at = "tput" => n + 1 <= 2)
  <2>1. CASE n = 1
    BY <2>1
  <2>2. CASE n > 1
    <3> SUFFICES ASSUME p = Loop, th'[p][1].at = "tput" PROVE FALSE
      OBVIOUS
    <3>1. th[p][1].at = "tput" /\ n = 2
      <4>1. 1 \in 1 .. n - 1
        BY <1>1, <2>2
      <4>2. th[p][1].at = "tput"
        BY <1>3, <4>1
      <4>3. n <= 2
        BY <4>2 DEF UseInv, LoopInv
      <4> HIDE DEF n
      <4>4. n \in Nat /\ n > 1
        BY <1>1, <2>2
      <4>5. n = 2
        BY <4>3, <4>4
      <4> QED
        BY <4>2, <4>5
    <3>2. Top(p).at \in Above("tput")
      <4>1. Top(p).at \in Above(th[p][n - 1].at) /\ n - 1 = 1
        BY <2>2, <3>1, BelowTop
      <4> QED
        BY <3>1, <4>1
    <3>3. Top(p).at \in PutP
      BY <3>2, AboveWhen DEF RefTested
    <3> QED
      BY <3>3
  <2> QED
    BY <1>1, <2>1, <2>2
<1>8. \A i \in n .. (n + 1) : \A f : f = th'[p][i] => UseFrame(f)'
  BY <1>1, <1>2
<1> QED
  BY <1>2, <1>4, <1>5, <1>6, <1>7, <1>8, UseMoves

\* A thread replaces its top frame by a frame and two calls above it.
LEMMA UseThree ==
  ASSUME LifeInv, UseInv, UseKept, ArmsKept, NEW p \in Threads, NEW s \in Slots, NEW l \in RefTested,
         NEW g \in FrameType, TryRefThen(p, s, l, g), UseFrame(g)',
         l = "addref" => (Alive(s) /\ ev[s] \notin released /\ Arms(kind[ev[s]]))',
         l # "wref" => \A h : h.s = s => Known(g, h)',
         g.at \notin {"tput", "deltm"}, g.at = "freepend" => g.s = s /\ l = "delref",
         Top(p).at \notin DelP \cup PutP \cup {"delref"}
  PROVE  StackUse'
<1> DEFINE n == Len(th[p])
           h == Frame(l, s, NULL)
           k == Frame("ref", s, NULL)
<1>1. n \in Nat /\ n > 0 /\ Top(p) = th[p][n] /\ U(p) = Top(p).s /\ DOMAIN th[p] = 1 .. n
  BY TopFacts DEF LifeInv
<1>2. h \in FrameType /\ k \in FrameType
  BY FrameTyped DEF RefTested, Tested, Places
<1>3. h.at = l /\ h.s = s /\ k.at = "ref" /\ k.s = s
  BY DEF Frame
<1>4. Replace(p, <<g, h, k>>)
  BY <1>2, AppendTwo DEF TryRefThen, Enter
<1> HIDE DEF h, k
<1>5. Moves(p, n, n + 2) /\ th'[p][n] = g /\ th'[p][n + 1] = h /\ th'[p][n + 2] = k
  BY <1>1, <1>2, <1>4, ReplaceThree DEF LifeInv
<1>6. Len(th'[p]) = n + 2 /\ \A i \in 1 .. n - 1 : th'[p][i] = th[p][i]
  BY <1>5 DEF Moves
<1>7. UseFrame(h)' /\ UseFrame(k)'
  <2>1. l \notin AddP \cup {"eptest", "epauto", "tput", "tcb"}
    BY DEF RefTested, Tested, AddP
  <2> QED
    BY <1>3, <2>1 DEF UseFrame, AddC, AddP
<1>8. \A c : c = th'[p] => CallOK(c)'
  <2> SUFFICES ASSUME NEW c, c = th'[p] PROVE CallOK(c)'
    OBVIOUS
  <2>1. Len(c) = n + 2 /\ c[n + 2] = k /\ c[n + 1] = h /\ c[n] = g /\ (n + 2) - 1 = n + 1 /\ (n + 2) - 2 = n
    BY <1>1, <1>5, <1>6
  <2>2. k.at \notin RefTested /\ k.at # "refundo"
    BY <1>3 DEF RefTested, Tested
  <2>3. l # "wref" => Known(g, h)'
    BY <1>3
  <2> QED
    BY <1>3, <2>1, <2>2, <2>3 DEF CallOK
<1>9. ASSUME NEW i \in (n - 1) .. (n + 2 - 1), i > 0, th'[p][i].at \in {"freepend", "deltm"}
      PROVE  th'[p][i + 1].s = th'[p][i].s
  <2>1. CASE i = n
    BY <1>3, <1>5, <1>9, <2>1
  <2>2. CASE i = n + 1
    BY <1>3, <1>5, <1>9, <2>2 DEF RefTested, Tested
  <2>3. CASE i = n - 1
    <3>1. n > 1 /\ i \in 1 .. n - 1
      BY <1>1, <1>9, <2>3
    <3> QED
      BY <1>6, <1>9, <2>3, <3>1, BelowTop
  <2> QED
    BY <1>1, <1>9, <2>1, <2>2, <2>3
<1>10. ASSUME p = Loop, NEW i \in (n - 1) .. (n + 2), i > 0, th'[p][i].at = "freepend", th'[p][i].o \in active_timer'
       PROVE  i < n + 2 /\ th'[p][i + 1].at \in Disarming
  <2>1. CASE i = n
    BY <1>1, <1>3, <1>5, <1>10, <2>1 DEF Disarming
  <2>2. CASE i = n + 1
    BY <1>3, <1>5, <1>10, <2>2 DEF RefTested, Tested
  <2>3. CASE i = n + 2
    BY <1>3, <1>5, <1>10, <2>3
  <2>4. CASE i = n - 1
    <3>1. n > 1 /\ i \in 1 .. n - 1
      BY <1>1, <1>10, <2>4
    <3> QED
      BY <1>6, <1>10, <2>4, <3>1, BelowTop
  <2> QED
    BY <1>1, <1>10, <2>1, <2>2, <2>3, <2>4
<1>11. p = Loop => (th'[p][1].at = "tput" => n + 2 <= 2)
  <2> SUFFICES ASSUME p = Loop, th'[p][1].at = "tput" PROVE FALSE
    OBVIOUS
  <2>1. CASE n = 1
    BY <1>5, <2>1
  <2>2. CASE n # 1
    <3>1. 1 \in 1 .. n - 1 /\ n > 1
      <4> HIDE DEF n
      <4> QED
        BY <1>1, <2>2
    <3>2. th[p][1].at = "tput"
      BY <1>6, <3>1
    <3>3. n <= 2
      BY <3>2 DEF UseInv, LoopInv
    <3>4. Top(p).at \in Above(th[p][n - 1].at)
      BY <3>1, BelowTop
    <3> HIDE DEF n
    <3>5. n - 1 = 1
      BY <1>1, <3>1, <3>3
    <3>6. Top(p).at \in Above("tput")
      BY <3>2, <3>4, <3>5
    <3> QED
      BY <3>6, AboveWhen DEF RefTested
  <2> QED
    BY <2>1, <2>2
<1>12. \A i \in n .. (n + 2) : \A f : f = th'[p][i] => UseFrame(f)'
  BY <1>1, <1>5, <1>7
<1> QED
  BY <1>5, <1>8, <1>9, <1>10, <1>11, <1>12, UseMoves

\* A thread returns to its caller.
LEMMA UsePop ==
  ASSUME LifeInv, UseInv, UseKept, ArmsKept, NEW p \in Threads, NEW v \in BOOLEAN, Return(p, v),
         Top(p).at \notin Ground(p),
         LET n == Len(th[p]) IN
         /\ n > 2 /\ Top(p).at \in RefP /\ th[p][n - 1].at # "wref" /\ Sure(th[p][n - 2]) => v
         /\ p = Loop /\ th[p][n - 1].at = "freepend" => Top(p).at \notin Disarming
  PROVE  StackUse'
<1> DEFINE n == Len(th[p])
           m == n - 1
           j == n - 2
<1>1. n \in Nat /\ m \in Nat /\ m > 0 /\ m + 1 = n /\ DOMAIN th[p] = 1 .. n /\ Top(p) = th[p][n] /\ n > 1
      /\ j + 1 = m
  BY TopFacts DEF LifeInv
<1>2. Moves(p, m, m) /\ th'[p][m] \in FrameType
      /\ th'[p][m].at = th[p][m].at /\ th'[p][m].s = th[p][m].s /\ th'[p][m].o = th[p][m].o
      /\ (th'[p][m].ret <=> v /\ th[p][m].at \in Tested)
  BY <1>1, ReturnMoves DEF LifeInv
<1>3. Len(th'[p]) = m /\ \A i \in 1 .. m - 1 : th'[p][i] = th[p][i]
  BY <1>2 DEF Moves
<1>4. Top(p).at \in Above(th[p][m].at)
  BY <1>1, BelowTop
<1>5. \A i \in m .. m : \A f : f = th'[p][i] => UseFrame(f)'
  <2>1. \A f : f = th[p][m] => UseFrame(f)'
    BY <1>1 DEF UseKept
  <2> QED
    BY <1>1, <1>2, <2>1 DEF UseFrame
<1>6. \A c : c = th'[p] => CallOK(c)'
  <2> SUFFICES ASSUME NEW c, c = th'[p] PROVE CallOK(c)'
    OBVIOUS
  <2> DEFINE f == th'[p][m]
  <2>1. Len(c) = m /\ c[m] = f
    BY <1>3
  <2>2. f.at \notin RefP
    BY <1>2, <1>4, AboveWhen DEF RefTested, Tested, RefP
  <2>3. ASSUME m > 1, f.at \in RefTested \ {"wref"}
        PROVE  (\A g, h : g = c[m - 1] /\ h = c[m] => Known(g, h)') /\ (Sure(c[m - 1]) => c[m].ret)
    <3>1. Top(p).at \in RefP /\ n > 2 /\ j \in 1 .. m - 1 /\ m - 1 = j
      BY <1>1, <1>2, <1>4, <2>3, AboveNone
    <3>2. c[j] = th[p][j]
      BY <1>3, <3>1
    <3>3. \A d : d = th[p] => CallOK(d)'
      BY DEF UseKept
    <3>4. \A g, h : g = th[p][j] /\ h = th[p][m] => Known(g, h)'
      BY <1>1, <1>2, <2>3, <3>1, <3>3 DEF CallOK
    <3>5. \A g, h : g = c[j] /\ h = c[m] => Known(g, h)'
      BY <1>2, <2>1, <3>2, <3>4 DEF Known
    <3>6. Sure(c[j]) => v
      BY <1>2, <2>3, <3>1, <3>2
    <3> QED
      BY <1>2, <2>1, <2>3, <3>1, <3>5, <3>6 DEF RefTested
  <2>4. Len(c) > 1 /\ c[Len(c)].at \in RefTested \ {"wref"} =>
          (\A g, h : g = c[Len(c) - 1] /\ h = c[Len(c)] => Known(g, h)') /\ (Sure(c[Len(c) - 1]) => c[Len(c)].ret)
    BY <2>1, <2>3
  <2>5. c[Len(c)].at \notin RefP
    BY <2>1, <2>2
  <2> QED
    BY <2>4, <2>5 DEF CallOK, Sure
<1>7. ASSUME NEW i \in (m - 1) .. (m - 1), i > 0, th'[p][i].at \in {"freepend", "deltm"}
      PROVE  th'[p][i + 1].s = th'[p][i].s
  <2>1. i \in 1 .. m - 1 /\ i + 1 = m /\ i \in 1 .. n - 1
    BY <1>1, <1>7
  <2> QED
    BY <1>2, <1>3, <1>7, <2>1 DEF UseInv, SlotInv
<1>8. ASSUME p = Loop, NEW i \in (m - 1) .. m, i > 0, th'[p][i].at = "freepend", th'[p][i].o \in active_timer'
      PROVE  i < m /\ th'[p][i + 1].at \in Disarming
  <2>0. i = m \/ i \in 1 .. m - 1
    <3> HIDE DEF m
    <3> QED
      BY <1>1, <1>8
  <2>1. i \in DOMAIN th[p] /\ th[p][i].at = "freepend" /\ th[p][i].o \in active_timer'
    <3>1. CASE i = m
      BY <1>1, <1>2, <1>8, <3>1
    <3>2. CASE i \in 1 .. m - 1
      <4>1. i \in DOMAIN th[p]
        BY <1>1, <3>2
      <4>2. th'[p][i] = th[p][i]
        BY <1>3, <3>2
      <4> QED
        BY <1>8, <4>1, <4>2
    <3> QED
      BY <2>0, <3>1, <3>2
  <2>2. th[p][i].o \in active_timer
    BY <1>8, <2>1 DEF ArmsKept
  <2>3. th[p][i + 1].at \in Disarming
    BY <1>8, <2>1, <2>2 DEF UseInv, LoopInv
  <2>4. i # m
    BY <1>1, <1>8, <2>1, <2>3
  <2>5. i + 1 = m /\ i < m
    BY <1>1, <1>8, <2>4
  <2> QED
    BY <1>2, <2>3, <2>5
<1>9. p = Loop => (th'[p][1].at = "tput" => m <= 2)
  <2> SUFFICES ASSUME p = Loop, th'[p][1].at = "tput" PROVE m <= 2
    OBVIOUS
  <2>1. th[p][1].at = "tput"
    <3>1. CASE m = 1
      BY <1>2, <3>1
    <3>2. CASE m # 1
      <4>1. 1 \in 1 .. m - 1
        <5> HIDE DEF m
        <5> QED
          BY <1>1, <3>2
      <4> QED
        BY <1>3, <4>1
    <3> QED
      BY <3>1, <3>2
  <2>2. n <= 2
    BY <2>1 DEF UseInv, LoopInv
  <2> HIDE DEF n
  <2> QED
    BY <1>1, <2>2
<1> HIDE DEF m
<1> QED
  BY <1>2, <1>5, <1>6, <1>7, <1>8, <1>9, UseMoves

-----------------------------------------------------------------------------
(* Steps that change none of the data UseInv speaks of, or take from it.   *)

\* A step that changes no event, slot or flag the invariant speaks of.
Calm ==
  /\ UNCHANGED <<ev, kind, uev, released, pending_free>>
  /\ active_timer' \subseteq active_timer /\ epoll' \subseteq epoll /\ reported' \subseteq reported

\* Such a step keeps the frames, and arms nothing.
LEMMA CalmFacts ==
  ASSUME TimersLeftToLoop, LifeInv, UseInv, Calm
  PROVE  UseKept /\ ArmsKept /\ EpollUse' /\ TimerUse' /\ (StackUse' => UseInv')
<1>1. Conserved
  BY DEF Calm, Conserved
<1>2. UseKept
  BY <1>1, ConservedUse
<1>3. ArmsKept
  BY DEF Calm, ArmsKept
<1>4. EpollUse'
  BY <1>2 DEF UseKept, EpollUse, Calm
<1>5. TimerUse'
  BY DEF Calm, TimerUse, UseInv
<1> QED
  BY <1>2, <1>3, <1>4, <1>5 DEF UseInv, StackUse

\* Places about which UseFrame and CallOK say nothing.
LEMMA UsePlain ==
  ASSUME NEW f, f.at \notin AddC \cup {"eptest", "epauto", "tput", "tcb"}
  PROVE  UseFrame(f) /\ UseFrame(f)'
  BY DEF UseFrame

\* UseOne for such a step.
LEMMA CalmOne ==
  ASSUME TimersLeftToLoop, LifeInv, UseInv, Calm, NEW p \in Threads, NEW g \in FrameType, Replace(p, <<g>>),
         g.at \notin RefTested \cup RefP \cup {"eptest", "epauto", "tput", "tcb", "freepend"},
         g.at \in AddC => Top(p).at \in AddC /\ g.s = U(p),
         Top(p).at \in DelP \cup PutP \cup {"delref"} => g.s = U(p),
         p = Loop /\ Top(p).at \in Disarming =>
           g.at \in Disarming \/ (Top(p).at \in DelP /\ E(p) \notin active_timer')
  PROVE  UseInv'
<1>1. UseKept /\ ArmsKept /\ (StackUse' => UseInv')
  BY CalmFacts
<1>2. UseFrame(g)'
  <2>1. CASE g.at \notin AddC
    BY <2>1, UsePlain
  <2>2. CASE g.at \in AddC
    <3>1. \A f : f = Top(p) => UseFrame(f)'
      BY <1>1, TopFacts DEF UseKept, LifeInv
    <3>2. U(p) = Top(p).s
      BY TopFacts DEF LifeInv
    <3> QED
      BY <2>2, <3>1, <3>2 DEF UseFrame
  <2> QED
    BY <2>1, <2>2
<1> QED
  BY <1>1, <1>2, UseOne

\* Such a step goes on in the same function with the event it has read.
LEMMA CalmLoad ==
  ASSUME TimersLeftToLoop, LifeInv, UseInv, Calm, NEW p \in Threads, NEW l \in Places,
         NEW o \in Events \cup {NULL}, Load(p, l, o),
         l \notin RefTested \cup RefP \cup {"eptest", "epauto", "tput", "tcb", "freepend"},
         l \in AddC => Top(p).at \in AddC,
         p = Loop /\ Top(p).at \in Disarming =>
           l \in Disarming \/ (Top(p).at \in DelP /\ E(p) \notin active_timer')
  PROVE  UseInv'
<1>1. Top(p) \in FrameType /\ U(p) = Top(p).s
  BY TopFacts DEF LifeInv
<1>2. U(p) \in Slots \cup {NULL}
  BY <1>1 DEF FrameType
<1> DEFINE g == Frame(l, U(p), o)
<1>3. g \in FrameType
  BY <1>2, FrameTyped
<1>4. Replace(p, <<g>>) /\ g.at = l /\ g.s = U(p)
  BY LoadFrame
<1> HIDE DEF g
<1> QED
  BY <1>3, <1>4, CalmOne

\* UsePop for such a step.
LEMMA CalmPop ==
  ASSUME TimersLeftToLoop, LifeInv, UseInv, Calm, NEW p \in Threads, NEW v \in BOOLEAN, Return(p, v),
         Top(p).at \notin Ground(p), Top(p).at \notin RefP, Top(p).at \notin Disarming
  PROVE  UseInv'
  BY CalmFacts, UsePop

\* A call of uevent_try_ref.
LEMMA CalmCall ==
  ASSUME TimersLeftToLoop, LifeInv, UseInv, Calm, NEW p \in Threads, NEW s \in Slots, NEW l \in RefTested,
         NEW g \in FrameType, TryRefThen(p, s, l, g), UseFrame(g),
         l = "addref" => Alive(s) /\ ev[s] \notin released /\ Arms(kind[ev[s]]),
         l # "wref" => \A h : h.s = s => Known(g, h),
         g.at \notin {"tput", "deltm"}, g.at = "freepend" => g.s = s /\ l = "delref",
         Top(p).at \notin DelP \cup PutP \cup {"delref"}
  PROVE  UseInv'
<1>1. UseKept /\ ArmsKept /\ (StackUse' => UseInv')
  BY CalmFacts
<1>2. UseFrame(g)'
  BY DEF UseFrame, Calm, Alive, Arms, Stops, Ops, Outside
<1>3. l = "addref" => (Alive(s) /\ ev[s] \notin released /\ Arms(kind[ev[s]]))'
  BY DEF Calm, Alive, Arms, Ops
<1>4. l # "wref" => \A h : h.s = s => Known(g, h)'
  BY DEF Calm, Known, Sure, Alive, Stops, Outside
<1>5. StackUse'
  BY <1>1, <1>2, <1>3, <1>4, UseThree
<1> QED
  BY <1>1, <1>5

-----------------------------------------------------------------------------
(* References.                                                             *)

\* The caller of uevent_try_ref, and what it knows.
LEMMA RefCaller ==
  ASSUME LifeInv, UseInv, NEW p \in Threads, Top(p).at \in RefP
  PROVE  LET n == Len(th[p]) IN
         /\ n \in Nat /\ n > 1 /\ U(p) \in Slots /\ th[p][n - 1].s = U(p) /\ Top(p).at \notin Ground(p)
         /\ n > 2 /\ th[p][n - 1].at # "wref" /\ Sure(th[p][n - 2]) =>
              Alive(U(p)) /\ Top(p).at # "refundo"
<1> DEFINE n == Len(th[p])
<1>1. Top(p).at \notin Ground(p) /\ U(p) \in Slots
  BY CallTop DEF At
<1>2. n \in Nat /\ n > 1 /\ Top(p) = th[p][n] /\ Top(p).at \in Above(th[p][n - 1].at)
      /\ (th[p][n - 1].at \in RefTested => U(p) = th[p][n - 1].s)
  BY <1>1, TopFacts DEF LifeInv
<1>3. th[p][n - 1].at \in RefTested
  BY <1>2, AboveNone
<1>4. CallOK(th[p])
  BY DEF UseInv, CallInv
<1>5. ASSUME n > 2, th[p][n - 1].at # "wref", Sure(th[p][n - 2])
      PROVE  Alive(U(p)) /\ Top(p).at # "refundo"
  <2>1. Known(th[p][n - 2], th[p][n - 1]) /\ th[p][n].at # "refundo"
    BY <1>2, <1>4, <1>5 DEF CallOK
  <2> QED
    BY <1>2, <1>3, <1>5, <2>1 DEF Known
<1> QED
  BY <1>1, <1>2, <1>3, <1>5

\* uevent_try_ref goes on.
LEMMA RefGoes ==
  ASSUME TimersLeftToLoop, LifeInv, UseInv, Calm, NEW p \in Threads, Top(p).at \in RefP, NEW l \in RefP, Go(p, l),
         LET n == Len(th[p]) IN
         n > 2 /\ th[p][n - 1].at # "wref" /\ Sure(th[p][n - 2]) => l # "refundo"
  PROVE  UseInv'
<1> DEFINE n == Len(th[p])
<1>1. n \in Nat /\ n > 1 /\ U(p) \in Slots /\ th[p][n - 1].s = U(p)
  BY RefCaller
<1>2. Top(p) \in FrameType /\ E(p) = Top(p).o /\ Top(p) = th[p][n]
  BY TopFacts DEF LifeInv
<1>3. E(p) \in Events \cup {NULL}
  BY <1>2 DEF FrameType
<1>4. Frame(l, U(p), E(p)) \in FrameType
  BY <1>1, <1>3, FrameTyped DEF RefP, Places
<1>5. PICK g \in FrameType : Replace(p, <<g>>) /\ g.at = l
  BY <1>4, LoadFrame DEF Go, RefP
<1>6. UseKept /\ ArmsKept /\ (StackUse' => UseInv')
  BY CalmFacts
<1>7. UseFrame(g)'
  BY <1>5, UsePlain DEF RefP, AddC, AddP
<1>8. \A c : c = th'[p] => CallOK(c)'
  <2> SUFFICES ASSUME NEW c, c = th'[p] PROVE CallOK(c)'
    OBVIOUS
  <2>1. Moves(p, n, n) /\ th'[p][n] = g
    BY <1>1, <1>5, ReplaceOne DEF LifeInv
  <2>2. Len(c) = n /\ c[n] = g /\ \A i \in 1 .. n - 1 : c[i] = th[p][i]
    BY <2>1 DEF Moves
  <2>3. \A d : d = th[p] => CallOK(d)'
    BY <1>6 DEF UseKept
  <2>4. g.at \notin RefTested
    BY <1>5 DEF RefP, RefTested, Tested
  <2>5. ASSUME Len(c) > 2, c[Len(c) - 1].at # "wref"
        PROVE  (\A a, b : a = c[Len(c) - 2] /\ b = c[Len(c) - 1] => Known(a, b)')
               /\ (Sure(c[Len(c) - 2]) => c[Len(c)].at # "refundo")
    <3>1. n > 2 /\ c[n - 1] = th[p][n - 1] /\ c[n - 2] = th[p][n - 2]
      BY <1>1, <2>2, <2>5
    <3>2. \A a, b : a = th[p][n - 2] /\ b = th[p][n - 1] => Known(a, b)'
      BY <1>2, <2>2, <2>3, <2>5, <3>1 DEF CallOK
    <3> QED
      BY <1>5, <2>2, <2>5, <3>1, <3>2
  <2>6. c[Len(c)].at \notin RefTested
    BY <2>2, <2>4
  <2> QED
    BY <2>5, <2>6 DEF CallOK, Sure
<1>9. Top(p).at \notin DelP \cup PutP \cup {"delref"} /\ Top(p).at \notin Disarming
  BY DEF RefP, DelP, PutP, Disarming
<1>10. g.at \notin {"tput", "freepend"}
  BY <1>5 DEF RefP
<1> QED
  BY <1>5, <1>6, <1>7, <1>8, <1>9, <1>10, UseOne

\* Such a step goes on in the same function.
LEMMA CalmGo ==
  ASSUME TimersLeftToLoop, LifeInv, UseInv, Calm, NEW p \in Threads, NEW l \in Places, Go(p, l),
         l \notin RefTested \cup RefP \cup {"eptest", "epauto", "tput", "tcb", "freepend"},
         l \in AddC => Top(p).at \in AddC,
         p = Loop /\ Top(p).at \in Disarming =>
           l \in Disarming \/ (Top(p).at \in DelP /\ E(p) \notin active_timer')
  PROVE  UseInv'
<1>1. E(p) \in Events \cup {NULL}
  BY TopFacts DEF LifeInv, FrameType
<1>2. (IF l = "put" THEN NULL ELSE E(p)) \in Events \cup {NULL}
  BY <1>1
<1> QED
  BY <1>2, CalmLoad DEF Go

\* uevent_try_ref increments a count.
LEMMA UseTryInc ==
  ASSUME TimersLeftToLoop, LifeInv, UseInv, NEW p \in Threads, TryInc(p)
  PROVE  UseInv'
<1>1. Top(p).at = "ref" /\ Top(p).at \in RefP
  BY DEF TryInc, At, RefP
<1>2. Calm
  BY DEF TryInc, Calm, memory, base, lists, flags
<1>3. CASE refcount[U(p)] = 0
  <2> DEFINE n == Len(th[p])
  <2>1. U(p) \in Slots /\ Top(p).at \notin Ground(p)
        /\ (n > 2 /\ th[p][n - 1].at # "wref" /\ Sure(th[p][n - 2]) => Alive(U(p)))
    BY <1>1, RefCaller
  <2>2. ~Alive(U(p))
    BY <1>3, <2>1, Positive DEF LifeInv, Alive
  <2>3. Return(p, FALSE) /\ Top(p).at \notin Disarming
    BY <1>1, <1>3 DEF TryInc, Disarming
  <2> QED
    BY <1>2, <2>1, <2>2, <2>3, CalmFacts, UsePop
<1>4. CASE refcount[U(p)] # 0
  <2>1. Go(p, "refchk") /\ "refchk" \in RefP
    BY <1>4 DEF TryInc, RefP
  <2> QED
    BY <1>1, <1>2, <2>1, RefGoes
<1> QED
  BY <1>3, <1>4

\* uevent_try_ref tests the event.
LEMMA UseTryCheck ==
  ASSUME TimersLeftToLoop, LifeInv, UseInv, NEW p \in Threads, TryCheck(p)
  PROVE  UseInv'
<1> DEFINE n == Len(th[p])
<1>1. Top(p).at = "refchk" /\ Top(p).at \in RefP
  BY DEF TryCheck, At, RefP
<1>2. Calm
  BY DEF TryCheck, Calm, slots, memory, base, lists, flags
<1>3. U(p) \in Slots /\ Top(p).at \notin Ground(p)
      /\ (n > 2 /\ th[p][n - 1].at # "wref" /\ Sure(th[p][n - 2]) => Alive(U(p)))
  BY <1>1, RefCaller
<1>4. CASE ~Alive(U(p))
  <2>1. Go(p, "refundo") /\ "refundo" \in RefP
    BY <1>4 DEF TryCheck, Alive, RefP
  <2> QED
    BY <1>1, <1>2, <1>3, <1>4, <2>1, RefGoes
<1>5. CASE Alive(U(p))
  <2>1. Return(p, TRUE) /\ Top(p).at \notin Disarming
    BY <1>1, <1>5 DEF TryCheck, Alive, Disarming
  <2> QED
    BY <1>2, <1>3, <2>1, CalmFacts, UsePop
<1> QED
  BY <1>4, <1>5

\* uevent_try_ref takes its increment back: not for a caller that is sure.
LEMMA UseTryUndo ==
  ASSUME TimersLeftToLoop, LifeInv, UseInv, NEW p \in Threads, TryUndo(p)
  PROVE  UseInv'
<1> DEFINE n == Len(th[p])
<1>1. Top(p).at = "refundo" /\ Top(p).at \in RefP
  BY DEF TryUndo, At, RefP
<1>2. Calm
  BY DEF TryUndo, Calm, memory, base, lists, flags
<1>3. Top(p).at \notin Ground(p) /\ ~(n > 2 /\ th[p][n - 1].at # "wref" /\ Sure(th[p][n - 2]))
  BY <1>1, RefCaller
<1>4. Return(p, FALSE) /\ Top(p).at \notin Disarming
  BY <1>1 DEF TryUndo, Disarming
<1> QED
  BY <1>2, <1>3, <1>4, CalmFacts, UsePop

\* uevent_put looks at the count.
LEMMA UsePutTest ==
  ASSUME TimersLeftToLoop, LifeInv, UseInv, NEW p \in Threads, PutTest(p)
  PROVE  UseInv'
<1>1. Top(p).at = "put" /\ Top(p).at \notin Ground(p)
  BY CallTop DEF PutTest, At, PutP
<1>2. Calm
  BY DEF PutTest, Calm, slots, memory, base, lists, flags
<1>3. Top(p).at \notin RefP /\ Top(p).at \notin Disarming
  BY <1>1 DEF RefP, Disarming
<1>4. CASE refcount[U(p)] = 0
  BY <1>1, <1>2, <1>3, <1>4, CalmPop DEF PutTest
<1>5. CASE refcount[U(p)] # 0
  <2>1. Go(p, "dec")
    BY <1>5 DEF PutTest
  <2> QED
    BY <1>2, <1>3, <2>1, CalmGo DEF Places, RefTested, Tested, RefP, AddC, AddP
<1> QED
  BY <1>4, <1>5

\* uevent_put drops a reference; the event goes in a later step.
LEMMA UsePutDec ==
  ASSUME TimersLeftToLoop, LifeInv, UseInv, NEW p \in Threads, PutDec(p)
  PROVE  UseInv'
<1>1. Top(p).at = "dec" /\ Top(p).at \notin Ground(p)
  BY CallTop DEF PutDec, At, PutP
<1>2. Calm
  BY DEF PutDec, Calm, memory, base, lists, flags
<1>3. Top(p).at \notin RefP /\ Top(p).at \notin Disarming
  BY <1>1 DEF RefP, Disarming
<1>4. CASE refcount[U(p)] # 1
  BY <1>1, <1>2, <1>3, <1>4, CalmPop DEF PutDec
<1>5. CASE refcount[U(p)] = 1
  <2>1. Go(p, "destroy")
    BY <1>5 DEF PutDec
  <2> QED
    BY <1>2, <1>3, <2>1, CalmGo DEF Places, RefTested, Tested, RefP, AddC, AddP
<1> QED
  BY <1>4, <1>5

\* The event that goes is one its creator has given up.
LEMMA UseDestroy ==
  ASSUME TimersLeftToLoop, LifeInv, UseInv, NEW p \in Threads, Destroy(p)
  PROVE  UseInv'
<1>1. Top(p).at = "destroy" /\ Top(p).at \notin Ground(p) /\ U(p) \in Slots
  BY CallTop DEF Destroy, At, PutP
<1>2. Conserved
  <2>1. ~Alive(U(p))
    BY DestroyedPending DEF Destroy
  <2>2. \A s \in Slots : s # U(p) => ev'[s] = ev[s]
    BY DEF Destroy, LifeInv, TypeInv
  <2> QED
    BY <2>1, <2>2 DEF Destroy, Conserved, flags
<1>3. UseKept
  BY <1>2, ConservedUse
<1>4. ArmsKept /\ EpollUse' /\ TimerUse'
  BY <1>3 DEF Destroy, ArmsKept, UseKept, EpollUse, TimerUse, UseInv, flags, base, lists
<1>5. Top(p).at \notin RefP /\ Top(p).at \notin Disarming /\ Return(p, TRUE)
  BY <1>1 DEF RefP, Disarming, Destroy
<1>6. StackUse'
  BY <1>1, <1>3, <1>4, <1>5, UsePop
<1> QED
  BY <1>4, <1>6 DEF UseInv, StackUse

-----------------------------------------------------------------------------
(* The calls of the API.                                                   *)

\* A call on a handle that was not freed begins.
LEMMA UseBegin ==
  ASSUME TimersLeftToLoop, LifeInv, UseInv, NEW p \in Threads,
         NEW op, NEW l, <<op, l>> \in {<<"add", "addref">>, <<"del", "delref">>, <<"peek", "peekref">>},
         Begin(p, op, l)
  PROVE  UseInv'
<1>1. PICK s \in Slots : MayUse(p, op, s) /\ TryRefThen(p, s, l, Here(p))
  BY DEF Begin
<1>2. Calm
  BY DEF Begin, Calm, slots, memory, base, lists, flags
<1>3. l \in RefTested /\ l # "wref" /\ (l = "addref" => op = "add")
  BY DEF RefTested, Tested
<1>4. MayCall(p, op, kind[ev[s]])
  BY <1>1 DEF MayUse
<1>5. Top(p).at \in {"idle", "cb"}
  BY <1>4, CallerFacts
<1>6. PICK g \in FrameType : g = Here(p) /\ g.at = Top(p).at
  BY <1>4, CallerFacts
<1>7. ev[s] \in Events /\ ev[s] \notin released /\ ev[s] \notin pending_free /\ <<op, kind[ev[s]]>> \in Ops
  BY <1>1, MayUseFacts
<1>8. Alive(s)
  BY <1>7, LifeAssumption DEF Alive
<1>9. l = "addref" => Alive(s) /\ ev[s] \notin released /\ Arms(kind[ev[s]])
  BY <1>3, <1>7, <1>8 DEF Arms
<1>10. \A h : h.s = s => Known(g, h)
  BY <1>5, <1>6, <1>7, <1>8 DEF Known
<1>11. UseFrame(g)
  BY <1>5, <1>6 DEF UseFrame, AddC, AddP
<1>12. g.at \notin {"tput", "deltm", "freepend"} /\ Top(p).at \notin DelP \cup PutP \cup {"delref"}
  BY <1>5, <1>6 DEF DelP, PutP
<1> QED
  BY <1>1, <1>2, <1>3, <1>6, <1>9, <1>10, <1>11, <1>12, CalmCall

\* A thread in the middle of a call of uevent_add or uevent_del, or of a query.
LEMMA UsePeek ==
  ASSUME TimersLeftToLoop, LifeInv, UseInv, NEW p \in Threads, Peek(p)
  PROVE  UseInv'
<1>1. Top(p).at = "peekref" /\ Top(p).at \notin Ground(p)
  BY CallTop DEF Peek, At, RefTested, Tested
<1>2. Calm
  BY DEF Peek, Calm, slots, memory, base, lists, flags
<1>3. Top(p).at \notin RefP /\ Top(p).at \notin Disarming
  BY <1>1 DEF RefP, Disarming
<1>4. CASE ~Returned(p)
  BY <1>1, <1>2, <1>3, <1>4, CalmPop DEF Peek
<1>5. CASE Returned(p)
  <2>1. Go(p, "put")
    BY <1>5 DEF Peek
  <2> QED
    BY <1>2, <1>3, <2>1, CalmGo DEF Places, RefTested, Tested, RefP, AddC, AddP
<1> QED
  BY <1>4, <1>5

\* uevent_add has its reference: the event is one its creator still has.
LEMMA UseAddLock ==
  ASSUME TimersLeftToLoop, LifeInv, UseInv, NEW p \in Threads, AddLock(p)
  PROVE  UseInv'
<1>1. Top(p).at = "addref" /\ Top(p).at \notin Ground(p) /\ U(p) \in Slots
  BY CallTop DEF AddLock, At, RefTested, Tested
<1>2. Calm
  BY DEF AddLock, Calm, slots, memory, base, lists
<1>3. Top(p).at \notin RefP /\ Top(p).at \notin Disarming /\ Top(p).at \in AddC
  BY <1>1 DEF RefP, Disarming, AddC
<1>4. CASE ~Returned(p)
  BY <1>1, <1>2, <1>3, <1>4, CalmPop DEF AddLock
<1>5. CASE Returned(p) /\ ev[U(p)] \in modification_lock
  <2>1. Go(p, "put")
    BY <1>5 DEF AddLock
  <2> QED
    BY <1>2, <1>3, <2>1, CalmGo DEF Places, RefTested, Tested, RefP, AddC, AddP
<1>6. CASE Returned(p) /\ ev[U(p)] \notin modification_lock
  <2>1. Load(p, "addchk", ev[U(p)]) /\ ev[U(p)] \in Events \cup {NULL}
    BY <1>1, <1>6 DEF AddLock, LifeInv, TypeInv
  <2> QED
    BY <1>2, <1>3, <2>1, CalmLoad DEF Places, RefTested, Tested, RefP
<1> QED
  BY <1>4, <1>5, <1>6

\* The steps of uevent_add that change no timer.
LEMMA UseAddGo ==
  ASSUME TimersLeftToLoop, LifeInv, UseInv, Calm, NEW p \in Threads, Top(p).at \in AddP, NEW l \in AddP \cup {"put"},
         Go(p, l)
  PROVE  UseInv'
<1>1. Top(p).at \in AddC /\ Top(p).at \notin Disarming
  BY DEF AddC, AddP, Disarming
<1> QED
  BY <1>1, CalmGo DEF Places, RefTested, Tested, RefP, AddP

\* uevent_add tests pending_free.
LEMMA UseAddCheck ==
  ASSUME TimersLeftToLoop, LifeInv, UseInv, NEW p \in Threads, AddCheck(p)
  PROVE  UseInv'
<1>1. Top(p).at \in AddP /\ Calm
  BY DEF AddCheck, At, AddP, Calm, slots, memory, base, lists, flags
<1>2. \E l \in AddP : Go(p, l)
  BY DEF AddCheck, TimerPart, AddP
<1> QED
  BY <1>1, <1>2, UseAddGo

\* uevent_add reads active_fd.
LEMMA UseAddFdRead ==
  ASSUME TimersLeftToLoop, LifeInv, UseInv, NEW p \in Threads, AddFdRead(p)
  PROVE  UseInv'
<1>1. Top(p).at = "addfd" /\ Calm
  BY DEF AddFdRead, At, Calm, slots, memory, base, lists, flags
<1>2. Top(p) \in FrameType /\ U(p) = Top(p).s /\ E(p) = Top(p).o
  BY TopFacts DEF LifeInv
<1>3. PICK g \in FrameType : Replace(p, <<g>>) /\ g.at = "addctl" /\ g.s = U(p)
  <2> DEFINE f == Frame("addctl", U(p), E(p))
             h == [f EXCEPT !.ret = E(p) \in active_fd]
  <2>1. f \in FrameType
    BY <1>2, FrameTyped DEF FrameType, Places
  <2>2. h \in FrameType /\ h.at = f.at /\ h.s = f.s
    <3> HIDE DEF f
    <3>1. (E(p) \in active_fd) \in BOOLEAN
      OBVIOUS
    <3> QED
      BY <2>1, <3>1 DEF FrameType
  <2>3. f.at = "addctl" /\ f.s = U(p)
    BY DEF Frame
  <2>4. Replace(p, <<h>>)
    BY DEF AddFdRead
  <2> HIDE DEF h
  <2> QED
    BY <2>2, <2>3, <2>4
<1> QED
  BY <1>1, <1>3, CalmOne DEF RefTested, Tested, RefP, AddC, AddP, Disarming

\* epoll_ctl: the descriptor has its event.
LEMMA UseAddFdCtl ==
  ASSUME TimersLeftToLoop, LifeInv, UseInv, NEW p \in Threads, AddFdCtl(p)
  PROVE  UseInv'
<1>1. Top(p).at = "addctl" /\ Top(p).at \in AddP
  BY DEF AddFdCtl, At, AddP
<1>2. U(p) \in Slots /\ E(p) \in Events /\ ev[U(p)] = E(p) /\ E(p) = Top(p).o /\ FrameInv(p, Top(p))
  BY <1>1, AddTop
<1>3. "fd" \in kind[E(p)] /\ uev[E(p)] = U(p)
  BY <1>1, <1>2, LifeAssumption DEF FrameInv, LifeInv, EventInv
<1>4. Conserved
  BY DEF AddFdCtl, Conserved, slots, memory, flags
<1>5. UseKept
  BY <1>4, ConservedUse
<1>6. EpollUse'
  <2>1. epoll' \subseteq epoll \cup {E(p)} /\ UNCHANGED <<ev, uev, kind, reported>>
    BY DEF AddFdCtl, slots, memory, lists
  <2> QED
    BY <1>2, <1>3, <2>1 DEF EpollUse, UseInv
<1>7. ArmsKept /\ TimerUse'
  BY DEF AddFdCtl, ArmsKept, TimerUse, UseInv, flags
<1>8. \E l \in AddP : Go(p, l)
  BY DEF AddFdCtl, TimerPart, AddP
<1>9. PICK g \in FrameType : Replace(p, <<g>>) /\ g.at \in AddP /\ g.s = U(p)
  <2>1. PICK l \in AddP : Go(p, l)
    BY <1>8
  <2>2. Load(p, l, E(p))
    BY <2>1 DEF Go, AddP
  <2>3. Frame(l, U(p), E(p)) \in FrameType
    BY <1>2, FrameTyped DEF AddP, Places
  <2> QED
    BY <2>2, <2>3, LoadFrame
<1>10. UseFrame(g)'
  <2>1. \A f : f = Top(p) => UseFrame(f)'
    BY <1>5, TopFacts DEF UseKept, LifeInv
  <2>2. g.at \in AddC /\ Top(p).at \in AddC /\ Top(p).s = g.s /\ g.at \notin {"eptest", "epauto", "tput", "tcb"}
    BY <1>1, <1>9, TopFacts DEF AddC, LifeInv, AddP
  <2> QED
    BY <2>1, <2>2 DEF UseFrame
<1>11. g.at \notin RefTested \cup RefP \cup {"tput", "freepend"}
  BY <1>9 DEF RefTested, Tested, RefP, AddP
<1>12. StackUse'
  BY <1>1, <1>5, <1>7, <1>9, <1>10, <1>11, UseOne DEF Disarming
<1> QED
  BY <1>6, <1>7, <1>12 DEF UseInv, StackUse

\* uevent_add sets active_fd.
LEMMA UseAddFdMark ==
  ASSUME TimersLeftToLoop, LifeInv, UseInv, NEW p \in Threads, AddFdMark(p)
  PROVE  UseInv'
<1>1. Top(p).at \in AddP /\ Calm
  BY DEF AddFdMark, At, AddP, Calm, slots, memory, lists
<1>2. Go(p, "addfdref") /\ "addfdref" \in AddP
  BY DEF AddFdMark, AddP
<1> QED
  BY <1>1, <1>2, UseAddGo

\* uevent_add takes the reference of the epoll set.
LEMMA UseAddFdRef ==
  ASSUME TimersLeftToLoop, LifeInv, UseInv, NEW p \in Threads, AddFdRef(p)
  PROVE  UseInv'
<1>1. Top(p).at \in AddP /\ Calm
  BY DEF AddFdRef, At, AddP, Calm, memory, base, lists, flags
<1>2. \E l \in AddP : Go(p, l)
  BY DEF AddFdRef, TimerPart, AddP
<1> QED
  BY <1>1, <1>2, UseAddGo

\* uevent_add gives modification_lock back.
LEMMA UseAddEnd ==
  ASSUME TimersLeftToLoop, LifeInv, UseInv, NEW p \in Threads, AddEnd(p)
  PROVE  UseInv'
<1>1. Top(p).at \in AddP /\ Calm
  BY DEF AddEnd, At, AddP, Calm, slots, memory, base, lists
<1>2. Go(p, "put")
  BY DEF AddEnd
<1> QED
  BY <1>1, <1>2, UseAddGo

\* A thread inside uevent_add, or inside uevent_try_ref for a caller: the call
\* below it, and its slot.
LEMMA CallPlace ==
  ASSUME LifeInv, NEW q \in Threads, NEW i \in DOMAIN th[q], th[q][i].at \in AddP \cup RefTested
  PROVE  /\ i > 1 /\ i - 1 \in 1 .. Len(th[q]) - 1 /\ i - 1 \in DOMAIN th[q]
         /\ th[q][i].at \in Above(th[q][i - 1].at) /\ U(q) = th[q][i].s
         /\ i = Len(th[q]) \/ (i + 1 = Len(th[q]) /\ th[q][i].at \in RefTested /\ Top(q).at \in RefP)
<1> DEFINE n == Len(th[q])
           j == i - 1
           k == i + 1
<1>1. n \in Nat /\ n > 0 /\ i \in 1 .. n /\ Top(q) = th[q][n] /\ U(q) = Top(q).s /\ DOMAIN th[q] = 1 .. n
  BY TopFacts DEF LifeInv
<1>2. th[q][i].at \notin Ground(q)
  BY DEF Ground, AddP, RefTested, Tested
<1>3. i > 1
  BY <1>1, <1>2 DEF LifeInv, ShapeInv
<1>4. j \in 1 .. n - 1 /\ j + 1 = i
  BY <1>1, <1>3
<1>5. th[q][j + 1].at \in Above(th[q][j].at)
  BY <1>4 DEF LifeInv, ShapeInv
<1>6. CASE i = n
  BY <1>1, <1>3, <1>4, <1>5, <1>6
<1>7. CASE i # n
  <2>1. i \in 1 .. n - 1
    BY <1>1, <1>7
  <2>2. th[q][k].at \in Above(th[q][i].at) /\ (th[q][i].at \in RefTested => th[q][k].s = th[q][i].s)
    BY <2>1 DEF LifeInv, ShapeInv
  <2>3. th[q][i].at \in RefTested /\ th[q][k].at \in RefP
    BY <2>2, AboveWhen DEF AddP, RefTested, Tested
  <2>4. k = n
    <3> SUFFICES ASSUME k # n PROVE FALSE
      OBVIOUS
    <3>1. k \in 1 .. n - 1
      BY <1>1, <2>1
    <3>2. th[q][k + 1].at \in Above(th[q][k].at)
      BY <3>1 DEF LifeInv, ShapeInv
    <3> QED
      BY <2>3, <3>2, AboveWhen DEF RefP, RefTested, Tested
  <2> QED
    BY <1>1, <1>3, <1>4, <1>5, <2>2, <2>3, <2>4
<1> QED
  BY <1>6, <1>7

\* Such a thread uses the slot if a caller of the API is below it.
LEMMA InUse ==
  ASSUME LifeInv, NEW q \in Threads, NEW i \in 1 .. Len(th[q]) - 1, th[q][i].at \in {"idle", "cb"}
  PROVE  Uses(q, U(q))
<1>1. th[q] \in Seq(FrameType) /\ Len(th[q]) > 0 /\ Len(th[q]) \in Nat
  BY TopFacts DEF LifeInv
<1>2. Front(th[q]) \in Seq(FrameType) /\ Len(Front(th[q])) = Len(th[q]) - 1 /\ Front(th[q])[i] = th[q][i]
  BY <1>1, FrontFacts
<1>3. i \in DOMAIN Front(th[q])
  BY <1>1, <1>2
<1>4. th[q][i] \in Range(Front(th[q]))
  BY <1>2, <1>3 DEF Range
<1> QED
  BY <1>4 DEF Uses

\* A thread in uevent_add uses the slot, so that no other call on it is under
\* way under Exclusive.
LEMMA AddUses ==
  ASSUME LifeInv, NEW q \in Threads, NEW i \in DOMAIN th[q], th[q][i].at \in AddC
  PROVE  Uses(q, th[q][i].s)
<1>1. th[q][i].at \in AddP \cup RefTested
  BY DEF AddC, RefTested, Tested
<1>2. i - 1 \in 1 .. Len(th[q]) - 1 /\ th[q][i].at \in Above(th[q][i - 1].at) /\ U(q) = th[q][i].s
  BY <1>1, CallPlace
<1>3. th[q][i - 1].at \in {"idle", "cb"}
  BY <1>2, AboveWhen DEF AddC, AddP, RefP, PutP, DelP, CbP
<1> QED
  BY <1>2, <1>3, InUse

\* The places of the loop itself are the first frame of the loop.
LEMMA LoopPlace ==
  ASSUME LifeInv, NEW q \in Threads, NEW i \in DOMAIN th[q], th[q][i].at \in LoopP
  PROVE  q = Loop /\ i = 1
<1>1. Len(th[q]) \in Nat /\ i \in 1 .. Len(th[q])
  BY TopFacts DEF LifeInv
<1>2. i = 1
  <2> SUFFICES ASSUME i # 1 PROVE FALSE
    OBVIOUS
  <2> DEFINE j == i - 1
  <2>1. j \in 1 .. Len(th[q]) - 1 /\ j + 1 = i
    BY <1>1
  <2>2. th[q][j + 1].at \in Above(th[q][j].at)
    BY <2>1 DEF LifeInv, ShapeInv
  <2>3. \A l, k : k \in Above(l) => k \notin LoopP
    BY AboveWhen DEF LoopP, AddP, RefP, PutP, DelP, CbP
  <2> QED
    BY <2>1, <2>2, <2>3
<1>3. th[q][1].at \in Ground(q)
  BY DEF LifeInv, ShapeInv
<1> QED
  BY <1>2, <1>3 DEF Ground, LoopP

\* The event that is armed has not been freed, and is not being freed.
LEMMA UseAddTimer ==
  ASSUME TimersLeftToLoop, LifeInv, UseInv, NEW p \in Threads, AddTimer(p)
  PROVE  UseInv'
<1>1. Top(p).at = "addtm" /\ Top(p).at \in AddP /\ Top(p).at \in AddC
  BY DEF AddTimer, At, AddP, AddC
<1>2. U(p) \in Slots /\ E(p) \in Events /\ ev[U(p)] = E(p) /\ E(p) = Top(p).o /\ U(p) = Top(p).s
  BY <1>1, AddTop
<1>3. UseFrame(Top(p))
  BY TopFacts DEF UseInv, UseFrames, LifeInv
<1>4. E(p) \notin released /\ E(p) \notin pending_free
  BY <1>1, <1>2, <1>3 DEF UseFrame, Alive
<1>5. Conserved
  BY DEF AddTimer, Conserved, memory
<1>6. UseKept
  BY <1>5, ConservedUse
<1>7. active_timer' = active_timer \cup {E(p)} /\ UNCHANGED <<ev, uev, kind, epoll, reported, pending_free>>
  BY DEF AddTimer, InsertTimer, memory, lists
<1>8. ArmsKept
  <2> SUFFICES ASSUME NEW i \in DOMAIN th[Loop], th[Loop][i].at = "freepend"
               PROVE  th[Loop][i].o # E(p)
    BY <1>7 DEF ArmsKept
  <2>1. FrameInv(Loop, th[Loop][i])
    BY DEF LifeInv, FramesInv, Threads
  <2> QED
    BY <1>4, <2>1 DEF FrameInv
<1>9. EpollUse' /\ TimerUse'
  BY <1>4, <1>7 DEF UseInv, EpollUse, TimerUse
<1>10. PICK g \in FrameType : Replace(p, <<g>>) /\ g.at = "addend" /\ g.s = U(p)
  <2>1. Load(p, "addend", E(p))
    BY DEF AddTimer, Go
  <2>2. Frame("addend", U(p), E(p)) \in FrameType
    BY <1>2, FrameTyped DEF Places
  <2> QED
    BY <2>1, <2>2, LoadFrame
<1>11. UseFrame(g)'
  <2>1. \A f : f = Top(p) => UseFrame(f)'
    BY <1>6, TopFacts DEF UseKept, LifeInv
  <2> QED
    BY <1>1, <1>2, <1>10, <2>1 DEF UseFrame, AddC, AddP
<1>12. StackUse'
  BY <1>1, <1>6, <1>8, <1>10, <1>11, UseOne DEF RefTested, Tested, RefP, Disarming
<1> QED
  BY <1>9, <1>12 DEF UseInv, StackUse

\* uevent_del has its reference, or returns.
LEMMA UseDel ==
  ASSUME TimersLeftToLoop, LifeInv, UseInv, NEW p \in Threads, Del(p)
  PROVE  UseInv'
<1>1. Top(p).at = "delref" /\ Top(p).at \notin Ground(p) /\ U(p) \in Slots /\ Returned(p) = Top(p).ret
  BY CallTop DEF Del, At, RefTested, Tested
<1>2. Calm
  BY DEF Del, Calm, slots, memory, base, lists, flags
<1>3. CASE Returned(p)
  <2>1. Load(p, "delfd", ev[U(p)]) /\ ev[U(p)] \in Events \cup {NULL}
    BY <1>1, <1>3 DEF Del, LifeInv, TypeInv
  <2> QED
    BY <1>2, <2>1, CalmLoad DEF Places, RefTested, Tested, RefP, AddC, AddP, Disarming
<1>4. CASE ~Returned(p)
  <2> DEFINE n == Len(th[p])
  <2>1. n > 1 /\ Top(p) = th[p][n]
    BY <1>1, TopFacts DEF LifeInv
  <2>2. CallOK(th[p])
    BY DEF UseInv, CallInv
  <2>3. Sure(th[p][n - 1]) => th[p][n].ret
    BY <1>1, <2>1, <2>2 DEF CallOK, RefTested, Tested
  <2>4. th[p][n - 1].at # "freepend"
    BY <1>1, <1>4, <2>1, <2>3 DEF Sure
  <2>5. Return(p, FALSE) /\ Top(p).at \notin RefP
    BY <1>1, <1>4 DEF Del, RefP
  <2> QED
    BY <1>1, <1>2, <2>4, <2>5, CalmFacts, UsePop
<1> QED
  BY <1>3, <1>4

\* uevent_del clears active_fd.
LEMMA UseDelFdFlag ==
  ASSUME TimersLeftToLoop, LifeInv, UseInv, NEW p \in Threads, DelFdFlag(p)
  PROVE  UseInv'
<1>1. Calm
  BY DEF DelFdFlag, Calm, slots, memory, base, lists
<1>2. Go(p, "delctl") \/ Go(p, "deltm")
  BY DEF DelFdFlag
<1>3. \A l \in {"delctl", "deltm"} :
        /\ l \in Places /\ l \in Disarming /\ l \notin AddC
        /\ l \notin RefTested \cup RefP \cup {"eptest", "epauto", "tput", "tcb", "freepend"}
  BY DEF Places, Disarming, RefTested, Tested, RefP, AddC, AddP
<1> QED
  BY <1>1, <1>2, <1>3, CalmGo

\* uevent_del takes the descriptor out of the epoll set.
LEMMA UseDelFdCtl ==
  ASSUME TimersLeftToLoop, LifeInv, UseInv, NEW p \in Threads, DelFdCtl(p)
  PROVE  UseInv'
<1>1. Top(p).at = "delctl" /\ U(p) \in Slots /\ E(p) \in Events \cup {NULL}
  BY CallTop DEF DelFdCtl, At, DelP
<1>2. Calm
  BY DEF DelFdCtl, Calm, slots, memory, lists, flags
<1>3. Frame("deltm", U(p), E(p)) \in FrameType /\ Frame("put", U(p), NULL) \in FrameType
  BY <1>1, FrameTyped DEF Places
<1>4. PICK g \in FrameType, h \in FrameType :
        Replace(p, <<g, h>>) /\ g.at = "deltm" /\ h.at = "put" /\ g.s = U(p) /\ h.s = U(p)
  <2>1. Replace(p, <<Frame("deltm", U(p), E(p)), Frame("put", U(p), NULL)>>)
    BY <1>3, AppendTwo DEF DelFdCtl, Call, Enter
  <2> QED
    BY <1>3, <2>1 DEF Frame
<1>5. UseFrame(g)' /\ UseFrame(h)'
  BY <1>4, UsePlain DEF AddC, AddP
<1>6. g.at \in Disarming /\ h.at \notin RefTested \cup RefP \cup {"tput", "freepend"} /\ Top(p).at \notin PutP
  BY <1>1, <1>4 DEF Disarming, RefTested, Tested, RefP, PutP
<1>7. StackUse'
  BY <1>2, <1>4, <1>5, <1>6, CalmFacts, UseTwo
<1> QED
  BY <1>2, <1>7, CalmFacts

\* From here on the timer of the event is not armed.
LEMMA UseDelTimerFlag ==
  ASSUME TimersLeftToLoop, LifeInv, UseInv, NEW p \in Threads, DelTimerFlag(p)
  PROVE  UseInv'
<1>1. Calm
  BY DEF DelTimerFlag, Calm, slots, memory, base, lists
<1>2. Go(p, "delheap") \/ Go(p, "put")
  BY DEF DelTimerFlag
<1>3. Top(p).at \in DelP /\ E(p) \notin active_timer'
  BY DEF DelTimerFlag, At, DelP
<1>4. \A l \in {"delheap", "put"} :
        /\ l \in Places /\ l \notin AddC
        /\ l \notin RefTested \cup RefP \cup {"eptest", "epauto", "tput", "tcb", "freepend"}
  BY DEF Places, RefTested, Tested, RefP, AddC, AddP
<1> QED
  BY <1>1, <1>2, <1>3, <1>4, CalmGo

\* uevent_del takes the timer out of the heap.
LEMMA UseDelTimerHeap ==
  ASSUME TimersLeftToLoop, LifeInv, UseInv, NEW p \in Threads, DelTimerHeap(p)
  PROVE  UseInv'
<1>1. Top(p).at = "delheap" /\ U(p) \in Slots /\ E(p) \in Events \cup {NULL}
  BY CallTop DEF DelTimerHeap, At, DelP
<1>2. Calm
  BY DEF DelTimerHeap, Calm, slots, memory, lists, flags
<1>3. Frame("put", U(p), E(p)) \in FrameType /\ Frame("put", U(p), NULL) \in FrameType
  BY <1>1, FrameTyped DEF Places
<1>4. PICK g \in FrameType, h \in FrameType :
        Replace(p, <<g, h>>) /\ g.at = "put" /\ h.at = "put" /\ g.s = U(p) /\ h.s = U(p)
  <2>1. Replace(p, <<Frame("put", U(p), E(p)), Frame("put", U(p), NULL)>>)
    BY <1>3, AppendTwo DEF DelTimerHeap, Call, Enter
  <2> QED
    BY <1>3, <2>1 DEF Frame
<1>5. UseFrame(g)' /\ UseFrame(h)'
  BY <1>4, UsePlain DEF AddC, AddP
<1>6. Top(p).at \notin Disarming /\ h.at \notin RefTested \cup RefP \cup {"tput", "freepend"} /\ Top(p).at \notin PutP
  BY <1>1, <1>4 DEF Disarming, RefTested, Tested, RefP, PutP
<1>7. StackUse'
  BY <1>2, <1>4, <1>5, <1>6, CalmFacts, UseTwo
<1> QED
  BY <1>2, <1>7, CalmFacts

\* The callback takes modification_lock and gives it back.
LEMMA UseCb ==
  ASSUME TimersLeftToLoop, LifeInv, UseInv, NEW p \in Threads, CbLock(p) \/ CbEnd(p)
  PROVE  UseInv'
<1>1. Calm
  BY DEF CbLock, CbEnd, Calm, slots, memory, base, lists
<1>2. Go(p, "cb") \/ Go(p, "put")
  BY DEF CbLock, CbEnd
<1>3. Top(p).at \notin Disarming
  BY DEF CbLock, CbEnd, At, Disarming
<1>4. \A l \in {"cb", "put"} :
        /\ l \in Places /\ l \notin AddC
        /\ l \notin RefTested \cup RefP \cup {"eptest", "epauto", "tput", "tcb", "freepend"}
  BY DEF Places, RefTested, Tested, RefP, AddC, AddP
<1> QED
  BY <1>1, <1>2, <1>3, <1>4, CalmGo

\* A new event is in no slot and in no list.
LEMMA UseCreateBegin ==
  ASSUME TimersLeftToLoop, LifeInv, UseInv, NEW p \in Threads, NEW k \in Kinds, NEW o \in Events,
         CreateBegin(p, k, o)
  PROVE  UseInv'
<1>1. /\ MayCall(p, "create", k) /\ free_uev # <<>> /\ mem[o] = "none"
      /\ kind' = [kind EXCEPT ![o] = k] /\ uev' = [uev EXCEPT ![o] = Last(free_uev)]
      /\ Replace(p, <<Here(p), Frame("create", Last(free_uev), o)>>)
      /\ UNCHANGED <<ev, released, epoll, reported, active_timer, pending_free>>
  BY DEF CreateBegin, base, lists, flags
<1>2. \A t \in Slots : ev[t] # NULL => ev[t] # o /\ ev[t] \in Events
  BY <1>1 DEF LifeInv, EventInv, TypeInv
<1>3. o \notin epoll /\ epoll \subseteq Events
  BY <1>2, LifeAssumption DEF UseInv, EpollUse, LifeInv, EpollInv, TypeInv
<1>4. Conserved
  <2>1. \A s \in Slots : ev[s] # NULL => kind'[ev[s]] = kind[ev[s]]
    BY <1>1, <1>2 DEF LifeInv, TypeInv
  <2>2. \A x \in epoll : uev'[x] = uev[x]
    BY <1>1, <1>3 DEF LifeInv, TypeInv
  <2> QED
    BY <1>1, <2>1, <2>2 DEF Conserved
<1>5. UseKept
  BY <1>4, ConservedUse
<1>6. ArmsKept /\ TimerUse' /\ EpollUse'
  BY <1>1, <1>5 DEF ArmsKept, TimerUse, UseInv, UseKept, EpollUse
<1>7. Last(free_uev) \in Slots
  BY <1>1, TakeSlot DEF LifeInv, TypeInv
<1>8. PICK g \in FrameType, h \in FrameType :
        Replace(p, <<g, h>>) /\ g.at = Top(p).at /\ h.at = "create" /\ Top(p).at \in {"idle", "cb"}
  <2>1. Frame("create", Last(free_uev), o) \in FrameType
    BY <1>7, FrameTyped DEF Places
  <2>2. Frame("create", Last(free_uev), o).at = "create"
    BY DEF Frame
  <2>3. Here(p) \in FrameType /\ Here(p).at = Top(p).at /\ Top(p).at \in {"idle", "cb"}
    BY <1>1, CallerFacts
  <2> QED
    BY <1>1, <2>1, <2>2, <2>3
<1>9. UseFrame(g)' /\ UseFrame(h)'
  BY <1>8, UsePlain DEF AddC, AddP
<1>10. /\ g.at \notin {"freepend", "deltm", "tput"} /\ h.at \notin RefTested \cup RefP \cup {"tput", "freepend"}
       /\ Top(p).at \notin DelP \cup PutP \cup {"delref"} /\ Top(p).at \notin Disarming
  BY <1>8 DEF RefTested, Tested, RefP, DelP, PutP, Disarming
<1>11. StackUse'
  BY <1>5, <1>6, <1>8, <1>9, <1>10, UseTwo
<1> QED
  BY <1>6, <1>11 DEF UseInv, StackUse

\* A new event is published.
LEMMA UseCreateStore ==
  ASSUME TimersLeftToLoop, LifeInv, UseInv, NEW p \in Threads, CreateStore(p)
  PROVE  UseInv'
<1>1. Top(p).at = "create" /\ FrameInv(p, Top(p)) /\ U(p) = Top(p).s
  BY TopKnown DEF CreateStore, At
<1>2. ev[U(p)] = NULL
  BY <1>1 DEF FrameInv
<1>3. ev' = [ev EXCEPT ![U(p)] = E(p)] /\ Return(p, FALSE)
      /\ UNCHANGED <<kind, uev, released, epoll, reported, active_timer, pending_free>>
  BY DEF CreateStore, memory, base, lists, flags
<1>4. Conserved
  BY <1>2, <1>3 DEF Conserved, Alive, LifeInv, TypeInv
<1>5. UseKept
  BY <1>4, ConservedUse
<1>6. ArmsKept /\ TimerUse' /\ EpollUse'
  BY <1>3, <1>5 DEF ArmsKept, TimerUse, UseInv, UseKept, EpollUse
<1>7. Top(p).at \notin Ground(p) /\ Top(p).at \notin RefP /\ Top(p).at \notin Disarming
  BY <1>1 DEF Ground, RefP, Disarming
<1>8. StackUse'
  BY <1>3, <1>5, <1>6, <1>7, UsePop
<1> QED
  BY <1>6, <1>8 DEF UseInv, StackUse

\* uevent_free finds its event, and so will the uevent_del it calls.
LEMMA UseFree ==
  ASSUME TimersLeftToLoop, LifeInv, UseInv, NEW p \in Threads, Free(p)
  PROVE  UseInv'
<1>1. Top(p).at = "free" /\ U(p) \in Slots /\ FrameInv(p, Top(p)) /\ U(p) = Top(p).s
  BY CallTop DEF Free, At
<1>2. Calm
  BY DEF Free, Calm, slots, memory, base, lists, flags
<1>3. ev[U(p)] # NULL /\ ev[U(p)] \notin pending_free /\ Alive(U(p)) /\ ev[U(p)] \in Events
  BY <1>1 DEF FrameInv, Alive, LifeInv, TypeInv
<1>4. refcount[U(p)] \in Nat /\ refcount[U(p)] >= 1
  BY <1>1, <1>3, Positive DEF LifeInv
<1>5. TryRefThen(p, U(p), "delref", Frame("freepend", U(p), ev[U(p)]))
  <2>1. ~(refcount[U(p)] < 1)
    BY <1>4
  <2> QED
    BY <1>3, <2>1, Zenon DEF Free
<1>6. Frame("freepend", U(p), ev[U(p)]) \in FrameType
  BY <1>1, <1>3, FrameTyped DEF Places
<1>7. PICK g \in FrameType : TryRefThen(p, U(p), "delref", g) /\ g.at = "freepend" /\ g.s = U(p)
  BY <1>5, <1>6 DEF Frame
<1>8. UseFrame(g)
  BY <1>7, UsePlain DEF AddC, AddP
<1>9. \A h : h.s = U(p) => Known(g, h)
  BY <1>3, <1>7 DEF Known
<1>10. "delref" \in RefTested /\ Top(p).at \notin DelP \cup PutP \cup {"delref"}
  BY <1>1 DEF RefTested, Tested, DelP, PutP
<1> QED
  BY <1>1, <1>2, <1>7, <1>8, <1>9, <1>10, CalmCall

-----------------------------------------------------------------------------
(* The loop and the worker.                                                *)

\* The loop is a thread.
LEMMA LoopIsThread ==
  Loop \in Threads /\ Worker \in Threads
  BY DEF Threads

\* What epoll_wait reports is registered.
LEMMA UseEpollWait ==
  ASSUME TimersLeftToLoop, LifeInv, UseInv, EpollWait
  PROVE  UseInv'
<1>1. At(Loop, "wait") /\ Go(Loop, "tlock") /\ UNCHANGED <<ev, kind, uev, released, epoll, active_timer, pending_free>>
  BY DEF EpollWait, slots, memory, base, flags
<1>2. PICK r \in SUBSET epoll : reported' = {uev[o] : o \in r}
  BY DEF EpollWait
<1>3. Conserved
  BY <1>1 DEF Conserved
<1>4. UseKept
  BY <1>3, ConservedUse
<1>5. ArmsKept /\ TimerUse'
  BY <1>1 DEF ArmsKept, TimerUse, UseInv
<1>6. EpollUse'
  <2>1. \A o \in epoll : ev[uev[o]] = o /\ "fd" \in kind[o] /\ o # NULL
    BY LifeAssumption DEF UseInv, EpollUse, LifeInv, TypeInv
  <2> QED
    BY <1>1, <1>2, <2>1 DEF EpollUse
<1>7. Top(Loop).at = "wait" /\ U(Loop) \in Slots \cup {NULL} /\ E(Loop) \in Events \cup {NULL}
  BY <1>1, LoopTop DEF LoopP
<1>8. PICK g \in FrameType : Replace(Loop, <<g>>) /\ g.at = "tlock"
  <2>1. Frame("tlock", U(Loop), E(Loop)) \in FrameType
    BY <1>7, FrameTyped DEF Places
  <2> QED
    BY <1>1, <2>1, LoadFrame, LoopIsThread DEF Go
<1>9. UseFrame(g)'
  BY <1>8, UsePlain DEF AddC, AddP
<1>10. /\ Top(Loop).at \notin DelP \cup PutP \cup {"delref"} /\ Top(Loop).at \notin Disarming
       /\ g.at \notin RefTested \cup RefP \cup {"tput", "freepend"}
  BY <1>7, <1>8 DEF DelP, PutP, Disarming, RefTested, Tested, RefP
<1>11. StackUse'
  BY <1>4, <1>5, <1>8, <1>9, <1>10, UseOne, LoopIsThread
<1> QED
  BY <1>5, <1>6, <1>11 DEF UseInv, StackUse

\* The loop goes on to a place about which the invariant says nothing.
LEMMA UseLoopGo ==
  ASSUME TimersLeftToLoop, LifeInv, UseInv, TimersLock \/ TimersEnd \/ EpollEnd
  PROVE  UseInv'
<1>1. Calm
  BY DEF TimersLock, TimersEnd, EpollEnd, Calm, slots, memory, base, lists, flags
<1>2. Go(Loop, "tmin") \/ Go(Loop, "epoll") \/ Go(Loop, "wait")
  BY DEF TimersLock, TimersEnd, EpollEnd
<1>3. Top(Loop).at \notin Disarming
  BY DEF TimersLock, TimersEnd, EpollEnd, At, Disarming
<1>4. \A l \in {"tmin", "epoll", "wait"} :
        /\ l \in Places /\ l \notin AddC
        /\ l \notin RefTested \cup RefP \cup {"eptest", "epauto", "tput", "tcb", "freepend"}
  BY DEF Places, RefTested, Tested, RefP, AddC, AddP
<1> QED
  BY <1>1, <1>2, <1>3, <1>4, CalmGo, LoopIsThread

\* A timer that is due has its event, which nobody else frees.
LEMMA UseTimerTake ==
  ASSUME TimersLeftToLoop, LifeInv, UseInv, NEW o \in Events, TimerTake(o)
  PROVE  UseInv'
<1>1. At(Loop, "tmin") /\ o \in heap /\ Enter(Loop, "put", uev[o], <<Frame("tput", uev[o], o)>>)
  BY DEF TimerTake
<1>2. Calm
  BY DEF TimerTake, Calm, slots, memory, lists
<1>3. Top(Loop).at = "tmin"
  BY <1>1, LoopTop DEF LoopP
<1>4. o \in active_timer
  BY <1>1, <1>3 DEF LifeInv, EventInv, At
<1>5. uev[o] \in Slots /\ ev[uev[o]] = o /\ ~Stops(kind[o]) /\ o \notin pending_free /\ o # NULL
  BY <1>4, LifeAssumption DEF LifeInv, EventInv, UseInv, TimerUse
<1>6. Frame("tput", uev[o], o) \in FrameType /\ Frame("put", uev[o], NULL) \in FrameType
  BY <1>5, FrameTyped DEF Places
<1>7. PICK g \in FrameType, h \in FrameType :
        Replace(Loop, <<g, h>>) /\ g.at = "tput" /\ g.s = uev[o] /\ g.o = o /\ h.at = "put"
  <2>1. Replace(Loop, <<Frame("tput", uev[o], o), Frame("put", uev[o], NULL)>>)
    BY <1>1, <1>6, AppendTwo DEF Enter
  <2> QED
    BY <1>6, <2>1 DEF Frame
<1>8. UseFrame(h)'
  BY <1>7, UsePlain DEF AddC, AddP
<1>9. UseFrame(g)'
  BY <1>2, <1>5, <1>7 DEF UseFrame, AddC, AddP, Calm, Stops, Outside
<1>10. Len(th[Loop]) = 1
  BY <1>1, AlonePlace DEF LoopP
<1>11. /\ h.at \notin RefTested \cup RefP \cup {"tput", "freepend"}
       /\ Top(Loop).at \notin DelP \cup PutP \cup {"delref"} /\ Top(Loop).at \notin Disarming
  BY <1>3, <1>7 DEF RefTested, Tested, RefP, DelP, PutP, Disarming
<1>12. StackUse'
  BY <1>2, <1>7, <1>8, <1>9, <1>10, <1>11, CalmFacts, UseTwo, LoopIsThread
<1> QED
  BY <1>2, <1>12, CalmFacts

\* What is armed again is not being freed: the loop is in no call.
LEMMA UseTimerRearm ==
  ASSUME TimersLeftToLoop, LifeInv, UseInv, TimerRearm
  PROVE  UseInv'
<1>1. At(Loop, "tput") /\ UNCHANGED <<ev, kind, uev, released, epoll, reported, pending_free>>
  BY DEF TimerRearm, memory, lists
<1>2. \A o \in active_timer' : o \in active_timer \/ o \notin pending_free
  BY DEF TimerRearm, InsertTimer
<1>3. /\ Top(Loop).at = "tput" /\ U(Loop) \in Slots /\ E(Loop) \in Events \cup {NULL}
      /\ U(Loop) = Top(Loop).s /\ E(Loop) = Top(Loop).o
  BY <1>1, LoopTop DEF LoopP, Unslotted
<1>4. Conserved
  BY <1>1 DEF Conserved
<1>5. UseKept
  BY <1>4, ConservedUse
<1>6. Len(th[Loop]) = 1
  BY <1>1, AlonePlace DEF LoopP
<1>7. ArmsKept
  <2>1. \A i \in DOMAIN th[Loop] : th[Loop][i] = Top(Loop)
    BY <1>6, TopFacts, LoopIsThread DEF LifeInv
  <2> QED
    BY <1>3, <2>1 DEF ArmsKept
<1>8. TimerUse' /\ EpollUse'
  BY <1>1, <1>2 DEF TimerUse, EpollUse, UseInv
<1>9. Frame("tmin", U(Loop), NULL) \in FrameType /\ Frame("tcb", U(Loop), E(Loop)) \in FrameType
  BY <1>3, FrameTyped DEF Places
<1>10. Load(Loop, "tmin", NULL) \/ Load(Loop, "tcb", E(Loop))
  BY DEF TimerRearm, Go
<1>11. PICK g \in FrameType : Replace(Loop, <<g>>) /\ (g.at = "tmin" \/ (g.at = "tcb" /\ g.s = U(Loop) /\ g.o = E(Loop)))
  BY <1>9, <1>10, LoadFrame, LoopIsThread
<1>12. UseFrame(g)'
  <2>1. \A f : f = Top(Loop) => UseFrame(f)'
    BY <1>5, TopFacts, LoopIsThread DEF UseKept, LifeInv
  <2> QED
    BY <1>3, <1>11, <2>1 DEF UseFrame, AddC, AddP
<1>13. /\ Top(Loop).at \notin DelP \cup PutP \cup {"delref"} /\ Top(Loop).at \notin Disarming
       /\ g.at \notin RefTested \cup RefP \cup {"tput", "freepend"}
  BY <1>3, <1>11 DEF DelP, PutP, Disarming, RefTested, Tested, RefP
<1>14. StackUse'
  BY <1>5, <1>7, <1>11, <1>12, <1>13, UseOne, LoopIsThread
<1> QED
  BY <1>8, <1>14 DEF UseInv, StackUse

\* The event of a timer that fired is still there.
LEMMA UseTimerCallback ==
  ASSUME TimersLeftToLoop, LifeInv, UseInv, TimerCallback
  PROVE  UseInv'
<1>1. /\ Top(Loop).at = "tcb" /\ U(Loop) \in Slots /\ E(Loop) \in Events \cup {NULL}
      /\ U(Loop) = Top(Loop).s /\ E(Loop) = Top(Loop).o
  BY LoopTop DEF TimerCallback, LoopP, Unslotted
<1>2. Calm
  BY DEF TimerCallback, Calm, slots, memory, base, lists, flags
<1>3. UseFrame(Top(Loop))
  BY TopFacts, LoopIsThread DEF UseInv, UseFrames, LifeInv
<1>4. E(Loop) # NULL /\ ev[U(Loop)] = E(Loop) /\ E(Loop) \notin pending_free /\ ~Stops(kind[E(Loop)])
  BY <1>1, <1>3 DEF UseFrame
<1>5. NoFrame("tlock") \in FrameType
  BY FrameTyped DEF NoFrame, Places
<1>6. PICK g \in FrameType : TryRefThen(Loop, U(Loop), "dispref", g) /\ g.at = "tlock"
  BY <1>4, <1>5 DEF TimerCallback, NoFrame, Frame
<1>7. UseFrame(g)
  BY <1>6, UsePlain DEF AddC, AddP
<1>8. \A h : h.s = U(Loop) => Known(g, h)
  BY <1>4, <1>6 DEF Known, Alive
<1>9. "dispref" \in RefTested /\ Top(Loop).at \notin DelP \cup PutP \cup {"delref"}
  BY <1>1 DEF RefTested, Tested, DelP, PutP
<1> QED
  BY <1>1, <1>2, <1>6, <1>7, <1>8, <1>9, CalmCall, LoopIsThread

\* What epoll reported has its event, though the loop owns no reference to it.
LEMMA UseEpollNext ==
  ASSUME TimersLeftToLoop, LifeInv, UseInv, EpollNext
  PROVE  UseInv'
<1>1. Top(Loop).at = "epoll"
  BY DEF EpollNext, At
<1>2. PICK s \in reported : reported' = reported \ {s} /\ Replace(Loop, <<Frame("eptest", s, ev[s])>>)
  BY DEF EpollNext
<1>3. Calm
  BY <1>2 DEF EpollNext, Calm, slots, memory, base, flags
<1>4. s \in Slots /\ ev[s] # NULL /\ "fd" \in kind[ev[s]] /\ ev[s] \in Events \cup {NULL}
  BY DEF UseInv, EpollUse, LifeInv, EpollInv, TypeInv
<1>5. Frame("eptest", s, ev[s]) \in FrameType
  BY <1>4, FrameTyped DEF Places
<1>6. PICK g \in FrameType : Replace(Loop, <<g>>) /\ g.at = "eptest" /\ g.s = s /\ g.o = ev[s]
  BY <1>2, <1>5 DEF Frame
<1>7. UseFrame(g)'
  BY <1>3, <1>4, <1>6 DEF UseFrame, AddC, AddP, Calm
<1>8. /\ Top(Loop).at \notin DelP \cup PutP \cup {"delref"} /\ Top(Loop).at \notin Disarming
      /\ g.at \notin RefTested \cup RefP \cup {"tput", "freepend"}
  BY <1>1, <1>6 DEF DelP, PutP, Disarming, RefTested, Tested, RefP
<1>9. StackUse'
  BY <1>3, <1>6, <1>7, <1>8, CalmFacts, UseOne, LoopIsThread
<1> QED
  BY <1>3, <1>9, CalmFacts

\* The loop handles a descriptor: its event is never freed.
LEMMA EpollKnown ==
  ASSUME TimersLeftToLoop, LifeInv, UseInv, NEW l \in {"eptest", "epauto"}, At(Loop, l)
  PROVE  /\ Top(Loop).at = l /\ U(Loop) \in Slots /\ E(Loop) \in Events \cup {NULL}
         /\ U(Loop) = Top(Loop).s /\ E(Loop) = Top(Loop).o
         /\ E(Loop) # NULL /\ ev[U(Loop)] = E(Loop) /\ "fd" \in kind[E(Loop)] /\ Alive(U(Loop))
<1>1. /\ Top(Loop).at = l /\ U(Loop) \in Slots /\ E(Loop) \in Events \cup {NULL}
      /\ U(Loop) = Top(Loop).s /\ E(Loop) = Top(Loop).o
  BY LoopTop DEF LoopP, Unslotted
<1>2. UseFrame(Top(Loop))
  BY TopFacts, LoopIsThread DEF UseInv, UseFrames, LifeInv
<1>3. E(Loop) # NULL /\ ev[U(Loop)] = E(Loop) /\ "fd" \in kind[E(Loop)]
  BY <1>1, <1>2 DEF UseFrame
<1> QED
  BY <1>1, <1>3, FdAlive

\* The loop tests a reported descriptor.
LEMMA UseEpollTest ==
  ASSUME TimersLeftToLoop, LifeInv, UseInv, EpollTest
  PROVE  UseInv'
<1>1. /\ Top(Loop).at = "eptest" /\ U(Loop) \in Slots /\ E(Loop) \in Events \cup {NULL}
      /\ E(Loop) # NULL /\ ev[U(Loop)] = E(Loop) /\ "fd" \in kind[E(Loop)] /\ Alive(U(Loop))
  BY EpollKnown DEF EpollTest
<1>2. Calm
  BY DEF EpollTest, Calm, slots, memory, base, lists, flags
<1>3. Top(Loop).at \notin DelP \cup PutP \cup {"delref"} /\ Top(Loop).at \notin Disarming
  BY <1>1 DEF DelP, PutP, Disarming
<1>4. CASE E(Loop) \notin active_fd
  <2>1. Load(Loop, "epoll", NULL)
    BY <1>4 DEF EpollTest
  <2> QED
    BY <1>2, <1>3, <2>1, CalmLoad, LoopIsThread DEF Places, RefTested, Tested, RefP, AddC, AddP
<1>5. CASE E(Loop) \in active_fd
  <2>1. TryRefThen(Loop, U(Loop), "dispref", Frame("epauto", U(Loop), E(Loop)))
    BY <1>1, <1>5 DEF EpollTest, Alive
  <2>2. Frame("epauto", U(Loop), E(Loop)) \in FrameType
    BY <1>1, FrameTyped DEF Places
  <2>3. PICK g \in FrameType :
          TryRefThen(Loop, U(Loop), "dispref", g) /\ g.at = "epauto" /\ g.s = U(Loop) /\ g.o = E(Loop)
    BY <2>1, <2>2 DEF Frame
  <2>4. UseFrame(g)
    BY <1>1, <2>3 DEF UseFrame, AddC, AddP
  <2>5. \A h : h.s = U(Loop) => Known(g, h)
    BY <1>1, <2>3 DEF Known
  <2>6. "dispref" \in RefTested
    BY DEF RefTested, Tested
  <2> QED
    BY <1>1, <1>2, <1>3, <2>3, <2>4, <2>5, <2>6, CalmCall, LoopIsThread
<1> QED
  BY <1>4, <1>5

\* The loop deletes a descriptor that is not persistent.
LEMMA UseEpollAutoDel ==
  ASSUME TimersLeftToLoop, LifeInv, UseInv, EpollAutoDel
  PROVE  UseInv'
<1>1. /\ Top(Loop).at = "epauto" /\ U(Loop) \in Slots /\ E(Loop) \in Events \cup {NULL}
      /\ E(Loop) # NULL /\ ev[U(Loop)] = E(Loop) /\ "fd" \in kind[E(Loop)] /\ Alive(U(Loop))
  BY EpollKnown DEF EpollAutoDel
<1>2. Calm
  BY DEF EpollAutoDel, Calm, slots, memory, base, lists, flags
<1>3. Top(Loop).at \notin DelP \cup PutP \cup {"delref"} /\ Top(Loop).at \notin Disarming
  BY <1>1 DEF DelP, PutP, Disarming
<1>4. CASE "persist" \in kind[E(Loop)]
  <2>1. Load(Loop, "epoll", NULL)
    BY <1>4 DEF EpollAutoDel
  <2> QED
    BY <1>2, <1>3, <2>1, CalmLoad, LoopIsThread DEF Places, RefTested, Tested, RefP, AddC, AddP
<1>5. CASE "persist" \notin kind[E(Loop)]
  <2>1. TryRefThen(Loop, U(Loop), "delref", NoFrame("epoll"))
    BY <1>5 DEF EpollAutoDel
  <2>2. NoFrame("epoll") \in FrameType
    BY FrameTyped DEF NoFrame, Places
  <2>3. PICK g \in FrameType : TryRefThen(Loop, U(Loop), "delref", g) /\ g.at = "epoll"
    BY <2>1, <2>2 DEF NoFrame, Frame
  <2>4. UseFrame(g)
    BY <2>3, UsePlain DEF AddC, AddP
  <2>5. \A h : h.s = U(Loop) => Known(g, h)
    BY <1>1, <2>3 DEF Known
  <2>6. "delref" \in RefTested
    BY DEF RefTested, Tested
  <2> QED
    BY <1>1, <1>2, <1>3, <2>3, <2>4, <2>5, <2>6, CalmCall, LoopIsThread
<1> QED
  BY <1>4, <1>5

\* The callers of uevent_try_ref that go on to a callback.
LEMMA UseDispatch ==
  ASSUME TimersLeftToLoop, LifeInv, UseInv, NEW p \in Threads,
         (p = Worker /\ WorkerRef) \/ (p = Loop /\ Dispatch(Loop))
  PROVE  UseInv'
<1>1. Top(p).at \in {"dispref", "wref"}
  BY DEF WorkerRef, Dispatch, At
<1>2. Top(p).at \notin Ground(p) /\ U(p) \in Slots
  BY <1>1, CallTop DEF At, RefTested, Tested
<1>3. Calm
  BY DEF WorkerRef, Dispatch, Calm, slots, memory, base, lists, flags
<1>4. Top(p).at \notin RefP /\ Top(p).at \notin Disarming
  BY <1>1 DEF RefP, Disarming
<1>5. Return(p, FALSE) \/ Go(p, "put") \/ Load(p, "cblock", ev[U(p)])
  BY DEF WorkerRef, Dispatch
<1>6. ev[U(p)] \in Events \cup {NULL}
  BY <1>2 DEF LifeInv, TypeInv
<1>7. CASE Return(p, FALSE)
  BY <1>2, <1>3, <1>4, <1>7, CalmPop
<1>8. CASE Go(p, "put")
  BY <1>3, <1>4, <1>8, CalmGo DEF Places, RefTested, Tested, RefP, AddC, AddP
<1>9. CASE Load(p, "cblock", ev[U(p)])
  BY <1>3, <1>4, <1>6, <1>9, CalmLoad DEF Places, RefTested, Tested, RefP, AddC, AddP
<1> QED
  BY <1>5, <1>7, <1>8, <1>9

\* The worker takes a task.
LEMMA UseWorkerTake ==
  ASSUME TimersLeftToLoop, LifeInv, UseInv, WorkerTake
  PROVE  UseInv'
<1>1. Top(Worker).at = "wtake" /\ queue # <<>>
      /\ TryRefThen(Worker, Head(queue), "wref", Frame("wfinal", Head(queue), NULL))
  BY DEF WorkerTake, At
<1>2. Calm
  BY DEF WorkerTake, Calm, slots, memory, base, flags
<1>3. Head(queue) \in Slots
  BY <1>1, QueuedTail DEF LifeInv, TypeInv
<1>4. Frame("wfinal", Head(queue), NULL) \in FrameType
  BY <1>3, FrameTyped DEF Places
<1>5. PICK g \in FrameType : TryRefThen(Worker, Head(queue), "wref", g) /\ g.at = "wfinal"
  BY <1>1, <1>4 DEF Frame
<1>6. UseFrame(g)
  BY <1>5, UsePlain DEF AddC, AddP
<1>7. "wref" \in RefTested /\ Top(Worker).at \notin DelP \cup PutP \cup {"delref"}
  BY <1>1 DEF RefTested, Tested, DelP, PutP
<1> QED
  BY <1>2, <1>3, <1>5, <1>6, <1>7, CalmCall, LoopIsThread

\* The worker drops the reference of the task.
LEMMA UseWorkerFinal ==
  ASSUME TimersLeftToLoop, LifeInv, UseInv, WorkerFinal
  PROVE  UseInv'
<1>1. Top(Worker).at = "wfinal" /\ Worker # Loop
  BY DEF WorkerFinal, At, Worker, Loop
<1>2. Calm
  BY DEF WorkerFinal, Calm, slots, memory, base, lists
<1>3. Top(Worker).at \notin DelP \cup PutP \cup {"delref"} /\ Top(Worker).at \notin Disarming
  BY <1>1 DEF DelP, PutP, Disarming
<1>4. NoFrame("wtake") \in FrameType /\ NoFrame("wtake").at = "wtake"
  BY FrameTyped DEF NoFrame, Places, Frame
<1>5. CASE Replace(Worker, <<NoFrame("wtake")>>)
  <2>1. PICK g \in FrameType : Replace(Worker, <<g>>) /\ g.at = "wtake"
    BY <1>4, <1>5
  <2> QED
    BY <1>2, <1>3, <2>1, CalmOne, LoopIsThread DEF RefTested, Tested, RefP, AddC, AddP
<1>6. CASE Enter(Worker, "put", U(Worker), <<NoFrame("wtake")>>)
  <2>1. U(Worker) \in Slots \cup {NULL}
    BY TopFacts, LoopIsThread DEF LifeInv, FrameType
  <2>2. Frame("put", U(Worker), NULL) \in FrameType /\ Frame("put", U(Worker), NULL).at = "put"
    BY <2>1, FrameTyped DEF Places, Frame
  <2>3. PICK g \in FrameType, h \in FrameType : Replace(Worker, <<g, h>>) /\ g.at = "wtake" /\ h.at = "put"
    BY <1>4, <1>6, <2>2, AppendTwo DEF Enter
  <2>4. UseFrame(g)' /\ UseFrame(h)'
    BY <2>3, UsePlain DEF AddC, AddP
  <2>5. h.at \notin RefTested \cup RefP \cup {"tput", "freepend"}
    BY <2>3 DEF RefTested, Tested, RefP
  <2>6. StackUse'
    BY <1>1, <1>2, <1>3, <2>3, <2>4, <2>5, CalmFacts, UseTwo, LoopIsThread
  <2> QED
    BY <1>2, <2>6, CalmFacts
<1> QED
  BY <1>5, <1>6 DEF WorkerFinal

-----------------------------------------------------------------------------
(* uevent_free.                                                            *)

\* The caller of a function that waits for uevent_try_ref.
LEMMA TestedCaller ==
  ASSUME LifeInv, NEW q \in Threads, NEW j \in 1 .. Len(th[q]) - 1, th[q][j + 1].at \in RefTested \ {"wref"}
  PROVE  /\ j \in DOMAIN th[q] /\ j + 1 \in DOMAIN th[q] /\ th[q][j + 1].s \in Slots /\ U(q) = th[q][j + 1].s
         /\ th[q][j].at \in {"idle", "cb", "freepend", "epoll", "tlock", "epauto"}
<1>1. Len(th[q]) \in Nat /\ DOMAIN th[q] = 1 .. Len(th[q])
  BY TopFacts DEF LifeInv
<1>2. j \in Nat /\ j \in DOMAIN th[q] /\ j + 1 \in DOMAIN th[q]
  BY <1>1
<1>3. th[q][j + 1].at \in Above(th[q][j].at)
  BY DEF LifeInv, ShapeInv
<1>4. th[q][j].at \in {"idle", "cb", "freepend", "epoll", "tlock", "epauto"}
  BY <1>3, AboveWhen DEF RefTested, Tested, RefP, PutP, AddP, DelP, CbP
<1>5. th[q][j + 1].at \notin Unslotted
  BY DEF RefTested, Tested, Unslotted
<1>6. th[q][j + 1].s \in Slots
  BY <1>2, <1>5 DEF LifeInv, ShapeInv
<1>7. U(q) = th[q][j + 1].s
  BY <1>2, CallPlace
<1> QED
  BY <1>2, <1>4, <1>6, <1>7

\* The frame below another one.
LEMMA Predecessor ==
  ASSUME NEW n \in Nat
  PROVE  /\ n > 1 => \E j \in 1 .. n - 1 : j = n - 1 /\ j + 1 = n
         /\ n > 2 => \E j \in 1 .. n - 1 : j = n - 2 /\ j + 1 = n - 1
<1>1. n > 1 => n - 1 \in 1 .. n - 1 /\ (n - 1) + 1 = n
  OBVIOUS
<1>2. n > 2 => n - 2 \in 1 .. n - 1 /\ (n - 2) + 1 = n - 1
  OBVIOUS
<1> QED
  BY <1>1, <1>2

\* CallOK of a stack is about one pair of frames of it.
LEMMA CallKept ==
  ASSUME LifeInv, UseInv, NEW q \in Threads,
         \A j \in 1 .. Len(th[q]) - 1 : \A g, f :
           /\ g = th[q][j] /\ f = th[q][j + 1] /\ f.at \in RefTested \ {"wref"} /\ Known(g, f)
           /\ Top(q).at \in RefTested \cup RefP
           => Known(g, f)'
  PROVE  \A c : c = th[q] => CallOK(c)'
<1> SUFFICES ASSUME NEW c, c = th[q] PROVE CallOK(c)'
  OBVIOUS
<1> DEFINE n == Len(th[q])
<1>1. n \in Nat /\ n > 0 /\ Top(q) = th[q][n] /\ CallOK(th[q])
  BY TopFacts DEF LifeInv, UseInv, CallInv
<1>2. ASSUME n > 1, th[q][n].at \in RefTested \ {"wref"}
      PROVE  (\A g, f : g = th[q][n - 1] /\ f = th[q][n] => Known(g, f)') /\ (Sure(th[q][n - 1]) => th[q][n].ret)
  <2>1. Known(th[q][n - 1], th[q][n]) /\ (Sure(th[q][n - 1]) => th[q][n].ret)
    BY <1>1, <1>2 DEF CallOK
  <2>2. PICK j \in 1 .. n - 1 : j = n - 1 /\ j + 1 = n
    BY <1>1, <1>2, Predecessor
  <2> QED
    BY <1>1, <1>2, <2>1, <2>2
<1>3. ASSUME n > 2, th[q][n].at \in RefP, th[q][n - 1].at # "wref"
      PROVE  /\ \A g, f : g = th[q][n - 2] /\ f = th[q][n - 1] => Known(g, f)'
             /\ Sure(th[q][n - 2]) => th[q][n].at # "refundo"
  <2>1. Known(th[q][n - 2], th[q][n - 1]) /\ (Sure(th[q][n - 2]) => th[q][n].at # "refundo")
    BY <1>1, <1>3 DEF CallOK
  <2>2. PICK j \in 1 .. n - 1 : j = n - 2 /\ j + 1 = n - 1
    BY <1>1, <1>3, Predecessor
  <2>3. Top(q).at \in Above(th[q][n - 1].at)
    BY <1>1, <1>3, BelowTop
  <2>4. th[q][n - 1].at \in RefTested
    BY <1>1, <1>3, <2>3, AboveNone
  <2>5. \A g, f : g = th[q][j] /\ f = th[q][j + 1] => Known(g, f)'
    BY <1>1, <1>3, <2>1, <2>2, <2>4
  <2> QED
    BY <2>1, <2>2, <2>5
<1> QED
  BY <1>2, <1>3 DEF CallOK, Sure

\* Nobody is inside a call that relies on the event not being given to uevent_free:
\* calls on it do not overlap, or it is not armed.
LEMMA UseFreeBegin ==
  ASSUME TimersLeftToLoop, ArmedKept, LifeInv, UseInv, NEW p \in Threads, FreeBegin(p)
  PROVE  UseInv'
<1>1. PICK s \in Slots : /\ MayUse(p, "free", s) /\ Enter(p, "free", s, <<Here(p)>>)
                         /\ released' = released \cup {ev[s]}
  BY DEF FreeBegin
<1>2. UNCHANGED <<ev, kind, uev, epoll, reported, active_timer, pending_free>>
  BY DEF FreeBegin, slots, base, lists, flags
<1>3. MayCall(p, "free", kind[ev[s]]) /\ (Exclusive => \A q \in Threads : ~Uses(q, s))
  BY <1>1 DEF MayUse
<1>4. ev[s] # NULL /\ kind[ev[s]] \in Kinds /\ Frees(kind[ev[s]])
  BY <1>1, MayUseFacts, LifeAssumption DEF Frees
<1>5. \A t \in Slots : ev[t] = ev[s] => t = s
  BY <1>4, OneSlot
<1>6. ASSUME NEW q \in Threads, NEW i \in DOMAIN th[q], NEW f, f = th[q][i]
      PROVE  UseFrame(f)'
  <2>1. UseFrame(f)
    BY <1>6 DEF UseInv, UseFrames
  <2>2. ASSUME f.at \in AddC PROVE ev[f.s] # ev[s]
    <3>1. f.s \in Slots
      BY <1>6, <2>2 DEF LifeInv, ShapeInv, Unslotted, AddC, AddP
    <3>2. CASE Exclusive
      BY <1>3, <1>5, <1>6, <2>2, <3>1, <3>2, AddUses
    <3>3. CASE ~Exclusive
      BY <1>4, <2>1, <2>2, <3>3 DEF UseFrame, ArmedKept
    <3> QED
      BY <3>2, <3>3
  <2> QED
    BY <1>1, <1>2, <2>1, <2>2 DEF UseFrame, Alive, Arms, Stops, Ops, Outside
<1>7. ASSUME NEW q \in Threads, NEW j \in 1 .. Len(th[q]) - 1, NEW g, NEW f, g = th[q][j], f = th[q][j + 1],
             f.at \in RefTested \ {"wref"}, Known(g, f)
      PROVE  Known(g, f)'
  <2>1. f.s \in Slots /\ U(q) = f.s
    BY <1>7, TestedCaller
  <2>2. Exclusive /\ g.at \in {"idle", "cb"} => f.s # s
    BY <1>3, <1>7, <2>1, InUse
  <2>3. Exclusive /\ g.at \in {"idle", "cb"} => ev[f.s] # ev[s]
    BY <1>5, <2>1, <2>2
  <2> QED
    BY <1>1, <1>2, <1>7, <2>3 DEF Known, Sure, Alive, Stops, Outside
<1>8. UseKept
  <2>1. \A q \in Threads : \A c : c = th[q] => CallOK(c)'
    BY <1>7, CallKept
  <2> QED
    BY <1>2, <1>6, <2>1 DEF UseKept, UseInv, EpollUse
<1>9. ArmsKept /\ TimerUse' /\ EpollUse'
  BY <1>2 DEF ArmsKept, TimerUse, UseInv, EpollUse
<1>10. PICK g \in FrameType, h \in FrameType :
        Replace(p, <<g, h>>) /\ g.at = Top(p).at /\ h.at = "free" /\ Top(p).at \in {"idle", "cb"}
  <2>1. Frame("free", s, NULL) \in FrameType
    BY FrameTyped DEF Places
  <2>2. Frame("free", s, NULL).at = "free"
    BY DEF Frame
  <2>3. Here(p) \in FrameType /\ Here(p).at = Top(p).at /\ Top(p).at \in {"idle", "cb"}
    BY <1>3, CallerFacts
  <2> QED
    BY <1>1, <2>1, <2>2, <2>3, AppendTwo DEF Enter
<1>11. UseFrame(g)' /\ UseFrame(h)'
  BY <1>10, UsePlain DEF AddC, AddP
<1>12. /\ g.at \notin {"freepend", "deltm", "tput"} /\ h.at \notin RefTested \cup RefP \cup {"tput", "freepend"}
       /\ Top(p).at \notin DelP \cup PutP \cup {"delref"} /\ Top(p).at \notin Disarming
  BY <1>10 DEF RefTested, Tested, RefP, DelP, PutP, Disarming
<1>13. StackUse'
  BY <1>8, <1>9, <1>10, <1>11, <1>12, UseTwo
<1> QED
  BY <1>9, <1>13 DEF UseInv, StackUse

\* uevent_free gives up the creator's reference. Its event is not armed; no other
\* call has it, and the loop does not handle it.
LEMMA UseFreePend ==
  ASSUME TimersLeftToLoop, LifeInv, UseInv, NEW p \in Threads, FreePend(p)
  PROVE  UseInv'
<1>1. /\ Top(p).at = "freepend" /\ U(p) \in Slots /\ U(p) = Top(p).s /\ E(p) = Top(p).o /\ FrameInv(p, Top(p))
  BY CallTop DEF FreePend, At
<1>2. /\ ev[U(p)] = E(p) /\ E(p) # NULL /\ E(p) \in released \ pending_free /\ Frees(kind[E(p)])
      /\ (p # Loop => Stops(kind[E(p)]))
  BY <1>1 DEF FrameInv
<1>3. kind[E(p)] \in Kinds /\ \A t \in Slots : ev[t] = E(p) => t = U(p)
  BY <1>1, <1>2, OneSlot DEF LifeInv, EventInv
<1>4. /\ pending_free' = pending_free \cup {E(p)} /\ Load(p, "put", NULL)
      /\ UNCHANGED <<ev, kind, uev, released, epoll, reported, active_timer>>
  BY <1>2 DEF FreePend, slots, memory, base, lists, Go
<1>5. Len(th[p]) \in DOMAIN th[p] /\ th[p][Len(th[p])] = Top(p) /\ Len(th[p]) \in Nat /\ Len(th[p]) > 0
      /\ DOMAIN th[p] = 1 .. Len(th[p])
  BY TopFacts DEF LifeInv
<1>6. ASSUME NEW q \in Threads, NEW i \in DOMAIN th[q], th[q][i].at = "freepend", th[q][i].s = U(p)
      PROVE  q = p
  <2>1. Clash(th[q][i], th[p][Len(th[p])])
    BY <1>1, <1>5, <1>6 DEF Clash
  <2> QED
    BY <1>5, <2>1 DEF LifeInv, UniqueInv
<1>7. ASSUME NEW q \in Threads, NEW i \in DOMAIN th[q], th[q][i].at \in {"tput", "tcb"}
      PROVE  p # Loop
  <2> SUFFICES ASSUME p = Loop PROVE FALSE
    OBVIOUS
  <2>1. q = Loop /\ i = 1
    BY <1>7, LoopPlace DEF LoopP
  <2> DEFINE n == Len(th[p])
  <2>2. n # 1 /\ n \in Nat /\ n > 0
    BY <1>1, <1>5, <1>7, <2>1
  <2>3. 1 \in 1 .. n - 1
    <3> HIDE DEF n
    <3> QED
      BY <2>2
  <2>4. th[p][1 + 1].at \in Above(th[p][1].at)
    BY <2>3 DEF LifeInv, ShapeInv
  <2>5. th[p][1].at = "tput" /\ th[p][2].at \in PutP
    BY <1>7, <2>1, <2>4, AboveWhen DEF RefTested, Tested
  <2>6. n <= 2
    BY <2>5 DEF UseInv, LoopInv
  <2>7. n = 2
    <3> HIDE DEF n
    <3> QED
      BY <2>2, <2>6
  <2> QED
    BY <1>1, <1>5, <2>5, <2>7 DEF PutP
<1>8. ASSUME NEW q \in Threads, NEW i \in DOMAIN th[q], NEW f, f = th[q][i]
      PROVE  UseFrame(f)'
  <2>1. UseFrame(f)
    BY <1>8 DEF UseInv, UseFrames
  <2>2. f.at \in AddC => ev[f.s] # E(p)
    BY <1>2, <2>1 DEF UseFrame
  <2>3. f.at \in {"tput", "tcb"} => f.o # E(p)
    BY <1>2, <1>7, <1>8, <2>1 DEF UseFrame
  <2> QED
    BY <1>4, <2>1, <2>2, <2>3 DEF UseFrame, Alive, Arms, Stops, Ops, Outside
<1>9. ASSUME NEW q \in Threads, NEW j \in 1 .. Len(th[q]) - 1, NEW g, NEW f, g = th[q][j], f = th[q][j + 1],
             f.at \in RefTested \ {"wref"}, Known(g, f), Top(q).at \in RefTested \cup RefP
      PROVE  Known(g, f)'
  <2>1. f.s \in Slots /\ g.at \in {"idle", "cb", "freepend", "epoll", "tlock", "epauto"} /\ j \in DOMAIN th[q]
    BY <1>9, TestedCaller
  <2>2. q # p
    BY <1>1, <1>9 DEF RefTested, Tested, RefP
  <2>3. ASSUME Sure(g), ev[f.s] = E(p) PROVE FALSE
    <3>1. f.s = U(p)
      BY <1>3, <2>1, <2>3
    <3>2. CASE g.at \in {"idle", "cb"}
      BY <1>2, <1>9, <2>3, <3>2 DEF Known
    <3>3. CASE g.at \in {"epoll", "epauto"}
      <4>1. "fd" \in kind[E(p)]
        BY <1>9, <2>3, <3>3 DEF Known
      <4> QED
        BY <1>2, <1>3, <4>1 DEF TimersLeftToLoop
    <3>4. CASE g.at = "tlock"
      <4>1. ~Stops(kind[E(p)])
        BY <1>9, <2>3, <3>4 DEF Known
      <4>2. q = Loop
        BY <1>9, <2>1, <3>4, LoopPlace DEF LoopP
      <4> QED
        BY <1>2, <2>2, <4>1, <4>2
    <3>5. CASE g.at = "freepend"
      <4>1. f.s = g.s
        BY <1>9, <3>5 DEF UseInv, SlotInv
      <4> QED
        BY <1>6, <1>9, <2>1, <2>2, <3>1, <3>5, <4>1
    <3> QED
      BY <2>1, <3>2, <3>3, <3>4, <3>5
  <2> QED
    BY <1>4, <1>9, <2>3 DEF Known, Sure, Alive, Stops, Outside
<1>10. UseKept
  <2>1. \A q \in Threads : \A c : c = th[q] => CallOK(c)'
    BY <1>9, CallKept
  <2> QED
    BY <1>4, <1>8, <2>1 DEF UseKept, UseInv, EpollUse
<1>11. E(p) \notin active_timer
  <2> SUFFICES ASSUME E(p) \in active_timer PROVE FALSE
    OBVIOUS
  <2>1. p = Loop
    BY <1>2 DEF LifeInv, EventInv
  <2>2. Len(th[p]) < Len(th[p])
    BY <1>1, <1>5, <2>1 DEF UseInv, LoopInv
  <2> QED
    BY <1>5, <2>2
<1>12. ArmsKept /\ TimerUse' /\ EpollUse'
  BY <1>4, <1>11 DEF ArmsKept, TimerUse, UseInv, EpollUse
<1>13. PICK g \in FrameType : Replace(p, <<g>>) /\ g.at = "put"
  <2>1. Frame("put", U(p), NULL) \in FrameType
    BY <1>1, FrameTyped DEF Places
  <2> QED
    BY <1>4, <2>1, LoadFrame
<1>14. UseFrame(g)'
  BY <1>13, UsePlain DEF AddC, AddP
<1>15. /\ Top(p).at \notin DelP \cup PutP \cup {"delref"} /\ Top(p).at \notin Disarming
       /\ g.at \notin RefTested \cup RefP \cup {"tput", "freepend"}
  BY <1>1, <1>13 DEF DelP, PutP, Disarming, RefTested, Tested, RefP
<1>16. StackUse'
  BY <1>10, <1>12, <1>13, <1>14, <1>15, UseOne
<1> QED
  BY <1>12, <1>16 DEF UseInv, StackUse

-----------------------------------------------------------------------------
(* The specification.                                                      *)

\* Initially no thread is in a call.
LEMMA UseInit ==
  ASSUME Init
  PROVE  UseInv
<1>1. ASSUME NEW p \in Threads
      PROVE  /\ Len(th[p]) = 1 /\ DOMAIN th[p] = 1 .. 1 /\ th[p][1].at \in {"wait", "wtake", "idle"}
  BY DEF Init, Start, NoFrame, Frame
<1>2. UseFrames
  BY <1>1 DEF UseFrames, UseFrame, AddC, AddP
<1>3. CallInv
  BY <1>1 DEF CallInv, CallOK
<1>4. SlotInv
  BY <1>1 DEF SlotInv
<1>5. LoopInv
  BY <1>1, LoopIsThread DEF LoopInv
<1>6. EpollUse /\ TimerUse
  BY DEF Init, EpollUse, TimerUse
<1> QED
  BY <1>2, <1>3, <1>4, <1>5, <1>6 DEF UseInv

\* A stuttering step.
LEMMA UseStutter ==
  ASSUME UseInv, UNCHANGED vars
  PROVE  UseInv'
<1> USE DEF vars, slots, memory, base, lists, flags
<1>1. UseFrames'
  BY DEF UseInv, UseFrames, UseFrame, Alive, Arms, Stops, Ops, Outside
<1>2. CallInv'
  BY DEF UseInv, CallInv, CallOK, Known, Sure, Alive, Stops, Ops, Outside
<1>3. SlotInv' /\ LoopInv' /\ EpollUse' /\ TimerUse'
  BY DEF UseInv, SlotInv, LoopInv, EpollUse, TimerUse
<1> QED
  BY <1>1, <1>2, <1>3 DEF UseInv

\* Every step: one case per action.
LEMMA UseNext ==
  ASSUME TimersLeftToLoop, ArmedKept, LifeInv, UseInv, [Next]_vars
  PROVE  UseInv'
<1>1. CASE UNCHANGED vars
  BY <1>1, UseStutter
<1>2. ASSUME NEW p \in Threads, NewCall(p)
      PROVE  UseInv'
  <2>1. CASE \E k \in Kinds, o \in Events : CreateBegin(p, k, o)
    BY <2>1, UseCreateBegin
  <2>2. CASE Begin(p, "add", "addref")
    BY <2>2, UseBegin
  <2>3. CASE Begin(p, "del", "delref")
    BY <2>3, UseBegin
  <2>4. CASE Begin(p, "peek", "peekref")
    BY <2>4, UseBegin
  <2>5. CASE FreeBegin(p)
    BY <2>5, UseFreeBegin
  <2> QED
    BY <1>2, <2>1, <2>2, <2>3, <2>4, <2>5 DEF NewCall
<1>3. ASSUME NEW p \in Threads, Reference(p)
      PROVE  UseInv'
  BY <1>3, UseTryInc, UseTryCheck, UseTryUndo, UsePutTest, UsePutDec, UseDestroy DEF Reference
<1>4. ASSUME NEW p \in Threads, InCall(p)
      PROVE  UseInv'
  <2>1. CASE CreateStore(p) \/ Peek(p) \/ AddLock(p) \/ AddCheck(p) \/ AddFdRead(p) \/ AddFdCtl(p)
    BY <2>1, UseCreateStore, UsePeek, UseAddLock, UseAddCheck, UseAddFdRead, UseAddFdCtl
  <2>2. CASE AddFdMark(p) \/ AddFdRef(p) \/ AddTimer(p) \/ AddEnd(p)
    BY <2>2, UseAddFdMark, UseAddFdRef, UseAddTimer, UseAddEnd
  <2>3. CASE Del(p) \/ DelFdFlag(p) \/ DelFdCtl(p) \/ DelTimerFlag(p) \/ DelTimerHeap(p)
    BY <2>3, UseDel, UseDelFdFlag, UseDelFdCtl, UseDelTimerFlag, UseDelTimerHeap
  <2>4. CASE Free(p) \/ FreePend(p)
    BY <2>4, UseFree, UseFreePend
  <2> QED
    BY <1>4, <2>1, <2>2, <2>3, <2>4 DEF InCall
<1>5. ASSUME LoopStep PROVE UseInv'
  <2>1. CASE EpollWait \/ TimersLock \/ (\E o \in Events : TimerTake(o)) \/ TimersEnd
    BY <2>1, UseEpollWait, UseLoopGo, UseTimerTake
  <2>2. CASE TimerRearm \/ TimerCallback \/ EpollNext
    BY <2>2, UseTimerRearm, UseTimerCallback, UseEpollNext
  <2>3. CASE EpollEnd \/ EpollTest \/ EpollAutoDel \/ Dispatch(Loop)
    BY <2>3, UseLoopGo, UseEpollTest, UseEpollAutoDel, UseDispatch, LoopIsThread
  <2> QED
    BY <1>5, <2>1, <2>2, <2>3 DEF LoopStep
<1>6. ASSUME WorkerStep PROVE UseInv'
  <2>1. CASE WorkerTake
    BY <2>1, UseWorkerTake
  <2>2. CASE WorkerRef
    BY <2>2, UseDispatch, LoopIsThread
  <2>3. CASE WorkerFinal
    BY <2>3, UseWorkerFinal
  <2> QED
    BY <1>6, <2>1, <2>2, <2>3 DEF WorkerStep
<1>7. ASSUME NEW p \in Threads, CbLock(p) \/ CbEnd(p) PROVE UseInv'
  BY <1>7, UseCb
<1> QED
  BY <1>1, <1>2, <1>3, <1>4, <1>5, <1>6, <1>7 DEF Next, Progress

\* In every state the events that are used without a reference are kept by
\* something else, as UseFrame and Known say.
THEOREM UseInvariant ==
  ASSUME TimersLeftToLoop, ArmedKept
  PROVE  Spec => []UseInv
<1>1. Init => UseInv
  BY UseInit
<1>2. LifeInv /\ UseInv /\ [Next]_vars => UseInv'
  BY UseNext
<1>3. Spec => []LifeInv
  BY LifeInvariant
<1> QED
  BY <1>1, <1>2, <1>3, PTL DEF Spec

\* What the two invariants say of the places that read an event.
LEMMA UseSound ==
  ASSUME LifeInv, UseInv
  PROVE  NoUseAfterFree
<1>1. \A s \in Slots : ev[s] # NULL => mem[ev[s]] = "live"
  BY DEF LifeInv, EventInv
<1>2. ASSUME NEW p \in Threads, Top(p).at \in Dereferences
      PROVE  E(p) # NULL /\ mem[E(p)] = "live"
  <2>1. FrameInv(p, Top(p)) /\ UseFrame(Top(p)) /\ U(p) = Top(p).s /\ E(p) = Top(p).o
    BY TopFacts, TopKnown DEF LifeInv, UseInv, UseFrames
  <2>2. U(p) \in Slots
    BY <1>2, <2>1, TopFacts DEF LifeInv, FrameShape, Dereferences, Unslotted
  <2>3. CASE Top(p).at \in AddP \cup DelP \cup CbP
    BY <1>1, <2>1, <2>2, <2>3 DEF FrameInv
  <2>4. CASE Top(p).at = "freepend"
    BY <1>1, <2>1, <2>2, <2>4 DEF FrameInv
  <2>5. CASE Top(p).at \in {"tcb", "eptest", "epauto"}
    BY <1>1, <2>1, <2>2, <2>5 DEF UseFrame
  <2> QED
    BY <1>2, <2>3, <2>4, <2>5 DEF Dereferences, AddP, DelP, CbP
<1>3. ASSUME NEW p \in Threads, Returned(p), Top(p).at \in {"addref", "delref", "peekref", "dispref"}
      PROVE  ev[U(p)] # NULL
  <2>1. FrameInv(p, Top(p)) /\ U(p) = Top(p).s /\ Returned(p) = Top(p).ret
    BY TopKnown
  <2>2. Top(p).at \in RefTested /\ Top(p).ret
    BY <1>3, <2>1 DEF RefTested, Tested
  <2> QED
    BY <2>1, <2>2 DEF FrameInv, Named
<1>4. ASSUME NEW o \in heap PROVE mem[o] = "live"
  <2>1. CASE o \in active_timer
    BY <1>1, <2>1, LifeAssumption DEF LifeInv, EventInv, TypeInv
  <2>2. CASE At(Loop, "delheap") /\ E(Loop) = o
    BY <1>2, <2>2, LoopIsThread DEF Dereferences, At
  <2> QED
    BY <2>1, <2>2 DEF LifeInv, EventInv
<1> QED
  BY <1>2, <1>3, <1>4 DEF NoUseAfterFree

\* No thread reads an event that is freed, or follows a NULL uev->ev after
\* uevent_try_ref, and every node of the heap is in a live event: also for the
\* loop, which reads events of timers and descriptors without a reference.
THEOREM UseCorrect ==
  ASSUME TimersLeftToLoop, ArmedKept
  PROVE  Spec => []NoUseAfterFree
<1>1. LifeInv /\ UseInv => NoUseAfterFree
  BY UseSound
<1>2. Spec => []LifeInv
  BY LifeInvariant
<1>3. Spec => []UseInv
  BY UseInvariant
<1> QED
  BY <1>1, <1>2, <1>3, PTL

=============================================================================
