------------------------- MODULE EventExactProofs --------------------------
(***************************************************************************)
(* Proofs about EventLife, continued: an event whose last reference is     *)
(* gone is being destroyed, and the flags, the heap and num_active_timers  *)
(* agree.  Both need that the program serialises its calls on each event   *)
(* (Exclusive).  StackInv carries that over from the moment a call starts  *)
(* to its end: a function of the library passes its slot on to what it     *)
(* calls, so that the slot of a call stays the same, and two threads are   *)
(* never inside calls on one slot.  HeapInv is about the timers: only the  *)
(* loop takes nodes out of the heap, and nobody arms a timer between the   *)
(* two steps in which it does.                                             *)
(***************************************************************************)
EXTENDS EventUseProofs

\* uevent_del of a descriptor that is not persistent, as the loop calls it.
OneShot(s) == ev[s] # NULL /\ "fd" \in kind[ev[s]] /\ "persist" \notin kind[ev[s]]

\* Every function but a callback passes its slot on to what it calls.
Passes ==
  \A p \in Threads : \A i \in 1 .. Len(th[p]) - 1 :
    th[p][i].at \notin Unslotted \cup {"cb"} => th[p][i + 1].s = th[p][i].s

\* No two threads are inside calls on one slot.
UsesOnce == \A p, q \in Threads : \A s \in Slots : Uses(p, s) /\ Uses(q, s) => p = q

\* What the loop disarms by itself is a descriptor that is not persistent.
AutoInv == th[Loop][1].at = "epoll" /\ Len(th[Loop]) > 1 => OneShot(th[Loop][2].s)

\* What is inductive about the stacks, on top of LifeInv and UseInv.
StackInv == Passes /\ UsesOnce /\ AutoInv

-----------------------------------------------------------------------------
(* The steps inside a call.                                                *)

\* The last frame of p is replaced by fs, and no call of the API starts. Inside a
\* call the new frames have its slot. The loop's own uevent_del is for a
\* descriptor, and delheap comes after deltm.
WorksBy(p, fs) ==
  /\ Len(fs) > 0 /\ Replace(p, fs)
  /\ \A i \in 1 .. Len(fs) - 1 : fs[i].at \notin {"idle", "cb"}
  /\ Len(th[p]) > 1 => \A i \in DOMAIN fs : fs[i].s = U(p)
  /\ \A i \in 1 .. Len(fs) - 1 : fs[i].at \notin Unslotted => fs[i + 1].s = fs[i].s
  /\ Len(fs) > 1 /\ fs[1].at = "epoll" => fs[2].s \in Slots /\ OneShot(fs[2].s)
  /\ fs[Len(fs)].at = "delheap" => At(p, "deltm")

\* A step of p that starts no call.
Works(p) ==
  \/ \E v \in BOOLEAN : Return(p, v) /\ Len(th[p]) > 1
  \/ \E fs \in Seq(FrameType) : WorksBy(p, fs)

\* A step that replaces one frame by another.
LEMMA WorkOne ==
  ASSUME NEW p \in Threads, NEW g \in FrameType, Replace(p, <<g>>),
         Len(th[p]) > 1 => g.s = U(p), g.at = "delheap" => At(p, "deltm")
  PROVE  Works(p)
<1> DEFINE fs == <<g>>
<1>1. fs \in Seq(FrameType) /\ Len(fs) = 1 /\ DOMAIN fs = {1} /\ fs[1] = g
  OBVIOUS
<1>2. Replace(p, fs)
  OBVIOUS
<1> HIDE DEF fs
<1>3. 1 .. Len(fs) - 1 = {}
  BY <1>1
<1>4. WorksBy(p, fs)
  BY <1>1, <1>2, <1>3 DEF WorksBy
<1> QED
  BY <1>1, <1>4 DEF Works

\* The function goes on with the event it has, or with another one.
LEMMA WorkLoad ==
  ASSUME LifeInv, NEW p \in Threads, NEW l \in Places, NEW o \in Events \cup {NULL}, Load(p, l, o),
         l = "delheap" => At(p, "deltm")
  PROVE  Works(p)
<1>1. U(p) \in Slots \cup {NULL}
  BY TopFacts DEF LifeInv, FrameType
<1>2. Frame(l, U(p), o) \in FrameType
  BY <1>1, FrameTyped
<1>3. PICK g \in FrameType : Replace(p, <<g>>) /\ g.at = l /\ g.s = U(p)
  BY <1>2, LoadFrame
<1> QED
  BY <1>3, WorkOne

\* The function goes on at another place.
LEMMA WorkGo ==
  ASSUME LifeInv, NEW p \in Threads, NEW l \in Places, Go(p, l), l = "delheap" => At(p, "deltm")
  PROVE  Works(p)
<1>1. E(p) \in Events \cup {NULL}
  BY TopFacts DEF LifeInv, FrameType
<1>2. (IF l = "put" THEN NULL ELSE E(p)) \in Events \cup {NULL}
  BY <1>1
<1> QED
  BY <1>2, WorkLoad DEF Go

\* The function returns.
LEMMA WorkReturn ==
  ASSUME LifeInv, NEW p \in Threads, NEW v \in BOOLEAN, Return(p, v), Top(p).at \notin Ground(p)
  PROVE  Works(p)
  BY TopFacts DEF LifeInv, Works

\* The function calls another one, and goes on at g.
LEMMA WorkTwo ==
  ASSUME NEW p \in Threads, NEW g \in FrameType, NEW h \in FrameType, Replace(p, <<g, h>>),
         g.at \notin {"idle", "cb", "epoll"}, h.at # "delheap",
         Len(th[p]) > 1 => g.s = U(p) /\ h.s = U(p), g.at \notin Unslotted => h.s = g.s
  PROVE  Works(p)
<1> DEFINE fs == <<g, h>>
<1>1. fs \in Seq(FrameType) /\ Len(fs) = 2 /\ DOMAIN fs = {1, 2} /\ fs[1] = g /\ fs[2] = h
  OBVIOUS
<1>2. Replace(p, fs)
  OBVIOUS
<1> HIDE DEF fs
<1>3. 1 .. Len(fs) - 1 = {1} /\ 1 + 1 = 2
  BY <1>1
<1>4. WorksBy(p, fs)
  BY <1>1, <1>2, <1>3 DEF WorksBy
<1> QED
  BY <1>1, <1>4 DEF Works

\* The same for uevent_try_ref, which is called through one of its callers.
LEMMA WorkThree ==
  ASSUME NEW p \in Threads, NEW g \in FrameType, NEW s \in Slots, NEW l \in RefTested, TryRefThen(p, s, l, g),
         g.at \notin {"idle", "cb"}, Len(th[p]) > 1 => g.s = U(p) /\ s = U(p),
         g.at \notin Unslotted => s = g.s, g.at = "epoll" => OneShot(s)
  PROVE  Works(p)
<1> DEFINE h == Frame(l, s, NULL)
           k == Frame("ref", s, NULL)
           fs == <<g, h, k>>
<1>1. h \in FrameType /\ k \in FrameType
  BY FrameTyped DEF RefTested, Tested, Places
<1>2. h.at = l /\ h.s = s /\ k.at = "ref" /\ k.s = s
  BY DEF Frame
<1>3. l \notin {"idle", "cb"} /\ k.at # "delheap"
  BY <1>2 DEF RefTested, Tested
<1>4. Replace(p, fs)
  BY <1>1, AppendTwo DEF TryRefThen, Enter
<1> HIDE DEF h, k
<1>5. fs \in Seq(FrameType) /\ Len(fs) = 3 /\ DOMAIN fs = {1, 2, 3} /\ fs[1] = g /\ fs[2] = h /\ fs[3] = k
  BY <1>1
<1> HIDE DEF fs
<1>6. 1 .. Len(fs) - 1 = {1, 2} /\ 1 + 1 = 2 /\ 2 + 1 = 3
  BY <1>5
<1>7. WorksBy(p, fs)
  BY <1>2, <1>3, <1>4, <1>5, <1>6 DEF WorksBy
<1> QED
  BY <1>5, <1>7 DEF Works

\* A thread at a place l inside a call: it has a caller, a slot and an event.
LEMMA Nested ==
  ASSUME LifeInv, NEW p \in Threads, Top(p).at \notin LoopP \cup {"idle", "wtake", "wfinal"}
  PROVE  /\ Top(p).at \notin Ground(p) /\ Len(th[p]) > 1 /\ U(p) \in Slots /\ E(p) \in Events \cup {NULL}
         /\ ev[U(p)] \in Events \cup {NULL}
<1>1. Top(p).at \notin Ground(p) /\ Top(p).at \notin Unslotted
  BY GroundPlaces DEF LoopP, Unslotted
<1>2. Len(th[p]) > 1 /\ Top(p) \in FrameType /\ FrameShape(Top(p)) /\ U(p) = Top(p).s /\ E(p) = Top(p).o
  BY <1>1, TopFacts DEF LifeInv
<1>3. U(p) \in Slots /\ E(p) \in Events \cup {NULL}
  BY <1>1, <1>2 DEF FrameShape, FrameType
<1> QED
  BY <1>1, <1>2, <1>3 DEF LifeInv, TypeInv

\* uevent_try_ref and uevent_put.
LEMMA WorkReference ==
  ASSUME LifeInv, NEW p \in Threads, Reference(p)
  PROVE  Works(p)
<1>1. Top(p).at \in RefP \cup PutP
  BY DEF Reference, TryInc, TryCheck, TryUndo, PutTest, PutDec, Destroy, At, RefP, PutP
<1>2. Top(p).at \notin Ground(p)
  BY <1>1, Nested DEF RefP, PutP, LoopP
<1>3. \/ \E v \in BOOLEAN : Return(p, v)
      \/ \E l \in {"refchk", "refundo", "dec", "destroy"} : Go(p, l)
  BY DEF Reference, TryInc, TryCheck, TryUndo, PutTest, PutDec, Destroy
<1> QED
  BY <1>2, <1>3, WorkReturn, WorkGo DEF Places

\* The steps of the calls that replace one frame or return.
LEMMA WorkPlain ==
  ASSUME LifeInv, NEW p \in Threads,
         \/ CreateStore(p) \/ Peek(p) \/ AddLock(p) \/ AddCheck(p) \/ AddFdCtl(p) \/ AddFdMark(p) \/ AddFdRef(p)
         \/ AddTimer(p) \/ AddEnd(p) \/ Del(p) \/ DelFdFlag(p) \/ DelTimerFlag(p) \/ FreePend(p)
         \/ CbLock(p) \/ CbEnd(p)
  PROVE  Works(p)
<1>1. Top(p).at \notin LoopP \cup {"idle", "wtake", "wfinal"}
  BY DEF CreateStore, Peek, AddLock, AddCheck, AddFdCtl, AddFdMark, AddFdRef, AddTimer, AddEnd, Del, DelFdFlag,
         DelTimerFlag, FreePend, CbLock, CbEnd, At, LoopP
<1>2. Top(p).at \notin Ground(p) /\ ev[U(p)] \in Events \cup {NULL}
  BY <1>1, Nested
<1>3. \/ \E v \in BOOLEAN : Return(p, v)
      \/ \E l \in {"put", "addend", "addfd", "addtm", "addmark", "addfdref", "delctl", "deltm", "cb"} : Go(p, l)
      \/ Go(p, "delheap") /\ At(p, "deltm")
      \/ \E l \in {"addchk", "delfd"} : Load(p, l, ev[U(p)])
  BY DEF CreateStore, Peek, AddLock, AddCheck, AddFdCtl, AddFdMark, AddFdRef, AddTimer, AddEnd, Del, DelFdFlag,
         DelTimerFlag, FreePend, CbLock, CbEnd, TimerPart
<1> QED
  BY <1>2, <1>3, WorkReturn, WorkGo, WorkLoad DEF Places

\* The other steps of the calls.
LEMMA WorkInCall ==
  ASSUME LifeInv, NEW p \in Threads, InCall(p)
  PROVE  Works(p)
<1>1. CASE AddFdRead(p)
  <2>1. Top(p).at = "addfd"
    BY <1>1 DEF AddFdRead, At
  <2>2. U(p) \in Slots /\ E(p) \in Events \cup {NULL}
    BY <2>1, Nested DEF LoopP
  <2>3. PICK g \in FrameType : Replace(p, <<g>>) /\ g.at = "addctl" /\ g.s = U(p)
    <3> DEFINE f == Frame("addctl", U(p), E(p))
               g == [f EXCEPT !.ret = E(p) \in active_fd]
    <3>1. f \in FrameType
      BY <2>2, FrameTyped DEF Places
    <3>2. g \in FrameType /\ g.at = f.at /\ g.s = f.s
      <4> HIDE DEF f
      <4>1. (E(p) \in active_fd) \in BOOLEAN
        OBVIOUS
      <4> QED
        BY <3>1, <4>1 DEF FrameType
    <3>3. f.at = "addctl" /\ f.s = U(p)
      BY DEF Frame
    <3>4. Replace(p, <<g>>)
      BY <1>1 DEF AddFdRead
    <3> QED
      BY <3>2, <3>3, <3>4
  <2> QED
    BY <2>3, WorkOne
<1>2. CASE DelFdCtl(p) \/ DelTimerHeap(p)
  <2>1. Top(p).at \in {"delctl", "delheap"}
    BY <1>2 DEF DelFdCtl, DelTimerHeap, At
  <2>2. U(p) \in Slots /\ E(p) \in Events \cup {NULL}
    BY <2>1, Nested DEF LoopP
  <2>3. PICK r \in {"deltm", "put"} : Call(p, "put", r)
    BY <1>2 DEF DelFdCtl, DelTimerHeap
  <2> DEFINE g == Frame(r, U(p), E(p))
             h == Frame("put", U(p), NULL)
  <2>4. g \in FrameType /\ h \in FrameType
    BY <2>2, FrameTyped DEF Places
  <2>5. Replace(p, <<g, h>>)
    BY <2>3, <2>4, AppendTwo DEF Call, Enter
  <2>6. g.at = r /\ g.s = U(p) /\ h.at = "put" /\ h.s = U(p)
    BY DEF Frame
  <2> HIDE DEF g, h
  <2> QED
    BY <2>4, <2>5, <2>6, WorkTwo
<1>3. CASE Free(p)
  <2>1. Top(p).at = "free"
    BY <1>3 DEF Free, At
  <2>2. Top(p).at \notin Ground(p) /\ U(p) \in Slots /\ ev[U(p)] \in Events \cup {NULL}
    BY <2>1, Nested DEF LoopP
  <2>3. CASE Return(p, FALSE)
    BY <2>2, <2>3, WorkReturn
  <2>4. CASE TryRefThen(p, U(p), "delref", Frame("freepend", U(p), ev[U(p)]))
    <3> DEFINE g == Frame("freepend", U(p), ev[U(p)])
    <3>1. g \in FrameType
      BY <2>2, FrameTyped DEF Places
    <3>2. g.at = "freepend" /\ g.s = U(p) /\ TryRefThen(p, U(p), "delref", g)
      BY <2>4 DEF Frame
    <3> HIDE DEF g
    <3>3. "delref" \in RefTested
      BY DEF RefTested, Tested
    <3> QED
      BY <2>2, <3>1, <3>2, <3>3, WorkThree
  <2> QED
    BY <1>3, <2>3, <2>4 DEF Free
<1> QED
  BY <1>1, <1>2, <1>3, WorkPlain DEF InCall

\* At its own places the loop is in no call.
LEMMA LoopAlone ==
  ASSUME LifeInv, NEW l \in LoopP, At(Loop, l)
  PROVE  ~(Len(th[Loop]) > 1)
<1> DEFINE n == Len(th[Loop])
<1>1. n = 1
  BY AlonePlace
<1> HIDE DEF n
<1>2. ~(n > 1)
  BY <1>1
<1> QED
  BY <1>2 DEF n

\* The loop.
LEMMA WorkLoop ==
  ASSUME LifeInv, UseInv, LoopStep
  PROVE  Works(Loop)
<1>0. Loop \in Threads /\ NULL \in Slots \cup {NULL} /\ NULL \in Events \cup {NULL} /\ RefTested \cap {"idle", "cb"} = {}
      /\ "dispref" \in RefTested /\ "delref" \in RefTested
  BY LoopIsThread DEF RefTested, Tested
<1>1. CASE EpollWait \/ TimersLock \/ TimersEnd \/ EpollEnd
  <2>1. \E l \in {"tlock", "tmin", "epoll", "wait"} : Go(Loop, l)
    BY <1>1 DEF EpollWait, TimersLock, TimersEnd, EpollEnd
  <2> QED
    BY <1>0, <2>1, WorkGo DEF Places
<1>2. ASSUME NEW o \in Events, TimerTake(o) PROVE Works(Loop)
  <2>1. At(Loop, "tmin") /\ "tmin" \in LoopP /\ o \in heap
    BY <1>2 DEF TimerTake, LoopP
  <2>2. ~(Len(th[Loop]) > 1)
    BY <2>1, LoopAlone
  <2>3. ~At(Loop, "delheap")
    BY <2>1 DEF At
  <2>4. o \in active_timer
    BY <2>1, <2>3 DEF LifeInv, EventInv
  <2>5. uev[o] \in Slots
    BY <2>4 DEF LifeInv, EventInv
  <2> DEFINE g == Frame("tput", uev[o], o)
             h == Frame("put", uev[o], NULL)
  <2>6. g \in FrameType /\ h \in FrameType
    BY <2>5, FrameTyped DEF Places
  <2>7. Replace(Loop, <<g, h>>)
    BY <1>2, <2>6, AppendTwo DEF TimerTake, Enter
  <2>8. g.at = "tput" /\ g.s = uev[o] /\ h.at = "put" /\ h.s = uev[o]
    BY DEF Frame
  <2> HIDE DEF g, h
  <2> QED
    BY <1>0, <2>2, <2>6, <2>7, <2>8, WorkTwo
<1>3. CASE TimerRearm
  <2>1. Load(Loop, "tmin", NULL) \/ Go(Loop, "tcb")
    BY <1>3 DEF TimerRearm
  <2> QED
    BY <1>0, <2>1, WorkLoad, WorkGo DEF Places
<1>4. CASE TimerCallback
  <2>1. At(Loop, "tcb") /\ "tcb" \in LoopP
    BY <1>4 DEF TimerCallback, LoopP
  <2>2. ~(Len(th[Loop]) > 1) /\ U(Loop) \in Slots
    BY <2>1, LoopAlone, LoopTop DEF Unslotted
  <2> DEFINE g == NoFrame("tlock")
  <2>3. g \in FrameType /\ g.at = "tlock"
    BY FrameTyped DEF NoFrame, Frame, Places
  <2>4. Replace(Loop, <<g>>) \/ TryRefThen(Loop, U(Loop), "dispref", g)
    BY <1>4 DEF TimerCallback
  <2> HIDE DEF g
  <2>5. g.at \in Unslotted
    BY <2>3 DEF Unslotted
  <2> QED
    BY <1>0, <2>2, <2>3, <2>4, <2>5, WorkOne, WorkThree
<1>5. CASE EpollNext
  <2>1. At(Loop, "epoll") /\ "epoll" \in LoopP
    BY <1>5 DEF EpollNext, LoopP
  <2>2. ~(Len(th[Loop]) > 1)
    BY <2>1, LoopAlone
  <2>3. PICK s \in reported : Replace(Loop, <<Frame("eptest", s, ev[s])>>)
    BY <1>5 DEF EpollNext
  <2>4. s \in Slots /\ ev[s] \in Events \cup {NULL}
    BY DEF LifeInv, EpollInv, TypeInv
  <2> DEFINE g == Frame("eptest", s, ev[s])
  <2>5. g \in FrameType /\ g.at = "eptest" /\ Replace(Loop, <<g>>)
    BY <2>3, <2>4, FrameTyped DEF Frame, Places
  <2> HIDE DEF g
  <2> QED
    BY <1>0, <2>2, <2>5, WorkOne
<1>6. CASE EpollTest
  <2>1. At(Loop, "eptest") /\ "eptest" \in LoopP
    BY <1>6 DEF EpollTest, LoopP
  <2>2. ~(Len(th[Loop]) > 1) /\ U(Loop) \in Slots /\ E(Loop) \in Events \cup {NULL}
    BY <2>1, LoopAlone, LoopTop DEF Unslotted
  <2> DEFINE g == Frame("epauto", U(Loop), E(Loop))
  <2>3. g \in FrameType /\ g.at = "epauto" /\ g.s = U(Loop)
    BY <2>2, FrameTyped DEF Frame, Places
  <2>4. Load(Loop, "epoll", NULL) \/ Go(Loop, "epauto") \/ TryRefThen(Loop, U(Loop), "dispref", g)
    BY <1>6 DEF EpollTest
  <2> HIDE DEF g
  <2>5. CASE Load(Loop, "epoll", NULL) \/ Go(Loop, "epauto")
    BY <1>0, <2>5, WorkLoad, WorkGo DEF Places
  <2>6. CASE TryRefThen(Loop, U(Loop), "dispref", g)
    BY <1>0, <2>2, <2>3, <2>6, WorkThree
  <2> QED
    BY <2>4, <2>5, <2>6
<1>7. CASE EpollAutoDel
  <2>1. At(Loop, "epauto") /\ "epauto" \in LoopP
    BY <1>7 DEF EpollAutoDel, LoopP
  <2>2. ~(Len(th[Loop]) > 1) /\ U(Loop) \in Slots /\ E(Loop) \in Events \cup {NULL}
    BY <2>1, LoopAlone, LoopTop DEF Unslotted
  <2>3. CASE "persist" \in kind[E(Loop)]
    <3>1. Load(Loop, "epoll", NULL)
      BY <1>7, <2>3 DEF EpollAutoDel
    <3> QED
      BY <1>0, <3>1, WorkLoad DEF Places
  <2>4. CASE "persist" \notin kind[E(Loop)]
    <3> DEFINE g == NoFrame("epoll")
    <3>1. g \in FrameType /\ g.at = "epoll"
      BY FrameTyped DEF NoFrame, Frame, Places
    <3>2. TryRefThen(Loop, U(Loop), "delref", g)
      BY <1>7, <2>4 DEF EpollAutoDel
    <3> HIDE DEF g
    <3>3. OneShot(U(Loop))
      <4>1. UseFrame(Top(Loop)) /\ Top(Loop).at = "epauto" /\ U(Loop) = Top(Loop).s /\ E(Loop) = Top(Loop).o
        BY <1>0, <2>1, TopFacts DEF UseInv, UseFrames, LifeInv, At
      <4> QED
        BY <2>4, <4>1 DEF UseFrame, OneShot
    <3>4. g.at \in Unslotted
      BY <3>1 DEF Unslotted
    <3> QED
      BY <1>0, <2>2, <3>1, <3>2, <3>3, <3>4, WorkThree
  <2> QED
    BY <2>3, <2>4
<1>8. CASE Dispatch(Loop)
  <2>1. Top(Loop).at = "dispref"
    BY <1>8 DEF Dispatch, At
  <2>2. Top(Loop).at \notin Ground(Loop) /\ ev[U(Loop)] \in Events \cup {NULL}
    BY <1>0, <2>1, Nested DEF LoopP
  <2>3. Return(Loop, FALSE) \/ Go(Loop, "put") \/ Load(Loop, "cblock", ev[U(Loop)])
    BY <1>8 DEF Dispatch
  <2> QED
    BY <1>0, <2>2, <2>3, WorkReturn, WorkGo, WorkLoad DEF Places
<1> QED
  BY <1>1, <1>2, <1>3, <1>4, <1>5, <1>6, <1>7, <1>8 DEF LoopStep

\* The worker.
LEMMA WorkWorker ==
  ASSUME LifeInv, WorkerStep
  PROVE  Works(Worker)
<1>0. Worker \in Threads /\ NULL \in Events \cup {NULL} /\ "wref" \in RefTested
  BY LoopIsThread DEF RefTested, Tested
<1>1. ASSUME NEW l \in {"wtake", "wfinal"}, At(Worker, l) PROVE ~(Len(th[Worker]) > 1)
  <2>1. Top(Worker).at = l /\ Top(Worker) = th[Worker][Len(th[Worker])] /\ Len(th[Worker]) \in Nat
        /\ Len(th[Worker]) > 0
    BY <1>0, <1>1, TopFacts DEF LifeInv, At
  <2> SUFFICES ASSUME Len(th[Worker]) > 1 PROVE FALSE
    OBVIOUS
  <2>2. Top(Worker).at \in Above(th[Worker][Len(th[Worker]) - 1].at)
    BY <1>0, BelowTop
  <2> QED
    BY <2>1, <2>2, AboveWhen DEF RefP, PutP, AddP, DelP, CbP
<1>2. CASE WorkerTake
  <2>1. At(Worker, "wtake") /\ queue # <<>> /\ queue \in Seq(Slots)
    BY <1>2 DEF WorkerTake, LifeInv, TypeInv
  <2>2. Head(queue) \in Slots
    BY <2>1
  <2> DEFINE g == Frame("wfinal", Head(queue), NULL)
  <2>3. g \in FrameType /\ g.at = "wfinal" /\ g.s = Head(queue)
    BY <2>2, FrameTyped DEF Frame, Places
  <2>4. TryRefThen(Worker, Head(queue), "wref", g)
    BY <1>2 DEF WorkerTake
  <2> HIDE DEF g
  <2>5. ~(Len(th[Worker]) > 1)
    BY <1>1, <2>1
  <2> QED
    BY <1>0, <2>2, <2>3, <2>4, <2>5, WorkThree
<1>3. CASE WorkerRef
  <2>1. Top(Worker).at = "wref"
    BY <1>3 DEF WorkerRef, At
  <2>2. Top(Worker).at \notin Ground(Worker) /\ ev[U(Worker)] \in Events \cup {NULL}
    BY <1>0, <2>1, Nested DEF LoopP
  <2>3. Return(Worker, FALSE) \/ Go(Worker, "put") \/ Load(Worker, "cblock", ev[U(Worker)])
    BY <1>3 DEF WorkerRef
  <2> QED
    BY <1>0, <2>2, <2>3, WorkReturn, WorkGo, WorkLoad DEF Places
<1>4. CASE WorkerFinal
  <2>1. At(Worker, "wfinal")
    BY <1>4 DEF WorkerFinal
  <2>2. ~(Len(th[Worker]) > 1)
    BY <1>1, <2>1
  <2>3. U(Worker) \in Slots
    BY <1>0, <2>1, TopFacts DEF LifeInv, At, FrameShape, Unslotted
  <2> DEFINE g == NoFrame("wtake")
             h == Frame("put", U(Worker), NULL)
  <2>4. g \in FrameType /\ g.at = "wtake" /\ h \in FrameType /\ h.at = "put"
    BY <2>3, FrameTyped DEF NoFrame, Frame, Places
  <2>5. Replace(Worker, <<g>>) \/ Replace(Worker, <<g, h>>)
    BY <1>4, <2>4, AppendTwo DEF WorkerFinal, Enter
  <2> HIDE DEF g, h
  <2>6. g.at \in Unslotted
    BY <2>4 DEF Unslotted
  <2> QED
    BY <1>0, <2>2, <2>4, <2>5, <2>6, WorkOne, WorkTwo
<1> QED
  BY <1>2, <1>3, <1>4 DEF WorkerStep

\* Every step that starts no call.
LEMMA WorkStep ==
  ASSUME LifeInv, UseInv, NEW p \in Threads, Progress(p) \/ CbEnd(p)
  PROVE  Works(p)
  BY WorkReference, WorkInCall, WorkPlain, WorkLoop, WorkWorker DEF Progress

-----------------------------------------------------------------------------
(* The stack of a thread after a step.                                     *)

\* The callers of the API among the frames of a stack, by position.
LEMMA CallersOf ==
  ASSUME NEW c \in Seq(FrameType), Len(c) > 0
  PROVE  (\E f \in Range(Front(c)) : f.at \in {"idle", "cb"})
           <=> (\E i \in 1 .. Len(c) - 1 : c[i].at \in {"idle", "cb"})
<1>1. Front(c) \in Seq(FrameType) /\ Len(Front(c)) = Len(c) - 1 /\ \A i \in 1 .. Len(c) - 1 : Front(c)[i] = c[i]
  BY FrontFacts
<1>2. DOMAIN Front(c) = 1 .. Len(c) - 1
  BY <1>1
<1> QED
  BY <1>1, <1>2 DEF Range

\* The last frame of a stack.
LEMMA LastOf ==
  ASSUME NEW c \in Seq(FrameType), Len(c) > 0
  PROVE  Last(c) = c[Len(c)]
  BY DEF Last

\* Frames fs in the place of the last one.
LEMMA Replaced ==
  ASSUME LifeInv, NEW p \in Threads, NEW fs \in Seq(FrameType), Len(fs) > 0, Replace(p, fs)
  PROVE  LET n == Len(th[p]) IN
         /\ \A q \in Threads \ {p} : th'[q] = th[q]
         /\ th'[p] \in Seq(FrameType) /\ Len(th'[p]) = (n - 1) + Len(fs)
         /\ \A i \in 1 .. n - 1 : th'[p][i] = th[p][i]
         /\ \A i \in 1 .. Len(fs) : th'[p][(n - 1) + i] = fs[i]
         /\ Top(p)' = fs[Len(fs)]
<1> DEFINE n == Len(th[p])
           b == Front(th[p])
<1>1. n \in Nat /\ n > 0 /\ th[p] \in Seq(FrameType) /\ th \in [Threads -> Seq(FrameType)]
  BY TopFacts DEF LifeInv, TypeInv
<1>2. b \in Seq(FrameType) /\ Len(b) = n - 1 /\ \A i \in 1 .. n - 1 : b[i] = th[p][i]
  BY <1>1, FrontFacts
<1>3. th'[p] = b \o fs /\ \A q \in Threads \ {p} : th'[q] = th[q]
  BY <1>1 DEF Replace
<1> HIDE DEF b
<1>4. /\ b \o fs \in Seq(FrameType) /\ Len(b \o fs) = Len(b) + Len(fs)
      /\ \A i \in 1 .. Len(b) : (b \o fs)[i] = b[i]
      /\ \A i \in 1 .. Len(fs) : (b \o fs)[Len(b) + i] = fs[i]
  BY <1>2, ConcatFacts
<1>5. Len(fs) \in 1 .. Len(fs) /\ Len(fs) \in Nat
  OBVIOUS
<1>6. Last(th'[p]) = fs[Len(fs)]
  <2>1. th'[p] \in Seq(FrameType) /\ Len(th'[p]) = Len(b) + Len(fs) /\ Len(th'[p]) > 0
    BY <1>1, <1>2, <1>3, <1>4, <1>5
  <2> QED
    BY <1>3, <1>4, <1>5, <2>1, LastOf
<1> QED
  BY <1>1, <1>2, <1>3, <1>4, <1>6 DEF Top

\* A return leaves the callers, and the place, slot and event of the last of them.
LEMMA Returns ==
  ASSUME LifeInv, NEW p \in Threads, NEW v \in BOOLEAN, Return(p, v), Len(th[p]) > 1
  PROVE  LET m == Len(th[p]) - 1 IN
         /\ \A q \in Threads \ {p} : th'[q] = th[q]
         /\ th'[p] \in Seq(FrameType) /\ Len(th'[p]) = m /\ Top(p)' = th'[p][m]
         /\ \A i \in 1 .. m : th'[p][i].at = th[p][i].at /\ th'[p][i].s = th[p][i].s
<1> DEFINE m == Len(th[p]) - 1
<1>1. Moves(p, m, m) /\ th'[p][m].at = th[p][m].at /\ th'[p][m].s = th[p][m].s
  BY ReturnMoves DEF LifeInv
<1>2. /\ \A q \in Threads \ {p} : th'[q] = th[q]
      /\ th'[p] \in Seq(FrameType) /\ Len(th'[p]) = m /\ m \in Nat /\ m > 0
      /\ \A i \in 1 .. m - 1 : th'[p][i] = th[p][i]
  BY <1>1 DEF Moves
<1>3. Top(p)' = th'[p][m]
  BY <1>2, LastOf DEF Top
<1> HIDE DEF m
<1>4. \A i \in 1 .. m : i = m \/ i \in 1 .. m - 1
  BY <1>2
<1> QED
  BY <1>1, <1>2, <1>3, <1>4 DEF m

\* Slots are passed on in the new frames, and by the caller to the first of them.
LEMMA PassesReplace ==
  ASSUME LifeInv, Passes, NEW p \in Threads, NEW fs \in Seq(FrameType), Len(fs) > 0, Replace(p, fs),
         Len(th[p]) > 1 => fs[1].s = U(p),
         \A i \in 1 .. Len(fs) - 1 : fs[i].at \notin Unslotted \cup {"cb"} => fs[i + 1].s = fs[i].s
  PROVE  Passes'
<1> DEFINE n == Len(th[p])
<1>1. n \in Nat /\ n > 0 /\ U(p) = th[p][n].s /\ Len(fs) \in Nat
  BY TopFacts DEF LifeInv
<1>2. /\ \A q \in Threads \ {p} : th'[q] = th[q]
      /\ Len(th'[p]) = (n - 1) + Len(fs)
      /\ \A i \in 1 .. n - 1 : th'[p][i] = th[p][i]
      /\ \A i \in 1 .. Len(fs) : th'[p][(n - 1) + i] = fs[i]
  BY Replaced
<1> SUFFICES ASSUME NEW q \in Threads, NEW i \in 1 .. Len(th'[q]) - 1, th'[q][i].at \notin Unslotted \cup {"cb"}
             PROVE  th'[q][i + 1].s = th'[q][i].s
  BY DEF Passes
<1>3. CASE q # p
  BY <1>2, <1>3 DEF Passes
<1>4. CASE q = p
  <2> HIDE DEF n
  <2>1. CASE i < n - 1
    <3>1. i \in 1 .. n - 1 /\ i + 1 \in 1 .. n - 1
      BY <1>1, <2>1
    <3> QED
      BY <1>2, <1>4, <3>1 DEF Passes, n
  <2>2. CASE i = n - 1
    <3>1. i \in 1 .. n - 1 /\ n > 1 /\ 1 \in 1 .. Len(fs) /\ i + 1 = (n - 1) + 1 /\ i + 1 = n
      BY <1>1, <2>2
    <3>2. th'[p][i] = th[p][i] /\ th'[p][i + 1] = fs[1]
      BY <1>2, <3>1
    <3>3. th[p][i + 1].s = th[p][i].s
      BY <1>4, <3>1, <3>2 DEF Passes, n
    <3>4. fs[1].s = U(p)
      BY <3>1 DEF n
    <3> QED
      BY <1>1, <1>4, <3>1, <3>2, <3>3, <3>4
  <2>3. CASE i > n - 1
    <3> DEFINE j == i - (n - 1)
    <3>1. j \in 1 .. Len(fs) - 1 /\ j \in 1 .. Len(fs) /\ j + 1 \in 1 .. Len(fs) /\ (n - 1) + j = i /\ (n - 1) + (j + 1) = i + 1
      BY <1>1, <1>2, <1>4, <2>3
    <3> HIDE DEF j
    <3>2. th'[p][i] = fs[j] /\ th'[p][i + 1] = fs[j + 1]
      BY <1>2, <3>1
    <3> QED
      BY <1>4, <3>1, <3>2
  <2> QED
    BY <1>1, <2>1, <2>2, <2>3
<1> QED
  BY <1>3, <1>4

\* A step that starts no call leaves the slots passed on.
LEMMA PassesWorks ==
  ASSUME LifeInv, Passes, NEW p \in Threads, Works(p)
  PROVE  Passes'
<1>1. ASSUME NEW v \in BOOLEAN, Return(p, v), Len(th[p]) > 1 PROVE Passes'
  <2> DEFINE m == Len(th[p]) - 1
  <2>0. Len(th[p]) \in Nat
    BY TopFacts DEF LifeInv
  <2>1. /\ \A q \in Threads \ {p} : th'[q] = th[q]
        /\ Len(th'[p]) = m /\ \A i \in 1 .. m : th'[p][i].at = th[p][i].at /\ th'[p][i].s = th[p][i].s
    BY <1>1, Returns
  <2> SUFFICES ASSUME NEW q \in Threads, NEW i \in 1 .. Len(th'[q]) - 1, th'[q][i].at \notin Unslotted \cup {"cb"}
               PROVE  th'[q][i + 1].s = th'[q][i].s
    BY DEF Passes
  <2>2. CASE q # p
    BY <2>1, <2>2 DEF Passes
  <2>3. CASE q = p
    <3>1. i \in 1 .. m /\ i + 1 \in 1 .. m /\ i \in 1 .. Len(th[p]) - 1
      BY <2>0, <2>1, <2>3
    <3> QED
      BY <2>1, <2>3, <3>1 DEF Passes
  <2> QED
    BY <2>2, <2>3
<1>2. ASSUME NEW fs \in Seq(FrameType), WorksBy(p, fs) PROVE Passes'
  <2>1. 1 \in DOMAIN fs
    BY <1>2 DEF WorksBy
  <2> QED
    BY <1>2, <2>1, PassesReplace DEF WorksBy
<1> QED
  BY <1>1, <1>2 DEF Works

\* Callbacks are run by the loop and the worker, not inside calls of the API.
LEMMA CallbackBelow ==
  ASSUME LifeInv, NEW q \in Threads, NEW j \in DOMAIN th[q], th[q][j].at = "cb"
  PROVE  j = 2 /\ th[q][1].at \notin {"idle", "cb"}
<1> DEFINE i == j - 1
<1>1. Len(th[q]) \in Nat /\ j \in 1 .. Len(th[q]) /\ th[q][1].at \in Ground(q)
  BY TopFacts DEF LifeInv, ShapeInv
<1>2. j # 1
  BY <1>1, GroundPlaces
<1>3. i \in 1 .. Len(th[q]) - 1 /\ i + 1 = j /\ i \in DOMAIN th[q]
  BY <1>1, <1>2, TopFacts DEF LifeInv
<1>4. "cb" \in Above(th[q][i].at)
  BY <1>3 DEF LifeInv, ShapeInv
<1>5. th[q][i].at \in {"tlock", "epauto", "wfinal"}
  BY <1>4, AboveWhen DEF RefP, PutP, AddP, DelP
<1>6. i = 1
  <2>1. CASE th[q][i].at \in LoopP
    BY <1>3, <2>1, LoopPlace
  <2>2. CASE th[q][i].at = "wfinal"
    <3> SUFFICES ASSUME i # 1 PROVE FALSE
      OBVIOUS
    <3> DEFINE k == i - 1
    <3> HIDE DEF i
    <3>1. k \in 1 .. Len(th[q]) - 1 /\ k + 1 = i
      BY <1>1, <1>3
    <3>2. "wfinal" \in Above(th[q][k].at)
      BY <2>2, <3>1 DEF LifeInv, ShapeInv
    <3> QED
      BY <3>2, AboveWhen DEF RefP, PutP, AddP, DelP, CbP
  <2> QED
    BY <1>5, <2>1, <2>2 DEF LoopP
<1> QED
  BY <1>1, <1>5, <1>6

\* Frames without a slot are at the bottom.
LEMMA SlottedAbove ==
  ASSUME LifeInv, NEW q \in Threads, NEW j \in DOMAIN th[q], j > 1
  PROVE  th[q][j].at \notin Unslotted
<1> DEFINE i == j - 1
<1>1. Len(th[q]) \in Nat /\ j \in 1 .. Len(th[q])
  BY TopFacts DEF LifeInv
<1>2. i \in 1 .. Len(th[q]) - 1 /\ i + 1 = j
  BY <1>1
<1>3. th[q][j].at \in Above(th[q][i].at)
  BY <1>2 DEF LifeInv, ShapeInv
<1> QED
  BY <1>3, AboveWhen DEF RefP, PutP, AddP, DelP, CbP, Unslotted

\* A step that starts no call is in a call on a slot only if it was before.
LEMMA UsesWorks ==
  ASSUME LifeInv, Passes, NEW p \in Threads, Works(p), NEW s, Uses(p, s)'
  PROVE  Uses(p, s)
<1> DEFINE n == Len(th[p])
           C(c) == \E i \in 1 .. Len(c) - 1 : c[i].at \in {"idle", "cb"}
<1>1. n \in Nat /\ n > 0 /\ th[p] \in Seq(FrameType) /\ U(p) = th[p][n].s /\ DOMAIN th[p] = 1 .. n
  BY TopFacts DEF LifeInv
<1>2. U(p) = s /\ C(th[p]) => Uses(p, s)
  BY <1>1, CallersOf DEF Uses
<1>3. ASSUME NEW v \in BOOLEAN, Return(p, v), n > 1 PROVE Uses(p, s)
  <2> DEFINE m == n - 1
  <2>1. /\ th'[p] \in Seq(FrameType) /\ Len(th'[p]) = m /\ Top(p)' = th'[p][m]
        /\ \A i \in 1 .. m : th'[p][i].at = th[p][i].at /\ th'[p][i].s = th[p][i].s
    BY <1>3, Returns
  <2>2. m \in Nat /\ m > 0 /\ m \in 1 .. m /\ m + 1 = n /\ m \in 1 .. n - 1 /\ m \in DOMAIN th[p]
    BY <1>1, <1>3
  <2>3. s = th[p][m].s
    BY <2>1, <2>2 DEF Uses, U
  <2>4. C(th'[p])
    BY <2>1, <2>2, CallersOf DEF Uses
  <2>5. PICK i \in 1 .. m - 1 : th'[p][i].at \in {"idle", "cb"}
    BY <2>1, <2>4
  <2> HIDE DEF m
  <2>6. i \in 1 .. m /\ i \in 1 .. n - 1 /\ m > 1 /\ (m = 2 => i = 1)
    BY <1>1, <2>2
  <2>7. th[p][i].at \in {"idle", "cb"}
    BY <2>1, <2>5, <2>6
  <2>8. th[p][m].at \notin Unslotted \cup {"cb"}
    BY <2>2, <2>6, <2>7, SlottedAbove, CallbackBelow
  <2>9. th[p][m + 1].s = th[p][m].s
    BY <2>2, <2>8 DEF Passes
  <2> QED
    BY <1>1, <1>2, <2>2, <2>3, <2>6, <2>7, <2>9
<1>4. ASSUME NEW fs \in Seq(FrameType), WorksBy(p, fs) PROVE Uses(p, s)
  <2> DEFINE k == Len(fs)
  <2>0. k \in Nat /\ k > 0 /\ k \in 1 .. k /\ DOMAIN fs = 1 .. k
    BY <1>4 DEF WorksBy
  <2>1. /\ th'[p] \in Seq(FrameType) /\ Len(th'[p]) = (n - 1) + k
        /\ \A i \in 1 .. n - 1 : th'[p][i] = th[p][i]
        /\ \A i \in 1 .. k : th'[p][(n - 1) + i] = fs[i]
        /\ Top(p)' = fs[k]
    BY <1>4, Replaced DEF WorksBy
  <2>2. Len(th'[p]) > 0
    BY <1>1, <2>0, <2>1
  <2>3. C(th'[p]) /\ s = fs[k].s
    BY <2>1, <2>2, CallersOf DEF Uses, U
  <2>4. PICK i \in 1 .. ((n - 1) + k) - 1 : th'[p][i].at \in {"idle", "cb"}
    BY <2>1, <2>3
  <2> HIDE DEF n, k
  <2>5. CASE i > n - 1
    <3> DEFINE j == i - (n - 1)
    <3>1. j \in 1 .. k - 1 /\ j \in 1 .. k /\ (n - 1) + j = i
      BY <1>1, <2>0, <2>5
    <3> HIDE DEF j
    <3>2. fs[j].at \in {"idle", "cb"}
      BY <2>1, <2>4, <3>1
    <3> QED
      BY <1>4, <3>1, <3>2 DEF WorksBy, k
  <2>6. CASE i <= n - 1
    <3>1. i \in 1 .. n - 1 /\ n > 1
      BY <1>1, <2>6
    <3>2. C(th[p])
      BY <2>1, <2>4, <3>1 DEF n
    <3>3. fs[k].s = U(p)
      BY <1>4, <2>0, <3>1 DEF WorksBy, n
    <3> QED
      BY <1>2, <2>3, <3>2, <3>3
  <2> QED
    BY <1>1, <2>5, <2>6
<1> QED
  BY <1>3, <1>4 DEF Works

\* The worker's own uevent_try_ref is not inside a call of the API.
LEMMA WorkerBelow ==
  ASSUME LifeInv, NEW q \in Threads, NEW m \in DOMAIN th[q], th[q][m].at = "wref"
  PROVE  m = 2 /\ th[q][1].at = "wfinal"
<1> DEFINE i == m - 1
<1>1. Len(th[q]) \in Nat /\ m \in 1 .. Len(th[q]) /\ th[q][1].at \in Ground(q)
  BY TopFacts DEF LifeInv, ShapeInv
<1>2. m # 1
  BY <1>1, GroundPlaces
<1>3. i \in 1 .. Len(th[q]) - 1 /\ i + 1 = m
  BY <1>1, <1>2
<1>4. "wref" \in Above(th[q][i].at)
  BY <1>3 DEF LifeInv, ShapeInv
<1>5. th[q][i].at = "wfinal"
  BY <1>4, AboveWhen DEF RefP, PutP, AddP, DelP, CbP
<1>6. i = 1
  <2> SUFFICES ASSUME i # 1 PROVE FALSE
    OBVIOUS
  <2> DEFINE k == i - 1
  <2> HIDE DEF i
  <2>1. k \in 1 .. Len(th[q]) - 1 /\ k + 1 = i
    BY <1>1, <1>3
  <2>2. "wfinal" \in Above(th[q][k].at)
    BY <1>5, <2>1 DEF LifeInv, ShapeInv
  <2> QED
    BY <2>2, AboveWhen DEF RefP, PutP, AddP, DelP, CbP
<1> QED
  BY <1>1, <1>5, <1>6

\* A thread inside a call has an event, or is about to give the slot one.
LEMMA UsedSlot ==
  ASSUME Exclusive, LifeInv, UseInv, NEW q \in Threads, NEW s \in Slots, Uses(q, s)
  PROVE  ev[s] # NULL \/ (At(q, "create") /\ base_mut = q)
<1> DEFINE n == Len(th[q])
<1>1. n \in Nat /\ n > 0 /\ th[q] \in Seq(FrameType) /\ DOMAIN th[q] = 1 .. n /\ U(q) = Top(q).s /\ Top(q) = th[q][n]
      /\ Top(q) \in FrameType /\ U(q) = s
  BY TopFacts DEF LifeInv, Uses
<1>2. PICK i \in 1 .. n - 1 : th[q][i].at \in {"idle", "cb"}
  BY <1>1, CallersOf DEF Uses
<1>3. n > 1 /\ Top(q).at \in Above(th[q][n - 1].at)
  <2>1. n > 1
    BY <1>1, <1>2
  <2> QED
    BY <2>1, BelowTop
<1>4. FrameInv(q, Top(q))
  BY TopKnown
<1>5. CASE Top(q).at \in AddP \cup DelP \cup CbP \cup PutP \cup {"free", "freepend"}
  BY <1>1, <1>4, <1>5 DEF FrameInv, Named, PutP
<1>6. CASE Top(q).at = "create"
  BY <1>4, <1>6 DEF FrameInv, At
<1>7. CASE Top(q).at \in RefP
  <2>1. th[q][n - 1].at \in RefTested
    BY <1>3, <1>7, AboveNone
  <2> DEFINE m == n - 1
  <2>2. m \in DOMAIN th[q] /\ th[q][m].at \in AddP \cup RefTested
    BY <1>1, <1>3, <2>1
  <2>3. m > 1 /\ th[q][m].at \in Above(th[q][m - 1].at)
    BY <2>2, CallPlace
  <2>4. n > 2
    BY <1>1, <2>3
  <2>5. CASE th[q][m].at # "wref"
    BY <1>1, <1>7, <2>4, <2>5, RefCaller DEF Sure, Alive
  <2>6. CASE th[q][m].at = "wref"
    BY <1>1, <1>2, <1>3, <2>2, <2>3, <2>6, WorkerBelow
  <2> QED
    BY <2>5, <2>6
<1>8. CASE Top(q).at \in RefTested
  <2>1. CASE Top(q).at # "wref"
    <3>1. CallOK(th[q])
      BY DEF UseInv, CallInv
    <3>2. Known(th[q][n - 1], th[q][n])
      BY <1>1, <1>3, <1>8, <2>1, <3>1 DEF CallOK
    <3> QED
      BY <1>1, <3>2 DEF Known, Sure, Alive
  <2>2. CASE Top(q).at = "wref"
    BY <1>1, <1>2, <1>3, <2>2, WorkerBelow
  <2> QED
    BY <2>1, <2>2
<1> QED
  BY <1>3, <1>5, <1>6, <1>7, <1>8, AboveWhen DEF RefTested, Tested

-----------------------------------------------------------------------------
(* The calls that start.                                                   *)

\* A call on slot s starts: the caller's frame stays below the new ones.
StartsBy(p, s, fs) ==
  /\ Len(fs) > 1 /\ Replace(p, fs)
  /\ Top(p).at \in {"idle", "cb"} /\ fs[1].at = Top(p).at /\ fs[1].s = U(p)
  /\ \A i \in 2 .. Len(fs) : fs[i].s = s
  /\ fs[Len(fs)].at # "delheap"
  /\ Exclusive => \A q \in Threads : ~Uses(q, s)

\* A step of p that starts a call.
Starts(p) == \E s \in Slots : \E fs \in Seq(FrameType) : StartsBy(p, s, fs)

\* uevent_create, uevent_free, and the calls that start with uevent_try_ref.
LEMMA StartStep ==
  ASSUME LifeInv, UseInv, NEW p \in Threads, NewCall(p)
  PROVE  Starts(p)
<1> DEFINE g == Here(p)
<1>1. ASSUME NEW k \in Kinds, NEW o \in Events, CreateBegin(p, k, o) PROVE Starts(p)
  <2> DEFINE s == Last(free_uev)
             h == Frame("create", s, o)
             fs == <<g, h>>
  <2>1. MayCall(p, "create", k) /\ free_uev # <<>> /\ free_uev \in Seq(Slots) /\ base_mut = NULL
    BY <1>1 DEF CreateBegin, LifeInv, TypeInv, MutexFree
  <2>2. Top(p).at \in {"idle", "cb"} /\ g \in FrameType /\ g.at = Top(p).at /\ g.s = U(p)
    BY <2>1, CallerFacts
  <2>3. s \in Slots /\ \E i \in DOMAIN free_uev : s = free_uev[i]
    BY <2>1, TakeSlot
  <2>4. ev[s] = NULL
    BY <2>3 DEF LifeInv, FreeSlots
  <2>5. ASSUME Exclusive, NEW q \in Threads PROVE ~Uses(q, s)
    <3>1. q # NULL
      BY LifeAssumption DEF Threads, Loop, Worker
    <3> HIDE DEF s
    <3> QED
      BY <2>1, <2>3, <2>4, <2>5, <3>1, UsedSlot
  <2>6. h \in FrameType /\ h.at = "create" /\ h.s = s
    BY <2>3, FrameTyped DEF Places, Frame
  <2>7. Replace(p, <<g, h>>)
    BY <1>1 DEF CreateBegin
  <2> HIDE DEF g, h, s
  <2>8. fs \in Seq(FrameType) /\ Len(fs) = 2 /\ fs[1] = g /\ fs[2] = h /\ Replace(p, fs)
    BY <2>2, <2>6, <2>7
  <2> HIDE DEF fs
  <2>9. \A i \in 2 .. Len(fs) : i = 2
    BY <2>8
  <2>10. StartsBy(p, s, fs)
    BY <2>2, <2>5, <2>6, <2>8, <2>9 DEF StartsBy
  <2> QED
    BY <2>3, <2>8, <2>10 DEF Starts
<1>2. ASSUME NEW op, NEW l \in RefTested, Begin(p, op, l) PROVE Starts(p)
  <2>1. PICK s \in Slots : MayUse(p, op, s) /\ TryRefThen(p, s, l, Here(p))
    BY <1>2 DEF Begin
  <2>2. Top(p).at \in {"idle", "cb"} /\ g \in FrameType /\ g.at = Top(p).at /\ g.s = U(p)
    BY <2>1, CallerFacts DEF MayUse
  <2> DEFINE h == Frame(l, s, NULL)
             k == Frame("ref", s, NULL)
             fs == <<g, h, k>>
  <2>3. h \in FrameType /\ k \in FrameType /\ h.s = s /\ k.s = s /\ k.at = "ref"
    BY FrameTyped DEF RefTested, Tested, Places, Frame
  <2> HIDE DEF g
  <2>4. Replace(p, fs)
    BY <2>1, <2>2, <2>3, AppendTwo DEF TryRefThen, Enter, g
  <2> HIDE DEF h, k
  <2>5. fs \in Seq(FrameType) /\ Len(fs) = 3 /\ fs[1] = g /\ fs[2] = h /\ fs[3] = k
    BY <2>2, <2>3
  <2> HIDE DEF fs
  <2>6. \A i \in 2 .. Len(fs) : i \in {2, 3}
    BY <2>5
  <2>7. StartsBy(p, s, fs)
    BY <2>1, <2>2, <2>3, <2>4, <2>5, <2>6 DEF StartsBy, MayUse
  <2> QED
    BY <2>5, <2>7 DEF Starts
<1>3. CASE FreeBegin(p)
  <2>1. PICK s \in Slots : MayUse(p, "free", s) /\ Enter(p, "free", s, <<Here(p)>>)
    BY <1>3 DEF FreeBegin
  <2>2. Top(p).at \in {"idle", "cb"} /\ g \in FrameType /\ g.at = Top(p).at /\ g.s = U(p)
    BY <2>1, CallerFacts DEF MayUse
  <2> DEFINE h == Frame("free", s, NULL)
             fs == <<g, h>>
  <2>3. h \in FrameType /\ h.s = s /\ h.at = "free"
    BY FrameTyped DEF Places, Frame
  <2> HIDE DEF g
  <2>4. Replace(p, fs)
    BY <2>1, <2>2, <2>3, AppendTwo DEF Enter, g
  <2> HIDE DEF h
  <2>5. fs \in Seq(FrameType) /\ Len(fs) = 2 /\ fs[1] = g /\ fs[2] = h
    BY <2>2, <2>3
  <2> HIDE DEF fs
  <2>6. \A i \in 2 .. Len(fs) : i = 2
    BY <2>5
  <2>7. StartsBy(p, s, fs)
    BY <2>1, <2>2, <2>3, <2>4, <2>5, <2>6 DEF StartsBy, MayUse
  <2> QED
    BY <2>5, <2>7 DEF Starts
<1>4. "addref" \in RefTested /\ "delref" \in RefTested /\ "peekref" \in RefTested
  BY DEF RefTested, Tested
<1> QED
  BY <1>1, <1>2, <1>3, <1>4 DEF NewCall

\* A call that starts passes its slot on, and is the only one on it.
LEMMA StartFacts ==
  ASSUME Exclusive, LifeInv, Passes, NEW p \in Threads, Starts(p)
  PROVE  /\ Passes'
         /\ \A t : Uses(p, t)' => \A q \in Threads : ~Uses(q, t)
         /\ ~At(p, "delheap")'
<1>1. PICK s \in Slots, fs \in Seq(FrameType) : StartsBy(p, s, fs)
  BY DEF Starts
<1> DEFINE k == Len(fs)
<1>2. k \in Nat /\ k > 1
  BY <1>1 DEF StartsBy
<1>3. \A i \in 1 .. k - 1 : fs[i].at \notin Unslotted \cup {"cb"} => fs[i + 1].s = fs[i].s
  <2> SUFFICES ASSUME NEW i \in 1 .. k - 1, fs[i].at \notin Unslotted \cup {"cb"} PROVE fs[i + 1].s = fs[i].s
    OBVIOUS
  <2>1. i # 1
    BY <1>1 DEF StartsBy, Unslotted
  <2>2. i \in 2 .. k /\ i + 1 \in 2 .. k
    BY <1>2, <2>1
  <2> QED
    BY <1>1, <2>2 DEF StartsBy
<1>4. Passes'
  BY <1>1, <1>2, <1>3, PassesReplace DEF StartsBy
<1>5. Top(p)' = fs[k]
  BY <1>1, <1>2, Replaced DEF StartsBy
<1>6. k \in 2 .. k
  BY <1>2
<1>7. fs[k].s = s /\ fs[k].at # "delheap" /\ \A q \in Threads : ~Uses(q, s)
  BY <1>1, <1>6 DEF StartsBy
<1> QED
  BY <1>4, <1>5, <1>7 DEF Uses, U, At

-----------------------------------------------------------------------------
(* StackInv is an invariant.                                               *)

\* No step takes an event away that its creator has, or changes its kind.
LEMMA EventsKept ==
  ASSUME LifeInv, NEW p \in Threads, NewCall(p) \/ Progress(p) \/ CbEnd(p), NEW s \in Slots, Alive(s)
  PROVE  ev'[s] = ev[s] /\ kind'[ev[s]] = kind[ev[s]]
<1>0. ev[s] \in Events /\ mem[ev[s]] = "live"
  BY DEF Alive, LifeInv, TypeInv, EventInv
<1>1. ASSUME NEW k \in Kinds, NEW o \in Events, CreateBegin(p, k, o) PROVE ev'[s] = ev[s] /\ kind'[ev[s]] = kind[ev[s]]
  <2>1. ev' = ev /\ kind' = [kind EXCEPT ![o] = k] /\ mem[o] = "none" /\ kind \in [Events -> SUBSET Flags]
    BY <1>1 DEF CreateBegin, LifeInv, TypeInv
  <2>2. o # ev[s]
    BY <1>0, <2>1
  <2> QED
    BY <1>0, <2>1, <2>2
<1>2. CASE CreateStore(p)
  <2>1. At(p, "create") /\ ev' = [ev EXCEPT ![U(p)] = E(p)] /\ kind' = kind /\ ev \in [Slots -> Events \cup {NULL}]
    BY <1>2 DEF CreateStore, memory, LifeInv, TypeInv
  <2>2. FrameInv(p, Top(p)) /\ U(p) = Top(p).s /\ Top(p).at = "create"
    BY <2>1, TopKnown DEF At
  <2>3. U(p) # s
    BY <2>2 DEF FrameInv, Alive
  <2> QED
    BY <2>1, <2>3
<1>3. CASE Destroy(p)
  <2>1. At(p, "destroy") /\ kind' = kind /\ ev \in [Slots -> Events \cup {NULL}]
        /\ (ev' = ev \/ ev' = [ev EXCEPT ![U(p)] = NULL])
    BY <1>3 DEF Destroy, LifeInv, TypeInv
  <2>2. U(p) # s
    BY <2>1, DestroyedPending
  <2> QED
    BY <2>1, <2>2
<1>4. ASSUME \/ Begin(p, "add", "addref") \/ Begin(p, "del", "delref") \/ Begin(p, "peek", "peekref")
             \/ FreeBegin(p)
      PROVE  ev' = ev /\ kind' = kind
  BY <1>4 DEF Begin, FreeBegin, slots, memory
<1>5. ASSUME TryInc(p) \/ TryCheck(p) \/ TryUndo(p) \/ PutTest(p) \/ PutDec(p) PROVE ev' = ev /\ kind' = kind
  BY <1>5 DEF TryInc, TryCheck, TryUndo, PutTest, PutDec, slots, memory
<1>6. ASSUME \/ Peek(p) \/ AddLock(p) \/ AddCheck(p) \/ AddFdRead(p) \/ AddFdCtl(p) \/ AddFdMark(p)
             \/ AddFdRef(p) \/ AddTimer(p) \/ AddEnd(p)
      PROVE  ev' = ev /\ kind' = kind
  BY <1>6 DEF Peek, AddLock, AddCheck, AddFdRead, AddFdCtl, AddFdMark, AddFdRef, AddTimer, AddEnd, slots, memory
<1>7. ASSUME \/ Del(p) \/ DelFdFlag(p) \/ DelFdCtl(p) \/ DelTimerFlag(p) \/ DelTimerHeap(p)
             \/ Free(p) \/ FreePend(p) \/ CbLock(p) \/ CbEnd(p)
      PROVE  ev' = ev /\ kind' = kind
  BY <1>7 DEF Del, DelFdFlag, DelFdCtl, DelTimerFlag, DelTimerHeap, Free, FreePend, CbLock, CbEnd, slots, memory
<1>8. ASSUME LoopStep PROVE ev' = ev /\ kind' = kind
  BY <1>8 DEF LoopStep, EpollWait, TimersLock, TimerTake, TimersEnd, TimerRearm, TimerCallback, EpollNext, EpollEnd,
              EpollTest, EpollAutoDel, Dispatch, slots, memory
<1>9. ASSUME WorkerStep PROVE ev' = ev /\ kind' = kind
  BY <1>9 DEF WorkerStep, WorkerTake, WorkerRef, WorkerFinal, slots, memory
<1> QED
  BY <1>1, <1>2, <1>3, <1>4, <1>5, <1>6, <1>7, <1>8, <1>9 DEF NewCall, Progress, Reference, InCall

\* The slot of the second frame stays what it is until the thread returns from it.
LEMMA SecondKept ==
  ASSUME LifeInv, NEW p \in Threads, NEW fs \in Seq(FrameType), Len(fs) > 0, Replace(p, fs), Len(th[p]) > 1,
         fs[1].s = U(p)
  PROVE  th'[p][1] = th[p][1] /\ th'[p][2].s = th[p][2].s
<1> DEFINE n == Len(th[p])
<1>1. n \in Nat /\ n > 1 /\ U(p) = th[p][n].s
  BY TopFacts DEF LifeInv
<1>2. (\A i \in 1 .. n - 1 : th'[p][i] = th[p][i]) /\ \A i \in 1 .. Len(fs) : th'[p][(n - 1) + i] = fs[i]
  BY Replaced
<1> HIDE DEF n
<1>3. 1 \in 1 .. n - 1 /\ 1 \in 1 .. Len(fs)
  BY <1>1
<1>4. CASE n = 2
  <2>1. (n - 1) + 1 = 2
    BY <1>4
  <2> QED
    BY <1>1, <1>2, <1>3, <1>4, <2>1
<1>5. CASE n # 2
  <2>1. 2 \in 1 .. n - 1
    BY <1>1, <1>5
  <2> QED
    BY <1>2, <1>3, <2>1
<1> QED
  BY <1>4, <1>5

\* The loop's own uevent_del keeps its descriptor.
LEMMA AutoNext ==
  ASSUME TimersLeftToLoop, LifeInv, AutoInv, NEW p \in Threads, NewCall(p) \/ Progress(p) \/ CbEnd(p),
         Works(p) \/ Starts(p)
  PROVE  AutoInv'
<1> DEFINE c == th[Loop]
           d == th'[Loop]
           n == Len(c)
           Next2(s) == ev'[s] # NULL /\ "fd" \in kind'[ev'[s]] /\ "persist" \notin kind'[ev'[s]]
<1>0. Loop \in Threads /\ n \in Nat /\ n > 0 /\ DOMAIN c = 1 .. n /\ c \in Seq(FrameType) /\ U(Loop) = c[n].s
      /\ Top(Loop) = c[n]
  BY LoopIsThread, TopFacts DEF LifeInv
<1>1. ASSUME NEW s \in Slots, OneShot(s) PROVE Next2(s)
  <2>1. Alive(s)
    BY <1>1, FdAlive DEF OneShot
  <2>2. ev'[s] = ev[s] /\ kind'[ev[s]] = kind[ev[s]]
    BY <2>1, EventsKept
  <2> QED
    BY <1>1, <2>2 DEF OneShot
<1>2. n > 1 => c[2].s \in Slots
  <2> SUFFICES ASSUME n > 1 PROVE c[2].s \in Slots
    OBVIOUS
  <2>1. 2 \in DOMAIN c /\ 2 > 1
    BY <1>0
  <2>2. c[2].at \notin Unslotted
    BY <1>0, <2>1, SlottedAbove
  <2> QED
    BY <1>0, <2>1, <2>2 DEF LifeInv, ShapeInv
<1> SUFFICES ASSUME d[1].at = "epoll", Len(d) > 1 PROVE Next2(d[2].s)
  BY DEF AutoInv, OneShot
<1>3. ASSUME n > 1, d[1].at = c[1].at, d[2].s = c[2].s PROVE Next2(d[2].s)
  <2>1. OneShot(c[2].s)
    BY <1>3 DEF AutoInv
  <2> HIDE DEF Next2
  <2> QED
    BY <1>1, <1>2, <1>3, <2>1
<1>4. CASE p # Loop
  <2>1. d = c
    <3>1. ASSUME NEW v \in BOOLEAN, Return(p, v), Len(th[p]) > 1 PROVE d = c
      BY <1>0, <1>4, <3>1, Returns
    <3>2. ASSUME NEW fs \in Seq(FrameType), Len(fs) > 0, Replace(p, fs) PROVE d = c
      BY <1>0, <1>4, <3>2, Replaced
    <3> QED
      BY <3>1, <3>2 DEF Works, WorksBy, Starts, StartsBy
  <2> QED
    BY <1>3, <2>1
<1>5. ASSUME p = Loop, NEW v \in BOOLEAN, Return(p, v), n > 1 PROVE Next2(d[2].s)
  <2>1. Len(d) = n - 1 /\ \A i \in 1 .. n - 1 : d[i].at = c[i].at /\ d[i].s = c[i].s
    BY <1>0, <1>5, Returns
  <2>2. 1 \in 1 .. n - 1 /\ 2 \in 1 .. n - 1
    BY <1>0, <2>1
  <2>3. d[1].at = c[1].at /\ d[2].s = c[2].s
    BY <2>1, <2>2
  <2> QED
    BY <1>3, <1>5, <2>3
<1>6. ASSUME p = Loop, NEW fs \in Seq(FrameType), Len(fs) > 0, Replace(p, fs), n > 1, fs[1].s = U(p)
      PROVE  Next2(d[2].s)
  <2>1. d[1].at = c[1].at /\ d[2].s = c[2].s
    BY <1>0, <1>6, SecondKept
  <2> QED
    BY <1>3, <1>6, <2>1
<1>7. ASSUME p = Loop, NEW fs \in Seq(FrameType), WorksBy(p, fs) PROVE Next2(d[2].s)
  <2>1. Len(fs) > 0 /\ Replace(p, fs) /\ Len(fs) \in Nat /\ 1 \in DOMAIN fs
    BY <1>7 DEF WorksBy
  <2>2. CASE n > 1
    BY <1>6, <1>7, <2>1, <2>2 DEF WorksBy
  <2>3. CASE n = 1
    <3>1. Len(d) = (n - 1) + Len(fs) /\ \A i \in 1 .. Len(fs) : d[(n - 1) + i] = fs[i]
      BY <1>0, <1>7, <2>1, Replaced
    <3> HIDE DEF n
    <3>2. Len(fs) > 1 /\ 1 \in 1 .. Len(fs) /\ 2 \in 1 .. Len(fs) /\ (n - 1) + 1 = 1 /\ (n - 1) + 2 = 2
      BY <2>1, <2>3, <3>1
    <3>3. d[1] = fs[1] /\ d[2] = fs[2]
      BY <3>1, <3>2
    <3>4. OneShot(fs[2].s) /\ fs[2].s \in Slots
      BY <1>7, <3>2, <3>3 DEF WorksBy
    <3> HIDE DEF Next2
    <3> QED
      BY <1>1, <3>3, <3>4
  <2>4. n = 1 \/ n > 1
    <3> HIDE DEF n
    <3> QED
      BY <1>0
  <2> QED
    BY <2>2, <2>3, <2>4
<1>8. ASSUME p = Loop, NEW s \in Slots, NEW fs \in Seq(FrameType), StartsBy(p, s, fs) PROVE Next2(d[2].s)
  <2>1. Len(fs) > 0 /\ Replace(p, fs) /\ fs[1].s = U(p) /\ Top(p).at \in {"idle", "cb"}
    BY <1>8 DEF StartsBy
  <2>2. n > 1
    <3>1. n # 1
      BY <1>0, <1>8, <2>1 DEF LifeInv, ShapeInv, Ground
    <3> HIDE DEF n
    <3> QED
      BY <1>0, <3>1
  <2> QED
    BY <1>6, <1>8, <2>1, <2>2
<1> HIDE DEF Next2
<1> QED
  BY <1>4, <1>5, <1>7, <1>8 DEF Works, Starts

\* The step of a thread leaves the stacks of the others.
LEMMA OthersKept ==
  ASSUME LifeInv, NEW p \in Threads, Works(p) \/ Starts(p), NEW q \in Threads, q # p
  PROVE  th'[q] = th[q] /\ Top(q)' = Top(q) /\ \A s : Uses(q, s)' <=> Uses(q, s)
<1>1. ASSUME NEW v \in BOOLEAN, Return(p, v), Len(th[p]) > 1 PROVE th'[q] = th[q]
  BY <1>1, Returns
<1>2. ASSUME NEW fs \in Seq(FrameType), Len(fs) > 0, Replace(p, fs) PROVE th'[q] = th[q]
  BY <1>2, Replaced
<1>3. th'[q] = th[q]
  BY <1>1, <1>2 DEF Works, WorksBy, Starts, StartsBy
<1> QED
  BY <1>3 DEF Top, Uses, U

\* Every step preserves StackInv.
LEMMA StackNext ==
  ASSUME TimersLeftToLoop, Exclusive, LifeInv, UseInv, StackInv, [Next]_vars
  PROVE  StackInv'
<1>1. CASE UNCHANGED vars
  <2>1. th' = th /\ ev' = ev /\ kind' = kind
    BY <1>1 DEF vars, slots, memory
  <2> QED
    BY <2>1 DEF StackInv, Passes, UsesOnce, AutoInv, OneShot, Uses, U, Top
<1>2. ASSUME NEW p \in Threads, NewCall(p) \/ Progress(p) \/ CbEnd(p) PROVE StackInv'
  <2>1. Works(p) \/ Starts(p)
    BY <1>2, StartStep, WorkStep
  <2>2. Passes'
    BY <2>1, PassesWorks, StartFacts DEF StackInv
  <2>3. AutoInv'
    BY <1>2, <2>1, AutoNext DEF StackInv
  <2>4. UsesOnce'
    <3>1. ASSUME NEW s \in Slots, NEW q \in Threads, q # p, Uses(p, s)', Uses(q, s)' PROVE FALSE
      <4>1. Uses(q, s)
        BY <2>1, <3>1, OthersKept
      <4>2. CASE Works(p)
        BY <3>1, <4>1, <4>2, UsesWorks DEF StackInv, UsesOnce
      <4>3. CASE Starts(p)
        BY <3>1, <4>1, <4>3, StartFacts DEF StackInv
      <4> QED
        BY <2>1, <4>2, <4>3
    <3>2. ASSUME NEW s \in Slots, NEW q \in Threads, NEW r \in Threads, Uses(q, s)', Uses(r, s)', q # p, r # p
          PROVE  q = r
      BY <2>1, <3>2, OthersKept DEF StackInv, UsesOnce
    <3> QED
      BY <3>1, <3>2 DEF UsesOnce
  <2> QED
    BY <2>2, <2>3, <2>4 DEF StackInv
<1> QED
  BY <1>1, <1>2 DEF Next

\* In the beginning no thread is in a call.
LEMMA StackInit ==
  ASSUME Init
  PROVE  StackInv
<1>1. th = [p \in Threads |-> <<NoFrame(Start(p))>>]
  BY DEF Init
<1>2. \A p \in Threads : Len(th[p]) = 1 /\ th[p] \in Seq(FrameType)
  <2> SUFFICES ASSUME NEW p \in Threads PROVE Len(th[p]) = 1 /\ th[p] \in Seq(FrameType)
    OBVIOUS
  <2> DEFINE g == NoFrame(Start(p))
  <2>1. g \in FrameType
    BY FrameTyped DEF NoFrame, Start, Places
  <2>2. th[p] = <<g>>
    BY <1>1
  <2> HIDE DEF g
  <2> QED
    BY <2>1, <2>2
<1>3. ASSUME NEW p \in Threads, NEW s, Uses(p, s) PROVE FALSE
  <2>1. \E i \in 1 .. Len(th[p]) - 1 : th[p][i].at \in {"idle", "cb"}
    BY <1>2, <1>3, CallersOf DEF Uses
  <2> DEFINE n == Len(th[p])
  <2>2. n = 1 /\ \E i \in 1 .. n - 1 : TRUE
    BY <1>2, <2>1
  <2> HIDE DEF n
  <2> QED
    BY <2>2
<1> QED
  BY <1>2, <1>3, LoopIsThread DEF StackInv, Passes, UsesOnce, AutoInv

\* Under Exclusive calls on one event do not overlap: a thread that is inside
\* a call on a slot is the only one, from the call of the API to its return,
\* and the calls the library makes on the way are on the same slot.
THEOREM StackInvariant ==
  ASSUME TimersLeftToLoop, Exclusive
  PROVE  Spec => []StackInv
<1>0. ArmedKept
  BY DEF ArmedKept
<1>1. Init => StackInv
  BY StackInit
<1>2. LifeInv /\ UseInv /\ StackInv /\ [Next]_vars => StackInv'
  BY StackNext
<1>3. Spec => []LifeInv
  BY LifeInvariant
<1>4. Spec => []UseInv
  BY <1>0, UseInvariant
<1> QED
  BY <1>1, <1>2, <1>3, <1>4, PTL DEF Spec

-----------------------------------------------------------------------------
(* An event whose last reference is gone is being destroyed.               *)

\* Two frames of a thread that own references to one slot.
LEMMA TwoReferences ==
  ASSUME LifeInv, NEW p \in Threads, NEW s \in Slots, NEW i \in DOMAIN th[p], NEW j \in DOMAIN th[p], i # j,
         th[p][i].s = s, th[p][j].s = s, Owned(th[p][i]) = 1, Owned(th[p][j]) = 1
  PROVE  refcount[s] >= 2
<1> DEFINE a == <<p, <<i, 1>>>>
           b == <<p, <<j, 1>>>>
           H == Held(th, s)
<1>1. th \in Stacks
  BY DEF LifeInv, TypeInv, Stacks
<1>2. a \in H /\ b \in H /\ a # b
  BY <1>1, HeldMember
<1>3. IsFiniteSet(H)
  BY <1>1, HeldFinite
<1> HIDE DEF H, a, b
<1>4. IsFiniteSet({a, b}) /\ Cardinality({a, b}) = 2
  <2>1. IsFiniteSet({a}) /\ Cardinality({a}) = 1 /\ b \notin {a}
    BY <1>2, FS_Singleton
  <2>2. IsFiniteSet({a} \cup {b}) /\ Cardinality({a} \cup {b}) = Cardinality({a}) + 1
    BY <2>1, FS_AddElement
  <2>3. {a} \cup {b} = {a, b}
    OBVIOUS
  <2> QED
    BY <2>1, <2>2, <2>3
<1>5. Cardinality(H) >= 2 /\ Cardinality(H) \in Nat
  <2>1. {a, b} \subseteq H
    BY <1>2
  <2> QED
    BY <1>3, <1>4, <2>1, FS_Subset, FS_CardinalityType
<1> QED
  BY <1>5, ReferenceTerms DEF LifeInv, RefExact, One, H

\* uevent_try_ref takes back an increment that was not the last reference: only
\* the worker's try_ref fails after its increment, and the worker has the
\* reference of the task.
LEMMA UndoKeeps ==
  ASSUME Exclusive, LifeInv, UseInv, StackInv, NEW p \in Threads, At(p, "refundo")
  PROVE  U(p) \in Slots /\ refcount[U(p)] >= 2
<1> DEFINE n == Len(th[p])
           m == n - 1
<1>1. Top(p).at = "refundo" /\ Top(p).at \in RefP
  BY DEF At, RefP
<1>2. n \in Nat /\ n > 1 /\ U(p) \in Slots /\ th[p][m].s = U(p)
      /\ (n > 2 /\ th[p][m].at # "wref" /\ Sure(th[p][n - 2]) => Top(p).at # "refundo")
  BY <1>1, RefCaller
<1>3. Top(p).at \in Above(th[p][m].at) /\ Top(p) = th[p][n] /\ DOMAIN th[p] = 1 .. n
  BY <1>2, BelowTop, TopFacts DEF LifeInv
<1>4. th[p][m].at \in RefTested
  BY <1>1, <1>3, AboveNone
<1>5. m \in DOMAIN th[p] /\ n \in DOMAIN th[p]
  BY <1>2, <1>3
<1>6. m > 1
  BY <1>4, <1>5, CallPlace
<1>7. n > 2
  <2> HIDE DEF n
  <2> QED
    BY <1>2, <1>6
<1>8. th[p][m].at = "wref"
  BY <1>1, <1>2, <1>7 DEF Sure
<1>9. m = 2 /\ th[p][1].at = "wfinal"
  BY <1>5, <1>8, WorkerBelow
<1>10. 1 \in DOMAIN th[p] /\ 1 \in 1 .. n - 1 /\ 1 + 1 = m /\ 1 # n
  <2> HIDE DEF n
  <2> QED
    BY <1>2, <1>3, <1>9 DEF n
<1>11. th[p][1].s = U(p)
  <2>1. th[p][1].at \notin Unslotted \cup {"cb"}
    BY <1>9 DEF Unslotted
  <2>2. th[p][1 + 1].s = th[p][1].s
    BY <1>10, <2>1 DEF StackInv, Passes
  <2> QED
    BY <1>2, <1>10, <2>2
<1>12. Owned(th[p][1]) = 1 /\ Owned(th[p][n]) = 1 /\ th[p][n].s = U(p)
  BY <1>1, <1>3, <1>9, WorthFacts DEF U
<1> QED
  BY <1>2, <1>5, <1>10, <1>11, <1>12, TwoReferences

\* A step that leaves no other slot without references, by a thread that is not
\* destroying an event.
LEMMA LeakStep ==
  ASSUME LifeInv, NoLeak, NEW p \in Threads, Works(p) \/ Starts(p), ~At(p, "destroy"),
         \A s \in Slots : ev'[s] # NULL /\ refcount'[s] = 0 =>
            (ev[s] # NULL /\ refcount[s] = 0) \/ (Top(p)'.at = "destroy" /\ Top(p)'.s = s)
  PROVE  NoLeak'
<1> SUFFICES ASSUME NEW s \in Slots, ev'[s] # NULL, refcount'[s] = 0
             PROVE  \E q \in Threads : Top(q)'.at = "destroy" /\ Top(q)'.s = s
  BY DEF NoLeak, At, U
<1>1. CASE ev[s] # NULL /\ refcount[s] = 0
  <2>1. PICK q \in Threads : At(q, "destroy") /\ U(q) = s
    BY <1>1 DEF NoLeak
  <2>2. q # p
    BY <2>1
  <2>3. Top(q)' = Top(q)
    BY <2>2, OthersKept
  <2> QED
    BY <2>1, <2>3 DEF At, U
<1> QED
  BY <1>1

\* A step that adds a reference, if any.
LEMMA CountsUp ==
  ASSUME LifeInv, refcount' = refcount \/ \E t \in Slots : AddRef(t, 1)
  PROVE  \A s \in Slots : refcount'[s] = 0 => refcount[s] = 0
<1> SUFFICES ASSUME NEW s \in Slots, refcount'[s] = 0 PROVE refcount[s] = 0
  OBVIOUS
<1>1. refcount[s] \in Nat /\ refcount \in [Slots -> Int]
  BY Positive DEF LifeInv, TypeInv
<1>2. ASSUME NEW t \in Slots, AddRef(t, 1) PROVE refcount[s] = 0
  <2>1. CASE s = t
    <3>1. refcount'[s] = refcount[s] + 1
      BY <1>1, <1>2, <2>1 DEF AddRef
    <3> QED
      BY <1>1, <3>1
  <2>2. CASE s # t
    BY <1>1, <1>2, <2>2 DEF AddRef
  <2> QED
    BY <2>1, <2>2
<1> QED
  BY <1>2

\* uevent_try_ref and uevent_put: who drops the last reference goes on to
\* uevent_destroy.
LEMMA LeakReference ==
  ASSUME Exclusive, LifeInv, UseInv, StackInv, NoLeak, NEW p \in Threads, Reference(p)
  PROVE  NoLeak'
<1>0. Works(p) /\ refcount \in [Slots -> Int] /\ ev \in [Slots -> Events \cup {NULL}]
  BY WorkReference DEF LifeInv, TypeInv
<1>1. CASE TryInc(p) \/ TryCheck(p) \/ PutTest(p)
  <2>1. ev' = ev /\ ~At(p, "destroy") /\ Top(p).at \in RefP \cup PutP
    BY <1>1 DEF TryInc, TryCheck, PutTest, slots, At, RefP, PutP
  <2>2. U(p) \in Slots
    BY <2>1, Nested DEF RefP, PutP, LoopP
  <2>3. refcount' = refcount \/ \E t \in Slots : AddRef(t, 1)
    BY <1>1, <2>2 DEF TryInc, TryCheck, PutTest, slots
  <2> QED
    BY <1>0, <2>1, <2>3, CountsUp, LeakStep
<1>2. CASE TryUndo(p)
  <2>1. At(p, "refundo") /\ ev' = ev /\ AddRef(U(p), -1) /\ ~At(p, "destroy")
    BY <1>2 DEF TryUndo, At
  <2>2. U(p) \in Slots /\ refcount[U(p)] >= 2
    BY <2>1, UndoKeeps
  <2>3. \A s \in Slots : refcount'[s] = 0 => refcount[s] = 0
    <3> SUFFICES ASSUME NEW s \in Slots, refcount'[s] = 0 PROVE refcount[s] = 0
      OBVIOUS
    <3>1. CASE s = U(p)
      <4>1. refcount'[s] = refcount[s] + (-1) /\ refcount[s] \in Int /\ refcount[s] >= 2
        BY <1>0, <2>1, <2>2, <3>1 DEF AddRef
      <4> QED
        BY <4>1
    <3>2. CASE s # U(p)
      BY <1>0, <2>1, <3>2 DEF AddRef
    <3> QED
      BY <3>1, <3>2
  <2> QED
    BY <1>0, <2>1, <2>3, LeakStep
<1>3. CASE PutDec(p)
  <2>1. Top(p).at = "dec" /\ ev' = ev /\ AddRef(U(p), -1) /\ ~At(p, "destroy")
    BY <1>3 DEF PutDec, At
  <2>2. U(p) \in Slots /\ E(p) \in Events \cup {NULL}
    BY <2>1, Nested DEF LoopP
  <2>3. ASSUME NEW s \in Slots, refcount'[s] = 0
        PROVE  refcount[s] = 0 \/ (Top(p)'.at = "destroy" /\ Top(p)'.s = s)
    <3>1. CASE s = U(p)
      <4>1. refcount'[s] = refcount[s] + (-1) /\ refcount[s] \in Int
        BY <1>0, <2>1, <2>2, <3>1 DEF AddRef
      <4>2. refcount[U(p)] = 1
        BY <2>3, <3>1, <4>1
      <4>3. Load(p, "destroy", E(p))
        BY <1>3, <4>2 DEF PutDec, Go
      <4>4. Frame("destroy", U(p), E(p)) \in FrameType
        BY <2>2, FrameTyped DEF Places
      <4>5. PICK g \in FrameType : Replace(p, <<g>>) /\ g.at = "destroy" /\ g.s = U(p)
        BY <4>3, <4>4, LoadFrame
      <4>6. Top(p)' = g
        <5> DEFINE fs == <<g>>
        <5>1. fs \in Seq(FrameType) /\ Len(fs) = 1 /\ fs[1] = g /\ Replace(p, fs)
          BY <4>5
        <5> HIDE DEF fs
        <5>2. Len(fs) > 0
          BY <5>1
        <5>3. Top(p)' = fs[Len(fs)]
          BY <5>1, <5>2, Replaced
        <5> QED
          BY <5>1, <5>3
      <4> QED
        BY <3>1, <4>5, <4>6
    <3>2. CASE s # U(p)
      BY <1>0, <2>1, <2>3, <3>2 DEF AddRef
    <3> QED
      BY <3>1, <3>2
  <2> QED
    BY <1>0, <2>1, <2>3, LeakStep
<1>4. CASE Destroy(p)
  <2>1. At(p, "destroy") /\ refcount' = refcount /\ (ev[U(p)] = NULL => ev' = ev)
        /\ (ev[U(p)] # NULL => ev' = [ev EXCEPT ![U(p)] = NULL])
    BY <1>4 DEF Destroy
  <2>2. U(p) \in Slots
    BY <2>1, DestroyedPending
  <2> SUFFICES ASSUME NEW s \in Slots, ev'[s] # NULL, refcount'[s] = 0
               PROVE  \E q \in Threads : Top(q)'.at = "destroy" /\ Top(q)'.s = s
    BY DEF NoLeak, At, U
  <2>3. s # U(p) /\ ev[s] # NULL /\ refcount[s] = 0
    BY <1>0, <2>1, <2>2
  <2>4. PICK q \in Threads : At(q, "destroy") /\ U(q) = s
    BY <2>3 DEF NoLeak
  <2>5. Top(q)' = Top(q)
    BY <1>0, <2>3, <2>4, OthersKept
  <2> QED
    BY <2>4, <2>5 DEF At, U
<1> QED
  BY <1>1, <1>2, <1>3, <1>4 DEF Reference

\* Calls: the new event has the reference of its creator.
LEMMA LeakCreate ==
  ASSUME LifeInv, UseInv, NoLeak, NEW p \in Threads,
         CreateStore(p) \/ \E k \in Kinds, o \in Events : CreateBegin(p, k, o)
  PROVE  NoLeak'
<1>0. refcount \in [Slots -> Int] /\ ev \in [Slots -> Events \cup {NULL}] /\ free_uev \in Seq(Slots)
  BY DEF LifeInv, TypeInv
<1>1. ASSUME NEW k \in Kinds, NEW o \in Events, CreateBegin(p, k, o) PROVE NoLeak'
  <2>1. Starts(p)
    BY <1>1, StartStep DEF NewCall
  <2>2. ev' = ev /\ refcount' = [refcount EXCEPT ![Last(free_uev)] = 1] /\ free_uev # <<>> /\ ~At(p, "destroy")
    BY <1>1 DEF CreateBegin, MayCall, At
  <2>3. \A s \in Slots : refcount'[s] = 0 => refcount[s] = 0
    BY <1>0, <2>2
  <2> QED
    BY <2>1, <2>2, <2>3, LeakStep
<1>2. CASE CreateStore(p)
  <2>1. Works(p) /\ Top(p).at = "create" /\ ~At(p, "destroy") /\ refcount' = refcount
        /\ ev' = [ev EXCEPT ![U(p)] = E(p)]
    BY <1>2, WorkPlain DEF CreateStore, At
  <2>2. U(p) \in Slots /\ U(p) = Top(p).s /\ Top(p) = th[p][Len(th[p])] /\ Len(th[p]) \in DOMAIN th[p]
    BY <2>1, Nested, TopFacts DEF LoopP, LifeInv
  <2>3. refcount[U(p)] # 0
    <3>1. Owned(th[p][Len(th[p])]) = 1
      BY <2>1, <2>2, WorthFacts
    <3>2. refcount[U(p)] >= 1 /\ refcount[U(p)] \in Nat
      BY <2>2, <3>1, Positive DEF LifeInv
    <3> QED
      BY <3>2
  <2>4. \A s \in Slots : ev'[s] # NULL /\ refcount'[s] = 0 => ev[s] # NULL /\ refcount[s] = 0
    BY <1>0, <2>1, <2>3
  <2> QED
    BY <2>1, <2>4, LeakStep
<1> QED
  BY <1>1, <1>2

\* Every step.
LEMMA LeakNext ==
  ASSUME Exclusive, LifeInv, UseInv, StackInv, NoLeak, [Next]_vars
  PROVE  NoLeak'
<1>1. CASE UNCHANGED vars
  BY <1>1 DEF NoLeak, vars, slots, At, U, Top
<1>2. ASSUME NEW p \in Threads, ev' = ev, ~At(p, "destroy"), Works(p) \/ Starts(p),
             refcount' = refcount \/ \E t \in Slots : AddRef(t, 1)
      PROVE  NoLeak'
  BY <1>2, CountsUp, LeakStep
<1>3. ASSUME NEW p \in Threads, NewCall(p) PROVE NoLeak'
  <2>1. Starts(p)
    BY <1>3, StartStep
  <2>2. CASE \E k \in Kinds, o \in Events : CreateBegin(p, k, o)
    BY <2>2, LeakCreate
  <2>3. CASE FreeBegin(p) \/ Begin(p, "add", "addref") \/ Begin(p, "del", "delref") \/ Begin(p, "peek", "peekref")
    <3>1. ev' = ev /\ refcount' = refcount /\ ~At(p, "destroy")
      BY <2>3 DEF FreeBegin, Begin, MayUse, MayCall, At, slots
    <3> QED
      BY <1>2, <2>1, <3>1
  <2> QED
    BY <1>3, <2>2, <2>3 DEF NewCall
<1>4. ASSUME NEW p \in Threads, InCall(p) PROVE NoLeak'
  <2>1. Works(p)
    BY <1>4, WorkInCall
  <2>2. CASE CreateStore(p)
    BY <2>2, LeakCreate
  <2>3. CASE AddFdRef(p) \/ AddTimer(p)
    <3>1. Top(p).at \in {"addfdref", "addtm"} /\ ev' = ev /\ ~At(p, "destroy")
      BY <2>3 DEF AddFdRef, AddTimer, At
    <3>2. U(p) \in Slots
      BY <3>1, Nested DEF LoopP
    <3>3. refcount' = refcount \/ AddRef(U(p), 1)
      BY <2>3 DEF AddFdRef, AddTimer, InsertTimer
    <3> QED
      BY <1>2, <2>1, <3>1, <3>2, <3>3
  <2>4. CASE \/ Peek(p) \/ AddLock(p) \/ AddCheck(p) \/ AddFdRead(p) \/ AddFdCtl(p) \/ AddFdMark(p) \/ AddEnd(p)
             \/ Del(p) \/ DelFdFlag(p) \/ DelFdCtl(p) \/ DelTimerFlag(p) \/ DelTimerHeap(p)
             \/ Free(p) \/ FreePend(p)
    <3>1. ev' = ev /\ refcount' = refcount /\ ~At(p, "destroy")
      BY <2>4 DEF Peek, AddLock, AddCheck, AddFdRead, AddFdCtl, AddFdMark, AddEnd, Del, DelFdFlag, DelFdCtl,
                  DelTimerFlag, DelTimerHeap, Free, FreePend, slots, At
    <3> QED
      BY <1>2, <2>1, <3>1
  <2> QED
    BY <1>4, <2>2, <2>3, <2>4 DEF InCall
<1>5. ASSUME LoopStep PROVE NoLeak'
  <2>1. Works(Loop) /\ Loop \in Threads
    BY <1>5, WorkLoop, LoopIsThread
  <2>2. CASE TimerRearm \/ Dispatch(Loop)
    <3>1. Top(Loop).at \in {"tput", "dispref"} /\ ev' = ev /\ ~At(Loop, "destroy")
      BY <2>2 DEF TimerRearm, Dispatch, At
    <3>2. U(Loop) \in Slots
      BY <2>1, <3>1, TopFacts DEF LifeInv, FrameShape, Unslotted
    <3>3. refcount' = refcount \/ AddRef(U(Loop), 1)
      BY <2>2 DEF TimerRearm, Dispatch, InsertTimer, Enqueue
    <3> QED
      BY <1>2, <2>1, <3>1, <3>2, <3>3
  <2>3. CASE \/ EpollWait \/ TimersLock \/ (\E o \in Events : TimerTake(o)) \/ TimersEnd \/ TimerCallback
             \/ EpollNext \/ EpollEnd \/ EpollTest \/ EpollAutoDel
    <3>1. ev' = ev /\ refcount' = refcount /\ ~At(Loop, "destroy")
      BY <2>3 DEF EpollWait, TimersLock, TimerTake, TimersEnd, TimerCallback, EpollNext, EpollEnd, EpollTest,
                  EpollAutoDel, slots, At
    <3> QED
      BY <1>2, <2>1, <3>1
  <2> QED
    BY <1>5, <2>2, <2>3 DEF LoopStep
<1>6. ASSUME WorkerStep PROVE NoLeak'
  <2>1. Works(Worker) /\ Worker \in Threads
    BY <1>6, WorkWorker, LoopIsThread
  <2>2. ev' = ev /\ refcount' = refcount /\ ~At(Worker, "destroy")
    BY <1>6 DEF WorkerStep, WorkerTake, WorkerRef, WorkerFinal, slots, At
  <2> QED
    BY <1>2, <2>1, <2>2
<1>7. ASSUME NEW p \in Threads, CbLock(p) \/ CbEnd(p) PROVE NoLeak'
  <2>1. ev' = ev /\ refcount' = refcount /\ ~At(p, "destroy")
    BY <1>7 DEF CbLock, CbEnd, slots, At
  <2> QED
    BY <1>2, <1>7, <2>1, WorkPlain
<1> QED
  BY <1>1, <1>3, <1>4, <1>5, <1>6, <1>7, LeakReference DEF Next, Progress

\* An event whose last reference is gone is being destroyed, by the thread that
\* dropped it: uevent_put destroys what it leaves without references, and the
\* plain subtraction at the end of uevent_try_ref, which destroys nothing, never
\* takes the last reference away.
THEOREM LeakCorrect ==
  ASSUME TimersLeftToLoop, Exclusive
  PROVE  Spec => []NoLeak
<1>0. ArmedKept
  BY DEF ArmedKept
<1>1. Init => NoLeak
  BY DEF Init, NoLeak
<1>2. LifeInv /\ UseInv /\ StackInv /\ NoLeak /\ [Next]_vars => NoLeak'
  BY LeakNext
<1>3. Spec => []LifeInv
  BY LifeInvariant
<1>4. Spec => []UseInv
  BY <1>0, UseInvariant
<1>5. Spec => []StackInv
  BY StackInvariant
<1> QED
  BY <1>1, <1>2, <1>3, <1>4, <1>5, PTL DEF Spec

-----------------------------------------------------------------------------
(* The flag, the heap and the count of the timers.                         *)

\* One-shot descriptors have no timer: the loop disarms them by itself, and
\* nothing would keep a client from arming the timer at the same time.
TimedPersist == \A k \in Kinds : {"fd", "timeout"} \subseteq k /\ Arms(k) => "persist" \in k

\* ActiveExact as an inductive invariant: only the loop is between the two steps
\* of remove_event_from_heap.
HeapInv ==
  /\ active_timer \subseteq heap
  /\ \A p \in Threads : At(p, "delheap") => p = Loop /\ E(p) \in heap \ active_timer
  /\ IsFiniteSet(heap) /\ num_active_timers = Cardinality(heap)

\* Only uevent_del at deltm gets to delheap.
LEMMA ToDelheap ==
  ASSUME Exclusive, LifeInv, Passes, NEW p \in Threads, Works(p) \/ Starts(p), Top(p)'.at = "delheap"
  PROVE  At(p, "deltm")
<1>1. ASSUME NEW v \in BOOLEAN, Return(p, v), Len(th[p]) > 1 PROVE FALSE
  <2> DEFINE m == Len(th[p]) - 1
  <2>1. Top(p)' = th'[p][m] /\ \A i \in 1 .. m : th'[p][i].at = th[p][i].at
    BY <1>1, Returns
  <2>2. m \in 1 .. m /\ Top(p).at \in Above(th[p][m].at)
    BY <1>1, BelowTop
  <2>3. th[p][m].at = "delheap"
    BY <2>1, <2>2
  <2> QED
    BY <2>2, <2>3, AboveNone
<1>2. ASSUME NEW fs \in Seq(FrameType), WorksBy(p, fs) PROVE At(p, "deltm")
  BY <1>2, Replaced DEF WorksBy
<1> QED
  BY <1>1, <1>2, StartFacts DEF Works, At

\* A step that does not touch the timers.
LEMMA HeapSame ==
  ASSUME Exclusive, LifeInv, Passes, HeapInv, NEW p \in Threads, Works(p) \/ Starts(p), ~At(p, "deltm"),
         UNCHANGED <<heap, active_timer, num_active_timers>>
  PROVE  HeapInv'
<1>1. ASSUME NEW q \in Threads, Top(q)'.at = "delheap" PROVE q = Loop /\ Top(q)'.o \in heap \ active_timer
  <2>1. q # p
    BY <1>1, ToDelheap
  <2>2. Top(q)' = Top(q)
    BY <2>1, OthersKept
  <2> QED
    BY <1>1, <2>2 DEF HeapInv, At, E
<1> QED
  BY <1>1 DEF HeapInv, At, E

\* The loop is not between the two steps: the flag says what is in the heap.
LEMMA FlagIsHeap ==
  ASSUME LifeInv, HeapInv, ~At(Loop, "delheap")
  PROVE  heap = active_timer
  BY DEF HeapInv, LifeInv, EventInv

\* Nobody arms the timer that the loop is taking out of the heap: the calls do
\* not overlap, and what the loop disarms by itself has no timer.
LEMMA NoRace ==
  ASSUME TimersLeftToLoop, TimedPersist, LifeInv, UseInv, StackInv, NEW p \in Threads, At(p, "addtm"),
         At(Loop, "delheap")
  PROVE  E(p) # E(Loop)
<1> SUFFICES ASSUME E(p) = E(Loop) PROVE FALSE
  OBVIOUS
<1> DEFINE n == Len(th[Loop])
           m == n - 1
           s == U(p)
<1>1. Top(p).at = "addtm" /\ Top(Loop).at = "delheap" /\ Loop \in Threads
  BY LoopIsThread DEF At
<1>2. s \in Slots /\ U(Loop) \in Slots /\ E(p) = Top(p).o /\ s = Top(p).s /\ U(Loop) = Top(Loop).s /\ E(Loop) = Top(Loop).o
  BY <1>1, Nested, TopFacts DEF LoopP, LifeInv
<1>3. E(p) # NULL /\ ev[s] = E(p) /\ ev[U(Loop)] = E(Loop) /\ "timeout" \in kind[E(p)]
  BY <1>1, <1>2, TopKnown DEF FrameInv, AddP, DelP
<1>4. U(Loop) = s
  BY <1>2, <1>3, OneSlot
<1>5. p # Loop
  BY <1>1
<1>6. Uses(p, s) /\ Arms(kind[E(p)])
  <2>1. Len(th[p]) \in DOMAIN th[p] /\ Top(p) = th[p][Len(th[p])]
    BY TopFacts DEF LifeInv
  <2>2. Top(p).at \in AddC
    BY <1>1 DEF AddC, AddP
  <2> QED
    BY <1>2, <1>3, <2>1, <2>2, AddUses DEF UseInv, UseFrames, UseFrame
<1>7. ~Uses(Loop, s)
  BY <1>1, <1>2, <1>5, <1>6 DEF StackInv, UsesOnce
<1>8. n \in Nat /\ n > 1 /\ m \in DOMAIN th[Loop] /\ DOMAIN th[Loop] = 1 .. n /\ Top(Loop) = th[Loop][n]
      /\ "delheap" \in Above(th[Loop][m].at)
  BY <1>1, Nested, BelowTop, TopFacts DEF LoopP, LifeInv
<1>9. th[Loop][m].at \in {"idle", "cb", "freepend", "epoll"}
  BY <1>8, AboveWhen DEF RefP, PutP, AddP, CbP
<1>10. CASE th[Loop][m].at \in {"idle", "cb"}
  <2>1. m \in 1 .. n - 1
    BY <1>8
  <2> QED
    BY <1>1, <1>4, <1>7, <1>10, <2>1, InUse
<1>11. CASE th[Loop][m].at = "freepend"
  <2> DEFINE i == m - 1
  <2>1. m # 1
    BY <1>1, <1>8, <1>11, GroundPlaces DEF LifeInv, ShapeInv
  <2>2. i \in 1 .. n - 1 /\ i + 1 = m
    <3> HIDE DEF n
    <3> QED
      BY <1>8, <2>1
  <2>3. "freepend" \in Above(th[Loop][i].at)
    BY <1>1, <1>11, <2>2 DEF LifeInv, ShapeInv
  <2>4. th[Loop][i].at \in {"idle", "cb"}
    BY <2>3, AboveWhen DEF RefP, PutP, AddP, CbP, DelP
  <2> QED
    BY <1>1, <1>4, <1>7, <2>2, <2>4, InUse
<1>12. CASE th[Loop][m].at = "epoll"
  <2>1. m = 1
    BY <1>1, <1>8, <1>12, LoopPlace DEF LoopP
  <2>2. n = 2
    <3> HIDE DEF n
    <3> QED
      BY <1>8, <2>1
  <2>3. OneShot(s)
    BY <1>2, <1>4, <1>8, <1>12, <2>1, <2>2 DEF StackInv, AutoInv
  <2>4. kind[E(p)] \in Kinds
    BY <1>2, <1>3 DEF LifeInv, EventInv
  <2> QED
    BY <1>3, <1>6, <2>3, <2>4 DEF OneShot, TimedPersist
<1> QED
  BY <1>9, <1>10, <1>11, <1>12

\* insert_timer_to_heap of an event that is armed or not in the heap.
LEMMA HeapInsert ==
  ASSUME HeapInv, NEW s, NEW o, InsertTimer(s, o), o \in active_timer \/ o \notin heap
  PROVE  /\ active_timer' \subseteq heap' /\ IsFiniteSet(heap') /\ num_active_timers' = Cardinality(heap')
         /\ heap' = heap \cup {o} /\ active_timer' = active_timer \cup {o}
<1>1. heap' = heap \cup {o} /\ active_timer' = active_timer \cup {o}
  BY DEF InsertTimer
<1>2. CASE o \in active_timer
  <2>1. heap' = heap /\ num_active_timers' = num_active_timers
    BY <1>1, <1>2 DEF InsertTimer, HeapInv
  <2> QED
    BY <1>1, <2>1 DEF HeapInv
<1>3. CASE o \notin heap
  <2>1. o \notin active_timer
    BY <1>3 DEF HeapInv
  <2>2. num_active_timers' = num_active_timers + 1
    BY <2>1 DEF InsertTimer
  <2>3. IsFiniteSet(heap \cup {o}) /\ Cardinality(heap \cup {o}) = Cardinality(heap) + 1
    BY <1>3, FS_AddElement DEF HeapInv
  <2> QED
    BY <1>1, <2>2, <2>3 DEF HeapInv
<1> QED
  BY <1>2, <1>3

\* A node leaves the heap.
LEMMA HeapRemove ==
  ASSUME HeapInv, NEW o \in heap, heap' = heap \ {o}, num_active_timers' = num_active_timers - 1
  PROVE  IsFiniteSet(heap') /\ num_active_timers' = Cardinality(heap')
<1>1. IsFiniteSet(heap \ {o}) /\ Cardinality(heap \ {o}) = Cardinality(heap) - 1
  BY FS_RemoveElement DEF HeapInv
<1> QED
  BY <1>1 DEF HeapInv

\* The steps that change the timers.
LEMMA HeapTimers ==
  ASSUME TimersLeftToLoop, Exclusive, TimedPersist, LifeInv, UseInv, StackInv, HeapInv, NEW p \in Threads, Works(p),
         \/ AddTimer(p) \/ DelTimerFlag(p) \/ DelTimerHeap(p)
         \/ (p = Loop /\ TimerRearm) \/ (p = Loop /\ \E o \in Events : TimerTake(o))
  PROVE  HeapInv'
<1> DEFINE Delheap(q) == Top(q)'.at = "delheap" => q = Loop /\ Top(q)'.o \in heap' \ active_timer'
<1>0. Loop \in Threads /\ Passes
  BY LoopIsThread DEF StackInv
<1>1. ASSUME active_timer' \subseteq heap', IsFiniteSet(heap'), num_active_timers' = Cardinality(heap'),
             \A q \in Threads : Delheap(q)
      PROVE  HeapInv'
  BY <1>1 DEF HeapInv, At, E
<1>2. ASSUME ~At(p, "deltm") PROVE Top(p)'.at # "delheap"
  BY <1>0, <1>2, ToDelheap
<1>3. \A q \in Threads : q # p => Top(q)' = Top(q)
  BY OthersKept
<1>4. CASE AddTimer(p)
  <2>1. At(p, "addtm") /\ InsertTimer(U(p), E(p)) /\ ~At(p, "deltm") /\ ~At(p, "delheap")
    BY <1>4 DEF AddTimer, At
  <2>2. At(Loop, "delheap") => E(p) # E(Loop)
    BY <2>1, NoRace
  <2>3. E(p) \in active_timer \/ E(p) \notin heap
    BY <2>2 DEF LifeInv, EventInv
  <2>4. /\ active_timer' \subseteq heap' /\ IsFiniteSet(heap') /\ num_active_timers' = Cardinality(heap')
        /\ heap' = heap \cup {E(p)} /\ active_timer' = active_timer \cup {E(p)}
    BY <2>1, <2>3, HeapInsert
  <2>5. ASSUME NEW q \in Threads PROVE Delheap(q)
    <3> SUFFICES ASSUME Top(q)'.at = "delheap" PROVE q = Loop /\ Top(q)'.o \in heap' \ active_timer'
      OBVIOUS
    <3>1. q # p /\ Top(q)' = Top(q)
      BY <1>2, <1>3, <2>1
    <3>2. At(q, "delheap") /\ Top(q)'.o = E(q)
      BY <3>1 DEF At, E
    <3>3. q = Loop /\ E(q) \in heap \ active_timer
      BY <3>2 DEF HeapInv
    <3> QED
      BY <2>2, <2>4, <3>2, <3>3
  <2> QED
    BY <1>1, <2>4, <2>5
<1>5. CASE DelTimerFlag(p)
  <2>1. Top(p).at = "deltm" /\ ~At(p, "delheap") /\ active_timer' = active_timer \ {E(p)} /\ UNCHANGED <<heap, num_active_timers>>
        /\ Go(p, IF E(p) \in active_timer THEN "delheap" ELSE "put")
    BY <1>5 DEF DelTimerFlag, At, base
  <2>2. E(p) \in active_timer => p = Loop
    <3>1. FrameInv(p, Top(p)) /\ E(p) = Top(p).o /\ Top(p).at \in DelP
      BY <2>1, TopKnown DEF DelP
    <3> QED
      BY <3>1 DEF FrameInv, LifeInv, EventInv
  <2>3. U(p) \in Slots /\ E(p) \in Events \cup {NULL}
    BY <2>1, Nested DEF LoopP
  <2>4. Top(p)'.at = "delheap" => E(p) \in active_timer /\ Top(p)'.o = E(p)
    <3> DEFINE l == IF E(p) \in active_timer THEN "delheap" ELSE "put"
               g == Frame(l, U(p), IF l = "put" THEN NULL ELSE E(p))
               fs == <<g>>
    <3>1. l \in Places
      BY DEF Places
    <3>2. g \in FrameType /\ g.at = l /\ (l = "delheap" => g.o = E(p))
      BY <2>3, <3>1, FrameTyped DEF Frame
    <3>3. Replace(p, fs)
      BY <2>1 DEF Go, Load
    <3> HIDE DEF g
    <3>4. fs \in Seq(FrameType) /\ Len(fs) = 1 /\ fs[1] = g
      BY <3>2
    <3> HIDE DEF fs
    <3>5. Len(fs) > 0
      BY <3>4
    <3>6. Top(p)' = g
      BY <3>3, <3>4, <3>5, Replaced
    <3> QED
      BY <3>2, <3>6
  <2>5. ASSUME NEW q \in Threads PROVE Delheap(q)
    <3> SUFFICES ASSUME Top(q)'.at = "delheap" PROVE q = Loop /\ Top(q)'.o \in heap' \ active_timer'
      OBVIOUS
    <3>1. CASE q = p
      BY <2>1, <2>2, <2>4, <3>1 DEF HeapInv
    <3>2. CASE q # p
      <4>1. At(q, "delheap") /\ Top(q)'.o = E(q)
        BY <1>3, <3>2 DEF At, E
      <4>2. q = Loop /\ E(q) \in heap \ active_timer
        BY <4>1 DEF HeapInv
      <4> QED
        BY <2>1, <4>1, <4>2
    <3> QED
      BY <3>1, <3>2
  <2>6. active_timer' \subseteq heap' /\ IsFiniteSet(heap') /\ num_active_timers' = Cardinality(heap')
    BY <2>1 DEF HeapInv
  <2> QED
    BY <1>1, <2>5, <2>6
<1>6. CASE DelTimerHeap(p)
  <2>1. At(p, "delheap") /\ ~At(p, "deltm") /\ heap' = heap \ {E(p)} /\ num_active_timers' = num_active_timers - 1
        /\ active_timer' = active_timer
    BY <1>6 DEF DelTimerHeap, At, flags
  <2>2. p = Loop /\ E(p) \in heap \ active_timer
    BY <2>1 DEF HeapInv
  <2>3. IsFiniteSet(heap') /\ num_active_timers' = Cardinality(heap')
    BY <2>1, <2>2, HeapRemove
  <2>4. active_timer' \subseteq heap'
    BY <2>1, <2>2 DEF HeapInv
  <2>5. ASSUME NEW q \in Threads PROVE Delheap(q)
    <3> SUFFICES ASSUME Top(q)'.at = "delheap" PROVE FALSE
      OBVIOUS
    <3>1. q # p /\ Top(q)' = Top(q)
      BY <1>2, <1>3, <2>1
    <3> QED
      BY <2>2, <3>1 DEF HeapInv, At
  <2> QED
    BY <1>1, <2>3, <2>4, <2>5
<1>7. ASSUME p = Loop, At(p, "tput") \/ At(p, "tmin")
      PROVE  heap = active_timer /\ \A q \in Threads : Delheap(q)
  <2>1. ~At(p, "deltm") /\ ~At(p, "delheap")
    BY <1>7 DEF At
  <2>2. heap = active_timer
    BY <1>7, <2>1, FlagIsHeap
  <2>3. ASSUME NEW q \in Threads PROVE Delheap(q)
    <3> SUFFICES ASSUME Top(q)'.at = "delheap" PROVE FALSE
      OBVIOUS
    <3>1. q # p /\ Top(q)' = Top(q)
      BY <1>2, <1>3, <2>1
    <3> QED
      BY <1>7, <3>1 DEF HeapInv, At
  <2> QED
    BY <2>2, <2>3
<1>8. CASE p = Loop /\ TimerRearm
  <2>1. At(p, "tput")
    BY <1>8 DEF TimerRearm
  <2>2. heap = active_timer /\ \A q \in Threads : Delheap(q)
    BY <1>7, <1>8, <2>1
  <2>3. CASE InsertTimer(U(Loop), ev[U(Loop)])
    <3>1. active_timer' \subseteq heap' /\ IsFiniteSet(heap') /\ num_active_timers' = Cardinality(heap')
      BY <2>2, <2>3, HeapInsert
    <3> QED
      BY <1>1, <2>2, <3>1
  <2>4. CASE UNCHANGED <<heap, active_timer, num_active_timers>>
    BY <1>1, <2>2, <2>4 DEF HeapInv
  <2> QED
    BY <1>8, <2>3, <2>4 DEF TimerRearm
<1>9. CASE p = Loop /\ \E o \in Events : TimerTake(o)
  <2>1. PICK o \in Events : TimerTake(o)
    BY <1>9
  <2>2. At(p, "tmin") /\ o \in heap /\ heap' = heap \ {o} /\ active_timer' = active_timer \ {o}
        /\ num_active_timers' = num_active_timers - 1
    BY <1>9, <2>1 DEF TimerTake
  <2>3. heap = active_timer /\ \A q \in Threads : Delheap(q)
    BY <1>7, <1>9, <2>2
  <2>4. IsFiniteSet(heap') /\ num_active_timers' = Cardinality(heap')
    BY <2>2, HeapRemove
  <2> QED
    BY <1>1, <2>2, <2>3, <2>4
<1> QED
  BY <1>4, <1>5, <1>6, <1>8, <1>9

\* Every step.
LEMMA HeapNext ==
  ASSUME TimersLeftToLoop, Exclusive, TimedPersist, LifeInv, UseInv, StackInv, HeapInv, [Next]_vars
  PROVE  HeapInv'
<1>0. Passes
  BY DEF StackInv
<1>1. CASE UNCHANGED vars
  BY <1>1 DEF HeapInv, vars, base, flags, At, E, Top
<1>2. ASSUME NEW p \in Threads, ~At(p, "deltm"), Works(p) \/ Starts(p),
             UNCHANGED <<heap, active_timer, num_active_timers>>
      PROVE  HeapInv'
  BY <1>0, <1>2, HeapSame
<1>3. ASSUME NEW p \in Threads, NewCall(p) PROVE HeapInv'
  <2>1. Starts(p)
    BY <1>3, StartStep
  <2>2. ~At(p, "deltm")
    BY <1>3 DEF NewCall, CreateBegin, Begin, FreeBegin, MayUse, MayCall, At
  <2>3. UNCHANGED <<heap, active_timer, num_active_timers>>
    BY <1>3 DEF NewCall, CreateBegin, Begin, FreeBegin, base, flags
  <2> QED
    BY <1>2, <2>1, <2>2, <2>3
<1>4. ASSUME NEW p \in Threads, Reference(p) PROVE HeapInv'
  <2>1. ~At(p, "deltm") /\ UNCHANGED <<heap, active_timer, num_active_timers>>
    BY <1>4 DEF Reference, TryInc, TryCheck, TryUndo, PutTest, PutDec, Destroy, At, base, flags
  <2> QED
    BY <1>2, <1>4, <2>1, WorkReference
<1>5. ASSUME NEW p \in Threads, InCall(p) PROVE HeapInv'
  <2>1. Works(p)
    BY <1>5, WorkInCall
  <2>2. CASE AddTimer(p) \/ DelTimerFlag(p) \/ DelTimerHeap(p)
    BY <2>1, <2>2, HeapTimers
  <2>3. CASE \/ CreateStore(p) \/ Peek(p) \/ AddLock(p) \/ AddCheck(p) \/ AddFdRead(p) \/ AddFdCtl(p) \/ AddFdMark(p)
             \/ AddFdRef(p) \/ AddEnd(p) \/ Del(p) \/ DelFdFlag(p) \/ DelFdCtl(p) \/ Free(p) \/ FreePend(p)
    <3>1. ~At(p, "deltm")
      BY <2>3 DEF CreateStore, Peek, AddLock, AddCheck, AddFdRead, AddFdCtl, AddFdMark, AddFdRef, AddEnd, Del,
                  DelFdFlag, DelFdCtl, Free, FreePend, At
    <3>2. UNCHANGED <<heap, active_timer, num_active_timers>>
      BY <2>3 DEF CreateStore, Peek, AddLock, AddCheck, AddFdRead, AddFdCtl, AddFdMark, AddFdRef, AddEnd, Del,
                  DelFdFlag, DelFdCtl, Free, FreePend, base, flags
    <3> QED
      BY <1>2, <2>1, <3>1, <3>2
  <2> QED
    BY <1>5, <2>2, <2>3 DEF InCall
<1>6. ASSUME LoopStep PROVE HeapInv'
  <2>1. Works(Loop) /\ Loop \in Threads
    BY <1>6, WorkLoop, LoopIsThread
  <2>2. CASE TimerRearm \/ \E o \in Events : TimerTake(o)
    BY <2>1, <2>2, HeapTimers
  <2>3. CASE \/ EpollWait \/ TimersLock \/ TimersEnd \/ TimerCallback
             \/ EpollNext \/ EpollEnd \/ EpollTest \/ EpollAutoDel \/ Dispatch(Loop)
    <3>1. ~At(Loop, "deltm") /\ UNCHANGED <<heap, active_timer, num_active_timers>>
      BY <2>3 DEF EpollWait, TimersLock, TimersEnd, TimerCallback, EpollNext, EpollEnd, EpollTest, EpollAutoDel,
                  Dispatch, base, flags, At
    <3> QED
      BY <1>2, <2>1, <3>1
  <2> QED
    BY <1>6, <2>2, <2>3 DEF LoopStep
<1>7. ASSUME WorkerStep PROVE HeapInv'
  <2>1. Works(Worker) /\ Worker \in Threads
    BY <1>7, WorkWorker, LoopIsThread
  <2>2. ~At(Worker, "deltm") /\ UNCHANGED <<heap, active_timer, num_active_timers>>
    BY <1>7 DEF WorkerStep, WorkerTake, WorkerRef, WorkerFinal, base, flags, At
  <2> QED
    BY <1>2, <2>1, <2>2
<1>8. ASSUME NEW p \in Threads, CbLock(p) \/ CbEnd(p) PROVE HeapInv'
  <2>1. ~At(p, "deltm") /\ UNCHANGED <<heap, active_timer, num_active_timers>>
    BY <1>8 DEF CbLock, CbEnd, base, At
  <2> QED
    BY <1>2, <1>8, <2>1, WorkPlain
<1> QED
  BY <1>1, <1>3, <1>4, <1>5, <1>6, <1>7, <1>8 DEF Next, Progress

\* In the beginning the heap is empty.
LEMMA HeapInit ==
  ASSUME Init
  PROVE  HeapInv
<1>1. ASSUME NEW p \in Threads PROVE ~At(p, "delheap")
  <2> DEFINE g == NoFrame(Start(p))
             c == <<g>>
  <2>1. th[p] = c
    BY DEF Init
  <2>2. g \in FrameType /\ g.at # "delheap"
    BY FrameTyped DEF NoFrame, Frame, Start, Places
  <2> HIDE DEF g
  <2>3. c \in Seq(FrameType) /\ Len(c) = 1 /\ c[1] = g
    BY <2>2
  <2> HIDE DEF c
  <2>4. Last(c) = g
    BY <2>3, LastOf
  <2> QED
    BY <2>1, <2>2, <2>4 DEF At, Top
<1>2. heap = {} /\ active_timer = {} /\ num_active_timers = 0
  BY DEF Init
<1> QED
  BY <1>1, <1>2, FS_EmptySet DEF HeapInv

\* active_timer is set exactly for the events in the heap, but between the two
\* steps of remove_event_from_heap, and num_active_timers counts them, so that
\* dispatch ends when no event is active: provided that timers are disarmed by
\* the loop alone, that calls on one event do not overlap, and that a
\* descriptor with a timer is persistent.
THEOREM ActiveCorrect ==
  ASSUME TimersLeftToLoop, Exclusive, TimedPersist
  PROVE  Spec => []ActiveExact
<1>0. ArmedKept
  BY DEF ArmedKept
<1>1. Init => HeapInv
  BY HeapInit
<1>2. LifeInv /\ UseInv /\ StackInv /\ HeapInv /\ [Next]_vars => HeapInv'
  BY HeapNext
<1>3. LifeInv /\ HeapInv => ActiveExact
  BY LoopIsThread DEF LifeInv, EventInv, HeapInv, ActiveExact, Removing
<1>4. Spec => []LifeInv
  BY LifeInvariant
<1>5. Spec => []UseInv
  BY <1>0, UseInvariant
<1>6. Spec => []StackInv
  BY StackInvariant
<1> QED
  BY <1>1, <1>2, <1>3, <1>4, <1>5, <1>6, PTL DEF Spec

=============================================================================
