----------------------------- MODULE EventLife -----------------------------
(***************************************************************************)
(* uevent/uevent.c: the life of an event.  A handle (uev_t) is a slot of   *)
(* the base with a pointer to the event (uevent_t) and a reference count.  *)
(* The creator, an armed timer, an armed descriptor, a task of the pool    *)
(* and every call in progress own one reference each; who drops the last   *)
(* one returns the slot and frees the event.                               *)
(*                                                                         *)
(* Threads interleave at single atomic operations; what happens under      *)
(* base_mut is one step.  A thread is the stack of its calls, each a place *)
(* with its local uev and ev.  Time and descriptors are left out: any      *)
(* armed timer may be due, any registered descriptor ready.                *)
(***************************************************************************)
EXTENDS Integers, Sequences, SequencesExt, FiniteSets

CONSTANTS
  Slots,      \* base->uev_arr
  Events,     \* allocations of a uevent_t; memory is not used again
  NULL,
  Kinds,      \* what events are created with: sets of Flags
  Clients,    \* threads other than the loop and the worker
  ClientOps,  \* calls the clients make: pairs of a call and a kind
  CbOps,      \* calls that callbacks make
  Exclusive,  \* does the program serialise its calls on each event?
  Pooled      \* does the base have a worker?

Flags == {"fd", "timeout", "persist"}
Calls == {"create", "add", "del", "free", "peek"} \X SUBSET Flags

ASSUME LifeAssumption ==
  /\ IsFiniteSet(Slots) /\ IsFiniteSet(Clients)
  /\ NULL \notin Slots \cup Events \cup Clients \cup {"loop", "worker"}
  /\ {"loop", "worker"} \cap Clients = {}
  /\ Kinds \subseteq SUBSET Flags
  /\ ClientOps \subseteq Calls /\ CbOps \subseteq Calls
  /\ {Exclusive, Pooled} \subseteq BOOLEAN

VARIABLES
  ev, refcount,        \* the two fields of every slot
  free_uev,            \* the stack of free slots
  mem,                 \* memory of the events: "none", "live" or "freed"
  kind, uev,           \* events and uev fields of every event
  active_fd, active_timer, pending_free, modification_lock,
  is_in_worker_pool,   \* the events whose flag is set
  heap, epoll,         \* events in timer_heap and in the epoll set
  num_active_fd, num_active_timers, base_mut,
  th,                  \* the threads
  reported,            \* slots that epoll_wait returned and are not handled
  queue,               \* slots queued in the pool
  released             \* events that uevent_free was called for

slots == <<ev, refcount, free_uev>>
memory == <<mem, kind, uev, released>>
base == <<heap, epoll, num_active_fd, num_active_timers>>
lists == <<reported, queue>>
flags == <<active_fd, active_timer, pending_free, modification_lock,
           is_in_worker_pool>>
vars == <<slots, memory, base, base_mut, lists, flags, th>>

Loop == "loop"
Worker == "worker"
Threads == Clients \cup {Loop, Worker}

-----------------------------------------------------------------------------
(* Control.  The last frame of a thread is where it is, the others are     *)
(* where its callers go on; ret is what the last call returned.            *)

Top(p) == Last(th[p])
At(p, l) == Top(p).at = l
U(p) == Top(p).s
E(p) == Top(p).o
Returned(p) == Top(p).ret

Frame(l, s, o) == [at |-> l, s |-> s, o |-> o, ret |-> FALSE]
NoFrame(l) == Frame(l, NULL, NULL)

\* The places that look at what the call they made returned.
Tested == {"addref", "delref", "peekref", "dispref", "wref", "tput"}

\* The frames fs take the place of the last one.
Replace(p, fs) == th' = [th EXCEPT ![p] = Front(@) \o fs]

Load(p, l, o) == Replace(p, <<Frame(l, U(p), o)>>)
Go(p, l) == Load(p, l, IF l = "put" THEN NULL ELSE E(p))

\* Enter place l for slot s; fs are the callers to come back to.
Enter(p, l, s, fs) == Replace(p, Append(fs, Frame(l, s, NULL)))
Call(p, l, r) == Enter(p, l, U(p), <<Frame(r, U(p), E(p))>>)

\* What a return of value v leaves of a stack.
Back(stk, v) ==
  LET n == Len(stk) - 1 IN
  [Front(stk) EXCEPT ![n].ret = v /\ stk[n].at \in Tested]
Return(p, v) == th' = [th EXCEPT ![p] = Back(@, v)]

\* The frame that a caller leaves for its own place.
Here(p) == Frame(Top(p).at, U(p), E(p))

-----------------------------------------------------------------------------
(* References.                                                             *)

AddRef(s, n) == refcount' = [refcount EXCEPT ![s] = @ + n]

\* uevent_try_ref: refcount_inc_not_zero ...
TryInc(p) ==
  /\ At(p, "ref")
  /\ IF refcount[U(p)] = 0
       THEN Return(p, FALSE) /\ UNCHANGED refcount
       ELSE AddRef(U(p), 1) /\ Go(p, "refchk")
  /\ UNCHANGED <<ev, free_uev, memory, base, base_mut, lists, flags>>

\* ... the two tests of the event ...
TryCheck(p) ==
  /\ At(p, "refchk")
  /\ IF ev[U(p)] = NULL \/ ev[U(p)] \in pending_free
       THEN Go(p, "refundo")
       ELSE Return(p, TRUE)
  /\ UNCHANGED <<slots, memory, base, base_mut, lists, flags>>

\* A slip: the reference is kept when a test fails.
TryNoUndo(p) ==
  /\ At(p, "refundo")
  /\ Return(p, FALSE)
  /\ UNCHANGED <<slots, memory, base, base_mut, lists, flags>>

\* ... and the plain subtraction when one of them fails.
TryUndo(p) ==
  /\ At(p, "refundo")
  /\ AddRef(U(p), -1)
  /\ Return(p, FALSE)
  /\ UNCHANGED <<ev, free_uev, memory, base, base_mut, lists, flags>>

PutTest(p) ==
  /\ At(p, "put")
  /\ IF refcount[U(p)] = 0 THEN Return(p, FALSE) ELSE Go(p, "dec")
  /\ UNCHANGED <<slots, memory, base, base_mut, lists, flags>>

\* A slip: a plain decrement, nobody destroys the event.
DecOnly(p) ==
  /\ At(p, "dec")
  /\ AddRef(U(p), -1)
  /\ Return(p, FALSE)
  /\ UNCHANGED <<ev, free_uev, memory, base, base_mut, lists, flags>>

\* uevent_refcount_dec_and_test.
PutDec(p) ==
  /\ At(p, "dec")
  /\ AddRef(U(p), -1)
  /\ IF refcount[U(p)] = 1 THEN Go(p, "destroy") ELSE Return(p, FALSE)
  /\ UNCHANGED <<ev, free_uev, memory, base, base_mut, lists, flags>>

\* uevent_destroy_uev_internal_unsafe of an event that is not static.
Destroy(p) ==
  /\ At(p, "destroy")
  /\ Return(p, TRUE)
  /\ IF ev[U(p)] = NULL
       THEN UNCHANGED <<ev, free_uev, mem>>
       ELSE /\ ev' = [ev EXCEPT ![U(p)] = NULL]
            /\ free_uev' = Append(free_uev, U(p))
            /\ mem' = [mem EXCEPT ![ev[U(p)]] = "freed"]
  /\ UNCHANGED <<refcount, kind, uev, released, base, base_mut, lists, flags>>

Reference(p) ==
  \/ TryInc(p) \/ TryCheck(p) \/ TryUndo(p)
  \/ PutTest(p) \/ PutDec(p) \/ Destroy(p)

-----------------------------------------------------------------------------
(* The timer heap, under base_mut.                                         *)

MutexFree == base_mut = NULL

\* A slip: active_timer is not set.
InsertUnmarked(s, o) ==
  /\ heap' = heap \cup {o}
  /\ num_active_timers' = num_active_timers + 1
  /\ AddRef(s, 1)
  /\ UNCHANGED active_timer

\* insert_timer_to_heap for the event o of slot s.
InsertTimer(s, o) ==
  /\ heap' = heap \cup {o}
  /\ active_timer' = active_timer \cup {o}
  /\ IF o \in active_timer
       THEN UNCHANGED <<num_active_timers, refcount>>
       ELSE num_active_timers' = num_active_timers + 1 /\ AddRef(s, 1)

-----------------------------------------------------------------------------
(* The calls of the API.                                                   *)

MayCall(p, op, k) ==
  \/ p \in Clients /\ At(p, "idle") /\ <<op, k>> \in ClientOps
  \/ At(p, "cb") /\ <<op, k>> \in CbOps

\* A thread is inside a call on the handle s.
Uses(p, s) ==
  U(p) = s /\ \E f \in Range(Front(th[p])) : f.at \in {"idle", "cb"}

\* Nobody calls the library with a handle that was given to uevent_free.
MayUse(p, op, s) ==
  /\ ev[s] # NULL /\ ev[s] \notin released
  /\ MayCall(p, op, kind[ev[s]])
  /\ Exclusive => \A q \in Threads : ~Uses(q, s)

\* A slip: the slot is read and left on the stack of free slots.
CreateKeepsSlot(p, k, o) ==
  /\ MayCall(p, "create", k)
  /\ MutexFree /\ free_uev # <<>> /\ mem[o] = "none"
  /\ LET s == Last(free_uev) IN
     /\ refcount' = [refcount EXCEPT ![s] = 1]
     /\ uev' = [uev EXCEPT ![o] = s]
     /\ Replace(p, <<Here(p), Frame("create", s, o)>>)
  /\ mem' = [mem EXCEPT ![o] = "live"]
  /\ kind' = [kind EXCEPT ![o] = k]
  /\ base_mut' = p
  /\ UNCHANGED <<ev, free_uev, released, base, lists, flags>>

\* uevent_create_or_assign_event: with no slot left nothing changes, else
\* the event takes a slot with one reference ...
CreateBegin(p, k, o) ==
  /\ MayCall(p, "create", k)
  /\ MutexFree /\ free_uev # <<>> /\ mem[o] = "none"
  /\ LET s == Last(free_uev) IN
     /\ refcount' = [refcount EXCEPT ![s] = 1]
     /\ uev' = [uev EXCEPT ![o] = s]
     /\ Replace(p, <<Here(p), Frame("create", s, o)>>)
  /\ free_uev' = Front(free_uev)
  /\ mem' = [mem EXCEPT ![o] = "live"]
  /\ kind' = [kind EXCEPT ![o] = k]
  /\ base_mut' = p
  /\ UNCHANGED <<ev, released, base, lists, flags>>

\* ... which then points to it.
CreateStore(p) ==
  /\ At(p, "create")
  /\ ev' = [ev EXCEPT ![U(p)] = E(p)]
  /\ base_mut' = NULL
  /\ Return(p, FALSE)
  /\ UNCHANGED <<refcount, free_uev, memory, base, lists, flags>>

\* Every call but uevent_free starts with uevent_try_ref and goes on at l.
TryRefThen(p, s, l, caller) ==
  Enter(p, "ref", s, <<caller, Frame(l, s, NULL)>>)

Begin(p, op, l) ==
  /\ \E s \in Slots : MayUse(p, op, s) /\ TryRefThen(p, s, l, Here(p))
  /\ UNCHANGED <<slots, memory, base, base_mut, lists, flags>>

\* uevent_set_timeout, uevent_is_alive, uevent_initialized, uevent_pending.
Peek(p) ==
  /\ At(p, "peekref")
  /\ IF Returned(p) THEN Go(p, "put") ELSE Return(p, FALSE)
  /\ UNCHANGED <<slots, memory, base, base_mut, lists, flags>>

\* uevent_add: UEV_ERR_BUSY when somebody has the event ...
AddLock(p) ==
  /\ At(p, "addref")
  /\ LET o == ev[U(p)] IN
     IF ~Returned(p) THEN Return(p, FALSE) /\ UNCHANGED modification_lock
     ELSE IF o \in modification_lock
     THEN Go(p, "put") /\ UNCHANGED modification_lock
     ELSE Load(p, "addchk", o) /\ modification_lock' = modification_lock \cup {o}
  /\ UNCHANGED <<slots, memory, base, base_mut, lists, active_fd, active_timer,
                 pending_free, is_in_worker_pool>>

TimerPart(o) == IF "timeout" \in kind[o] THEN "addtm" ELSE "addend"

AddCheck(p) ==
  /\ At(p, "addchk")
  /\ Go(p, IF E(p) \in pending_free THEN "addend"
           ELSE IF "fd" \in kind[E(p)] THEN "addfd" ELSE TimerPart(E(p)))
  /\ UNCHANGED <<slots, memory, base, base_mut, lists, flags>>

\* insert_fd_to_epoll: was_active is read ...
AddFdRead(p) ==
  /\ At(p, "addfd")
  /\ Replace(p, <<[Frame("addctl", U(p), E(p)) EXCEPT !.ret = E(p) \in active_fd]>>)
  /\ UNCHANGED <<slots, memory, base, base_mut, lists, flags>>

\* ... epoll_ctl modifies what is registered or adds what is not ...
AddFdCtl(p) ==
  /\ At(p, "addctl")
  /\ \E ok \in BOOLEAN :
       /\ ok => (Returned(p) <=> E(p) \in epoll)
       /\ epoll' = IF ok THEN epoll \cup {E(p)} ELSE epoll
       /\ Go(p, IF ~ok THEN "addend"
                ELSE IF Returned(p) THEN TimerPart(E(p)) ELSE "addmark")
  /\ UNCHANGED <<slots, memory, heap, num_active_fd, num_active_timers,
                 base_mut, lists, flags>>

\* ... and what was added is marked and counted, and takes a reference.
AddFdMark(p) ==
  /\ At(p, "addmark")
  /\ active_fd' = active_fd \cup {E(p)}
  /\ num_active_fd' = num_active_fd + 1
  /\ Go(p, "addfdref")
  /\ UNCHANGED <<slots, memory, heap, epoll, num_active_timers, base_mut, lists,
                 active_timer, pending_free, modification_lock,
                 is_in_worker_pool>>

\* A slip: the reference of the descriptor is forgotten.
AddFdNoRef(p) ==
  /\ At(p, "addfdref")
  /\ Go(p, TimerPart(E(p)))
  /\ UNCHANGED <<slots, memory, base, base_mut, lists, flags>>

AddFdRef(p) ==
  /\ At(p, "addfdref")
  /\ AddRef(U(p), 1)
  /\ Go(p, TimerPart(E(p)))
  /\ UNCHANGED <<ev, free_uev, memory, base, base_mut, lists, flags>>

AddTimer(p) ==
  /\ At(p, "addtm") /\ MutexFree
  /\ InsertTimer(U(p), E(p))
  /\ Go(p, "addend")
  /\ UNCHANGED <<ev, free_uev, memory, epoll, num_active_fd, base_mut, lists,
                 active_fd, pending_free, modification_lock,
                 is_in_worker_pool>>

AddEnd(p) ==
  /\ At(p, "addend")
  /\ modification_lock' = modification_lock \ {E(p)}
  /\ Go(p, "put")
  /\ UNCHANGED <<slots, memory, base, base_mut, lists, active_fd, active_timer,
                 pending_free, is_in_worker_pool>>

\* uevent_del; it does not look at modification_lock.
Del(p) ==
  /\ At(p, "delref")
  /\ IF Returned(p) THEN Load(p, "delfd", ev[U(p)]) ELSE Return(p, FALSE)
  /\ UNCHANGED <<slots, memory, base, base_mut, lists, flags>>

\* A slip: the exchange is not looked at.
DelFdAlways(p) ==
  /\ At(p, "delfd")
  /\ active_fd' = active_fd \ {E(p)}
  /\ Go(p, "delctl")
  /\ UNCHANGED <<slots, memory, base, base_mut, lists, active_timer,
                 pending_free, modification_lock, is_in_worker_pool>>

\* remove_event_from_epoll: atomic_deactivate_fd, then the rest.
DelFdFlag(p) ==
  /\ At(p, "delfd")
  /\ active_fd' = active_fd \ {E(p)}
  /\ Go(p, IF E(p) \in active_fd THEN "delctl" ELSE "deltm")
  /\ UNCHANGED <<slots, memory, base, base_mut, lists, active_timer,
                 pending_free, modification_lock, is_in_worker_pool>>

DelFdCtl(p) ==
  /\ At(p, "delctl")
  /\ epoll' = epoll \ {E(p)}
  /\ num_active_fd' = num_active_fd - 1
  /\ Call(p, "put", "deltm")
  /\ UNCHANGED <<slots, memory, heap, num_active_timers, base_mut, lists, flags>>

\* remove_event_from_heap: atomic_deactivate_timer without base_mut ...
DelTimerFlag(p) ==
  /\ At(p, "deltm")
  /\ active_timer' = active_timer \ {E(p)}
  /\ Go(p, IF E(p) \in active_timer THEN "delheap" ELSE "put")
  /\ UNCHANGED <<slots, memory, base, base_mut, lists, active_fd, pending_free,
                 modification_lock, is_in_worker_pool>>

\* A slip: the node stays in the heap.
DelKeepsNode(p) ==
  /\ At(p, "delheap") /\ MutexFree
  /\ num_active_timers' = num_active_timers - 1
  /\ Call(p, "put", "put")
  /\ UNCHANGED <<slots, memory, heap, epoll, num_active_fd, base_mut, lists,
                 flags>>

\* ... and the node and the count with it.
DelTimerHeap(p) ==
  /\ At(p, "delheap") /\ MutexFree
  /\ heap' = heap \ {E(p)}
  /\ num_active_timers' = num_active_timers - 1
  /\ Call(p, "put", "put")
  /\ UNCHANGED <<slots, memory, epoll, num_active_fd, base_mut, lists, flags>>

FreeBegin(p) ==
  /\ \E s \in Slots :
       /\ MayUse(p, "free", s)
       /\ Enter(p, "free", s, <<Here(p)>>)
       /\ released' = released \cup {ev[s]}
  /\ UNCHANGED <<slots, mem, kind, uev, base, base_mut, lists, flags>>

\* uevent_free: the tests, then uevent_del ...
Free(p) ==
  /\ At(p, "free")
  /\ LET o == ev[U(p)] IN
     IF refcount[U(p)] < 1 \/ o = NULL \/ o \in pending_free
     THEN Return(p, FALSE)
     ELSE TryRefThen(p, U(p), "delref", Frame("freepend", U(p), o))
  /\ UNCHANGED <<slots, memory, base, base_mut, lists, flags>>

\* A slip: the creator's reference is never dropped.
FreeNoPut(p) ==
  /\ At(p, "freepend")
  /\ pending_free' = pending_free \cup {E(p)}
  /\ Return(p, FALSE)
  /\ UNCHANGED <<slots, memory, base, base_mut, lists, active_fd, active_timer,
                 modification_lock, is_in_worker_pool>>

\* ... then pending_free, and the creator's reference is dropped.
FreePend(p) ==
  /\ At(p, "freepend")
  /\ pending_free' = pending_free \cup {E(p)}
  /\ IF E(p) \in pending_free THEN Return(p, FALSE) ELSE Go(p, "put")
  /\ UNCHANGED <<slots, memory, base, base_mut, lists, active_fd, active_timer,
                 modification_lock, is_in_worker_pool>>

NewCall(p) ==
  \/ \E k \in Kinds, o \in Events : CreateBegin(p, k, o)
  \/ Begin(p, "add", "addref") \/ Begin(p, "del", "delref")
  \/ Begin(p, "peek", "peekref") \/ FreeBegin(p)

InCall(p) ==
  \/ CreateStore(p) \/ Peek(p)
  \/ AddLock(p) \/ AddCheck(p) \/ AddFdRead(p) \/ AddFdCtl(p) \/ AddFdMark(p)
  \/ AddFdRef(p) \/ AddTimer(p) \/ AddEnd(p)
  \/ Del(p) \/ DelFdFlag(p) \/ DelFdCtl(p) \/ DelTimerFlag(p) \/ DelTimerHeap(p)
  \/ Free(p) \/ FreePend(p)

-----------------------------------------------------------------------------
(* Callbacks: dispatch_event_callback and uevent_user_cb_wrapper.          *)

\* A slip: the task has no reference of its own.
EnqueueNoRef(s, o) ==
  /\ is_in_worker_pool' = is_in_worker_pool \cup {o}
  /\ queue' = Append(queue, s)
  /\ UNCHANGED refcount

\* uevent_worker_pool_insert of an event that is not in the pool.
Enqueue(s, o) ==
  /\ is_in_worker_pool' = is_in_worker_pool \cup {o}
  /\ queue' = Append(queue, s)
  /\ AddRef(s, 1)

\* With a pool the event is queued, once; else its callback is run.
Dispatch(p) ==
  /\ At(p, "dispref")
  /\ LET o == ev[U(p)]
         enqueue == Returned(p) /\ Pooled /\ o \notin is_in_worker_pool IN
     /\ IF ~Returned(p) THEN Return(p, FALSE)
        ELSE IF Pooled THEN Go(p, "put") ELSE Load(p, "cblock", o)
     /\ IF enqueue
          THEN Enqueue(U(p), o)
          ELSE UNCHANGED <<refcount, is_in_worker_pool, queue>>
  /\ UNCHANGED <<ev, free_uev, memory, base, base_mut, reported, active_fd,
                 active_timer, pending_free, modification_lock>>

\* The callback is skipped while somebody else has the event.
CbLock(p) ==
  /\ At(p, "cblock")
  /\ modification_lock' = modification_lock \cup {E(p)}
  /\ Go(p, IF E(p) \in modification_lock THEN "put" ELSE "cb")
  /\ UNCHANGED <<slots, memory, base, base_mut, lists, active_fd, active_timer,
                 pending_free, is_in_worker_pool>>

CbEnd(p) ==
  /\ At(p, "cb")
  /\ modification_lock' = modification_lock \ {E(p)}
  /\ Go(p, "put")
  /\ UNCHANGED <<slots, memory, base, base_mut, lists, active_fd, active_timer,
                 pending_free, is_in_worker_pool>>

-----------------------------------------------------------------------------
(* The loop thread.                                                        *)

\* epoll_wait returns with descriptors that are ready.
EpollWait ==
  /\ At(Loop, "wait")
  /\ \E r \in SUBSET epoll : reported' = {uev[o] : o \in r}
  /\ Go(Loop, "tlock")
  /\ UNCHANGED <<slots, memory, base, base_mut, queue, flags>>

\* uevent_handle_timers takes base_mut, at first and after every callback.
TimersLock ==
  /\ At(Loop, "tlock") /\ MutexFree
  /\ base_mut' = Loop
  /\ Go(Loop, "tmin")
  /\ UNCHANGED <<slots, memory, base, lists, flags>>

\* A timer is due: extracted, and the reference of the heap dropped ...
TimerTake(o) ==
  /\ At(Loop, "tmin") /\ o \in heap
  /\ heap' = heap \ {o}
  /\ active_timer' = active_timer \ {o}
  /\ num_active_timers' = num_active_timers - 1
  /\ Enter(Loop, "put", uev[o], <<Frame("tput", uev[o], o)>>)
  /\ UNCHANGED <<slots, memory, epoll, num_active_fd, base_mut, lists,
                 active_fd, pending_free, modification_lock,
                 is_in_worker_pool>>

TimersEnd ==
  /\ At(Loop, "tmin")
  /\ base_mut' = NULL
  /\ Go(Loop, "epoll")
  /\ UNCHANGED <<slots, memory, base, lists, flags>>

\* ... nothing more if that was the last one; else the event of the slot is
\* armed again if it is persistent, and base_mut is released.
TimerRearm ==
  /\ At(Loop, "tput")
  /\ LET x == ev[U(Loop)] IN
     IF ~Returned(Loop) /\ x # NULL /\ x \notin pending_free
          /\ {"persist", "timeout"} \subseteq kind[x]
     THEN InsertTimer(U(Loop), x)
     ELSE UNCHANGED <<heap, active_timer, num_active_timers, refcount>>
  /\ IF Returned(Loop)
       THEN Load(Loop, "tmin", NULL) /\ UNCHANGED base_mut
       ELSE Go(Loop, "tcb") /\ base_mut' = NULL
  /\ UNCHANGED <<ev, free_uev, memory, epoll, num_active_fd, lists, active_fd,
                 pending_free, modification_lock, is_in_worker_pool>>

\* call_cb_if_exists, uevent_handle_ev_cb.
TimerCallback ==
  /\ At(Loop, "tcb")
  /\ IF E(Loop) \in pending_free
       THEN Replace(Loop, <<NoFrame("tlock")>>)
       ELSE TryRefThen(Loop, U(Loop), "dispref", NoFrame("tlock"))
  /\ UNCHANGED <<slots, memory, base, base_mut, lists, flags>>

\* uevent_handle_epoll: the event of the next slot, without a reference ...
EpollNext ==
  /\ At(Loop, "epoll")
  /\ \E s \in reported :
       /\ reported' = reported \ {s}
       /\ Replace(Loop, <<Frame("eptest", s, ev[s])>>)
  /\ UNCHANGED <<slots, memory, base, base_mut, queue, flags>>

EpollEnd ==
  /\ At(Loop, "epoll") /\ reported = {}
  /\ Go(Loop, "wait")
  /\ UNCHANGED <<slots, memory, base, base_mut, lists, flags>>

\* ... its callback if it is armed ...
EpollTest ==
  /\ At(Loop, "eptest")
  /\ IF E(Loop) \notin active_fd THEN Load(Loop, "epoll", NULL)
     ELSE IF E(Loop) \in pending_free THEN Go(Loop, "epauto")
     ELSE TryRefThen(Loop, U(Loop), "dispref",
                     Frame("epauto", U(Loop), E(Loop)))
  /\ UNCHANGED <<slots, memory, base, base_mut, lists, flags>>

\* ... and uevent_del if it is not persistent.
EpollAutoDel ==
  /\ At(Loop, "epauto")
  /\ IF "persist" \in kind[E(Loop)]
       THEN Load(Loop, "epoll", NULL)
       ELSE TryRefThen(Loop, U(Loop), "delref", NoFrame("epoll"))
  /\ UNCHANGED <<slots, memory, base, base_mut, lists, flags>>

LoopStep ==
  \/ EpollWait \/ TimersLock \/ (\E o \in Events : TimerTake(o)) \/ TimersEnd
  \/ TimerRearm \/ TimerCallback
  \/ EpollNext \/ EpollEnd \/ EpollTest \/ EpollAutoDel
  \/ Dispatch(Loop)

-----------------------------------------------------------------------------
(* A worker of the pool: process_worker_task, finalize_worker_task.        *)

WorkerTake ==
  /\ At(Worker, "wtake") /\ queue # <<>>
  /\ TryRefThen(Worker, Head(queue), "wref", Frame("wfinal", Head(queue), NULL))
  /\ queue' = Tail(queue)
  /\ UNCHANGED <<slots, memory, base, base_mut, reported, flags>>

WorkerRef ==
  /\ At(Worker, "wref")
  /\ LET o == ev[U(Worker)] IN
     IF ~Returned(Worker) THEN Return(Worker, FALSE)
     ELSE IF o = NULL \/ o \in pending_free THEN Go(Worker, "put")
     ELSE Load(Worker, "cblock", o)
  /\ UNCHANGED <<slots, memory, base, base_mut, lists, flags>>

WorkerFinal ==
  /\ At(Worker, "wfinal")
  /\ is_in_worker_pool' = is_in_worker_pool \ {ev[U(Worker)]}
  /\ IF ev[U(Worker)] = NULL
       THEN Replace(Worker, <<NoFrame("wtake")>>)
       ELSE Enter(Worker, "put", U(Worker), <<NoFrame("wtake")>>)
  /\ UNCHANGED <<slots, memory, base, base_mut, lists, active_fd, active_timer,
                 pending_free, modification_lock>>

WorkerStep == WorkerTake \/ WorkerRef \/ WorkerFinal

-----------------------------------------------------------------------------
\* Where the threads are when the base has just been made.
Start(p) == IF p = Loop THEN "wait" ELSE IF p = Worker THEN "wtake" ELSE "idle"

Init ==
  /\ ev = [s \in Slots |-> NULL]
  /\ refcount = [s \in Slots |-> 0]
  /\ free_uev = SetToSeq(Slots)
  /\ mem = [o \in Events |-> "none"]
  /\ kind = [o \in Events |-> {}]
  /\ uev = [o \in Events |-> NULL]
  /\ released = {}
  /\ active_fd = {} /\ active_timer = {} /\ pending_free = {}
  /\ modification_lock = {} /\ is_in_worker_pool = {}
  /\ heap = {} /\ epoll = {} /\ num_active_fd = 0 /\ num_active_timers = 0
  /\ base_mut = NULL
  /\ reported = {} /\ queue = <<>>
  /\ th = [p \in Threads |-> <<NoFrame(Start(p))>>]

\* What a thread does once it is in a call, the end of a callback apart.
Progress(p) ==
  \/ Reference(p) \/ InCall(p) \/ CbLock(p)
  \/ p = Loop /\ LoopStep
  \/ p = Worker /\ WorkerStep

Next == \E p \in Threads : NewCall(p) \/ Progress(p) \/ CbEnd(p)

Spec == Init /\ [][Next]_vars

\* Threads that can run do, and a callback returns in the end.
FairSpec ==
  /\ Spec
  /\ \A p \in Threads : WF_vars(Progress(p)) /\ SF_vars(CbEnd(p))

-----------------------------------------------------------------------------
(* Properties.                                                             *)

Places == {"idle", "ref", "refchk", "refundo", "put", "dec", "destroy",
           "create", "peekref", "addref", "addchk", "addfd", "addctl",
           "addmark", "addfdref", "addtm", "addend", "delref", "delfd",
           "delctl", "deltm", "delheap", "free", "freepend", "dispref",
           "cblock", "cb", "wait", "tlock", "tmin", "tput", "tcb", "epoll",
           "eptest", "epauto", "wtake", "wref", "wfinal"}

\* Types of the slots, of the events and of the threads.
TypeOK ==
  /\ ev \in [Slots -> Events \cup {NULL}]
  /\ refcount \in [Slots -> Nat]
  /\ free_uev \in Seq(Slots) /\ Len(free_uev) <= Cardinality(Slots)
  /\ mem \in [Events -> {"none", "live", "freed"}]
  /\ kind \in [Events -> SUBSET Flags]
  /\ uev \in [Events -> Slots \cup {NULL}]
  /\ UNION {released, active_fd, active_timer, pending_free, modification_lock,
            is_in_worker_pool, heap, epoll} \subseteq Events
  /\ num_active_fd \in Int /\ num_active_timers \in Int
  /\ base_mut \in Threads \cup {NULL}
  /\ reported \subseteq Slots /\ queue \in Seq(Slots)
  /\ th \in [Threads -> Seq([at : Places, s : Slots \cup {NULL},
                             o : Events \cup {NULL}, ret : BOOLEAN])]

\* References a frame owns, besides those of the call it waits for: one from
\* uevent_try_ref, or the one it drops; at delctl and delheap both.
Owned(f) ==
  CASE f.at \in {"delctl", "delheap"} -> 2
    [] f.at \in {"refchk", "refundo", "put", "dec", "create", "addchk", "addfd",
                 "addctl", "addmark", "addtm", "addend", "delfd", "deltm",
                 "cblock", "cb", "wfinal"} -> 1
    [] f.at \in Tested \ {"tput"} /\ f.ret -> 1
    [] OTHER -> 0

\* The references on slot s that the threads T own: the thread, the frame of
\* its stack and which of the frame's references it is.
Held(T, s) ==
  UNION {{p} \X {h \in (DOMAIN T[p]) \X {1, 2} :
                   T[p][h[1]].s = s /\ h[2] <= Owned(T[p][h[1]])} : p \in Threads}

One(b) == IF b THEN 1 ELSE 0

\* References on slot s: the creator's, the timer's, the descriptor's, the
\* pool's and the threads' (at AddFdRef a thread owes one and has one).
References(s) ==
  One(ev[s] # NULL /\ ev[s] \notin pending_free)
  + One(ev[s] \in active_timer) + One(ev[s] \in active_fd)
  + Cardinality({i \in DOMAIN queue : queue[i] = s})
  + Cardinality(Held(th, s))

\* The count of a slot is the number of references that exist: every
\* uevent_ref and uevent_try_ref is matched by one uevent_put.
RefExact == \A s \in Slots : refcount[s] = References(s)

\* Places that read or write the event they have loaded.
Dereferences == {"addchk", "addfd", "addctl", "addmark", "addfdref", "addtm",
                 "addend", "delfd", "delctl", "deltm", "delheap", "freepend",
                 "cblock", "cb", "tcb", "eptest", "epauto"}

\* The reference count keeps an event alive for whoever uses it: nobody, the
\* loop included, reads an event that is freed or follows a NULL uev->ev, and
\* the heap has only nodes of live events.
NoUseAfterFree ==
  /\ \A p \in Threads :
       /\ Top(p).at \in Dereferences => E(p) # NULL /\ mem[E(p)] = "live"
       /\ Returned(p) /\ Top(p).at \in {"addref", "delref", "peekref", "dispref"}
            => ev[U(p)] # NULL
  /\ \A o \in heap : mem[o] = "live"

\* The assertion of uevent_refcount_dec_and_test: only a reference that
\* exists is dropped.
RefcountAssertion == \A p \in Threads : At(p, "dec") => refcount[U(p)] > 0

\* A slot is free, or it is the only slot of one event, or it is changing
\* hands: uev_get_unused and uev_return neither lose nor share a slot.
SlotsExact ==
  /\ IsInjective(free_uev)
  /\ \A s \in Slots :
       /\ s \in Range(free_uev) => ev[s] = NULL /\ refcount[s] = 0
       /\ s \in Range(free_uev) \/ ev[s] # NULL
            \/ \E p \in Threads : At(p, "create") /\ U(p) = s
  /\ \A s, t \in Slots : ev[s] # NULL /\ ev[s] = ev[t] => s = t

\* An event whose last reference is gone is being destroyed: uevent_free
\* releases its memory and its slot sooner or later.
NoLeak ==
  \A s \in Slots : ev[s] # NULL /\ refcount[s] = 0 =>
    \E p \in Threads : At(p, "destroy") /\ U(p) = s

Removing(o) == \E p \in Threads : At(p, "delheap") /\ E(p) = o

\* active_timer tells whether the timer is in the heap, but for the moment
\* between the two steps of remove_event_from_heap, and num_active_timers
\* counts the timers in the heap: dispatch ends when no event is active, and
\* neither earlier nor later.
ActiveExact ==
  /\ active_timer \subseteq heap
  /\ \A o \in heap : o \in active_timer \/ Removing(o)
  /\ num_active_timers = Cardinality(heap)

\* Every event that uevent_free marked is destroyed in the end.
FreeCompletes ==
  \A o \in Events : (o \in pending_free) ~> (mem[o] = "freed")
=============================================================================
