----------------------------- MODULE EventLoop -----------------------------
(***************************************************************************)
(* uevent/uevent.c: the loop of uevent_base_dispatch, its timers, and the  *)
(* eventfd that wakes it up.                                               *)
(*                                                                         *)
(* The loop thread sleeps in epoll_wait until the earliest timer it knows  *)
(* of.  A thread that inserts an earlier timer, or breaks the loop, writes *)
(* to the eventfd, unless wakeup_fd_written says that this was done        *)
(* already.  The flag and the eventfd are separate objects, so every       *)
(* access to either is a step of its own here; what happens under base_mut *)
(* is one step.                                                            *)
(*                                                                         *)
(* Time is relative: rem[t] is the key of timer t minus the present time   *)
(* (negative: overdue), sleep what is left of the timeout of epoll_wait.   *)
(* The heap is the priority queue that MinHeap implements.                 *)
(***************************************************************************)
EXTENDS Integers, FiniteSets, FiniteSetsExt, Functions

CONSTANTS
  Timers,       \* the timer events of the base
  Persist,      \* those with UEV_PERSIST
  Delays,       \* timeouts callers use, in ticks
  Period,       \* timeout_ms of the persistent timers
  MaxTimeout,   \* EPOLL_MAX_TIMEOUT_MS
  MaxBatch,     \* the 500 timers uevent_handle_timers takes in one go
  MaxLate,      \* bound: lateness of a timer and length of a batch in ticks
  Clients,      \* threads other than the loop that use the base
  NoOne,        \* not a thread
  Pooled,       \* does the base have a worker pool?
  Signals,      \* may signals interrupt epoll_wait?
  EarlyDeinit,  \* may uevent_deinit meet a dispatch that is just starting?
  LateAdds      \* may callbacks add timers once uevent_deinit has begun?

ASSUME LoopAssumption ==
  /\ Persist \subseteq Timers /\ Delays \subseteq Nat
  /\ {Period, MaxTimeout, MaxBatch, MaxLate} \subseteq Nat
  /\ MaxTimeout > 0 /\ MaxBatch > 0 /\ MaxLate >= MaxTimeout
  /\ {Pooled, Signals, EarlyDeinit, LateAdds} \subseteq BOOLEAN
  /\ NoOne \notin Timers \cup Clients
  /\ "loop" \notin Clients \cup {NoOne}

VARIABLES
  rem,               \* the timers in the heap with their keys
  efd, edge,         \* eventfd: is its counter positive; unreported edge
  wakeup_fd_written, running, stopped,   \* fields of uevent_base_t
  num_active_fd,     \* the user's descriptor events: none or one
  lpc, sleep, nev,   \* the loop: place, timeout, events epoll reported
  age, batch, cur,   \* time since "now" was read; timers left; timer fired
  wk,                \* where each thread is in loopbreak, wakeup and deinit
  pool,              \* the wakeup event in the pool: none, queued, flag
  closer,            \* the client in uevent_deinit, or NoOne
  freed              \* uevent_deinit has released the base

wake == <<efd, edge, wakeup_fd_written>>
base == <<running, stopped, num_active_fd>>
loop == <<lpc, sleep, nev, age, batch, cur>>
ends == <<closer, freed>>
vars == <<rem, wake, base, loop, wk, pool, ends>>

Loop == "loop"
Threads == Clients \cup {Loop}
Places == {"off", "start", "top", "noev", "reset", "drain", "clear", "calc",
           "wait", "tchk", "timers", "rearm", "cb", "cbret", "echk", "epoll",
           "wread", "wclear", "fdcb", "fdret", "exit"}

active == DOMAIN rem
Without(t) == Restrict(rem, active \ {t})

At(l) == lpc = l /\ wk[Loop] = "idle" /\ ~freed
Goto(l) == lpc' = l

\* base_mut: the loop keeps it while it wakes itself for a re-armed timer,
\* and uevent_deinit once it frees the events.
MutexFree == lpc # "rearm" /\ \A p \in Clients : wk[p] # "stuck"

MayRoot(d, others) == \A u \in others : d <= rem[u]
MustRoot(d, others) == \A u \in others : d < rem[u]

-----------------------------------------------------------------------------
(* uevent_base_wakeup, in any thread.                                      *)

AfterWake(p) == IF p = closer THEN "dwait" ELSE "idle"

WakeLoad(p) ==
  /\ wk[p] = "load"
  /\ wk' = [wk EXCEPT ![p] =
              IF wakeup_fd_written THEN AfterWake(p) ELSE "write"]
  /\ UNCHANGED <<rem, wake, base, loop, pool, ends>>

WakeWrite(p) ==
  /\ wk[p] = "write"
  /\ efd' = TRUE /\ edge' = TRUE
  /\ wk' = [wk EXCEPT ![p] = "store"]
  /\ UNCHANGED <<rem, wakeup_fd_written, base, loop, pool, ends>>

WakeStore(p) ==
  /\ wk[p] = "store"
  /\ wakeup_fd_written' = TRUE
  /\ wk' = [wk EXCEPT ![p] = AfterWake(p)]
  /\ UNCHANGED <<rem, efd, edge, base, loop, pool, ends>>

-----------------------------------------------------------------------------
(* The operations of the API, called by a client, or by a callback that    *)
(* the loop runs itself (a callback makes at most one call here).          *)

MayCall(p) ==
  /\ wk[p] = "idle" /\ ~freed /\ MutexFree
  /\ IF p = Loop THEN lpc \in {"cb", "fdcb"} /\ ~Pooled ELSE closer = NoOne

Called(p) ==
  /\ Goto(IF p # Loop THEN lpc ELSE IF lpc = "cb" THEN "cbret" ELSE "fdret")
  /\ UNCHANGED <<sleep, nev, age, batch, cur>>

\* A slip: the minimum is compared before the node is inserted.
WakeIfWasRoot(p, t, d) ==
  \E root \in BOOLEAN :
    /\ root => t \in active /\ MayRoot(rem[t], active)
    /\ wk' = [wk EXCEPT ![p] =
                IF root /\ ~wakeup_fd_written THEN "load" ELSE @]

\* insert_timer_to_heap: the loop is to be woken if the node is now the
\* minimum (on a tie, whichever node the heap has at its root).
WakeIfRoot(p, t, d) ==
  \E root \in BOOLEAN :
    /\ root => MayRoot(d, active \ {t})
    /\ MustRoot(d, active \ {t}) => root
    /\ wk' = [wk EXCEPT ![p] =
                IF root /\ ~wakeup_fd_written THEN "load" ELSE @]

InsertTimer(p, t, d) ==
  /\ rem' = [u \in active \cup {t} |-> IF u = t THEN d ELSE rem[u]]
  /\ WakeIfRoot(p, t, d)

\* uevent_add on a timer; UEV_ERR_BUSY while the loop runs its callback.
AddTimer(p, t, d) ==
  /\ MayCall(p)
  /\ closer # NoOne => LateAdds
  /\ ~(lpc \in {"cb", "cbret"} /\ cur = t /\ ~Pooled)
  /\ InsertTimer(p, t, d)
  /\ Called(p)
  /\ UNCHANGED <<wake, base, pool, ends>>

\* uevent_del on a timer: nobody is woken.
DelTimer(p, t) ==
  /\ MayCall(p)
  /\ rem' = Without(t)
  /\ Called(p)
  /\ UNCHANGED <<wake, base, wk, pool, ends>>

AddFd(p) ==
  /\ MayCall(p)
  /\ num_active_fd' \in {1, num_active_fd}
  /\ Called(p)
  /\ UNCHANGED <<rem, wake, running, stopped, wk, pool, ends>>

DelFd(p) ==
  /\ MayCall(p) /\ num_active_fd = 1
  /\ num_active_fd' = 0
  /\ Called(p)
  /\ UNCHANGED <<rem, wake, running, stopped, wk, pool, ends>>

\* uevent_base_loopbreak: the flag, then the heap, then the wake-up.
BreakLoop(p) ==
  /\ MayCall(p)
  /\ running' = FALSE
  /\ wk' = [wk EXCEPT ![p] = "heap"]
  /\ Called(p)
  /\ UNCHANGED <<rem, wake, stopped, num_active_fd, pool, ends>>

ClearHeap(p) ==
  /\ wk[p] = "heap" /\ MutexFree
  /\ rem' = Restrict(rem, {})
  /\ wk' = [wk EXCEPT ![p] = "load"]
  /\ UNCHANGED <<wake, base, loop, pool, ends>>

-----------------------------------------------------------------------------
(* uevent_deinit, by a client that no other client competes with.          *)

Deinit(p) ==
  /\ MayCall(p) /\ \A q \in Clients : wk[q] = "idle"
  /\ lpc = "start" => EarlyDeinit
  /\ closer' = p
  /\ running' = FALSE
  /\ wk' = [wk EXCEPT ![p] = "heap"]
  /\ UNCHANGED <<rem, wake, stopped, num_active_fd, loop, pool, freed>>

\* A slip: the wait is left out.
SkipWait(p) ==
  /\ wk[p] = "dwait"
  /\ wk' = [wk EXCEPT ![p] = "dpool"]
  /\ UNCHANGED <<rem, wake, base, loop, pool, ends>>

uevent_base_wait_stopped(p) ==
  /\ wk[p] = "dwait" /\ stopped /\ MutexFree
  /\ wk' = [wk EXCEPT ![p] = "dpool"]
  /\ UNCHANGED <<rem, wake, base, loop, pool, ends>>

\* The pool is stopped (what is queued is purged) and becomes idle.
StopPool(p) ==
  /\ wk[p] = "dpool" /\ pool # "flag"
  /\ pool' = "none"
  /\ wk' = [wk EXCEPT ![p] = "dfree"]
  /\ UNCHANGED <<rem, wake, base, loop, ends>>

\* All events are freed under base_mut; uevent_del of an event whose timer
\* is active locks base_mut, which this thread holds already.
FreeBase(p) ==
  /\ wk[p] = "dfree" /\ MutexFree
  /\ IF active # {}
       THEN wk' = [wk EXCEPT ![p] = "stuck"] /\ UNCHANGED freed
       ELSE wk' = [wk EXCEPT ![p] = "done"] /\ freed' = TRUE
  /\ UNCHANGED <<rem, wake, base, loop, pool, closer>>

-----------------------------------------------------------------------------
(* The loop thread.                                                        *)

Start ==
  /\ At("off") /\ closer = NoOne
  /\ running' = TRUE
  /\ Goto("start")
  /\ UNCHANGED <<rem, wake, stopped, num_active_fd, sleep, nev, age, batch,
                 cur, wk, pool, ends>>

MarkStarted ==
  /\ lpc = "start"
  /\ stopped' = FALSE
  /\ Goto("top")
  /\ UNCHANGED <<rem, wake, running, num_active_fd, sleep, nev, age, batch,
                 cur, wk, pool, ends>>

uevent_base_has_events == num_active_fd > 0 \/ active # {}

\* The tests that only choose the next place.
LoopTests ==
  /\ \/ At("top") /\ Goto(IF ~running THEN "exit"
                          ELSE IF uevent_base_has_events THEN "reset"
                          ELSE "noev")
     \/ At("reset") /\ Goto(IF wakeup_fd_written THEN "drain" ELSE "calc")
     \/ At("rearm") /\ Goto("cb")
     \/ lpc \in {"cb", "cbret"} /\ At(lpc) /\ Goto("timers")
     \/ At("echk") /\ Goto(IF running THEN "epoll" ELSE "top")
     \/ At("epoll") /\ nev = {} /\ Goto("top")
  /\ UNCHANGED <<rem, wake, base, sleep, nev, age, batch, cur, wk, pool,
                 ends>>

NoEvents ==
  /\ At("noev")
  /\ running' = FALSE
  /\ Goto("exit")
  /\ UNCHANGED <<rem, wake, stopped, num_active_fd, sleep, nev, age, batch,
                 cur, wk, pool, ends>>

\* wakeup_fd_read_cb in the loop: from wakeup_fd_reset, or for the event.
DrainRead ==
  /\ \/ At("drain") /\ Goto("clear")
     \/ At("wread") /\ Goto("wclear")
  /\ efd' = FALSE /\ edge' = FALSE
  /\ UNCHANGED <<rem, wakeup_fd_written, base, sleep, nev, age, batch, cur,
                 wk, pool, ends>>

DrainClear ==
  /\ \/ At("clear") /\ Goto("calc")
     \/ At("wclear") /\ Goto("epoll")
  /\ wakeup_fd_written' = FALSE
  /\ UNCHANGED <<rem, efd, edge, base, sleep, nev, age, batch, cur, wk,
                 pool, ends>>

\* A slip: without timers the loop sleeps without a limit (-1).
epoll_timeout_unlimited ==
  IF active = {} THEN -1
  ELSE Max({0, Min({MaxTimeout} \cup {rem[t] : t \in active})})

epoll_timeout ==
  Max({0, Min({MaxTimeout} \cup {rem[t] : t \in active})})

calculate_epoll_timeout ==
  /\ At("calc")
  /\ sleep' = epoll_timeout
  /\ Goto("wait")
  /\ UNCHANGED <<rem, wake, base, nev, age, batch, cur, wk, pool, ends>>

\* epoll_wait returns: because of the eventfd, a descriptor, or the time.
EpollReturns ==
  /\ At("wait")
  /\ \E e \in SUBSET {"wakeup", "fd"} :
       /\ "wakeup" \in e <=> (edge /\ efd)
       /\ "fd" \in e => num_active_fd > 0
       /\ e = {} => sleep = 0
       /\ nev' = e
  /\ edge' = FALSE
  /\ sleep' = 0
  /\ Goto("tchk")
  /\ UNCHANGED <<rem, efd, wakeup_fd_written, base, age, batch, cur,
                 wk, pool, ends>>

EpollInterrupted ==
  /\ At("wait") /\ Signals
  /\ sleep' = 0
  /\ Goto("top")
  /\ UNCHANGED <<rem, wake, base, nev, age, batch, cur, wk, pool,
                 ends>>

\* A slip: the error return forgets mark_base_stopped.
FailUnmarked ==
  /\ At("wait")
  /\ sleep' = 0
  /\ Goto("off")
  /\ UNCHANGED <<rem, wake, base, nev, age, batch, cur, wk, pool,
                 ends>>

EpollFails ==
  /\ At("wait")
  /\ stopped' = TRUE
  /\ sleep' = 0
  /\ Goto("off")
  /\ UNCHANGED <<rem, wake, running, num_active_fd, nev, age, batch, cur, wk,
                 pool, ends>>

\* uevent_handle_timers: return, or take base_mut and read the clock.
BeginTimers ==
  /\ At("tchk")
  /\ Goto(IF running THEN "timers" ELSE "echk")
  /\ age' = 0
  /\ batch' = MaxBatch
  /\ UNCHANGED <<rem, wake, base, sleep, nev, cur, wk, pool, ends>>

Due(t) == t \in active /\ rem[t] + age <= 0
MinTimeout(x) == Max({x, 1})

\* The minimum is extracted and a persistent timer goes back to the heap.
FireTimer(t) ==
  /\ At("timers") /\ batch > 0
  /\ Due(t) /\ MayRoot(rem[t], active)
  /\ cur' = t
  /\ batch' = batch - 1
  /\ IF t \in Persist /\ running
       THEN InsertTimer(Loop, t, rem[t] + MinTimeout(Period))
       ELSE rem' = Without(t) /\ UNCHANGED wk
  /\ Goto(IF wk'[Loop] = "idle" THEN "cb" ELSE "rearm")
  /\ UNCHANGED <<wake, base, sleep, nev, age, pool, ends>>

EndTimers ==
  /\ At("timers")
  /\ batch = 0 \/ \A t \in active : ~Due(t)
  /\ age' = 0 /\ cur' = NoOne /\ batch' = 0
  /\ Goto("echk")
  /\ UNCHANGED <<rem, wake, base, sleep, nev, wk, pool, ends>>

\* uevent_handle_epoll: the next event; a callback for the eventfd runs
\* here, or in the pool unless it is there already or the loop is breaking.
HandleEvent(e) ==
  /\ At("epoll") /\ e \in nev
  /\ nev' = nev \ {e}
  /\ Goto(CASE e = "fd" /\ num_active_fd > 0 -> "fdcb"
           [] e = "wakeup" /\ ~Pooled -> "wread"
           [] OTHER -> "epoll")
  /\ pool' = IF e = "wakeup" /\ Pooled /\ running /\ pool = "none"
               THEN "queued" ELSE pool
  /\ UNCHANGED <<rem, wake, base, sleep, age, batch, cur, wk, ends>>

\* The callback of the descriptor is over; an event without UEV_PERSIST is
\* deleted.
EndFdCallback ==
  /\ lpc \in {"fdcb", "fdret"} /\ At(lpc)
  /\ num_active_fd' \in {num_active_fd, 0}
  /\ Goto("epoll")
  /\ UNCHANGED <<rem, wake, running, stopped, sleep, nev, age, batch, cur, wk,
                 pool, ends>>

\* wait_for_idle on the pool, then mark_base_stopped.
EndDispatch ==
  /\ At("exit") /\ pool = "none"
  /\ stopped' = TRUE
  /\ Goto("off")
  /\ UNCHANGED <<rem, wake, running, num_active_fd, sleep, nev, age, batch,
                 cur, wk, pool, ends>>

-----------------------------------------------------------------------------
(* A worker runs wakeup_fd_read_cb; time passes.                           *)

WorkerRead ==
  /\ pool = "queued"
  /\ efd' = FALSE /\ edge' = FALSE
  /\ pool' = "flag"
  /\ UNCHANGED <<rem, wakeup_fd_written, base, loop, wk, ends>>

WorkerClear ==
  /\ pool = "flag"
  /\ wakeup_fd_written' = FALSE
  /\ pool' = "none"
  /\ UNCHANGED <<rem, efd, edge, base, loop, wk, ends>>

InBatch == lpc \in {"timers", "rearm", "cb", "cbret"}

\* The clock: the model goes no further once a timer is MaxLate overdue.
Tick ==
  /\ InBatch => age < MaxLate
  /\ \A t \in active : rem[t] > -MaxLate
  /\ age' = IF InBatch THEN age + 1 ELSE age
  /\ rem' = [t \in active |-> rem[t] - 1]
  /\ sleep' = IF sleep > 0 THEN sleep - 1 ELSE sleep
  /\ UNCHANGED <<wake, base, lpc, nev, batch, cur, wk, pool, ends>>

-----------------------------------------------------------------------------
Init ==
  /\ rem = [t \in {} |-> 0]
  /\ efd = FALSE /\ edge = FALSE /\ wakeup_fd_written = FALSE
  /\ running = FALSE /\ stopped = TRUE /\ num_active_fd = 0
  /\ lpc = "off" /\ sleep = 0 /\ nev = {}
  /\ age = 0 /\ batch = 0 /\ cur = NoOne
  /\ wk = [p \in Threads |-> "idle"]
  /\ pool = "none" /\ closer = NoOne /\ freed = FALSE

Call(p) ==
  \/ \E t \in Timers : DelTimer(p, t) \/ \E d \in Delays : AddTimer(p, t, d)
  \/ AddFd(p) \/ DelFd(p) \/ BreakLoop(p)

\* The steps a thread takes once it is in a call.
Finish(p) ==
  \/ ClearHeap(p) \/ WakeLoad(p) \/ WakeWrite(p) \/ WakeStore(p)
  \/ uevent_base_wait_stopped(p) \/ StopPool(p) \/ FreeBase(p)

\* The steps the loop takes by itself.
LoopStep ==
  \/ MarkStarted \/ LoopTests \/ NoEvents \/ DrainRead \/ DrainClear
  \/ calculate_epoll_timeout \/ EpollReturns
  \/ BeginTimers \/ (\E t \in Timers : FireTimer(t)) \/ EndTimers
  \/ (\E e \in {"wakeup", "fd"} : HandleEvent(e))
  \/ EndFdCallback \/ EndDispatch

Worker == WorkerRead \/ WorkerClear

Next ==
  \/ \E p \in Threads : Call(p) \/ Finish(p)
  \/ \E p \in Clients : Deinit(p)
  \/ Start \/ LoopStep \/ EpollInterrupted \/ EpollFails
  \/ Worker \/ Tick

Spec == Init /\ [][Next]_vars

\* Threads that can run do, and time passes.
FairSpec ==
  /\ Spec
  /\ WF_vars(LoopStep) /\ WF_vars(Worker) /\ WF_vars(Tick)
  /\ \A p \in Threads : WF_vars(Finish(p))

-----------------------------------------------------------------------------
(* Properties.                                                             *)

\* Types of the fields and of the places, and the ranges of the counters.
TypeOK ==
  /\ active \subseteq Timers
  /\ \A t \in active : rem[t] \in Int /\ rem[t] >= -MaxLate
  /\ efd \in BOOLEAN /\ edge \in BOOLEAN /\ wakeup_fd_written \in BOOLEAN
  /\ running \in BOOLEAN /\ stopped \in BOOLEAN /\ freed \in BOOLEAN
  /\ num_active_fd \in {0, 1}
  /\ lpc \in Places
  /\ sleep \in 0..MaxTimeout /\ age \in 0..MaxLate /\ batch \in 0..MaxBatch
  /\ nev \subseteq {"wakeup", "fd"} /\ cur \in Timers \cup {NoOne}
  /\ wk \in [Threads -> {"idle", "heap", "load", "write", "store", "dwait",
                         "dpool", "dfree", "stuck", "done"}]
  /\ pool \in {"none", "queued", "flag"}
  /\ closer \in Clients \cup {NoOne}

\* Timer t will not be overslept by the waiting loop.
InTime(t) ==
  \/ sleep <= Max({rem[t], 0})
  \/ edge /\ efd
  \/ \E p \in Threads : wk[p] \in {"load", "write"}

\* The eventfd wakes epoll_wait up: a loop that waits for longer than the
\* time to the earliest timer in the heap (insert_timer_to_heap by another
\* thread) is about to be woken by uevent_base_wakeup.
NoOversleep ==
  lpc = "wait" => \A t \in active : InTime(t)

\* Without a pool, only a loop that waits while wakeup_fd_written is set can
\* oversleep: with the flag clear every insertion of an earlier timer is
\* noticed (insert_timer_to_heap, wakeup_fd_reset, wakeup_fd_read_cb).
OversleepNeedsFlag ==
  lpc = "wait" /\ ~wakeup_fd_written => \A t \in active : InTime(t)

\* uevent_deinit releases the base only when no thread is in dispatch, no
\* worker runs a callback and no timer is left in the heap.
NoDispatchAfterFree ==
  freed => lpc = "off" /\ pool = "none" /\ active = {}

\* uevent_base_loopbreak ends the dispatch it meets, even when its wake-up
\* is lost: the loop tests "running" at the latest after MaxTimeout.
LoopEnds == (lpc \notin {"off", "start"} /\ ~running) ~> (lpc = "off")

TooLate(t) == t \in active /\ rem[t] = -MaxLate

\* A timer that is MaxLate overdue is fired, or removed or moved by a caller,
\* or the loop comes to an end, even when the wake-up for it was lost: a lost
\* wake-up costs MaxTimeout at most, and a batch takes the least keys first.
TimerServed ==
  \A t \in Timers :
    (running /\ lpc # "off" /\ TooLate(t))
      ~> (~TooLate(t) \/ ~running \/ lpc = "off")

\* uevent_deinit returns, whatever the loop was doing when it was called.
DeinitEnds == (closer # NoOne) ~> freed
=============================================================================
