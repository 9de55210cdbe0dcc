----------------------------- MODULE WorkerPool -----------------------------
(***************************************************************************)
(* uevent/uevent_worker.c: the pool of threads that run the callbacks of   *)
(* an event base.  The threads of the model are                            *)
(*   - the main workers 1 .. NumWorkers, joined by destroy,                *)
(*   - the extra workers, detached threads started on demand,              *)
(*   - "loop", the thread in uevent_base_dispatch: the only one that       *)
(*     inserts tasks; it waits for the pool to be idle before it ends,     *)
(*   - "owner", the thread that creates the base and calls uevent_deinit:  *)
(*     pool_create, then pool_stop, wait_for_idle and pool_destroy.        *)
(* Mutexes are held across steps where the code does more under them than  *)
(* one access to shared state; a condition variable is the set of threads  *)
(* whose program counter is at its wait.                                   *)
(***************************************************************************)
EXTENDS Integers, Sequences, FiniteSets, SequencesExt

CONSTANTS
  Events,        \* the uev_t objects whose callbacks the pool may run
  NoEvent,
  NumWorkers,    \* argument of pool_create
  MaxMult,       \* UEV_MAX_WORKER_MULTIPLIER (8)
  ExtraTasks,    \* UEV_EXTRA_WORKER_TASKS (100)
  TriggerRounds, \* the 3 rounds of wake-ups in pool_destroy
  ExtraEnabled,  \* enable_extra_workers
  SlowExtras,    \* may an extra worker outlive the 50 * 100 ms of destroy?
  Spurious,      \* may a condition wait return without a signal?
  CreateFails    \* may pthread_create fail?

ASSUME PoolAssumption ==
  /\ NumWorkers \in Nat \ {0} /\ MaxMult \in Nat \ {0}
  /\ ExtraTasks \in Nat \ {0} /\ TriggerRounds \in Nat \ {0}
  /\ NoEvent \notin Events
  /\ {ExtraEnabled, SlowExtras, Spurious, CreateFails} \subseteq BOOLEAN

Main == 1 .. NumWorkers
\* A thread identity is reused once its thread has ended, so that these are
\* as many as can be counted in total_workers at once.
Extra == NumWorkers + 1 .. NumWorkers + NumWorkers * MaxMult
Workers == Main \cup Extra
Free == 0         \* task_mutex has no owner
NoOne == "none"   \* idle_mutex has no owner

VARIABLES
  running, active_tasks, queue_size, task_queue, total_workers, num_workers,
  task_mutex, idle_mutex,   \* the owner of each mutex
  in_pool,                  \* is_in_worker_pool of every event
  wpc, task, tasks_left,    \* locals of every worker
  tpc,                      \* program counters of "loop" and "owner"
  cur,                      \* the event pool_insert is working on
  tries                     \* rounds left in destroy; threads made in create

shared == <<running, active_tasks, queue_size, task_queue, total_workers,
            num_workers, in_pool>>
locks == <<task_mutex, idle_mutex>>
worker == <<wpc, task, tasks_left>>
control == <<tpc, cur, tries>>
vars == <<shared, locks, worker, control>>

\* Definitions marked "Mutant" are the plausible mistakes the properties are
\* tested against; no action uses them.

\* Mutant of WakeAll: the broadcast is forgotten.
WakeNone == wpc

\* pthread_cond_broadcast(&task_cond): the waiters go on to take the mutex.
WakeAll == [w \in Workers |-> IF wpc[w] = "wait" THEN "lock" ELSE wpc[w]]
\* pthread_cond_broadcast(&idle_cond)
WakeIdle == [t \in {"loop", "owner"} |->
               IF tpc[t] = "idleWait" THEN "idleLock" ELSE tpc[t]]

-----------------------------------------------------------------------------
(* Workers: uevent_worker_thread and uevent_extra_worker_thread.           *)

GoTo(w, l) == wpc' = [wpc EXCEPT ![w] = l]

\* "tasks_left-- > 0"
HasTasksLeft(w) == tasks_left[w] > 0

\* The condition of the while loop; an extra worker counts its tasks down.
CheckRunning(w) ==
  /\ wpc[w] = "check"
  /\ \/ running /\ w \in Main /\ GoTo(w, "lock") /\ UNCHANGED tasks_left
     \/ running /\ w \in Extra
        /\ tasks_left' = [tasks_left EXCEPT ![w] = @ - 1]
        /\ GoTo(w, IF HasTasksLeft(w) THEN "lock" ELSE "exit")
     \/ ~running /\ GoTo(w, "exit") /\ UNCHANGED tasks_left
  /\ UNCHANGED <<shared, locks, task, control>>

LockTasks(w) ==
  /\ wpc[w] = "lock"
  /\ task_mutex = Free
  /\ task_mutex' = w
  /\ GoTo(w, "test")
  /\ UNCHANGED <<shared, idle_mutex, task, tasks_left, control>>

\* wait_and_pop_task with the mutex held, up to the pop: sleep, return NULL,
\* or go on, by way of try_spawn_extra_worker when the queue is long.
TestQueue(w) ==
  /\ wpc[w] = "test"
  /\ \/ /\ queue_size = 0 /\ running
        /\ task_mutex' = Free
        /\ GoTo(w, "wait")
     \/ /\ queue_size = 0 /\ ~running
        /\ task_mutex' = Free
        /\ GoTo(w, IF w \in Main THEN "check" ELSE "exit")
     \/ /\ queue_size > 0
        /\ GoTo(w, IF queue_size > total_workers THEN "spawnPop" ELSE "pop")
        /\ UNCHANGED task_mutex
  /\ UNCHANGED <<shared, idle_mutex, task, tasks_left, control>>

PopTask(w) ==
  /\ wpc[w] = "pop"
  /\ task' = [task EXCEPT ![w] = Head(task_queue)]
  /\ task_queue' = Tail(task_queue)
  /\ queue_size' = queue_size - 1
  /\ active_tasks' = active_tasks + 1
  /\ task_mutex' = Free
  /\ GoTo(w, "process")
  /\ UNCHANGED <<running, total_workers, num_workers, in_pool, idle_mutex,
                 tasks_left, control>>

\* process_worker_task up to the callback: the reference may be refused and
\* the callback skipped; a task that waited too long asks for a worker.
ProcessTask(w) ==
  /\ wpc[w] = "process"
  /\ \E l \in {"finalize", "callback", "spawnRun"} : GoTo(w, l)
  /\ UNCHANGED <<shared, locks, task, tasks_left, control>>

Callback(w) ==
  /\ wpc[w] = "callback"
  /\ GoTo(w, "finalize")
  /\ UNCHANGED <<shared, locks, task, tasks_left, control>>

\* finalize_worker_task: clear the flag, free the task ...
FinalizeTask(w) ==
  /\ wpc[w] = "finalize"
  /\ in_pool' = [in_pool EXCEPT ![task[w]] = FALSE]
  /\ task' = [task EXCEPT ![w] = NoEvent]
  /\ GoTo(w, "finished")
  /\ UNCHANGED <<running, active_tasks, queue_size, task_queue, total_workers,
                 num_workers, locks, tasks_left, control>>

\* Mutant of LastOut: compares the new value of the counter.
LastOutNewValue == active_tasks = 0
\* "prev_active == 1"
LastOut == active_tasks = 1

\* ... leave the count of active tasks; the last one out tells the waiters.
LeaveActive(w) ==
  /\ wpc[w] = "finished"
  /\ active_tasks' = active_tasks - 1
  /\ GoTo(w, IF LastOut THEN "notify" ELSE "check")
  /\ UNCHANGED <<running, queue_size, task_queue, total_workers, num_workers,
                 in_pool, locks, task, tasks_left, control>>

NotifyIdle(w) ==
  /\ wpc[w] = "notify"
  /\ idle_mutex = NoOne
  /\ tpc' = WakeIdle
  /\ GoTo(w, "check")
  /\ UNCHANGED <<shared, locks, task, tasks_left, cur, tries>>

\* Mutant of ExitWorker: the worker is not taken off the count.
ExitUncounted(w) ==
  /\ wpc[w] = "exit"
  /\ GoTo(w, "done")
  /\ UNCHANGED <<shared, locks, task, tasks_left, control>>

ExitWorker(w) ==
  /\ wpc[w] = "exit"
  /\ total_workers' = total_workers - 1
  /\ GoTo(w, "done")
  /\ UNCHANGED <<running, active_tasks, queue_size, task_queue, num_workers,
                 in_pool, locks, task, tasks_left, control>>

\* Mutant of max_workers: off by one.
max_workers_plus == num_workers * MaxMult + 1

\* try_spawn_extra_worker, the compare-and-swap loop: a place under the
\* limit is reserved before the thread exists.
max_workers == num_workers * MaxMult

AfterSpawn(w) == IF wpc[w] \in {"spawnPop", "createPop"} THEN "pop" ELSE "callback"

ReserveWorker(w) ==
  /\ wpc[w] \in {"spawnPop", "spawnRun"}
  /\ IF ExtraEnabled /\ total_workers < max_workers
     THEN /\ total_workers' = total_workers + 1
          /\ GoTo(w, IF wpc[w] = "spawnPop" THEN "createPop" ELSE "createRun")
     ELSE GoTo(w, AfterSpawn(w)) /\ UNCHANGED total_workers
  /\ UNCHANGED <<running, active_tasks, queue_size, task_queue, num_workers,
                 in_pool, locks, task, tasks_left, control>>

\* ... and its pthread_create, with the rollback.
CreateExtra(w) ==
  /\ wpc[w] \in {"createPop", "createRun"}
  /\ \/ \E x \in Extra :
          /\ wpc[x] \in {"none", "done"}
          /\ wpc' = [wpc EXCEPT ![x] = "check", ![w] = AfterSpawn(w)]
          /\ tasks_left' = [tasks_left EXCEPT ![x] = ExtraTasks]
          /\ UNCHANGED total_workers
     \/ /\ CreateFails
        /\ GoTo(w, AfterSpawn(w))
        /\ total_workers' = total_workers - 1
        /\ UNCHANGED tasks_left
  /\ UNCHANGED <<running, active_tasks, queue_size, task_queue, num_workers,
                 in_pool, locks, task, control>>

WorkerStep(w) ==
  \/ CheckRunning(w) \/ LockTasks(w) \/ TestQueue(w) \/ PopTask(w)
  \/ ProcessTask(w) \/ Callback(w) \/ FinalizeTask(w) \/ LeaveActive(w)
  \/ NotifyIdle(w) \/ ExitWorker(w) \/ ReserveWorker(w) \/ CreateExtra(w)

-----------------------------------------------------------------------------
(* The thread of the event loop.                                           *)

Jump(t, l) == tpc' = [tpc EXCEPT ![t] = l]

\* Mutant of CanInsert: the check of is_in_worker_pool is dropped.
AlwaysInsert(e) == e \in Events
CanInsert(e) == ~in_pool[e]

\* uevent_worker_pool_insert: an event that is in the pool is not inserted.
MarkInserted(e) ==
  /\ tpc["loop"] = "loop"
  /\ CanInsert(e)
  /\ in_pool' = [in_pool EXCEPT ![e] = TRUE]
  /\ cur' = e
  /\ Jump("loop", "enqueue")
  /\ UNCHANGED <<running, active_tasks, queue_size, task_queue, total_workers,
                 num_workers, locks, worker, tries>>

\* Mutant of SignalOne: the signal is forgotten.
SignalNone == UNCHANGED wpc
\* pthread_cond_signal(&task_cond): one waiter goes on, if there is one.
SignalOne ==
  IF \E w \in Workers : wpc[w] = "wait"
  THEN \E w \in Workers : wpc[w] = "wait" /\ GoTo(w, "lock")
  ELSE UNCHANGED wpc

\* ... its critical section.
Enqueue ==
  /\ tpc["loop"] = "enqueue"
  /\ task_mutex = Free
  /\ task_queue' = Append(task_queue, cur)
  /\ queue_size' = queue_size + 1
  /\ SignalOne
  /\ cur' = NoEvent
  /\ Jump("loop", "loop")
  /\ UNCHANGED <<running, active_tasks, total_workers, num_workers, in_pool,
                 locks, task, tasks_left, tries>>

\* The end of uevent_base_dispatch: with wait_for_idle, or without it after
\* an error of epoll_wait.
LeaveLoop ==
  /\ tpc["loop"] = "loop"
  /\ \/ Jump("loop", "idleLock")
     \/ Jump("loop", "failed")
  /\ UNCHANGED <<shared, locks, worker, cur, tries>>

-----------------------------------------------------------------------------
(* uevent_worker_pool_wait_for_idle, called by both threads.               *)

AfterIdle(t) == IF t = "loop" THEN "stopped" ELSE "destroy"

LockIdle(t) ==
  /\ tpc[t] = "idleLock"
  /\ idle_mutex = NoOne
  /\ idle_mutex' = t
  /\ Jump(t, "readQueue")
  /\ UNCHANGED <<shared, task_mutex, worker, cur, tries>>

\* Mutant of QueueEmpty: off by one.
QueueAlmostEmpty == queue_size <= 1
QueueEmpty == queue_size < 1

\* is_idle reads the queue under task_mutex and active_tasks after it.
ReadQueue(t) ==
  /\ tpc[t] = "readQueue"
  /\ task_mutex = Free
  /\ Jump(t, IF QueueEmpty THEN "readActive" ELSE "notIdle")
  /\ UNCHANGED <<shared, locks, worker, cur, tries>>

ReadActive(t) ==
  /\ tpc[t] = "readActive"
  /\ IF active_tasks = 0
     THEN Jump(t, AfterIdle(t)) /\ idle_mutex' = NoOne
     ELSE Jump(t, "notIdle") /\ UNCHANGED idle_mutex
  /\ UNCHANGED <<shared, task_mutex, worker, cur, tries>>

WaitIdle(t) ==
  /\ tpc[t] = "notIdle"
  /\ idle_mutex' = NoOne
  /\ Jump(t, "idleWait")
  /\ UNCHANGED <<shared, task_mutex, worker, cur, tries>>

WaitForIdle(t) == LockIdle(t) \/ ReadQueue(t) \/ ReadActive(t) \/ WaitIdle(t)

-----------------------------------------------------------------------------
(* The owner.                                                              *)

\* pool_create, one pthread_create per step; the thread runs before it is
\* counted.  A failure makes the pool smaller and destroys it.
CreateWorker ==
  /\ tpc["owner"] = "create"
  /\ \/ /\ wpc' = [wpc EXCEPT ![tries + 1] = "check"]
        /\ Jump("owner", "count")
        /\ UNCHANGED num_workers
     \/ /\ CreateFails
        /\ num_workers' = tries
        /\ Jump("owner", "destroy")
        /\ UNCHANGED wpc
  /\ UNCHANGED <<running, active_tasks, queue_size, task_queue, total_workers,
                 in_pool, locks, task, tasks_left, cur, tries>>

CountWorker ==
  /\ tpc["owner"] = "count"
  /\ total_workers' = total_workers + 1
  /\ tries' = tries + 1
  /\ IF tries' = num_workers
     THEN tpc' = [owner |-> "created", loop |-> "loop"]
     ELSE Jump("owner", "create")
  /\ UNCHANGED <<running, active_tasks, queue_size, task_queue, num_workers,
                 in_pool, locks, worker, cur>>

\* pool_stop, once the loop has stopped (uevent_base_wait_stopped).
StopRunning ==
  /\ tpc["owner"] = "created"
  /\ tpc["loop"] \in {"stopped", "failed"}
  /\ running' = FALSE
  /\ Jump("owner", "stopTrigger")
  /\ UNCHANGED <<active_tasks, queue_size, task_queue, total_workers,
                 num_workers, in_pool, locks, worker, cur, tries>>

\* trigger_workers_internal: wake the workers, then the idle waiters.
TriggerWorkers ==
  /\ tpc["owner"] \in {"stopTrigger", "trigger"}
  /\ task_mutex = Free
  /\ wpc' = WakeAll
  /\ Jump("owner", IF tpc["owner"] = "trigger" THEN "triggerIdle" ELSE "stopIdle")
  /\ UNCHANGED <<shared, locks, task, tasks_left, cur, tries>>

TriggerIdle ==
  /\ tpc["owner"] \in {"stopIdle", "triggerIdle"}
  /\ idle_mutex = NoOne
  /\ IF tpc["owner"] = "stopIdle"
     THEN tpc' = [WakeIdle EXCEPT !["owner"] = "purge"] /\ UNCHANGED tries
     ELSE /\ tries' = tries - 1
          /\ tpc' = [WakeIdle EXCEPT !["owner"] =
                       IF tries' = 0 THEN "join" ELSE "trigger"]
  /\ UNCHANGED <<shared, locks, worker, cur>>

\* pool_stop drops what is queued and wakes the idle waiters again.
PurgeQueue ==
  /\ tpc["owner"] = "purge"
  /\ task_mutex = Free
  /\ in_pool' = [e \in Events |-> in_pool[e] /\ ~Contains(task_queue, e)]
  /\ queue_size' = queue_size - Len(task_queue)
  /\ task_queue' = <<>>
  /\ Jump("owner", "stopNotify")
  /\ UNCHANGED <<running, active_tasks, total_workers, num_workers, locks,
                 worker, cur, tries>>

StopNotify ==
  /\ tpc["owner"] = "stopNotify"
  /\ idle_mutex = NoOne
  /\ tpc' = [WakeIdle EXCEPT !["owner"] = "idleLock"]
  /\ UNCHANGED <<shared, locks, worker, cur, tries>>

\* pool_destroy: the flag, the rounds of wake-ups, ...
BeginDestroy ==
  /\ tpc["owner"] = "destroy"
  /\ running' = FALSE
  /\ tries' = TriggerRounds
  /\ Jump("owner", "trigger")
  /\ UNCHANGED <<active_tasks, queue_size, task_queue, total_workers,
                 num_workers, in_pool, locks, worker, cur>>

\* ... the joins (of the main workers only), ...
JoinWorkers ==
  /\ tpc["owner"] = "join"
  /\ \A w \in 1 .. num_workers : wpc[w] = "done"
  /\ Jump("owner", "drain")
  /\ UNCHANGED <<shared, locks, worker, cur, tries>>

\* Mutant of Drained: only the joined workers are waited for.
DrainSkipped == TRUE
\* The loop of 50 naps of 100 ms ends with the last worker, or gives up.
Drained == total_workers = 0 \/ SlowExtras

\* ... the bounded wait for the others, and the release of the pool with
\* the tasks that are left in its queue.
FreePool ==
  /\ tpc["owner"] = "drain"
  /\ Drained
  /\ in_pool' = [e \in Events |-> in_pool[e] /\ ~Contains(task_queue, e)]
  /\ task_queue' = <<>>
  /\ Jump("owner", "freed")
  /\ UNCHANGED <<running, active_tasks, queue_size, total_workers, num_workers,
                 locks, worker, cur, tries>>

OwnerStep ==
  \/ CreateWorker \/ CountWorker \/ StopRunning \/ TriggerWorkers
  \/ TriggerIdle \/ PurgeQueue \/ StopNotify \/ BeginDestroy \/ JoinWorkers
  \/ FreePool

-----------------------------------------------------------------------------
SpuriousWakeup ==
  /\ Spurious
  /\ \/ \E w \in Workers : wpc[w] = "wait" /\ GoTo(w, "lock") /\ UNCHANGED tpc
     \/ \E t \in {"loop", "owner"} :
          tpc[t] = "idleWait" /\ Jump(t, "idleLock") /\ UNCHANGED wpc
  /\ UNCHANGED <<shared, locks, task, tasks_left, cur, tries>>

Terminated == tpc["owner"] = "freed" /\ UNCHANGED vars

Init ==
  /\ running = TRUE /\ active_tasks = 0 /\ queue_size = 0 /\ task_queue = <<>>
  /\ total_workers = 0 /\ num_workers = NumWorkers
  /\ task_mutex = Free /\ idle_mutex = NoOne
  /\ in_pool = [e \in Events |-> FALSE]
  /\ wpc = [w \in Workers |-> "none"]
  /\ task = [w \in Workers |-> NoEvent]
  /\ tasks_left = [w \in Workers |-> 0]
  /\ tpc = [loop |-> "none", owner |-> "create"]
  /\ cur = NoEvent /\ tries = 0

LoopStep == (\E e \in Events : MarkInserted(e)) \/ Enqueue \/ LeaveLoop

Next ==
  \/ \E w \in Workers : WorkerStep(w)
  \/ LoopStep
  \/ \E t \in {"loop", "owner"} : WaitForIdle(t)
  \/ OwnerStep
  \/ SpuriousWakeup
  \/ Terminated

\* Every thread that can go on does.  Entering the loop again and leaving it
\* are the program's choice: only a started insert must be finished.
Fairness ==
  /\ \A w \in Workers : WF_vars(WorkerStep(w))
  /\ WF_vars(Enqueue)
  /\ \A t \in {"loop", "owner"} : WF_vars(WaitForIdle(t))
  /\ WF_vars(OwnerStep)

Spec == Init /\ [][Next]_vars
FairSpec == Spec /\ Fairness

-----------------------------------------------------------------------------
(* Properties.                                                             *)

TypeOK ==
  /\ running \in BOOLEAN
  /\ active_tasks \in Int /\ queue_size \in Int /\ total_workers \in Int
  /\ task_queue \in Seq(Events)
  /\ num_workers \in 0 .. NumWorkers
  /\ task_mutex \in Workers \cup {Free}
  /\ idle_mutex \in {"loop", "owner", NoOne}
  /\ in_pool \in [Events -> BOOLEAN]
  /\ wpc \in [Workers -> {"none", "check", "lock", "test", "wait", "spawnPop",
                          "createPop", "pop", "process", "spawnRun",
                          "createRun", "callback", "finalize", "finished",
                          "notify", "exit", "done"}]
  /\ task \in [Workers -> Events \cup {NoEvent}]
  /\ tasks_left \in [Workers -> -1 .. ExtraTasks]
  /\ tpc \in [{"loop", "owner"} ->
               {"none", "loop", "enqueue", "idleLock", "readQueue", "readActive",
                "notIdle", "idleWait", "stopped", "failed", "create", "count",
                "created", "stopTrigger", "stopIdle", "purge", "stopNotify",
                "destroy", "trigger", "triggerIdle", "join", "drain", "freed"}]
  /\ cur \in Events \cup {NoEvent}
  /\ tries \in 0 .. NumWorkers \cup 0 .. TriggerRounds

Holders(e) == {w \in Workers : task[w] = e}
Queued(e) == {i \in DOMAIN task_queue : task_queue[i] = e}

\* An event whose is_in_worker_pool is set is in exactly one place: in the
\* hands of pool_insert, once in the queue, or with one worker.  An event
\* whose flag is clear is nowhere.  (Set in pool_insert, cleared by
\* finalize_worker_task, pool_stop and pool_destroy.)
InPoolOnce ==
  \A e \in Events :
    Cardinality(Holders(e)) + Cardinality(Queued(e)) + (IF cur = e THEN 1 ELSE 0)
      = IF in_pool[e] THEN 1 ELSE 0

Busy == {w \in Workers : wpc[w] \in {"process", "spawnRun", "createRun",
                                     "callback", "finalize", "finished"}}
Reserving == {w \in Workers : wpc[w] \in {"createPop", "createRun"}}
Live == {w \in Workers : wpc[w] \notin {"none", "done"}}

\* The counters the threads steer by are exact: queue_size is the length of
\* the queue until the pool is freed, active_tasks the workers between pop
\* and the end of finalize, total_workers the threads that have not ended
\* plus the places try_spawn_extra_worker has reserved, less the thread
\* pool_create has started and not yet counted.
CountersExact ==
  /\ tpc["owner"] # "freed" => queue_size = Len(task_queue)
  /\ active_tasks = Cardinality(Busy)
  /\ total_workers = Cardinality(Live) + Cardinality(Reserving)
                     - (IF tpc["owner"] = "count" THEN 1 ELSE 0)

\* Concurrent try_spawn_extra_worker calls never push the pool beyond
\* UEV_MAX_WORKER_MULTIPLIER threads per main worker.
WorkerBound == Cardinality(Live) <= NumWorkers * MaxMult

\* When uevent_base_dispatch returns normally, wait_for_idle has really seen
\* the end of all tasks, although is_idle reads the queue and the count of
\* active tasks at two different moments.
IdleIsIdle ==
  tpc["loop"] = "stopped" => task_queue = <<>> /\ active_tasks = 0

\* uevent_worker.h: destroy "waits for the end of all threads": no thread
\* that still has the pool pointer outlives the pool.
NoUseAfterFree == tpc["owner"] = "freed" => Live = {}

\* The end of dispatch does not hang: wait_for_idle returns, whatever the
\* order of the last finalize, its broadcast and the check.
IdleReached == tpc["loop"] = "idleLock" ~> tpc["loop"] = "stopped"

\* deinit does not hang: once the loop has stopped (or pool_create failed),
\* every worker is woken, ends and is joined, and the pool is released.
DestroyEnds ==
  (tpc["loop"] \in {"stopped", "failed"} \/ tpc["owner"] = "destroy")
    ~> tpc["owner"] = "freed"

\* Every task that was inserted is run or dropped by stop; none is forgotten
\* in the queue with all workers asleep.
TaskServed == \A e \in Events : in_pool[e] ~> ~in_pool[e]
=============================================================================
