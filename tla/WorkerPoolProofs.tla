-------------------------- MODULE WorkerPoolProofs --------------------------
(***************************************************************************)
(* Proofs about the worker pool of uevent_worker.c, for every number of    *)
(* workers, events and rounds.  The hypothesis ~SlowExtras says that the   *)
(* extra workers end within the bounded wait of pool_destroy; without it   *)
(* destroy frees the pool under a running thread.                          *)
(*                                                                         *)
(* The inductive invariant is built in layers, each proved with the help   *)
(* of the ones below: the threads and total_workers, the queue and its     *)
(* mutex, the place of every event, and the count of active tasks.         *)
(***************************************************************************)
EXTENDS WorkerPool, FiniteSetTheorems, SequenceTheorems, TLAPS

WorkerPlaces == {"none", "check", "lock", "test", "wait", "spawnPop",
                 "createPop", "pop", "process", "spawnRun", "createRun",
                 "callback", "finalize", "finished", "notify", "exit", "done"}
IdlePlaces == {"idleLock", "readQueue", "readActive", "notIdle", "idleWait"}
LoopPlaces == {"none", "loop", "enqueue", "stopped", "failed"} \cup IdlePlaces
StopPlaces == {"stopTrigger", "stopIdle", "purge", "stopNotify"} \cup IdlePlaces
DestroyPlaces == {"destroy", "trigger", "triggerIdle", "join", "drain", "freed"}
OwnerPlaces == {"create", "count", "created"} \cup StopPlaces \cup DestroyPlaces

-----------------------------------------------------------------------------
(* First layer: the threads and the counter total_workers.                 *)

ThreadType ==
  /\ wpc \in [Workers -> WorkerPlaces]
  /\ tpc \in [{"loop", "owner"} -> LoopPlaces \cup OwnerPlaces]
  /\ tpc["loop"] \in LoopPlaces /\ tpc["owner"] \in OwnerPlaces
  /\ running \in BOOLEAN /\ total_workers \in Int
  /\ num_workers \in 0 .. NumWorkers
  /\ tasks_left \in [Workers -> -1 .. ExtraTasks]
  /\ tries \in 0 .. NumWorkers \cup 0 .. TriggerRounds

\* While pool_create runs there is no task: the workers it has started come
\* no further than their wait, and no extra worker is asked for.
Creating == tpc["owner"] \in {"create", "count"}
CreateInv ==
  Creating =>
    /\ tpc["loop"] = "none" /\ running /\ queue_size = 0
    /\ num_workers = NumWorkers /\ tries < NumWorkers
    /\ total_workers = tries
    /\ \A w \in Workers : wpc[w] \in {"none", "check", "lock", "test", "wait"}
    /\ \A w \in Workers :
         w > (IF tpc["owner"] = "count" THEN tries + 1 ELSE tries) => wpc[w] = "none"

\* The loop has ended, or never began, when the owner stops the pool.
PhaseInv ==
  /\ tpc["owner"] \in StopPlaces \cup DestroyPlaces =>
       tpc["loop"] \in {"none", "stopped", "failed"}
  /\ tpc["owner"] \in {"trigger", "triggerIdle"} =>
       tries \in 1 .. TriggerRounds

\* A worker that has not left its loop has not run out of tasks.
BudgetInv ==
  \A w \in Workers : wpc[w] \notin {"exit", "done"} => tasks_left[w] >= 0

TotalInv ==
  /\ total_workers = Cardinality(Live) + Cardinality(Reserving)
                     - (IF tpc["owner"] = "count" THEN 1 ELSE 0)
  /\ total_workers <= NumWorkers * MaxMult

ThreadInv ==
  ThreadType /\ CreateInv /\ PhaseInv /\ BudgetInv /\ TotalInv /\ NoUseAfterFree

-----------------------------------------------------------------------------
(* Second layer: the queue and the two mutexes.                            *)

QueueType ==
  /\ task_queue \in Seq(Events)
  /\ active_tasks \in Int /\ queue_size \in Int
  /\ in_pool \in [Events -> BOOLEAN]
  /\ task \in [Workers -> Events \cup {NoEvent}]
  /\ cur \in Events \cup {NoEvent}
  /\ task_mutex \in Workers \cup {Free}
  /\ idle_mutex \in {"loop", "owner", NoOne}

\* The owner of task_mutex is the worker between LockTasks and its release,
\* that of idle_mutex the thread inside the loop of wait_for_idle.
MutexInv ==
  /\ \A w \in Workers :
       task_mutex = w <=> wpc[w] \in {"test", "spawnPop", "createPop", "pop"}
  /\ \A t \in {"loop", "owner"} :
       idle_mutex = t <=> tpc[t] \in {"readQueue", "readActive", "notIdle"}

HoldingPlaces == {"process", "spawnRun", "createRun", "callback", "finalize"}

\* A thread holds an event exactly between taking it and giving it away.
TaskInv ==
  /\ \A w \in Workers : task[w] # NoEvent <=> wpc[w] \in HoldingPlaces
  /\ cur # NoEvent <=> tpc["loop"] = "enqueue"

\* What TestQueue saw still holds at the pop, because the mutex is held.
QueueInv ==
  /\ tpc["owner"] # "freed" => queue_size = Len(task_queue)
  /\ \A w \in Workers :
       wpc[w] \in {"spawnPop", "createPop", "pop"} => task_queue # <<>>

QueueLayer == QueueType /\ MutexInv /\ TaskInv /\ QueueInv

-----------------------------------------------------------------------------
(* Third layer: the place of every event, said point by point.             *)

PlaceInv ==
  /\ \A i, j \in DOMAIN task_queue : task_queue[i] = task_queue[j] => i = j
  /\ \A v, w \in Workers : task[v] # NoEvent /\ task[v] = task[w] => v = w
  /\ \A i \in DOMAIN task_queue : task_queue[i] # cur
  /\ \A w \in Workers : task[w] # NoEvent =>
       task[w] # cur /\ \A i \in DOMAIN task_queue : task_queue[i] # task[w]
  /\ \A e \in Events : in_pool[e] <=>
       \/ cur = e
       \/ \E i \in DOMAIN task_queue : task_queue[i] = e
       \/ \E w \in Workers : task[w] = e

-----------------------------------------------------------------------------
(* Fourth layer: the count of active tasks and what wait_for_idle relies   *)
(* on between its two reads.                                               *)

ActiveInv == active_tasks = Cardinality(Busy)

\* Nobody inserts while the loop's own thread waits: a queue seen empty
\* stays empty.
IdleInv == tpc["loop"] \in {"readActive", "stopped"} => task_queue = <<>>

IdleLayer == ActiveInv /\ IdleInv /\ IdleIsIdle

PoolInv == ThreadInv /\ QueueLayer /\ PlaceInv /\ IdleLayer

-----------------------------------------------------------------------------
(* Facts about the constants and about counting threads.                   *)

\* The identities of threads are finitely many positive numbers.
LEMMA WorkersFinite ==
  /\ IsFiniteSet(Workers)
  /\ Workers \subseteq Nat \ {0}
  /\ Main \subseteq Workers /\ Extra \subseteq Workers
  /\ Main \cap Extra = {}
<1>1. NumWorkers \in Nat /\ NumWorkers * MaxMult \in Nat
  BY PoolAssumption
<1>2. IsFiniteSet(Main) /\ IsFiniteSet(Extra)
  BY <1>1, FS_Interval DEF Main, Extra
<1>3. IsFiniteSet(Workers)
  BY <1>2, FS_Union DEF Workers
<1> QED BY <1>1, <1>3 DEF Workers, Main, Extra

LEMMA CountType ==
  ASSUME NEW S \in SUBSET Workers
  PROVE  IsFiniteSet(S) /\ Cardinality(S) \in Nat /\ (Cardinality(S) = 0 <=> S = {})
BY WorkersFinite, FS_Subset, FS_CardinalityType, FS_EmptySet

\* One thread more, or one less, is one more or less in a count.
LEMMA CountAdd ==
  ASSUME NEW S \in SUBSET Workers, NEW w \in Workers, w \notin S
  PROVE  Cardinality(S \cup {w}) = Cardinality(S) + 1
BY CountType, FS_AddElement

LEMMA CountRemove ==
  ASSUME NEW S \in SUBSET Workers, NEW w \in S
  PROVE  Cardinality(S \ {w}) = Cardinality(S) - 1
BY CountType, FS_RemoveElement

\* The limit of try_spawn_extra_worker is at least the number of workers.
LEMMA LimitBound ==
  /\ NumWorkers * MaxMult \in Nat /\ NumWorkers <= NumWorkers * MaxMult
  /\ \A n \in 0 .. NumWorkers : n * MaxMult <= NumWorkers * MaxMult
BY PoolAssumption

LEMMA CountsType ==
  /\ Live \in SUBSET Workers /\ Reserving \in SUBSET Workers /\ Busy \in SUBSET Workers
  /\ Cardinality(Live) \in Nat /\ Cardinality(Reserving) \in Nat
  /\ Cardinality(Busy) \in Nat
<1>1. Live \in SUBSET Workers /\ Reserving \in SUBSET Workers /\ Busy \in SUBSET Workers
  BY DEF Live, Reserving, Busy
<1> QED BY <1>1, CountType

-----------------------------------------------------------------------------
(* First layer, step by step.                                              *)

LEMMA ThreadInit == Init => ThreadInv
<1> SUFFICES ASSUME Init PROVE ThreadInv
  OBVIOUS
<1> USE PoolAssumption DEF Init
<1>1. ThreadType
  BY WorkersFinite DEF ThreadType, WorkerPlaces, LoopPlaces, OwnerPlaces
<1>2. CreateInv /\ PhaseInv /\ BudgetInv /\ NoUseAfterFree
  BY WorkersFinite DEF CreateInv, Creating, PhaseInv, StopPlaces, IdlePlaces,
     DestroyPlaces, BudgetInv, NoUseAfterFree
<1>3. Live = {} /\ Reserving = {}
  BY DEF Live, Reserving
<1>4. TotalInv
  BY <1>3, FS_EmptySet, LimitBound DEF TotalInv
<1> QED BY <1>1, <1>2, <1>4 DEF ThreadInv

\* Steps that start, end and reserve no thread leave the counts alone.
LEMMA CountsKept ==
  ASSUME ThreadInv, total_workers' = total_workers,
         tpc'["owner"] = "count" <=> tpc["owner"] = "count",
         \A v \in Workers :
           /\ wpc'[v] \in {"none", "done"} <=> wpc[v] \in {"none", "done"}
           /\ wpc'[v] \in {"createPop", "createRun"}
                <=> wpc[v] \in {"createPop", "createRun"}
  PROVE  TotalInv' /\ Live' = Live
<1>1. Live' = Live /\ Reserving' = Reserving
  BY DEF Live, Reserving
<1> QED BY <1>1 DEF ThreadInv, TotalInv

\* A worker that takes a step is alive, so the pool is not freed.
LEMMA WorkerAlive ==
  ASSUME ThreadInv, NEW w \in Workers, wpc[w] \notin {"none", "done"}
  PROVE  tpc["owner"] # "freed"
BY DEF ThreadInv, NoUseAfterFree, Live

\* The steps of a worker that keep it alive and reserve nothing.
LEMMA ThreadWorkerQuiet ==
  ASSUME ThreadInv, NEW w \in Workers,
         \/ CheckRunning(w) \/ LockTasks(w) \/ TestQueue(w) \/ PopTask(w)
         \/ ProcessTask(w) \/ Callback(w) \/ FinalizeTask(w) \/ LeaveActive(w)
  PROVE  ThreadInv'
<1> USE PoolAssumption DEF ThreadInv
<1> DEFINE Quiet == WorkerPlaces \ {"none", "done", "createPop", "createRun"}
<1>1. /\ wpc[w] \in Quiet
      /\ \E l \in Quiet :
           /\ wpc' = [wpc EXCEPT ![w] = l]
           /\ l # "exit" => tasks_left'[w] >= 0
           /\ Creating => l \in {"none", "check", "lock", "test", "wait"}
                          /\ queue_size' = queue_size
      /\ tasks_left' \in [Workers -> -1 .. ExtraTasks]
      /\ \A v \in Workers \ {w} : tasks_left'[v] = tasks_left[v]
      /\ UNCHANGED <<running, total_workers, num_workers, tpc, tries>>
  <2> USE DEF ThreadType, BudgetInv, CreateInv, shared, locks, worker, control, GoTo
  <2>1. CASE CheckRunning(w)
    <3>1. CASE running /\ w \in Main
      BY <2>1, <3>1, WorkersFinite DEF CheckRunning, WorkerPlaces
    <3>2. CASE running /\ w \in Extra
      <4>1. ~Creating
        BY <2>1, <3>2, WorkersFinite DEF Creating, CheckRunning, Extra
      <4>2. /\ tasks_left' = [tasks_left EXCEPT ![w] = tasks_left[w] - 1]
            /\ wpc' = [wpc EXCEPT ![w] = IF tasks_left[w] > 0 THEN "lock" ELSE "exit"]
            /\ wpc[w] = "check"
        BY <2>1, <3>2, WorkersFinite DEF CheckRunning, HasTasksLeft
      <4>3. UNCHANGED <<running, total_workers, num_workers, tpc, tries>>
        BY <2>1 DEF CheckRunning
      <4>4. tasks_left[w] \in 0 .. ExtraTasks
        BY <4>2
      <4>5. /\ tasks_left' \in [Workers -> -1 .. ExtraTasks]
            /\ \A v \in Workers \ {w} : tasks_left'[v] = tasks_left[v]
            /\ tasks_left'[w] = tasks_left[w] - 1
        BY <4>2, <4>4
      <4> DEFINE l == IF tasks_left[w] > 0 THEN "lock" ELSE "exit"
      <4>6. wpc' = [wpc EXCEPT ![w] = l] /\ (l # "exit" => tasks_left'[w] >= 0)
        BY <4>2, <4>4, <4>5
      <4>7. l \in Quiet /\ wpc[w] \in Quiet
        BY <4>2 DEF WorkerPlaces
      <4> HIDE DEF l, Quiet
      <4> QED BY <4>1, <4>3, <4>5, <4>6, <4>7
    <3>3. CASE ~running
      BY <2>1, <3>3 DEF CheckRunning, WorkerPlaces
    <3> QED BY <2>1, <3>1, <3>2, <3>3 DEF CheckRunning
  <2>2. CASE LockTasks(w) \/ TestQueue(w)
    BY <2>2 DEF LockTasks, TestQueue, WorkerPlaces
  <2>3. CASE PopTask(w)
    BY <2>3 DEF PopTask, WorkerPlaces
  <2>4. CASE ProcessTask(w)
    BY <2>4 DEF ProcessTask, WorkerPlaces
  <2>5. CASE Callback(w) \/ FinalizeTask(w) \/ LeaveActive(w)
    BY <2>5 DEF Callback, FinalizeTask, LeaveActive, WorkerPlaces
  <2> QED BY <2>1, <2>2, <2>3, <2>4, <2>5
<1>2. PICK l \in Quiet :
           /\ wpc' = [wpc EXCEPT ![w] = l]
           /\ l # "exit" => tasks_left'[w] >= 0
           /\ Creating => l \in {"none", "check", "lock", "test", "wait"}
                          /\ queue_size' = queue_size
  BY <1>1
<1>3. ThreadType'
  BY <1>1, <1>2 DEF ThreadType
<1>4. CreateInv'
  BY <1>1, <1>2 DEF ThreadType, CreateInv, Creating
<1>5. PhaseInv' /\ BudgetInv'
  BY <1>1, <1>2 DEF ThreadType, PhaseInv, BudgetInv
<1>6. TotalInv' /\ Live' = Live
  <2>1. \A v \in Workers :
           /\ wpc'[v] \in {"none", "done"} <=> wpc[v] \in {"none", "done"}
           /\ wpc'[v] \in {"createPop", "createRun"}
                <=> wpc[v] \in {"createPop", "createRun"}
    BY <1>1, <1>2 DEF ThreadType
  <2> QED BY <1>1, <2>1, CountsKept
<1> QED BY <1>1, <1>3, <1>4, <1>5, <1>6 DEF NoUseAfterFree

\* Places of the other threads change, but not into or out of "count".
LEMMA WakeIdleType ==
  ASSUME ThreadType
  PROVE  /\ WakeIdle \in [{"loop", "owner"} -> LoopPlaces \cup OwnerPlaces]
         /\ \A t \in {"loop", "owner"} :
              WakeIdle[t] = IF tpc[t] = "idleWait" THEN "idleLock" ELSE tpc[t]
BY DEF ThreadType, WakeIdle, LoopPlaces, OwnerPlaces, StopPlaces, IdlePlaces

\* The last worker out takes idle_mutex and wakes the waiters.
LEMMA ThreadNotifyIdle ==
  ASSUME ThreadInv, NEW w \in Workers, NotifyIdle(w)
  PROVE  ThreadInv'
<1> USE DEF ThreadInv
<1>1. /\ wpc[w] = "notify" /\ wpc' = [wpc EXCEPT ![w] = "check"]
      /\ tpc' = WakeIdle
      /\ UNCHANGED <<running, queue_size, total_workers, num_workers, tasks_left, tries>>
  BY DEF NotifyIdle, GoTo, shared
<1>2. ThreadType'
  BY <1>1, WakeIdleType DEF ThreadType, WorkerPlaces, LoopPlaces, OwnerPlaces,
     StopPlaces, IdlePlaces
<1>3. /\ tpc["owner"] \in {"create", "count", "trigger", "triggerIdle", "freed"}
           \/ tpc'["owner"] \in {"create", "count", "trigger", "triggerIdle", "freed"}
         => tpc'["owner"] = tpc["owner"]
      /\ tpc["owner"] = "idleWait" => tpc'["owner"] = "idleLock"
      /\ tpc["owner"] # "idleWait" => tpc'["owner"] = tpc["owner"]
      /\ tpc["loop"] # "idleWait" => tpc'["loop"] = tpc["loop"]
  BY <1>1, WakeIdleType
<1>4. CreateInv'
  BY <1>1, <1>3 DEF CreateInv, Creating, ThreadType
<1>5. PhaseInv' /\ BudgetInv'
  BY <1>1, <1>3 DEF PhaseInv, BudgetInv, ThreadType, StopPlaces, IdlePlaces, DestroyPlaces
<1>6. TotalInv' /\ Live' = Live
  <2>1. \A v \in Workers :
           /\ wpc'[v] \in {"none", "done"} <=> wpc[v] \in {"none", "done"}
           /\ wpc'[v] \in {"createPop", "createRun"}
                <=> wpc[v] \in {"createPop", "createRun"}
    BY <1>1 DEF ThreadType
  <2> QED BY <1>1, <1>3, <2>1, CountsKept
<1> QED BY <1>2, <1>3, <1>4, <1>5, <1>6 DEF NoUseAfterFree

\* A thread that ends leaves the count.
LEMMA ThreadExit ==
  ASSUME ThreadInv, NEW w \in Workers, ExitWorker(w)
  PROVE  ThreadInv'
<1> USE DEF ThreadInv
<1>1. /\ wpc[w] = "exit" /\ wpc' = [wpc EXCEPT ![w] = "done"]
      /\ total_workers' = total_workers - 1
      /\ UNCHANGED <<running, queue_size, num_workers, tasks_left, tpc, tries>>
  BY DEF ExitWorker, GoTo, control
<1>2. ThreadType' /\ PhaseInv' /\ BudgetInv'
  BY <1>1 DEF ThreadType, WorkerPlaces, PhaseInv, BudgetInv
<1>3. ~Creating
  BY <1>1 DEF CreateInv
<1>4. CreateInv'
  BY <1>1, <1>3 DEF CreateInv, Creating
<1>5. w \in Live /\ Live' = Live \ {w} /\ Reserving' = Reserving
  BY <1>1 DEF Live, Reserving, ThreadType
<1>6. Cardinality(Live') = Cardinality(Live) - 1
  BY <1>5, CountsType, CountRemove
<1>7. TotalInv'
  BY <1>1, <1>5, <1>6, CountsType, LimitBound DEF TotalInv, ThreadType
<1>8. NoUseAfterFree'
  BY <1>1, <1>5 DEF NoUseAfterFree
<1> QED BY <1>2, <1>4, <1>7, <1>8

\* A place is reserved under the limit before its thread exists.
LEMMA ThreadReserve ==
  ASSUME ThreadInv, NEW w \in Workers, ReserveWorker(w)
  PROVE  ThreadInv'
<1> USE DEF ThreadInv
<1> DEFINE taken == ExtraEnabled /\ total_workers < max_workers
<1>1. /\ wpc[w] \in {"spawnPop", "spawnRun"}
      /\ taken => /\ total_workers' = total_workers + 1
                  /\ wpc' = [wpc EXCEPT ![w] = IF wpc[w] = "spawnPop" THEN "createPop" ELSE "createRun"]
      /\ ~taken => /\ total_workers' = total_workers
                   /\ wpc' = [wpc EXCEPT ![w] = AfterSpawn(w)]
      /\ UNCHANGED <<running, queue_size, num_workers, tasks_left, tpc, tries>>
  BY DEF ReserveWorker, GoTo, control, worker
<1>2. AfterSpawn(w) \in {"pop", "callback"}
  BY DEF AfterSpawn
<1>3. ~Creating
  BY <1>1 DEF CreateInv
<1>4. PICK l \in {"createPop", "createRun", "pop", "callback"} :
        wpc' = [wpc EXCEPT ![w] = l] /\ (l \in {"createPop", "createRun"} <=> taken)
  BY <1>1, <1>2
<1>5. ThreadType' /\ PhaseInv' /\ BudgetInv' /\ CreateInv'
  BY <1>1, <1>3, <1>4 DEF ThreadType, WorkerPlaces, PhaseInv, BudgetInv, CreateInv, Creating
<1>6. w \in Live /\ w \notin Reserving /\ Live' = Live
      /\ Reserving' = IF taken THEN Reserving \cup {w} ELSE Reserving
  BY <1>1, <1>4 DEF Live, Reserving, ThreadType
<1>7. TotalInv'
  <2>1. Cardinality(Reserving') = IF taken THEN Cardinality(Reserving) + 1
                                  ELSE Cardinality(Reserving)
    BY <1>6, CountsType, CountAdd
  <2>2. num_workers * MaxMult \in Int /\ num_workers * MaxMult <= NumWorkers * MaxMult
    BY LimitBound, PoolAssumption DEF ThreadType
  <2>3. taken => total_workers + 1 <= NumWorkers * MaxMult
    BY <2>2, LimitBound DEF max_workers, ThreadType
  <2> QED BY <1>1, <1>6, <2>1, <2>3, CountsType, LimitBound DEF TotalInv, ThreadType
<1>8. NoUseAfterFree'
  BY <1>1, <1>6 DEF NoUseAfterFree
<1> QED BY <1>5, <1>7, <1>8

\* A created thread takes the reserved place; a failure gives it back.
LEMMA ThreadCreateExtra ==
  ASSUME ThreadInv, NEW w \in Workers, CreateExtra(w)
  PROVE  ThreadInv'
<1> USE DEF ThreadInv
<1>1. /\ wpc[w] \in {"createPop", "createRun"}
      /\ UNCHANGED <<running, queue_size, num_workers, tpc, tries>>
  BY DEF CreateExtra, control
<1>2. AfterSpawn(w) \in {"pop", "callback"}
  BY DEF AfterSpawn
<1>3. ~Creating
  BY <1>1 DEF CreateInv
<1>4. w \in Live /\ w \in Reserving
  BY <1>1 DEF Live, Reserving
<1>5. CreateInv'
  BY <1>1, <1>3 DEF CreateInv, Creating
<1>6. CASE /\ CreateFails
           /\ GoTo(w, AfterSpawn(w))
           /\ total_workers' = total_workers - 1
           /\ UNCHANGED tasks_left
  <2>1. ThreadType' /\ PhaseInv' /\ BudgetInv'
    BY <1>1, <1>2, <1>6 DEF GoTo, ThreadType, WorkerPlaces, PhaseInv, BudgetInv
  <2>2. Live' = Live /\ Reserving' = Reserving \ {w}
    BY <1>1, <1>2, <1>6 DEF GoTo, Live, Reserving, ThreadType
  <2>3. Cardinality(Reserving') = Cardinality(Reserving) - 1
    BY <1>4, <2>2, CountsType, CountRemove
  <2>4. TotalInv'
    BY <1>1, <1>6, <2>2, <2>3, CountsType, LimitBound DEF TotalInv, ThreadType
  <2> QED BY <1>1, <1>5, <2>1, <2>2, <2>4 DEF NoUseAfterFree
<1>7. ASSUME NEW x \in Extra,
             wpc[x] \in {"none", "done"},
             wpc' = [wpc EXCEPT ![x] = "check", ![w] = AfterSpawn(w)],
             tasks_left' = [tasks_left EXCEPT ![x] = ExtraTasks],
             UNCHANGED total_workers
      PROVE  ThreadInv'
  <2>1. x \in Workers /\ x # w
    BY <1>1, <1>7, WorkersFinite
  <2>2. ThreadType' /\ PhaseInv' /\ BudgetInv'
    BY <1>1, <1>2, <1>7, <2>1, PoolAssumption
       DEF ThreadType, WorkerPlaces, PhaseInv, BudgetInv
  <2>3. x \notin Live /\ Live' = Live \cup {x} /\ Reserving' = Reserving \ {w}
    BY <1>1, <1>2, <1>7, <2>1 DEF Live, Reserving, ThreadType
  <2>4. /\ Cardinality(Reserving') = Cardinality(Reserving) - 1
        /\ Cardinality(Live') = Cardinality(Live) + 1
    BY <1>4, <2>1, <2>3, CountsType, CountRemove, CountAdd
  <2>5. TotalInv'
    BY <1>1, <1>7, <2>3, <2>4, CountsType DEF TotalInv, ThreadType
  <2>6. NoUseAfterFree'
    BY <1>1, WorkerAlive DEF NoUseAfterFree
  <2> QED BY <1>5, <2>2, <2>5, <2>6
<1> QED BY <1>6, <1>7 DEF CreateExtra

LEMMA ThreadWorker ==
  ASSUME ThreadInv, NEW w \in Workers, WorkerStep(w)
  PROVE  ThreadInv'
BY ThreadWorkerQuiet, ThreadNotifyIdle, ThreadExit, ThreadReserve, ThreadCreateExtra
   DEF WorkerStep

\* Steps of the loop and of the owner that do at most wake sleeping workers.
Woken == \A v \in Workers : wpc'[v] = wpc[v] \/ (wpc[v] = "wait" /\ wpc'[v] = "lock")

LEMMA WakeFacts ==
  ASSUME ThreadType
  PROVE  /\ wpc' = WakeAll => Woken /\ wpc' \in [Workers -> WorkerPlaces]
         /\ SignalOne => Woken /\ wpc' \in [Workers -> WorkerPlaces]
         /\ wpc' = wpc => Woken /\ wpc' \in [Workers -> WorkerPlaces]
         /\ \A w \in Workers : wpc[w] = "wait" /\ GoTo(w, "lock") =>
              Woken /\ wpc' \in [Workers -> WorkerPlaces]
<1> USE DEF ThreadType, Woken, WorkerPlaces
<1>1. \A w \in Workers : wpc[w] = "wait" /\ GoTo(w, "lock") =>
        Woken /\ wpc' \in [Workers -> WorkerPlaces]
  BY DEF GoTo
<1>2. wpc' = WakeAll => Woken /\ wpc' \in [Workers -> WorkerPlaces]
  BY DEF WakeAll
<1>3. SignalOne => Woken /\ wpc' \in [Workers -> WorkerPlaces]
  BY <1>1 DEF SignalOne
<1> QED BY <1>1, <1>2, <1>3

LEMMA ThreadControlStep ==
  ASSUME ThreadInv, ThreadType', PhaseInv', Woken,
         UNCHANGED <<total_workers, num_workers, tasks_left>>,
         tpc'["owner"] = "freed" => tpc["owner"] = "freed",
         tpc'["owner"] = "count" <=> tpc["owner"] = "count",
         Creating' => tpc' = tpc /\ UNCHANGED <<running, queue_size, tries>>
  PROVE  ThreadInv'
<1> USE DEF ThreadInv
<1>1. BudgetInv'
  BY DEF BudgetInv, Woken, ThreadType
<1>2. CreateInv'
  BY DEF CreateInv, Creating, Woken, ThreadType
<1>3. TotalInv' /\ Live' = Live
  <2>1. \A v \in Workers :
           /\ wpc'[v] \in {"none", "done"} <=> wpc[v] \in {"none", "done"}
           /\ wpc'[v] \in {"createPop", "createRun"}
                <=> wpc[v] \in {"createPop", "createRun"}
    BY DEF Woken
  <2> QED BY <2>1, CountsKept
<1> QED BY <1>1, <1>2, <1>3 DEF NoUseAfterFree

LEMMA ThreadLoop ==
  ASSUME ThreadInv, LoopStep
  PROVE  ThreadInv'
<1> USE DEF ThreadInv
<1>1. /\ tpc["loop"] \in {"loop", "enqueue"}
      /\ \E l \in {"loop", "enqueue", "idleLock", "failed"} :
           tpc' = [tpc EXCEPT !["loop"] = l]
      /\ Woken /\ wpc' \in [Workers -> WorkerPlaces]
      /\ UNCHANGED <<running, total_workers, num_workers, tasks_left, tries>>
  <2>1. CASE \E e \in Events : MarkInserted(e)
    BY <2>1, WakeFacts DEF MarkInserted, Jump, worker
  <2>2. CASE Enqueue
    BY <2>2, WakeFacts DEF Enqueue, Jump
  <2>3. CASE LeaveLoop
    BY <2>3, WakeFacts DEF LeaveLoop, Jump, worker, shared
  <2> QED BY <2>1, <2>2, <2>3 DEF LoopStep
<1>2. PICK l \in {"loop", "enqueue", "idleLock", "failed"} :
           tpc' = [tpc EXCEPT !["loop"] = l]
  BY <1>1
<1>3. ThreadType'
  BY <1>1, <1>2 DEF ThreadType, LoopPlaces, IdlePlaces
<1>4. tpc'["owner"] = tpc["owner"] /\ ~Creating /\ ~Creating'
      /\ tpc["owner"] \notin StopPlaces \cup DestroyPlaces
  BY <1>1, <1>2 DEF CreateInv, Creating, PhaseInv, ThreadType
<1>5. PhaseInv'
  BY <1>4 DEF PhaseInv, StopPlaces, DestroyPlaces
<1> QED BY <1>1, <1>3, <1>4, <1>5, ThreadControlStep

\* A thread t inside wait_for_idle.
LEMMA ThreadIdle ==
  ASSUME ThreadInv, NEW t \in {"loop", "owner"}, WaitForIdle(t)
  PROVE  ThreadInv'
<1> USE DEF ThreadInv
<1>1. /\ tpc[t] \in IdlePlaces
      /\ \E l \in IdlePlaces \cup {AfterIdle(t)} : tpc' = [tpc EXCEPT ![t] = l]
      /\ UNCHANGED <<running, queue_size, total_workers, num_workers, wpc, tasks_left, tries>>
  BY DEF WaitForIdle, LockIdle, ReadQueue, ReadActive, WaitIdle, Jump, IdlePlaces,
     shared, worker
<1>2. PICK l \in IdlePlaces \cup {AfterIdle(t)} : tpc' = [tpc EXCEPT ![t] = l]
  BY <1>1
<1>3. ThreadType'
  BY <1>1, <1>2 DEF ThreadType, LoopPlaces, OwnerPlaces, StopPlaces,
     DestroyPlaces, IdlePlaces, AfterIdle
<1>4. /\ tpc'["owner"] = "freed" => tpc["owner"] = "freed"
      /\ tpc'["owner"] = "count" <=> tpc["owner"] = "count"
      /\ ~Creating'
  BY <1>1, <1>2 DEF ThreadType, IdlePlaces, AfterIdle, Creating, CreateInv
<1>5. PhaseInv'
  BY <1>1, <1>2 DEF PhaseInv, ThreadType, StopPlaces, DestroyPlaces, IdlePlaces, AfterIdle
<1>6. Woken
  BY <1>1 DEF Woken
<1> QED BY <1>1, <1>3, <1>4, <1>5, <1>6, ThreadControlStep

LEMMA ThreadSpurious ==
  ASSUME ThreadInv, SpuriousWakeup
  PROVE  ThreadInv'
<1> USE DEF ThreadInv
<1>1. UNCHANGED <<running, queue_size, total_workers, num_workers, tasks_left, tries>>
  BY DEF SpuriousWakeup, shared
<1>2. CASE \E w \in Workers : wpc[w] = "wait" /\ GoTo(w, "lock") /\ UNCHANGED tpc
  <2>1. Woken /\ wpc' \in [Workers -> WorkerPlaces] /\ tpc' = tpc
    BY <1>2, WakeFacts
  <2>2. ThreadType' /\ PhaseInv'
    BY <1>1, <2>1 DEF ThreadType, PhaseInv
  <2> QED BY <1>1, <2>1, <2>2, ThreadControlStep
<1>3. ASSUME NEW t \in {"loop", "owner"}, tpc[t] = "idleWait",
             Jump(t, "idleLock"), UNCHANGED wpc
      PROVE  ThreadInv'
  <2>1. /\ tpc' = [tpc EXCEPT ![t] = "idleLock"] /\ Woken
        /\ wpc' \in [Workers -> WorkerPlaces]
    BY <1>3, WakeFacts DEF Jump
  <2>2. ThreadType' /\ PhaseInv'
    BY <1>1, <1>3, <2>1 DEF ThreadType, LoopPlaces, OwnerPlaces, StopPlaces,
       DestroyPlaces, IdlePlaces, PhaseInv
  <2>3. /\ tpc'["owner"] = "freed" => tpc["owner"] = "freed"
        /\ tpc'["owner"] = "count" <=> tpc["owner"] = "count"
        /\ ~Creating'
    BY <1>3, <2>1 DEF ThreadType, Creating, CreateInv
  <2> QED BY <1>1, <2>1, <2>2, <2>3, ThreadControlStep
<1> QED BY <1>2, <1>3 DEF SpuriousWakeup

\* pthread_create in pool_create: the thread is alive and not yet counted.
LEMMA ThreadCreate ==
  ASSUME ThreadInv, CreateWorker
  PROVE  ThreadInv'
<1> USE DEF ThreadInv
<1> DEFINE w == tries + 1
<1>1. /\ tpc["owner"] = "create"
      /\ UNCHANGED <<running, queue_size, total_workers, tasks_left, tries>>
  BY DEF CreateWorker
<1>2. /\ tries \in 0 .. NumWorkers - 1 /\ w \in Workers /\ wpc[w] = "none"
      /\ tpc["loop"] = "none" /\ num_workers = NumWorkers
  BY <1>1, PoolAssumption DEF CreateInv, Creating, ThreadType, Workers, Main
<1>3. CASE /\ wpc' = [wpc EXCEPT ![w] = "check"]
           /\ Jump("owner", "count")
           /\ UNCHANGED num_workers
  <2>1. tpc' = [tpc EXCEPT !["owner"] = "count"] /\ tasks_left[w] \in Int
    BY <1>2, <1>3 DEF Jump, ThreadType
  <2>2. ThreadType' /\ PhaseInv'
    BY <1>1, <1>3, <2>1 DEF ThreadType, WorkerPlaces, OwnerPlaces, PhaseInv,
       StopPlaces, DestroyPlaces, IdlePlaces
  <2>3. CreateInv'
    BY <1>1, <1>2, <1>3, <2>1, WorkersFinite DEF CreateInv, Creating, ThreadType
  <2>4. w \notin Live /\ Live' = Live \cup {w} /\ Reserving' = Reserving
    BY <1>2, <1>3 DEF Live, Reserving, ThreadType
  <2>5. Cardinality(Live') = Cardinality(Live) + 1
    BY <1>2, <2>4, CountsType, CountAdd
  <2>6. TotalInv'
    BY <1>1, <2>1, <2>4, <2>5, CountsType DEF TotalInv, ThreadType
  <2>7. BudgetInv'
    BY <1>1, <1>2, <1>3 DEF BudgetInv, ThreadType
  <2> QED BY <2>1, <2>2, <2>3, <2>6, <2>7 DEF NoUseAfterFree, ThreadType
<1>4. CASE /\ num_workers' = tries
           /\ Jump("owner", "destroy")
           /\ UNCHANGED wpc
  <2>1. tpc' = [tpc EXCEPT !["owner"] = "destroy"]
    BY <1>4 DEF Jump
  <2>2. ThreadType' /\ PhaseInv' /\ CreateInv' /\ BudgetInv'
    BY <1>1, <1>2, <1>4, <2>1, PoolAssumption DEF ThreadType, OwnerPlaces, PhaseInv,
       StopPlaces, DestroyPlaces, IdlePlaces, CreateInv, Creating, BudgetInv
  <2>3. Live' = Live /\ Reserving' = Reserving
    BY <1>4 DEF Live, Reserving
  <2>4. TotalInv' /\ NoUseAfterFree'
    BY <1>1, <2>1, <2>3 DEF TotalInv, ThreadType, NoUseAfterFree
  <2> QED BY <2>2, <2>4
<1> QED BY <1>3, <1>4 DEF CreateWorker

\* The started thread is counted; the last one opens the loop.
LEMMA ThreadCount ==
  ASSUME ThreadInv, CountWorker
  PROVE  ThreadInv'
<1> USE DEF ThreadInv
<1>1. /\ tpc["owner"] = "count" /\ Creating
      /\ total_workers' = total_workers + 1 /\ tries' = tries + 1
      /\ UNCHANGED <<running, queue_size, num_workers, tasks_left, wpc>>
  BY DEF CountWorker, worker, Creating
<1>2. /\ tries \in 0 .. NumWorkers - 1 /\ num_workers = NumWorkers
      /\ tpc["loop"] = "none" /\ total_workers = tries
  BY <1>1, PoolAssumption DEF CreateInv, ThreadType
<1>3. /\ tpc' \in [{"loop", "owner"} -> LoopPlaces \cup OwnerPlaces]
      /\ tries' = NumWorkers => tpc'["owner"] = "created" /\ tpc'["loop"] = "loop"
      /\ tries' # NumWorkers => tpc'["owner"] = "create" /\ tpc'["loop"] = "none"
  <2>1. CASE tries' = NumWorkers
    <3>1. tpc' = [owner |-> "created", loop |-> "loop"]
      BY <1>2, <2>1 DEF CountWorker
    <3> QED BY <2>1, <3>1 DEF LoopPlaces, OwnerPlaces
  <2>2. CASE tries' # NumWorkers
    <3>1. tpc' = [tpc EXCEPT !["owner"] = "create"]
      BY <1>2, <2>2 DEF CountWorker, Jump
    <3> QED BY <1>2, <2>2, <3>1 DEF ThreadType, OwnerPlaces
  <2> QED BY <2>1, <2>2
<1>4. ThreadType' /\ PhaseInv' /\ BudgetInv'
  BY <1>1, <1>2, <1>3, PoolAssumption DEF ThreadType, LoopPlaces, OwnerPlaces, PhaseInv,
     StopPlaces, DestroyPlaces, IdlePlaces, BudgetInv
<1>5. CreateInv'
  BY <1>1, <1>2, <1>3, PoolAssumption DEF CreateInv, Creating
<1>6. Live' = Live /\ Reserving' = Reserving
  BY <1>1 DEF Live, Reserving
<1>7. tpc'["owner"] \notin {"count", "freed"}
  BY <1>3
<1>8. total_workers' <= NumWorkers * MaxMult
  BY <1>1, <1>2, LimitBound, PoolAssumption
<1>9. TotalInv' /\ NoUseAfterFree'
  BY <1>1, <1>6, <1>7, <1>8, CountsType DEF TotalInv, ThreadType, NoUseAfterFree
<1> QED BY <1>4, <1>5, <1>9

\* The owner's steps that neither start a worker nor free the pool.
LEMMA ThreadOwnerQuiet ==
  ASSUME ThreadInv,
         \/ StopRunning \/ TriggerWorkers \/ TriggerIdle \/ PurgeQueue
         \/ StopNotify \/ BeginDestroy \/ JoinWorkers
  PROVE  ThreadInv'
<1> USE PoolAssumption DEF ThreadInv
<1>1. /\ Woken /\ wpc' \in [Workers -> WorkerPlaces]
      /\ UNCHANGED <<total_workers, num_workers, tasks_left>>
      /\ running' \in BOOLEAN
  BY WakeFacts DEF StopRunning, TriggerWorkers, TriggerIdle, PurgeQueue, StopNotify,
     BeginDestroy, JoinWorkers, shared, worker, ThreadType
<1>2. /\ tpc["owner"] \notin {"create", "count", "freed"}
      /\ tpc'["owner"] \in OwnerPlaces \ {"create", "count", "freed"}
      /\ tpc' \in [{"loop", "owner"} -> LoopPlaces \cup OwnerPlaces]
      /\ tpc["loop"] \in {"none", "stopped", "failed"}
      /\ tpc'["loop"] = tpc["loop"]
      /\ tries' \in 0 .. NumWorkers \cup 0 .. TriggerRounds
      /\ tpc'["owner"] \in {"trigger", "triggerIdle"} => tries' \in 1 .. TriggerRounds
  <2> USE DEF ThreadType, PhaseInv, OwnerPlaces, StopPlaces, DestroyPlaces, Jump
  <2>1. CASE StopRunning
    BY <2>1 DEF StopRunning
  <2>2. CASE TriggerWorkers
    BY <2>2 DEF TriggerWorkers
  <2>3. CASE TriggerIdle
    BY <2>3, WakeIdleType DEF TriggerIdle
  <2>4. CASE PurgeQueue \/ JoinWorkers
    BY <2>4 DEF PurgeQueue, JoinWorkers
  <2>5. CASE StopNotify
    BY <2>5, WakeIdleType DEF StopNotify, IdlePlaces
  <2>6. CASE BeginDestroy
    BY <2>6 DEF BeginDestroy
  <2> QED BY <2>1, <2>2, <2>3, <2>4, <2>5, <2>6
<1>3. ThreadType' /\ PhaseInv' /\ ~Creating'
  BY <1>1, <1>2 DEF ThreadType, PhaseInv, Creating
<1> QED BY <1>1, <1>2, <1>3, ThreadControlStep

\* pool_destroy frees the pool when the last thread has left the count.
LEMMA ThreadFree ==
  ASSUME ~SlowExtras, ThreadInv, FreePool
  PROVE  ThreadInv'
<1> USE DEF ThreadInv
<1>1. /\ tpc["owner"] = "drain" /\ total_workers = 0
      /\ tpc' = [tpc EXCEPT !["owner"] = "freed"]
      /\ UNCHANGED <<running, queue_size, total_workers, num_workers, wpc, tasks_left, tries>>
  BY DEF FreePool, Drained, Jump, worker
<1>2. Live' = Live /\ Reserving' = Reserving
  BY <1>1 DEF Live, Reserving
<1>3. Live = {}
  <2>1. Cardinality(Live) + Cardinality(Reserving) = 0
    BY <1>1, CountsType DEF TotalInv
  <2>2. Cardinality(Live) = 0
    BY <2>1, CountsType
  <2> QED BY <2>2, CountsType, CountType
<1>4. ThreadType' /\ PhaseInv' /\ CreateInv' /\ BudgetInv'
  BY <1>1 DEF ThreadType, OwnerPlaces, PhaseInv, StopPlaces, DestroyPlaces, IdlePlaces,
     CreateInv, Creating, BudgetInv
<1>5. TotalInv' /\ NoUseAfterFree'
  BY <1>1, <1>2, <1>3 DEF TotalInv, ThreadType, NoUseAfterFree
<1> QED BY <1>4, <1>5

LEMMA ThreadNext ==
  ASSUME ~SlowExtras, ThreadInv, [Next]_vars
  PROVE  ThreadInv'
<1>1. CASE UNCHANGED vars
  BY <1>1 DEF vars, shared, locks, worker, control, ThreadInv, ThreadType, CreateInv,
     Creating, PhaseInv, BudgetInv, TotalInv, NoUseAfterFree, Live, Reserving
<1>2. CASE OwnerStep
  BY <1>2, ThreadCreate, ThreadCount, ThreadOwnerQuiet, ThreadFree DEF OwnerStep
<1> QED BY <1>1, <1>2, ThreadWorker, ThreadLoop, ThreadIdle, ThreadSpurious
        DEF Next, Terminated

-----------------------------------------------------------------------------
(* Second layer, step by step.                                             *)

LEMMA QueueInit == Init => QueueLayer
<1> SUFFICES ASSUME Init PROVE QueueLayer
  OBVIOUS
<1> USE PoolAssumption, WorkersFinite DEF Init
<1>1. QueueType
  BY DEF QueueType
<1>2. MutexInv /\ TaskInv /\ QueueInv
  BY DEF MutexInv, Free, NoOne, TaskInv, HoldingPlaces, QueueInv
<1> QED BY <1>1, <1>2 DEF QueueLayer

\* Steps that move one worker between places with the same locks and tasks.
LEMMA QueueMove ==
  ASSUME ThreadInv, QueueLayer, NEW w \in Workers,
         NEW l \in WorkerPlaces, wpc' = [wpc EXCEPT ![w] = l],
         LET Crit == {"test", "spawnPop", "createPop", "pop"}
             Pops == {"spawnPop", "createPop", "pop"}
         IN  /\ l \in Crit <=> wpc[w] \in Crit
             /\ l \in HoldingPlaces <=> wpc[w] \in HoldingPlaces
             /\ l \in Pops => wpc[w] \in Pops \/ task_queue # <<>>,
         UNCHANGED <<queue_size, task_queue, in_pool, locks, task, control>>,
         active_tasks' \in Int
  PROVE  QueueLayer'
<1> USE DEF QueueLayer, locks, control, ThreadInv, ThreadType
<1>1. QueueType'
  BY DEF QueueType
<1>2. MutexInv'
  BY DEF MutexInv
<1>3. TaskInv'
  BY DEF TaskInv
<1>4. QueueInv'
  BY DEF QueueInv
<1> QED BY <1>1, <1>2, <1>3, <1>4

LEMMA QueueWorkerQuiet ==
  ASSUME ThreadInv, QueueLayer, NEW w \in Workers,
         \/ CheckRunning(w) \/ ProcessTask(w) \/ Callback(w) \/ LeaveActive(w)
         \/ ExitWorker(w) \/ ReserveWorker(w)
  PROVE  QueueLayer'
<1> USE DEF QueueLayer, QueueType
<1>1. /\ \E l \in WorkerPlaces :
           /\ wpc' = [wpc EXCEPT ![w] = l]
           /\ \/ wpc[w] = "check" /\ l \in {"lock", "exit"}
              \/ wpc[w] = "process" /\ l \in {"finalize", "callback", "spawnRun"}
              \/ wpc[w] = "callback" /\ l = "finalize"
              \/ wpc[w] = "finished" /\ l \in {"notify", "check"}
              \/ wpc[w] = "exit" /\ l = "done"
              \/ wpc[w] = "spawnPop" /\ l \in {"createPop", "pop"}
              \/ wpc[w] = "spawnRun" /\ l \in {"createRun", "callback"}
      /\ UNCHANGED <<queue_size, task_queue, in_pool, locks, task, control>>
      /\ active_tasks' \in Int
  <2> USE DEF shared, worker, GoTo, WorkerPlaces
  <2>1. CASE CheckRunning(w)
    BY <2>1 DEF CheckRunning
  <2>2. CASE ProcessTask(w)
    BY <2>2 DEF ProcessTask
  <2>3. CASE Callback(w) \/ ExitWorker(w)
    BY <2>3 DEF Callback, ExitWorker
  <2>4. CASE LeaveActive(w)
    <3>1. \E l \in {"notify", "check"} : wpc' = [wpc EXCEPT ![w] = l]
      BY <2>4 DEF LeaveActive
    <3>2. active_tasks' \in Int
      BY <2>4 DEF LeaveActive
    <3> QED BY <2>4, <3>1, <3>2 DEF LeaveActive
  <2>5. CASE ReserveWorker(w)
    <3>1. \E l \in {"createPop", "createRun", "pop", "callback"} :
            /\ wpc' = [wpc EXCEPT ![w] = l]
            /\ \/ wpc[w] = "spawnPop" /\ l \in {"createPop", "pop"}
               \/ wpc[w] = "spawnRun" /\ l \in {"createRun", "callback"}
      BY <2>5 DEF ReserveWorker, AfterSpawn
    <3> QED BY <2>5, <3>1 DEF ReserveWorker
  <2> QED BY <2>1, <2>2, <2>3, <2>4, <2>5
<1> QED BY <1>1, QueueMove DEF HoldingPlaces

\* CreateExtra moves its worker and puts a thread with no task at "check".
LEMMA QueueCreateExtra ==
  ASSUME ThreadInv, QueueLayer, NEW w \in Workers, CreateExtra(w)
  PROVE  QueueLayer'
<1> USE DEF QueueLayer, ThreadInv
<1>1. /\ wpc[w] \in {"createPop", "createRun"}
      /\ UNCHANGED <<active_tasks, queue_size, task_queue, in_pool, locks, task, control>>
  BY DEF CreateExtra
<1>2. AfterSpawn(w) = IF wpc[w] = "createPop" THEN "pop" ELSE "callback"
  BY <1>1 DEF AfterSpawn
<1>3. CASE GoTo(w, AfterSpawn(w))
  <2>1. AfterSpawn(w) \in WorkerPlaces /\ wpc' = [wpc EXCEPT ![w] = AfterSpawn(w)]
    BY <1>2, <1>3 DEF GoTo, WorkerPlaces
  <2> QED BY <1>1, <1>2, <2>1, QueueMove DEF HoldingPlaces, QueueType
<1>4. ASSUME NEW x \in Extra, wpc[x] \in {"none", "done"},
             wpc' = [wpc EXCEPT ![x] = "check", ![w] = AfterSpawn(w)]
      PROVE  QueueLayer'
  <2>1. x \in Workers /\ x # w
    BY <1>1, <1>4, WorkersFinite
  <2>2. /\ wpc'[x] = "check" /\ wpc'[w] = AfterSpawn(w)
        /\ \A v \in Workers \ {x, w} : wpc'[v] = wpc[v]
    BY <1>4, <2>1 DEF ThreadType
  <2>3. QueueType' /\ MutexInv'
    BY <1>1, <1>2, <1>4, <2>1, <2>2 DEF QueueType, MutexInv, locks, control
  <2>4. TaskInv' /\ QueueInv'
    BY <1>1, <1>2, <1>4, <2>1, <2>2 DEF TaskInv, QueueInv, HoldingPlaces, control
  <2> QED BY <2>3, <2>4
<1> QED BY <1>3, <1>4 DEF CreateExtra

\* The critical section of wait_and_pop_task.
LEMMA QueueCritical ==
  ASSUME ThreadInv, QueueLayer, NEW w \in Workers,
         LockTasks(w) \/ TestQueue(w) \/ PopTask(w)
  PROVE  QueueLayer'
<1> USE WorkersFinite DEF QueueLayer, ThreadInv, GoTo, Free
<1>1. CASE LockTasks(w)
  <2>1. QueueType' /\ TaskInv' /\ QueueInv'
    BY <1>1 DEF LockTasks, shared, control, QueueType, TaskInv, QueueInv, HoldingPlaces,
       ThreadType
  <2>2. MutexInv'
    BY <1>1 DEF LockTasks, control, QueueType, MutexInv, ThreadType
  <2> QED BY <2>1, <2>2
<1>2. CASE TestQueue(w)
  <2>0. tpc["owner"] # "freed" /\ wpc[w] = "test"
    BY <1>2, WorkerAlive DEF TestQueue
  <2>1. QueueType' /\ TaskInv' /\ MutexInv'
    BY <1>2 DEF TestQueue, shared, control, QueueType, TaskInv, MutexInv, HoldingPlaces,
       ThreadType
  <2>2. QueueInv'
    BY <1>2, <2>0 DEF TestQueue, shared, control, QueueType, QueueInv, ThreadType
  <2> QED BY <2>1, <2>2
<1>3. CASE PopTask(w)
  <2>0. /\ tpc["owner"] # "freed" /\ wpc[w] = "pop" /\ task_queue # <<>>
        /\ task_mutex = w
    BY <1>3, WorkerAlive DEF PopTask, QueueInv, MutexInv
  <2>1. /\ Head(task_queue) \in Events /\ Tail(task_queue) \in Seq(Events)
        /\ Len(Tail(task_queue)) = Len(task_queue) - 1
    BY <2>0 DEF QueueType
  <2>2. QueueType' /\ TaskInv'
    BY <1>3, <2>0, <2>1, PoolAssumption DEF PopTask, control, QueueType, TaskInv,
       HoldingPlaces, ThreadType
  <2>3. MutexInv'
    BY <1>3, <2>0 DEF PopTask, control, QueueType, MutexInv, ThreadType
  <2>4. \A v \in Workers : wpc'[v] \notin {"spawnPop", "createPop", "pop"}
    BY <1>3, <2>0 DEF PopTask, MutexInv, ThreadType
  <2>5. QueueInv'
    BY <1>3, <2>0, <2>1, <2>4 DEF PopTask, control, QueueInv
  <2> QED BY <2>2, <2>3, <2>5
<1> QED BY <1>1, <1>2, <1>3

\* finalize_worker_task gives the event away; the last one out notifies.
LEMMA QueueFinalize ==
  ASSUME ThreadInv, QueueLayer, NEW w \in Workers, FinalizeTask(w)
  PROVE  QueueLayer'
<1> USE DEF QueueLayer, ThreadInv
<1>1. task[w] \in Events /\ wpc[w] = "finalize"
  BY DEF FinalizeTask, TaskInv, HoldingPlaces, QueueType
<1>2. QueueType'
  BY <1>1 DEF FinalizeTask, locks, control, QueueType
<1>3. MutexInv' /\ TaskInv' /\ QueueInv'
  BY <1>1 DEF FinalizeTask, GoTo, locks, control, MutexInv, TaskInv, QueueInv, QueueType,
     HoldingPlaces, ThreadType
<1> QED BY <1>2, <1>3

\* Steps after which every worker holds the same mutex and the same task.
SameHands ==
  /\ wpc' \in [Workers -> WorkerPlaces]
  /\ \A v \in Workers :
       \/ wpc'[v] = wpc[v]
       \/ /\ wpc[v] \in {"wait", "notify", "none"}
          /\ wpc'[v] \in {"lock", "check"}

IdleMutexInv ==
  \A t \in {"loop", "owner"} :
    idle_mutex = t <=> tpc[t] \in {"readQueue", "readActive", "notIdle"}

LEMMA QueueControl ==
  ASSUME ThreadInv, QueueLayer, SameHands,
         UNCHANGED <<active_tasks, in_pool, queue_size, task_queue, task, cur, task_mutex>>,
         idle_mutex' \in {"loop", "owner", NoOne}, IdleMutexInv',
         tpc'["loop"] = "enqueue" <=> tpc["loop"] = "enqueue",
         tpc["owner"] = "freed" => tpc'["owner"] = "freed"
  PROVE  QueueLayer'
<1> USE DEF QueueLayer, SameHands, ThreadInv, ThreadType
<1>1. QueueType'
  BY DEF QueueType
<1>2. MutexInv'
  BY DEF MutexInv, IdleMutexInv
<1>3. TaskInv' /\ QueueInv'
  BY DEF TaskInv, HoldingPlaces, QueueInv
<1> QED BY <1>1, <1>2, <1>3

\* Waking the idle waiters changes no owner of idle_mutex.
LEMMA WakeIdleMutex ==
  ASSUME ThreadInv, QueueLayer, UNCHANGED idle_mutex,
         \A t \in {"loop", "owner"} :
           \/ tpc'[t] = WakeIdle[t]
           \/ /\ tpc[t] \notin {"readQueue", "readActive", "notIdle"}
              /\ tpc'[t] \notin {"readQueue", "readActive", "notIdle"}
  PROVE  IdleMutexInv'
BY WakeIdleType DEF ThreadInv, QueueLayer, MutexInv, IdleMutexInv

LEMMA QueueNotifyIdle ==
  ASSUME ThreadInv, QueueLayer, NEW w \in Workers, NotifyIdle(w)
  PROVE  QueueLayer'
<1> USE DEF ThreadInv
<1>1. SameHands
  BY DEF NotifyIdle, GoTo, SameHands, ThreadType, WorkerPlaces
<1>2. IdleMutexInv'
  BY WakeIdleMutex DEF NotifyIdle, locks
<1>3. /\ tpc'["loop"] = "enqueue" <=> tpc["loop"] = "enqueue"
      /\ tpc["owner"] = "freed" => tpc'["owner"] = "freed"
  BY WakeIdleType DEF NotifyIdle
<1> QED BY <1>1, <1>2, <1>3, QueueControl DEF NotifyIdle, shared, locks, QueueLayer, QueueType

LEMMA QueueWorker ==
  ASSUME ThreadInv, QueueLayer, NEW w \in Workers, WorkerStep(w)
  PROVE  QueueLayer'
BY QueueWorkerQuiet, QueueCreateExtra, QueueCritical, QueueFinalize, QueueNotifyIdle
   DEF WorkerStep

LEMMA WokenHands ==
  ASSUME Woken, wpc' \in [Workers -> WorkerPlaces]
  PROVE  SameHands
BY DEF Woken, SameHands

\* uevent_worker_pool_insert and the end of dispatch.
LEMMA QueueLoop ==
  ASSUME ThreadInv, QueueLayer, LoopStep
  PROVE  QueueLayer'
<1> USE DEF ThreadInv, QueueLayer
<1>1. ASSUME NEW e \in Events, MarkInserted(e) PROVE QueueLayer'
  <2> USE <1>1 DEF MarkInserted, Jump
  <2>1. QueueType' /\ TaskInv'
    BY PoolAssumption DEF QueueType, TaskInv, ThreadType, locks, worker, HoldingPlaces
  <2>2. MutexInv' /\ QueueInv'
    BY DEF MutexInv, QueueInv, ThreadType, locks, worker
  <2> QED BY <2>1, <2>2
<1>2. CASE Enqueue
  <2>1. /\ cur \in Events /\ task_queue' = Append(task_queue, cur)
        /\ tpc["loop"] = "enqueue" /\ queue_size' = queue_size + 1
        /\ tpc' = [tpc EXCEPT !["loop"] = "loop"] /\ cur' = NoEvent
        /\ UNCHANGED <<active_tasks, in_pool, task, task_mutex, idle_mutex>>
    BY <1>2 DEF Enqueue, Jump, QueueType, TaskInv, locks
  <2>2. /\ task_queue' \in Seq(Events) /\ Len(task_queue') = Len(task_queue) + 1
        /\ task_queue' # <<>>
    BY <2>1 DEF QueueType
  <2>3. SameHands
    BY <1>2, WakeFacts, WokenHands DEF Enqueue
  <2>4. QueueType'
    BY <2>1, <2>2 DEF QueueType
  <2>5. MutexInv'
    BY <2>1, <2>3 DEF MutexInv, SameHands, ThreadType
  <2>6. TaskInv' /\ QueueInv'
    BY <2>1, <2>2, <2>3 DEF QueueType, QueueInv, TaskInv, SameHands, HoldingPlaces, ThreadType
  <2> QED BY <2>4, <2>5, <2>6
<1>3. CASE LeaveLoop
  <2>1. SameHands
    BY <1>3 DEF LeaveLoop, worker, SameHands, ThreadType
  <2>2. IdleMutexInv'
    BY <1>3 DEF LeaveLoop, Jump, locks, MutexInv, IdleMutexInv, ThreadType
  <2> QED BY <1>3, <2>1, <2>2, QueueControl
      DEF LeaveLoop, Jump, shared, locks, worker, ThreadType, QueueType
<1> QED BY <1>1, <1>2, <1>3 DEF LoopStep

LEMMA QueueIdle ==
  ASSUME ThreadInv, QueueLayer, NEW t \in {"loop", "owner"}, WaitForIdle(t)
  PROVE  QueueLayer'
<1> USE DEF ThreadInv, QueueLayer
<1>1. /\ UNCHANGED <<active_tasks, in_pool, queue_size, task_queue, wpc, task, cur, task_mutex>>
      /\ idle_mutex' \in {"loop", "owner", NoOne}
      /\ tpc'["loop"] = "enqueue" <=> tpc["loop"] = "enqueue"
      /\ tpc["owner"] = "freed" => tpc'["owner"] = "freed"
  BY DEF WaitForIdle, LockIdle, ReadQueue, ReadActive, WaitIdle, Jump, AfterIdle,
     shared, locks, worker, ThreadType, QueueType
<1>2. SameHands
  BY <1>1 DEF SameHands, ThreadType
<1>3. IdleMutexInv'
  <2> USE DEF Jump, IdleMutexInv, MutexInv, ThreadType, NoOne, locks
  <2>1. CASE LockIdle(t)
    BY <2>1 DEF LockIdle
  <2>2. CASE ReadQueue(t)
    BY <2>2 DEF ReadQueue
  <2>3. CASE ReadActive(t)
    BY <2>3 DEF ReadActive, AfterIdle
  <2>4. CASE WaitIdle(t)
    BY <2>4 DEF WaitIdle
  <2> QED BY <2>1, <2>2, <2>3, <2>4 DEF WaitForIdle
<1> QED BY <1>1, <1>2, <1>3, QueueControl

LEMMA QueueSpurious ==
  ASSUME ThreadInv, QueueLayer, SpuriousWakeup
  PROVE  QueueLayer'
<1> USE DEF ThreadInv, QueueLayer
<1>1. SameHands
  BY WakeFacts, WokenHands DEF SpuriousWakeup
<1>2. /\ IdleMutexInv'
      /\ tpc'["loop"] = "enqueue" <=> tpc["loop"] = "enqueue"
      /\ tpc["owner"] = "freed" => tpc'["owner"] = "freed"
  BY DEF SpuriousWakeup, Jump, locks, MutexInv, IdleMutexInv, ThreadType
<1> QED BY <1>1, <1>2, QueueControl DEF SpuriousWakeup, shared, locks, QueueType

\* The owner's steps that leave the queue alone.
LEMMA QueueOwnerQuiet ==
  ASSUME ThreadInv, QueueLayer,
         \/ CreateWorker \/ CountWorker \/ StopRunning \/ TriggerWorkers
         \/ TriggerIdle \/ StopNotify \/ BeginDestroy \/ JoinWorkers
  PROVE  QueueLayer'
<1> USE DEF ThreadInv, QueueLayer
<1>1. /\ UNCHANGED <<active_tasks, in_pool, queue_size, task_queue, task, cur, task_mutex>>
      /\ UNCHANGED idle_mutex /\ idle_mutex' \in {"loop", "owner", NoOne}
  BY DEF CreateWorker, CountWorker, StopRunning, TriggerWorkers, TriggerIdle, StopNotify,
     BeginDestroy, JoinWorkers, shared, locks, worker, QueueType
<1>2. SameHands
  <2>1. CASE CreateWorker
    <3>1. /\ tries + 1 \in Workers /\ wpc[tries + 1] = "none"
      BY <2>1, PoolAssumption DEF CreateWorker, CreateInv, Creating, ThreadType, Workers, Main
    <3> QED BY <2>1, <3>1 DEF CreateWorker, SameHands, ThreadType, WorkerPlaces
  <2>2. CASE TriggerWorkers
    BY <2>2, WakeFacts, WokenHands DEF TriggerWorkers
  <2>3. CASE CountWorker \/ StopRunning \/ TriggerIdle \/ StopNotify \/ BeginDestroy
             \/ JoinWorkers
    BY <2>3 DEF CountWorker, StopRunning, TriggerIdle, StopNotify, BeginDestroy,
       JoinWorkers, worker, SameHands, ThreadType
  <2> QED BY <2>1, <2>2, <2>3
<1>3. /\ tpc["owner"] \notin {"freed", "readQueue", "readActive", "notIdle"}
      /\ tpc'["owner"] \notin {"readQueue", "readActive", "notIdle"}
  <2> USE DEF ThreadType
  <2>1. CASE CountWorker
    BY <2>1 DEF CountWorker, Jump
  <2>2. CASE TriggerIdle
    BY <2>2, WakeIdleType DEF TriggerIdle
  <2>3. CASE StopNotify
    BY <2>3, WakeIdleType DEF StopNotify
  <2>4. CASE CreateWorker \/ TriggerWorkers
    BY <2>4 DEF CreateWorker, TriggerWorkers, Jump
  <2>5. CASE StopRunning \/ BeginDestroy \/ JoinWorkers
    BY <2>5 DEF StopRunning, BeginDestroy, JoinWorkers, Jump
  <2> QED BY <2>1, <2>2, <2>3, <2>4, <2>5
<1>4. \/ tpc'["loop"] = tpc["loop"]
      \/ tpc'["loop"] = WakeIdle["loop"]
      \/ tpc["loop"] = "none" /\ tpc'["loop"] = "loop"
  <2> USE DEF ThreadType
  <2>1. CASE CountWorker
    BY <2>1 DEF CountWorker, Jump, CreateInv, Creating
  <2>2. CASE TriggerIdle
    BY <2>2, WakeIdleType DEF TriggerIdle
  <2>3. CASE StopNotify
    BY <2>3, WakeIdleType DEF StopNotify
  <2>4. CASE CreateWorker \/ TriggerWorkers
    BY <2>4 DEF CreateWorker, TriggerWorkers, Jump
  <2>5. CASE StopRunning \/ BeginDestroy \/ JoinWorkers
    BY <2>5 DEF StopRunning, BeginDestroy, JoinWorkers, Jump
  <2> QED BY <2>1, <2>2, <2>3, <2>4, <2>5
<1>5. tpc'["loop"] = "enqueue" <=> tpc["loop"] = "enqueue"
  BY <1>4, WakeIdleType
<1>6. IdleMutexInv'
  BY <1>1, <1>3, <1>4, WakeIdleType DEF MutexInv, IdleMutexInv
<1> QED BY <1>1, <1>2, <1>3, <1>5, <1>6, QueueControl

\* No worker is at its pop while the owner holds task_mutex.
LEMMA NoPopWhenFree ==
  ASSUME QueueLayer, task_mutex = Free
  PROVE  \A w \in Workers : wpc[w] \notin {"spawnPop", "createPop", "pop"}
BY WorkersFinite DEF QueueLayer, MutexInv, Free

\* pool_stop and pool_destroy drop what is left in the queue.
LEMMA QueueDrop ==
  ASSUME ~SlowExtras, ThreadInv, ThreadInv', QueueLayer, PurgeQueue \/ FreePool
  PROVE  QueueLayer'
<1> USE DEF ThreadInv, QueueLayer
<1>1. /\ UNCHANGED <<active_tasks, wpc, task, cur, task_mutex, idle_mutex>>
      /\ task_queue' = <<>>
      /\ tpc["owner"] \in {"purge", "drain"}
      /\ \E l \in {"stopNotify", "freed"} : tpc' = [tpc EXCEPT !["owner"] = l]
  BY DEF PurgeQueue, FreePool, Jump, locks, worker
<1>2. in_pool' \in [Events -> BOOLEAN]
  BY DEF PurgeQueue, FreePool
<1>3. \A w \in Workers : wpc[w] \notin {"spawnPop", "createPop", "pop"}
  <2>1. CASE PurgeQueue
    BY <2>1, NoPopWhenFree DEF PurgeQueue
  <2>2. CASE FreePool
    <3>1. tpc'["owner"] = "freed" /\ wpc' = wpc
      BY <2>2 DEF FreePool, Jump, worker, ThreadType
    <3> QED BY <3>1 DEF NoUseAfterFree, Live
  <2> QED BY <2>1, <2>2
<1>4. /\ queue_size' \in Int
      /\ tpc'["owner"] # "freed" => queue_size' = 0
  <2>1. CASE PurgeQueue
    <3>1. queue_size = Len(task_queue) /\ Len(task_queue) \in Nat
      BY <2>1 DEF PurgeQueue, QueueInv, QueueType
    <3> QED BY <2>1, <3>1 DEF PurgeQueue
  <2>2. CASE FreePool
    BY <2>2 DEF FreePool, Jump, ThreadType, QueueType
  <2> QED BY <2>1, <2>2
<1>5. QueueType' /\ TaskInv'
  BY <1>1, <1>2, <1>4 DEF QueueType, TaskInv, ThreadType
<1>6. MutexInv' /\ QueueInv'
  BY <1>1, <1>3, <1>4 DEF MutexInv, QueueInv, ThreadType
<1> QED BY <1>5, <1>6

LEMMA QueueNext ==
  ASSUME ~SlowExtras, ThreadInv, ThreadInv', QueueLayer, [Next]_vars
  PROVE  QueueLayer'
<1>1. CASE UNCHANGED vars
  BY <1>1 DEF vars, shared, locks, worker, control, QueueLayer, QueueType, MutexInv,
     TaskInv, QueueInv
<1>2. CASE OwnerStep
  BY <1>2, QueueOwnerQuiet, QueueDrop DEF OwnerStep
<1> QED BY <1>1, <1>2, QueueWorker, QueueLoop, QueueIdle, QueueSpurious
        DEF Next, Terminated

-----------------------------------------------------------------------------
(* Third layer: six steps move an event, the others leave all in place.    *)

LEMMA PlaceInit == Init => PlaceInv
BY PoolAssumption DEF Init, PlaceInv

LEMMA PlaceKept ==
  ASSUME PlaceInv, UNCHANGED <<task_queue, task, cur, in_pool>>
  PROVE  PlaceInv'
BY DEF PlaceInv

\* From the queue to a worker.
LEMMA PlacePop ==
  ASSUME ThreadInv, QueueLayer, PlaceInv, NEW w \in Workers, PopTask(w)
  PROVE  PlaceInv'
<1> DEFINE q == task_queue
           h == Head(task_queue)
<1>1. /\ q \in Seq(Events) /\ q # <<>> /\ task[w] = NoEvent
      /\ task \in [Workers -> Events \cup {NoEvent}]
      /\ NoEvent \notin Events
      /\ task' = [task EXCEPT ![w] = h] /\ task_queue' = Tail(q)
      /\ UNCHANGED <<cur, in_pool>>
  BY PoolAssumption DEF PopTask, control, QueueLayer, QueueInv, QueueType, TaskInv, HoldingPlaces
<1>2. /\ h = q[1] /\ 1 \in DOMAIN q /\ h \in Events
      /\ \A i \in DOMAIN Tail(q) : i + 1 \in DOMAIN q /\ Tail(q)[i] = q[i + 1] /\ i + 1 # 1
      /\ \A i \in DOMAIN q : i # 1 => i - 1 \in DOMAIN Tail(q) /\ Tail(q)[i - 1] = q[i]
      /\ DOMAIN q \subseteq Nat /\ DOMAIN Tail(q) \subseteq Nat
  BY <1>1
<1>3. task'[w] = h /\ \A v \in Workers : v # w => task'[v] = task[v]
  BY <1>1
<1> HIDE DEF q, h
<1>4. \A i, j \in DOMAIN task_queue' : task_queue'[i] = task_queue'[j] => i = j
  BY <1>1, <1>2 DEF PlaceInv, q
<1>5. \A v, u \in Workers : task'[v] # NoEvent /\ task'[v] = task'[u] => v = u
  BY <1>1, <1>2, <1>3 DEF PlaceInv, q
<1>6. \A i \in DOMAIN task_queue' : task_queue'[i] # cur'
  BY <1>1, <1>2 DEF PlaceInv, q
<1>7. \A v \in Workers : task'[v] # NoEvent =>
        task'[v] # cur' /\ \A i \in DOMAIN task_queue' : task_queue'[i] # task'[v]
  BY <1>1, <1>2, <1>3 DEF PlaceInv, q
<1>8. ASSUME NEW e \in Events
      PROVE  in_pool'[e] <=> \/ cur' = e
                             \/ \E i \in DOMAIN task_queue' : task_queue'[i] = e
                             \/ \E v \in Workers : task'[v] = e
  <2>1. (\E i \in DOMAIN q : q[i] = e) <=>
          e = h \/ \E i \in DOMAIN task_queue' : task_queue'[i] = e
    BY <1>1, <1>2
  <2>2. (\E v \in Workers : task'[v] = e) <=> e = h \/ \E v \in Workers : task[v] = e
    BY <1>1, <1>3
  <2>3. in_pool[e] <=> \/ cur = e
                       \/ \E i \in DOMAIN q : q[i] = e
                       \/ \E v \in Workers : task[v] = e
    BY DEF PlaceInv, q
  <2> QED BY <1>1, <2>1, <2>2, <2>3
<1> QED BY <1>4, <1>5, <1>6, <1>7, <1>8 DEF PlaceInv

\* From a worker out of the pool.
LEMMA PlaceFinalize ==
  ASSUME ThreadInv, QueueLayer, PlaceInv, NEW w \in Workers, FinalizeTask(w)
  PROVE  PlaceInv'
<1>1. /\ task[w] \in Events /\ task \in [Workers -> Events \cup {NoEvent}]
      /\ NoEvent \notin Events /\ in_pool \in [Events -> BOOLEAN]
      /\ in_pool' = [in_pool EXCEPT ![task[w]] = FALSE]
      /\ task' = [task EXCEPT ![w] = NoEvent]
      /\ UNCHANGED <<cur, task_queue>>
  BY PoolAssumption DEF FinalizeTask, control, QueueLayer, QueueType, TaskInv, HoldingPlaces
<1>2. \A e \in Events : in_pool'[e] <=> in_pool[e] /\ e # task[w]
  BY <1>1, Zenon
<1> QED BY <1>1, <1>2 DEF PlaceInv

\* Out of the pool into the hands of pool_insert, and on into the queue.
LEMMA PlaceInsert ==
  ASSUME ThreadInv, QueueLayer, PlaceInv, NEW e \in Events, MarkInserted(e)
  PROVE  PlaceInv'
<1>1. /\ cur = NoEvent /\ NoEvent \notin Events /\ in_pool \in [Events -> BOOLEAN]
      /\ ~in_pool[e] /\ in_pool' = [in_pool EXCEPT ![e] = TRUE] /\ cur' = e
      /\ UNCHANGED <<task, task_queue>>
  BY PoolAssumption DEF MarkInserted, CanInsert, worker, QueueLayer, QueueType, TaskInv
<1>2. \A d \in Events : in_pool'[d] <=> in_pool[d] \/ d = e
  BY <1>1, Zenon
<1> QED BY <1>1, <1>2 DEF PlaceInv

LEMMA PlaceEnqueue ==
  ASSUME ThreadInv, QueueLayer, PlaceInv, Enqueue
  PROVE  PlaceInv'
<1> DEFINE q == task_queue
           n == Len(q) + 1
<1>1. /\ q \in Seq(Events) /\ cur \in Events /\ NoEvent \notin Events
      /\ task_queue' = Append(q, cur) /\ cur' = NoEvent
      /\ UNCHANGED <<task, in_pool>>
  BY PoolAssumption DEF Enqueue, QueueLayer, QueueType, TaskInv
<1>2. /\ DOMAIN Append(q, cur) = DOMAIN q \cup {n} /\ n \notin DOMAIN q
      /\ Append(q, cur)[n] = cur
      /\ \A i \in DOMAIN q : Append(q, cur)[i] = q[i] /\ q[i] \in Events
  BY <1>1
<1> DEFINE r == Append(q, cur)
<1> HIDE DEF n, q, r
<1>3. /\ DOMAIN task_queue' = DOMAIN task_queue \cup {n} /\ n \notin DOMAIN task_queue
      /\ task_queue'[n] = cur
      /\ \A i \in DOMAIN task_queue : task_queue'[i] = task_queue[i] /\ task_queue[i] \in Events
  BY <1>1, <1>2 DEF q, r
<1>4. cur \in Events /\ NoEvent \notin Events /\ cur' = NoEvent /\ UNCHANGED <<task, in_pool>>
  BY <1>1
<1> QED BY <1>3, <1>4 DEF PlaceInv

\* What is dropped from the queue leaves the pool.
LEMMA PlaceDrop ==
  ASSUME ThreadInv, QueueLayer, PlaceInv, PurgeQueue \/ FreePool
  PROVE  PlaceInv'
<1>1. /\ in_pool' = [e \in Events |-> in_pool[e] /\ ~Contains(task_queue, e)]
      /\ task_queue' = <<>> /\ UNCHANGED <<task, cur>>
      /\ task_queue \in Seq(Events)
  BY DEF PurgeQueue, FreePool, worker, QueueLayer, QueueType
<1>2. \A e \in Events : Contains(task_queue, e) <=>
        \E i \in DOMAIN task_queue : task_queue[i] = e
  BY <1>1 DEF Contains
<1>3. \A e \in Events : in_pool'[e] <=> in_pool[e] /\
        ~\E i \in DOMAIN task_queue : task_queue[i] = e
  BY <1>1, <1>2
<1>4. DOMAIN task_queue' = {}
  BY <1>1
<1>5. ASSUME NEW e \in Events
      PROVE  in_pool'[e] <=> cur' = e \/ \E v \in Workers : task'[v] = e
  <2>1. ASSUME NEW i \in DOMAIN task_queue, task_queue[i] = e
        PROVE  cur # e /\ \A v \in Workers : task[v] # e
    BY <2>1, <1>1, PoolAssumption DEF PlaceInv
  <2> QED BY <1>1, <1>3, <2>1 DEF PlaceInv
<1>6. \A v, w \in Workers : task'[v] # NoEvent /\ task'[v] = task'[w] => v = w
  BY <1>1 DEF PlaceInv
<1>7. \A w \in Workers : task'[w] # NoEvent => task'[w] # cur'
  BY <1>1 DEF PlaceInv
<1> QED BY <1>4, <1>5, <1>6, <1>7 DEF PlaceInv

LEMMA PlaceNext ==
  ASSUME ThreadInv, QueueLayer, PlaceInv, [Next]_vars
  PROVE  PlaceInv'
<1>1. ASSUME NEW w \in Workers, WorkerStep(w) PROVE PlaceInv'
  <2>1. \/ PopTask(w) \/ FinalizeTask(w)
        \/ UNCHANGED <<task_queue, task, cur, in_pool>>
    BY <1>1 DEF WorkerStep, CheckRunning, LockTasks, TestQueue, ProcessTask, Callback,
       LeaveActive, NotifyIdle, ExitWorker, ReserveWorker, CreateExtra, shared, control
  <2> QED BY <2>1, PlacePop, PlaceFinalize, PlaceKept
<1>2. ASSUME LoopStep PROVE PlaceInv'
  <2>1. LeaveLoop => UNCHANGED <<task_queue, task, cur, in_pool>>
    BY DEF LeaveLoop, shared, worker
  <2> QED BY <1>2, <2>1, PlaceInsert, PlaceEnqueue, PlaceKept DEF LoopStep
<1>3. ASSUME NEW t \in {"loop", "owner"}, WaitForIdle(t) PROVE PlaceInv'
  BY <1>3, PlaceKept DEF WaitForIdle, LockIdle, ReadQueue, ReadActive, WaitIdle,
     shared, worker
<1>4. ASSUME OwnerStep PROVE PlaceInv'
  <2>1. \/ PurgeQueue \/ FreePool
        \/ UNCHANGED <<task_queue, task, cur, in_pool>>
    BY <1>4 DEF OwnerStep, CreateWorker, CountWorker, StopRunning, TriggerWorkers,
       TriggerIdle, StopNotify, BeginDestroy, JoinWorkers, shared, worker
  <2> QED BY <2>1, PlaceDrop, PlaceKept
<1>5. SpuriousWakeup \/ UNCHANGED vars => PlaceInv'
  BY PlaceKept DEF SpuriousWakeup, vars, shared, worker, control
<1> QED BY <1>1, <1>2, <1>3, <1>4, <1>5 DEF Next, Terminated

-----------------------------------------------------------------------------
(* Fourth layer: active_tasks, and the two reads of is_idle.               *)

BusyPlaces == {"process", "spawnRun", "createRun", "callback", "finalize", "finished"}

LEMMA IdleInit == Init => IdleLayer
<1> SUFFICES ASSUME Init PROVE IdleLayer
  OBVIOUS
<1>1. Busy = {}
  BY DEF Init, Busy
<1> QED BY <1>1, FS_EmptySet DEF Init, IdleLayer, ActiveInv, IdleInv, IdleIsIdle

\* Steps that leave the queue and the busy workers as they are, and move the
\* loop to none of the places IdleInv and IdleIsIdle speak of.
LEMMA IdleKept ==
  ASSUME IdleLayer, UNCHANGED <<task_queue, active_tasks>>,
         \A w \in Workers : wpc'[w] \in BusyPlaces <=> wpc[w] \in BusyPlaces,
         tpc'["loop"] \in {"readActive", "stopped"} => tpc'["loop"] = tpc["loop"]
  PROVE  IdleLayer'
<1>1. Busy' = Busy
  BY DEF Busy, BusyPlaces
<1> QED BY <1>1 DEF IdleLayer, ActiveInv, IdleInv, IdleIsIdle

\* The queue is not empty at a pop, so nobody has seen it empty; the worker
\* becomes busy.
LEMMA IdlePop ==
  ASSUME ThreadInv, QueueLayer, IdleLayer, NEW w \in Workers, PopTask(w)
  PROVE  IdleLayer'
<1>1. /\ wpc[w] = "pop" /\ wpc' = [wpc EXCEPT ![w] = "process"] /\ tpc' = tpc
      /\ active_tasks' = active_tasks + 1 /\ task_queue # <<>>
  BY DEF PopTask, GoTo, control, QueueLayer, QueueInv
<1>2. w \notin Busy /\ Busy' = Busy \cup {w}
  BY <1>1 DEF Busy, ThreadInv, ThreadType
<1>3. ActiveInv'
  BY <1>1, <1>2, CountsType, CountAdd DEF IdleLayer, ActiveInv
<1>4. tpc'["loop"] \notin {"readActive", "stopped"}
  BY <1>1 DEF IdleLayer, IdleInv
<1> QED BY <1>3, <1>4 DEF IdleLayer, IdleInv, IdleIsIdle

LEMMA IdleLeave ==
  ASSUME ThreadInv, IdleLayer, NEW w \in Workers, LeaveActive(w)
  PROVE  IdleLayer'
<1>1. /\ wpc[w] = "finished" /\ tpc' = tpc /\ task_queue' = task_queue
      /\ \E l \in {"notify", "check"} : wpc' = [wpc EXCEPT ![w] = l]
      /\ active_tasks' = active_tasks - 1
  BY DEF LeaveActive, GoTo, control
<1>2. w \in Busy /\ Busy' = Busy \ {w}
  BY <1>1 DEF Busy, ThreadInv, ThreadType
<1>3. ActiveInv'
  BY <1>1, <1>2, CountsType, CountRemove DEF IdleLayer, ActiveInv
<1>4. active_tasks # 0
  BY <1>2, CountsType, CountType DEF IdleLayer, ActiveInv
<1> QED BY <1>1, <1>3, <1>4 DEF IdleLayer, IdleInv, IdleIsIdle

LEMMA IdleWorker ==
  ASSUME ThreadInv, QueueLayer, IdleLayer, NEW w \in Workers, WorkerStep(w)
  PROVE  IdleLayer'
<1> USE DEF ThreadInv, ThreadType
<1>1. CASE PopTask(w) \/ LeaveActive(w)
  BY <1>1, IdlePop, IdleLeave
<1>2. CASE NotifyIdle(w)
  <2>1. /\ tpc' = WakeIdle /\ wpc' = [wpc EXCEPT ![w] = "check"] /\ wpc[w] = "notify"
        /\ UNCHANGED <<task_queue, active_tasks>>
    BY <1>2 DEF NotifyIdle, GoTo, shared
  <2> QED BY <2>1, WakeIdleType, IdleKept DEF BusyPlaces
<1>3. CASE CreateExtra(w)
  <2>1. /\ UNCHANGED <<task_queue, active_tasks, tpc>>
        /\ wpc[w] \in {"createPop", "createRun"}
        /\ AfterSpawn(w) = IF wpc[w] = "createPop" THEN "pop" ELSE "callback"
    BY <1>3 DEF CreateExtra, control, AfterSpawn
  <2>2. \A v \in Workers : wpc'[v] \in BusyPlaces <=> wpc[v] \in BusyPlaces
    BY <1>3, <2>1, WorkersFinite DEF CreateExtra, GoTo, BusyPlaces
  <2> QED BY <2>1, <2>2, IdleKept
<1>4. ASSUME \/ CheckRunning(w) \/ LockTasks(w) \/ TestQueue(w) \/ ProcessTask(w)
             \/ Callback(w) \/ FinalizeTask(w) \/ ExitWorker(w) \/ ReserveWorker(w)
      PROVE  IdleLayer'
  <2>1. UNCHANGED <<task_queue, active_tasks, tpc>>
    BY <1>4 DEF CheckRunning, LockTasks, TestQueue, ProcessTask, Callback, FinalizeTask,
       ExitWorker, ReserveWorker, shared, control
  <2>2. \A v \in Workers : wpc'[v] \in BusyPlaces <=> wpc[v] \in BusyPlaces
    <3> USE DEF BusyPlaces, GoTo
    <3>1. CASE CheckRunning(w)
      BY <3>1 DEF CheckRunning
    <3>2. CASE LockTasks(w) \/ TestQueue(w)
      BY <3>2 DEF LockTasks, TestQueue
    <3>3. CASE ProcessTask(w) \/ Callback(w) \/ FinalizeTask(w) \/ ExitWorker(w)
      BY <3>3 DEF ProcessTask, Callback, FinalizeTask, ExitWorker
    <3>4. CASE ReserveWorker(w)
      BY <3>4 DEF ReserveWorker, AfterSpawn
    <3> QED BY <1>4, <3>1, <3>2, <3>3, <3>4
  <2> QED BY <2>1, <2>2, IdleKept
<1> QED BY <1>1, <1>2, <1>3, <1>4 DEF WorkerStep

\* Only the loop inserts, and it is not in wait_for_idle when it does.
LEMMA IdleLoop ==
  ASSUME ThreadInv, QueueLayer, IdleLayer, LoopStep
  PROVE  IdleLayer'
<1> USE DEF ThreadInv, ThreadType
<1>1. tpc'["loop"] \in {"loop", "enqueue", "idleLock", "failed"}
  BY DEF LoopStep, MarkInserted, Enqueue, LeaveLoop, Jump
<1>2. active_tasks' = active_tasks /\ SameHands
  BY WakeFacts, WokenHands DEF LoopStep, MarkInserted, Enqueue, LeaveLoop, shared, worker
<1>3. Busy' = Busy
  BY <1>2 DEF SameHands, Busy
<1> QED BY <1>1, <1>2, <1>3 DEF IdleLayer, ActiveInv, IdleInv, IdleIsIdle

\* is_idle: the queue seen empty under task_mutex, then no active task.
LEMMA IdleIdle ==
  ASSUME ThreadInv, QueueLayer, IdleLayer, NEW t \in {"loop", "owner"}, WaitForIdle(t)
  PROVE  IdleLayer'
<1> USE DEF ThreadInv, ThreadType
<1>1. UNCHANGED <<task_queue, active_tasks, wpc>>
  BY DEF WaitForIdle, LockIdle, ReadQueue, ReadActive, WaitIdle, shared, worker
<1>2. ActiveInv'
  BY <1>1 DEF IdleLayer, ActiveInv, Busy
<1>3. CASE LockIdle(t) \/ WaitIdle(t)
  <2>1. tpc'["loop"] \in {"readActive", "stopped"} => tpc'["loop"] = tpc["loop"]
    BY <1>3 DEF LockIdle, WaitIdle, Jump
  <2> QED BY <1>1, <2>1, IdleKept
<1>4. CASE ReadQueue(t)
  <2>1. tpc'["loop"] = "readActive" /\ t = "loop" => task_queue = <<>>
    <3> SUFFICES ASSUME tpc'["loop"] = "readActive", t = "loop" PROVE task_queue = <<>>
      OBVIOUS
    <3>1. queue_size < 1 /\ tpc["loop"] = "readQueue"
      BY <1>4 DEF ReadQueue, Jump, QueueEmpty
    <3>2. tpc["owner"] # "freed"
      BY <3>1 DEF PhaseInv, DestroyPlaces
    <3> QED BY <3>1, <3>2 DEF QueueLayer, QueueInv, QueueType
  <2>2. tpc'["loop"] # "stopped" \/ tpc'["loop"] = tpc["loop"]
    BY <1>4 DEF ReadQueue, Jump
  <2>3. t # "loop" => tpc'["loop"] = tpc["loop"]
    BY <1>4 DEF ReadQueue, Jump
  <2> QED BY <1>1, <1>2, <2>1, <2>2, <2>3 DEF IdleLayer, IdleInv, IdleIsIdle
<1>5. CASE ReadActive(t)
  <2>1. t # "loop" => tpc'["loop"] = tpc["loop"]
    BY <1>5 DEF ReadActive, Jump
  <2>2. t = "loop" => /\ tpc["loop"] = "readActive" /\ tpc'["loop"] # "readActive"
                      /\ tpc'["loop"] = "stopped" => active_tasks = 0
    BY <1>5 DEF ReadActive, Jump, AfterIdle
  <2> QED BY <1>1, <1>2, <2>1, <2>2 DEF IdleLayer, IdleInv, IdleIsIdle
<1> QED BY <1>3, <1>4, <1>5 DEF WaitForIdle

LEMMA IdleOwner ==
  ASSUME ThreadInv, QueueLayer, IdleLayer, OwnerStep
  PROVE  IdleLayer'
<1> USE DEF ThreadInv, ThreadType
<1>1. active_tasks' = active_tasks /\ task_queue' \in {task_queue, <<>>}
  BY DEF OwnerStep, CreateWorker, CountWorker, StopRunning, TriggerWorkers, TriggerIdle,
     PurgeQueue, StopNotify, BeginDestroy, JoinWorkers, FreePool, shared
<1>2. tpc'["loop"] \in {"readActive", "stopped"} => tpc'["loop"] = tpc["loop"]
  <2>1. CASE CountWorker
    BY <2>1 DEF CountWorker, Jump
  <2>2. CASE TriggerIdle \/ StopNotify
    BY <2>2, WakeIdleType DEF TriggerIdle, StopNotify
  <2>3. CASE CreateWorker \/ StopRunning \/ TriggerWorkers \/ PurgeQueue \/ BeginDestroy
             \/ JoinWorkers \/ FreePool
    BY <2>3 DEF CreateWorker, StopRunning, TriggerWorkers, PurgeQueue, BeginDestroy,
       JoinWorkers, FreePool, Jump
  <2> QED BY <2>1, <2>2, <2>3 DEF OwnerStep
<1>3. \A w \in Workers : wpc'[w] \in BusyPlaces <=> wpc[w] \in BusyPlaces
  <2>1. CASE CreateWorker
    <3>1. tries + 1 \in Workers /\ wpc[tries + 1] = "none"
      BY <2>1, PoolAssumption DEF CreateWorker, CreateInv, Creating, Workers, Main
    <3> QED BY <2>1, <3>1 DEF CreateWorker, BusyPlaces
  <2>2. CASE TriggerWorkers
    BY <2>2, WakeFacts DEF TriggerWorkers, Woken, BusyPlaces
  <2>3. CASE CountWorker \/ StopRunning \/ TriggerIdle \/ PurgeQueue \/ StopNotify
             \/ BeginDestroy \/ JoinWorkers \/ FreePool
    BY <2>3 DEF CountWorker, StopRunning, TriggerIdle, PurgeQueue, StopNotify,
       BeginDestroy, JoinWorkers, FreePool, worker
  <2> QED BY <2>1, <2>2, <2>3 DEF OwnerStep
<1>4. Busy' = Busy
  BY <1>3 DEF Busy, BusyPlaces
<1> QED BY <1>1, <1>2, <1>4 DEF IdleLayer, ActiveInv, IdleInv, IdleIsIdle

LEMMA IdleNext ==
  ASSUME ThreadInv, QueueLayer, IdleLayer, [Next]_vars
  PROVE  IdleLayer'
<1>1. CASE UNCHANGED vars
  BY <1>1, IdleKept DEF vars, shared, worker, control
<1>2. CASE SpuriousWakeup
  BY <1>2, IdleKept DEF SpuriousWakeup, GoTo, Jump, shared, BusyPlaces, ThreadInv, ThreadType
<1> QED BY <1>1, <1>2, IdleWorker, IdleLoop, IdleIdle, IdleOwner DEF Next, Terminated

-----------------------------------------------------------------------------
(* The theorems.                                                           *)

\* The inductive invariant of the pool holds in every reachable state.
THEOREM PoolInvariant ==
  ASSUME ~SlowExtras
  PROVE  Spec => []PoolInv
<1>1. Init => PoolInv
  BY ThreadInit, QueueInit, PlaceInit, IdleInit DEF PoolInv
<1>2. PoolInv /\ [Next]_vars => PoolInv'
  <2> SUFFICES ASSUME PoolInv, [Next]_vars PROVE PoolInv'
    OBVIOUS
  <2>1. ThreadInv'
    BY ThreadNext DEF PoolInv
  <2>2. QueueLayer' /\ PlaceInv' /\ IdleLayer'
    BY <2>1, QueueNext, PlaceNext, IdleNext DEF PoolInv
  <2> QED BY <2>1, <2>2 DEF PoolInv
<1> QED BY <1>1, <1>2, PTL DEF Spec

\* The variables of the pool keep their types: in particular Head and Tail
\* are never applied to an empty queue and no main worker is created twice.
THEOREM PoolTypeCorrect ==
  ASSUME ~SlowExtras
  PROVE  Spec => []TypeOK
<1>1. PoolInv => TypeOK
  <2> SUFFICES ASSUME PoolInv PROVE TypeOK
    OBVIOUS
  <2>1. tpc \in [{"loop", "owner"} ->
               {"none", "loop", "enqueue", "idleLock", "readQueue", "readActive",
                "notIdle", "idleWait", "stopped", "failed", "create", "count",
                "created", "stopTrigger", "stopIdle", "purge", "stopNotify",
                "destroy", "trigger", "triggerIdle", "join", "drain", "freed"}]
    BY DEF PoolInv, ThreadInv, ThreadType, LoopPlaces, OwnerPlaces, StopPlaces,
       IdlePlaces, DestroyPlaces
  <2> QED BY <2>1 DEF PoolInv, ThreadInv, ThreadType, WorkerPlaces, QueueLayer,
          QueueType, TypeOK
<1> QED BY <1>1, PoolInvariant, PTL

\* An event marked is_in_worker_pool is in exactly one place of the pool, and
\* an event that is not marked is in none: no callback is run twice or lost.
THEOREM InPoolCorrect ==
  ASSUME ~SlowExtras
  PROVE  Spec => []InPoolOnce
<1>1. PoolInv => InPoolOnce
  <2> SUFFICES ASSUME PoolInv, NEW e \in Events
               PROVE  Cardinality(Holders(e)) + Cardinality(Queued(e))
                        + (IF cur = e THEN 1 ELSE 0)
                      = IF in_pool[e] THEN 1 ELSE 0
    BY DEF InPoolOnce
  <2> USE DEF PoolInv
  <2>0. e # NoEvent
    BY PoolAssumption
  <2>1. ASSUME NEW w \in Workers, task[w] = e
        PROVE  Holders(e) = {w} /\ Queued(e) = {} /\ cur # e /\ in_pool[e]
    <3>1. Holders(e) = {w}
      BY <2>0, <2>1 DEF PlaceInv, Holders
    <3>2. Queued(e) = {} /\ cur # e /\ in_pool[e]
      BY <2>0, <2>1 DEF PlaceInv, Queued
    <3> QED BY <3>1, <3>2
  <2>2. ASSUME NEW i \in DOMAIN task_queue, task_queue[i] = e
        PROVE  Queued(e) = {i} /\ Holders(e) = {} /\ cur # e /\ in_pool[e]
    <3>1. Queued(e) = {i}
      BY <2>2 DEF PlaceInv, Queued
    <3>2. Holders(e) = {} /\ cur # e /\ in_pool[e]
      BY <2>0, <2>2 DEF PlaceInv, Holders
    <3> QED BY <3>1, <3>2
  <2>3. CASE Holders(e) # {}
    <3>1. PICK w \in Workers : task[w] = e
      BY <2>3 DEF Holders
    <3>2. Cardinality(Holders(e)) = 1 /\ Cardinality(Queued(e)) = 0
      BY <2>1, <3>1, FS_Singleton, FS_EmptySet
    <3> QED BY <2>1, <3>1, <3>2
  <2>4. CASE Queued(e) # {}
    <3>1. PICK i \in DOMAIN task_queue : task_queue[i] = e
      BY <2>4 DEF Queued
    <3>2. Cardinality(Queued(e)) = 1 /\ Cardinality(Holders(e)) = 0
      BY <2>2, <3>1, FS_Singleton, FS_EmptySet
    <3> QED BY <2>2, <3>1, <3>2
  <2>5. CASE Holders(e) = {} /\ Queued(e) = {}
    <3>1. in_pool[e] <=> cur = e
      BY <2>5 DEF PlaceInv, Holders, Queued
    <3> QED BY <2>5, <3>1, FS_EmptySet
  <2> QED BY <2>3, <2>4, <2>5
<1> QED BY <1>1, PoolInvariant, PTL

\* queue_size, active_tasks and total_workers count what they stand for.
THEOREM CountersCorrect ==
  ASSUME ~SlowExtras
  PROVE  Spec => []CountersExact
<1>1. PoolInv => CountersExact
  BY DEF PoolInv, ThreadInv, TotalInv, QueueLayer, QueueInv, IdleLayer, ActiveInv,
     CountersExact
<1> QED BY <1>1, PoolInvariant, PTL

\* No race between try_spawn_extra_worker calls exceeds the limit.
THEOREM BoundCorrect ==
  ASSUME ~SlowExtras
  PROVE  Spec => []WorkerBound
<1>1. PoolInv => WorkerBound
  <2> SUFFICES ASSUME PoolInv PROVE WorkerBound
    OBVIOUS
  <2> USE CountsType, LimitBound DEF PoolInv, ThreadInv, WorkerBound
  <2>1. CASE tpc["owner"] = "count"
    <3>1. total_workers = tries /\ tries < NumWorkers /\ tries \in Int
      BY <2>1, PoolAssumption DEF CreateInv, Creating, ThreadType
    <3>2. Cardinality(Live) + Cardinality(Reserving) = total_workers + 1
      BY <2>1, <3>1 DEF TotalInv
    <3> QED BY <3>1, <3>2, PoolAssumption
  <2>2. CASE tpc["owner"] # "count"
    <3>1. total_workers = Cardinality(Live) + Cardinality(Reserving)
      BY <2>2 DEF TotalInv
    <3> QED BY <3>1 DEF TotalInv
  <2> QED BY <2>1, <2>2
<1> QED BY <1>1, PoolInvariant, PTL

\* A dispatch that returned normally left no task behind, in the queue or in
\* the hands of a worker, although is_idle reads them one after the other.
THEOREM IdleCorrect ==
  ASSUME ~SlowExtras
  PROVE  Spec => []IdleIsIdle
<1>1. PoolInv => IdleIsIdle
  BY DEF PoolInv, IdleLayer
<1> QED BY <1>1, PoolInvariant, PTL

\* No thread outlives the pool it works for.
THEOREM FreeCorrect ==
  ASSUME ~SlowExtras
  PROVE  Spec => []NoUseAfterFree
<1>1. PoolInv => NoUseAfterFree
  BY DEF PoolInv, ThreadInv
<1> QED BY <1>1, PoolInvariant, PTL

=============================================================================
