-------------------------- MODULE EventLoopProofs --------------------------
(***************************************************************************)
(* Proofs about the loop of uevent_base_dispatch, for every set of timers  *)
(* and clients and every value of the limits: a loop that waits with the   *)
(* flag wakeup_fd_written clear is not going to oversleep, and             *)
(* uevent_deinit frees the base only after the loop has left dispatch.     *)
(***************************************************************************)
EXTENDS EventLoop, WellFoundedInduction, TLAPS

\* Without a pool the loop itself reads the eventfd.
InlineInv == ~Pooled => pool = "none"

DeinitPlaces == {"dwait", "dpool", "dfree", "stuck", "done"}

\* The thread in uevent_deinit comes past its wait only when the loop is off,
\* and the loop stays off then, because Start looks at the base no more.
CloseInv ==
  /\ \A p \in Threads : wk[p] \in DeinitPlaces => p = closer
  /\ stopped => lpc \in {"off", "start"}
  /\ closer # NoOne => lpc # "start"
  /\ \A p \in Threads : wk[p] \in DeinitPlaces \ {"dwait"} => lpc = "off"
  /\ \A p \in Threads : wk[p] \in {"dfree", "stuck", "done"} => pool = "none"
  /\ freed => active = {} /\ closer \in Threads /\ wk[closer] = "done"

-----------------------------------------------------------------------------
(* Minima and maxima of the timeout of epoll_wait.                         *)

\* A set of naturals has a least element.
LEMMA LeastNatural ==
  ASSUME NEW A \in SUBSET Nat, A # {}
  PROVE  \E m \in A : \A n \in A : m <= n
<1>1. PICK m \in A : \A n \in A : ~(<<n, m>> \in OpToRel(<, Nat))
  BY NatLessThanWellFounded, WFMin
<1>2. \A n \in A : <<n, m>> \in OpToRel(<, Nat) <=> n < m
  BY DEF OpToRel
<1>3. \A n \in A : ~(n < m)
  BY <1>1, <1>2
<1>4. \A n \in A : m <= n
  BY <1>3
<1> QED BY <1>4

\* Min is the minimum of a set of integers that is bounded below.
LEMMA MinBounded ==
  ASSUME NEW S \in SUBSET Int, S # {}, NEW b \in Int, \A s \in S : s >= b
  PROVE  Min(S) \in S /\ \A s \in S : Min(S) <= s
<1> DEFINE A == {n \in Nat : n + b \in S}
<1>1. A # {}
  <2>1. PICK s \in S : TRUE
    OBVIOUS
  <2>2. s - b \in Nat /\ (s - b) + b = s
    OBVIOUS
  <2>3. s - b \in A
    BY <2>2
  <2> QED BY <2>3
<1>2. PICK m \in A : \A n \in A : m <= n
  BY <1>1, LeastNatural
<1>3. ASSUME NEW y \in S PROVE m + b <= y
  <2>1. y - b \in Nat /\ (y - b) + b = y
    OBVIOUS
  <2>2. m <= y - b
    BY <1>2, <2>1
  <2> QED BY <2>2
<1>4. m + b \in S
  OBVIOUS
<1> QED BY <1>3, <1>4 DEF Min

LEMMA MaxTwo ==
  ASSUME NEW x \in Int, NEW y \in Int
  PROVE  Max({x, y}) = IF x >= y THEN x ELSE y
BY DEF Max

\* The timeout of epoll_wait is within its limit and reaches beyond no timer.
LEMMA TimeoutBound ==
  ASSUME TypeOK
  PROVE  /\ epoll_timeout \in 0 .. MaxTimeout
         /\ \A t \in active : epoll_timeout <= Max({rem[t], 0})
<1> DEFINE S == {MaxTimeout} \cup {rem[t] : t \in active}
           m == Min(S)
<1>1. MaxTimeout \in Nat /\ MaxLate \in Nat
  BY LoopAssumption
<1>2. S \in SUBSET Int /\ S # {} /\ \A s \in S : s >= -MaxLate
  BY <1>1 DEF TypeOK
<1>3. -MaxLate \in Int
  BY <1>1
<1>4. m \in S /\ \A s \in S : m <= s
  <2> HIDE DEF S
  <2> QED BY <1>2, <1>3, MinBounded
<1>5. m \in Int /\ m <= MaxTimeout /\ \A t \in active : m <= rem[t] /\ rem[t] \in Int
  BY <1>2, <1>4 DEF TypeOK
<1> HIDE DEF m
<1>6. epoll_timeout = IF 0 >= m THEN 0 ELSE m
  BY <1>5, MaxTwo DEF epoll_timeout, m
<1>7. epoll_timeout \in 0 .. MaxTimeout
  BY <1>1, <1>5, <1>6
<1>8. ASSUME NEW t \in active PROVE epoll_timeout <= Max({rem[t], 0})
  BY <1>5, <1>6, MaxTwo
<1> QED BY <1>7, <1>8

-----------------------------------------------------------------------------
(* Types.                                                                  *)

LEMMA LoopTypeInit == Init => TypeOK /\ InlineInv /\ CloseInv
<1> SUFFICES ASSUME Init PROVE TypeOK /\ InlineInv /\ CloseInv
  OBVIOUS
<1>1. active = {}
  BY DEF Init, active
<1>2. /\ efd \in BOOLEAN /\ edge \in BOOLEAN /\ wakeup_fd_written \in BOOLEAN
      /\ running \in BOOLEAN /\ stopped \in BOOLEAN /\ freed \in BOOLEAN
      /\ num_active_fd \in {0, 1} /\ lpc \in Places /\ nev \subseteq {"wakeup", "fd"}
      /\ cur \in Timers \cup {NoOne} /\ pool \in {"none", "queued", "flag"}
      /\ closer \in Clients \cup {NoOne}
  BY DEF Init, Places
<1>3. sleep \in 0 .. MaxTimeout /\ age \in 0 .. MaxLate /\ batch \in 0 .. MaxBatch
  BY LoopAssumption DEF Init
<1>4. wk \in [Threads -> {"idle", "heap", "load", "write", "store", "dwait",
                         "dpool", "dfree", "stuck", "done"}]
  BY DEF Init
<1>5. TypeOK
  BY <1>1, <1>2, <1>3, <1>4 DEF TypeOK
<1> QED BY <1>5, <1>1 DEF Init, InlineInv, CloseInv, DeinitPlaces

\* What the operations on the heap do to the types of rem and wk.
WkPlaces == {"idle", "heap", "load", "write", "store", "dwait",
             "dpool", "dfree", "stuck", "done"}
RemType == active \subseteq Timers /\ \A t \in active : rem[t] \in Int /\ rem[t] >= -MaxLate

LEMMA WithoutType ==
  ASSUME TypeOK, NEW t, rem' = Without(t)
  PROVE  RemType' /\ active' = active \ {t} /\ \A u \in active' : rem'[u] = rem[u]
BY DEF TypeOK, RemType, Without, Restrict, active

LEMMA InsertType ==
  ASSUME TypeOK, NEW p \in Threads, NEW t \in Timers, NEW d \in Int, d >= -MaxLate,
         InsertTimer(p, t, d)
  PROVE  /\ RemType' /\ wk' \in [Threads -> WkPlaces]
         /\ active' = active \cup {t}
         /\ \A u \in active' : rem'[u] = IF u = t THEN d ELSE rem[u]
         /\ wk'[p] \in {"load", wk[p]}
         /\ \A q \in Threads : q # p => wk'[q] = wk[q]
<1>1. /\ active' = active \cup {t}
      /\ \A u \in active' : rem'[u] = IF u = t THEN d ELSE rem[u]
  BY DEF InsertTimer, active
<1>2. RemType'
  BY <1>1 DEF TypeOK, RemType
<1>3. PICK root \in BOOLEAN :
        wk' = [wk EXCEPT ![p] = IF root /\ ~wakeup_fd_written THEN "load" ELSE @]
  BY DEF InsertTimer, WakeIfRoot
<1>4. wk' \in [Threads -> WkPlaces]
  BY <1>3 DEF TypeOK, WkPlaces
<1> QED BY <1>1, <1>2, <1>3, <1>4 DEF TypeOK

FlagType ==
  /\ efd \in BOOLEAN /\ edge \in BOOLEAN /\ wakeup_fd_written \in BOOLEAN
  /\ running \in BOOLEAN /\ stopped \in BOOLEAN /\ freed \in BOOLEAN
  /\ num_active_fd \in {0, 1} /\ pool \in {"none", "queued", "flag"}
  /\ closer \in Clients \cup {NoOne}
LocalType ==
  /\ lpc \in Places
  /\ sleep \in 0 .. MaxTimeout /\ age \in 0 .. MaxLate /\ batch \in 0 .. MaxBatch
  /\ nev \subseteq {"wakeup", "fd"} /\ cur \in Timers \cup {NoOne}
WkType == wk \in [Threads -> WkPlaces]

LEMMA TypeParts ==
  /\ TypeOK <=> RemType /\ FlagType /\ LocalType /\ WkType
  /\ TypeOK' <=> RemType' /\ FlagType' /\ LocalType' /\ WkType'
BY DEF TypeOK, RemType, FlagType, LocalType, WkType, WkPlaces

LEMMA RemKept ==
  ASSUME RemType, UNCHANGED rem
  PROVE  RemType'
BY DEF RemType, active

LEMMA ConstantTypes ==
  /\ MaxTimeout \in Nat /\ MaxLate \in Nat /\ MaxBatch \in Nat /\ Period \in Nat
  /\ Delays \subseteq Nat /\ Loop \in Threads /\ Clients \subseteq Threads
  /\ Loop \notin Clients /\ Loop # NoOne /\ NoOne \notin Clients
BY LoopAssumption DEF Threads, Loop

\* Steps of a thread inside a call.
LEMMA TypeFinish ==
  ASSUME TypeOK, NEW p \in Threads, Finish(p) \/ (p \in Clients /\ Deinit(p))
  PROVE  TypeOK'
<1> USE TypeParts, ConstantTypes
<1>1. LocalType'
  BY DEF Finish, ClearHeap, WakeLoad, WakeWrite, WakeStore, uevent_base_wait_stopped,
     StopPool, FreeBase, Deinit, LocalType, loop
<1>2. RemType'
  <2>1. CASE rem' = rem
    BY <2>1, RemKept
  <2>2. CASE rem' = Restrict(rem, {})
    BY <2>2 DEF Restrict, RemType, active
  <2> QED BY <2>1, <2>2 DEF Finish, ClearHeap, WakeLoad, WakeWrite, WakeStore,
          uevent_base_wait_stopped, StopPool, FreeBase, Deinit
<1>3. FlagType'
  BY DEF Finish, ClearHeap, WakeLoad, WakeWrite, WakeStore, uevent_base_wait_stopped,
     StopPool, FreeBase, Deinit, FlagType, wake, base, ends
<1>4. WkType'
  <2> USE DEF WkType, WkPlaces
  <2>1. AfterWake(p) \in {"dwait", "idle"}
    BY DEF AfterWake
  <2>2. CASE ClearHeap(p) \/ Deinit(p) \/ uevent_base_wait_stopped(p) \/ StopPool(p)
    BY <2>2 DEF ClearHeap, Deinit, uevent_base_wait_stopped, StopPool
  <2>3. CASE WakeLoad(p)
    BY <2>1, <2>3 DEF WakeLoad
  <2>4. CASE WakeWrite(p) \/ WakeStore(p)
    BY <2>1, <2>4 DEF WakeWrite, WakeStore
  <2>5. CASE FreeBase(p)
    BY <2>5 DEF FreeBase
  <2> QED BY <2>2, <2>3, <2>4, <2>5 DEF Finish
<1> QED BY <1>1, <1>2, <1>3, <1>4

\* Calls of the API.
LEMMA TypeCall ==
  ASSUME TypeOK, NEW p \in Threads, Call(p)
  PROVE  TypeOK'
<1> USE TypeParts, ConstantTypes
<1>1. Called(p)
  BY DEF Call, DelTimer, AddTimer, AddFd, DelFd, BreakLoop
<1>2. LocalType'
  BY <1>1 DEF Called, Goto, LocalType, Places
<1>3. RemType' /\ WkType'
  <2>1. ASSUME NEW t \in Timers, DelTimer(p, t) PROVE RemType' /\ WkType'
    BY <2>1, WithoutType DEF DelTimer, WkType
  <2>2. ASSUME NEW t \in Timers, NEW d \in Delays, AddTimer(p, t, d)
        PROVE  RemType' /\ WkType'
    <3>1. d \in Int /\ d >= -MaxLate /\ InsertTimer(p, t, d)
      BY <2>2 DEF AddTimer
    <3> QED BY <3>1, InsertType DEF WkType
  <2>3. CASE AddFd(p) \/ DelFd(p)
    BY <2>3, RemKept DEF AddFd, DelFd, WkType
  <2>4. CASE BreakLoop(p)
    BY <2>4, RemKept DEF BreakLoop, WkType, WkPlaces
  <2> QED BY <2>1, <2>2, <2>3, <2>4 DEF Call
<1>4. FlagType'
  BY DEF Call, DelTimer, AddTimer, AddFd, DelFd, BreakLoop, FlagType, wake, base, ends
<1> QED BY <1>2, <1>3, <1>4

\* FireTimer takes the minimum out and puts a persistent timer back.
LEMMA FireFacts ==
  ASSUME TypeOK, NEW t \in Timers, FireTimer(t)
  PROVE  /\ RemType' /\ WkType' /\ active' \subseteq active
         /\ At("timers") /\ lpc' \in {"cb", "rearm"}
         /\ \A q \in Clients : wk'[q] = wk[q]
         /\ wk'[Loop] \in {"load", wk[Loop]}
<1> USE TypeParts, ConstantTypes
<1>1. t \in active /\ At("timers") /\ lpc' \in {"cb", "rearm"}
  BY DEF FireTimer, Due, Goto
<1>2. CASE t \in Persist /\ running
  <2> DEFINE d == rem[t] + MinTimeout(Period)
  <2>1. MinTimeout(Period) \in Nat
    BY MaxTwo DEF MinTimeout
  <2>2. d \in Int /\ d >= -MaxLate
    BY <1>1, <2>1 DEF RemType
  <2>3. InsertTimer(Loop, t, d)
    BY <1>2 DEF FireTimer
  <2> HIDE DEF d
  <2> QED BY <1>1, <2>2, <2>3, InsertType DEF WkType
<1>3. CASE ~(t \in Persist /\ running)
  BY <1>1, <1>3, WithoutType DEF FireTimer, WkType
<1> QED BY <1>2, <1>3

LEMMA TypeLoop ==
  ASSUME TypeOK, Start \/ LoopStep \/ EpollInterrupted \/ EpollFails
  PROVE  TypeOK'
<1> USE TypeParts, ConstantTypes
<1>1. ASSUME NEW t \in Timers, FireTimer(t) PROVE TypeOK'
  <2>1. FlagType'
    BY <1>1 DEF FireTimer, FlagType, wake, base, ends
  <2>2. batch' = batch - 1 /\ batch > 0 /\ cur' = t
        /\ UNCHANGED <<sleep, nev, age>>
    BY <1>1 DEF FireTimer
  <2>3. LocalType'
    BY <1>1, <2>2, FireFacts DEF LocalType, Places
  <2> QED BY <1>1, <2>1, <2>3, FireFacts
<1>2. ASSUME ~\E t \in Timers : FireTimer(t) PROVE RemType' /\ WkType'
  <2>1. rem' = rem /\ wk' = wk
    BY <1>2 DEF Start, LoopStep, EpollInterrupted, EpollFails, MarkStarted, LoopTests,
       NoEvents, DrainRead, DrainClear, calculate_epoll_timeout, EpollReturns, BeginTimers,
       EndTimers, HandleEvent, EndFdCallback, EndDispatch
  <2> QED BY <2>1, RemKept DEF WkType
<1>3. CASE \/ Start \/ MarkStarted \/ LoopTests \/ NoEvents \/ DrainRead \/ DrainClear
  <2>1. FlagType'
    BY <1>3 DEF Start, MarkStarted, LoopTests, NoEvents, DrainRead, DrainClear, FlagType,
       wake, base, ends
  <2>2. LocalType'
    BY <1>3 DEF Start, MarkStarted, LoopTests, NoEvents, DrainRead, DrainClear, LocalType,
       Goto, Places
  <2> QED BY <1>1, <1>2, <2>1, <2>2
<1>4. CASE calculate_epoll_timeout
  <2>1. FlagType'
    BY <1>4 DEF calculate_epoll_timeout, FlagType, wake, base, ends
  <2>2. LocalType'
    BY <1>4, TimeoutBound DEF calculate_epoll_timeout, LocalType, Goto, Places
  <2> QED BY <1>1, <1>2, <2>1, <2>2
<1>5. CASE EpollReturns \/ EpollInterrupted \/ EpollFails
  <2>1. FlagType'
    BY <1>5 DEF EpollReturns, EpollInterrupted, EpollFails, FlagType, wake, base, ends
  <2>2. /\ sleep' = 0 /\ lpc' \in {"tchk", "top", "off"} /\ nev' \subseteq {"wakeup", "fd"}
        /\ UNCHANGED <<age, batch, cur>>
    BY <1>5 DEF EpollReturns, EpollInterrupted, EpollFails, LocalType, Goto
  <2>3. LocalType'
    BY <2>2 DEF LocalType, Places
  <2> QED BY <1>1, <1>2, <2>1, <2>3
<1>6. CASE BeginTimers \/ EndTimers \/ EndFdCallback \/ EndDispatch
  <2>1. FlagType'
    BY <1>6 DEF BeginTimers, EndTimers, EndFdCallback, EndDispatch, FlagType, wake, base, ends
  <2>2. LocalType'
    BY <1>6 DEF BeginTimers, EndTimers, EndFdCallback, EndDispatch, LocalType, Goto, Places
  <2> QED BY <1>1, <1>2, <2>1, <2>2
<1>7. ASSUME NEW e \in {"wakeup", "fd"}, HandleEvent(e) PROVE TypeOK'
  <2>1. FlagType'
    BY <1>7 DEF HandleEvent, FlagType, wake, base, ends
  <2>2. lpc' \in {"fdcb", "wread", "epoll"}
    BY <1>7 DEF HandleEvent, Goto
  <2>3. LocalType'
    BY <1>7, <2>2 DEF HandleEvent, LocalType, Places
  <2> QED BY <1>1, <1>2, <2>1, <2>3
<1> QED BY <1>1, <1>3, <1>4, <1>5, <1>6, <1>7 DEF LoopStep

LEMMA TypeTick ==
  ASSUME TypeOK, Worker \/ Tick
  PROVE  TypeOK'
<1> USE TypeParts, ConstantTypes
<1>1. CASE Worker
  BY <1>1, RemKept DEF Worker, WorkerRead, WorkerClear, FlagType, LocalType, WkType,
     base, loop, ends
<1>2. CASE Tick
  <2>1. RemType'
    BY <1>2 DEF Tick, RemType, active
  <2>2. LocalType'
    BY <1>2 DEF Tick, LocalType
  <2>3. FlagType' /\ WkType'
    BY <1>2 DEF Tick, FlagType, WkType, wake, base, ends
  <2> QED BY <2>1, <2>2, <2>3
<1> QED BY <1>1, <1>2

LEMMA TypeNext ==
  ASSUME TypeOK, [Next]_vars
  PROVE  TypeOK'
<1>1. CASE UNCHANGED vars
  BY <1>1, RemKept, TypeParts DEF vars, wake, base, loop, ends, FlagType, LocalType, WkType
<1> QED BY <1>1, TypeFinish, TypeCall, TypeLoop, TypeTick, ConstantTypes DEF Next

-----------------------------------------------------------------------------
(* uevent_deinit and the end of dispatch.                                  *)

\* As long as nobody is in uevent_deinit no thread is at one of its places.
LEMMA NobodyCloses ==
  ASSUME TypeOK, CloseInv, closer = NoOne
  PROVE  \A p \in Threads : wk[p] \notin DeinitPlaces
BY LoopAssumption DEF CloseInv, Threads, Loop

LEMMA CloseCall ==
  ASSUME TypeOK, CloseInv, NEW p \in Threads, Call(p)
  PROVE  CloseInv'
<1> USE ConstantTypes DEF DeinitPlaces
<1>1. /\ wk[p] = "idle" /\ ~freed /\ Called(p)
      /\ p = Loop => lpc \in {"cb", "fdcb"}
      /\ UNCHANGED <<stopped, pool, closer, freed>>
  BY DEF Call, DelTimer, AddTimer, AddFd, DelFd, BreakLoop, MayCall, base, ends
<1>2. \/ lpc' = lpc
      \/ lpc \in {"cb", "fdcb"} /\ lpc' \in {"cbret", "fdret"}
  BY <1>1 DEF Called, Goto
<1>3. /\ wk'[p] \in {"idle", "load", "heap"}
      /\ \A q \in Threads : q # p => wk'[q] = wk[q]
  <2>1. CASE AddFd(p) \/ DelFd(p) \/ \E t \in Timers : DelTimer(p, t)
    BY <1>1, <2>1 DEF AddFd, DelFd, DelTimer
  <2>2. CASE BreakLoop(p)
    BY <2>2 DEF BreakLoop, TypeOK
  <2>3. ASSUME NEW t \in Timers, NEW d \in Delays, AddTimer(p, t, d)
        PROVE  /\ wk'[p] \in {"idle", "load", "heap"}
               /\ \A q \in Threads : q # p => wk'[q] = wk[q]
    <3>1. d \in Int /\ d >= -MaxLate /\ InsertTimer(p, t, d)
      BY <2>3 DEF AddTimer
    <3> QED BY <1>1, <3>1, InsertType
  <2> QED BY <2>1, <2>2, <2>3 DEF Call
<1> QED BY <1>1, <1>2, <1>3 DEF CloseInv

LEMMA CloseDeinit ==
  ASSUME ~EarlyDeinit, TypeOK, CloseInv, NEW p \in Clients, Deinit(p)
  PROVE  CloseInv'
<1> USE ConstantTypes DEF DeinitPlaces
<1>1. /\ closer = NoOne /\ ~freed /\ lpc # "start" /\ closer' = p
      /\ wk' = [wk EXCEPT ![p] = "heap"]
      /\ UNCHANGED <<rem, stopped, lpc, pool, freed>>
  BY DEF Deinit, MayCall, loop
<1>2. \A q \in Threads : wk'[q] \notin DeinitPlaces
  BY <1>1, NobodyCloses DEF TypeOK
<1> QED BY <1>1, <1>2 DEF CloseInv

\* The end of a call: the only steps among the places of uevent_deinit.
LEMMA CloseFinish ==
  ASSUME TypeOK, CloseInv, NEW p \in Threads, Finish(p)
  PROVE  CloseInv'
<1> USE ConstantTypes DEF DeinitPlaces
<1>1. UNCHANGED <<lpc, stopped, closer>>
  BY DEF Finish, ClearHeap, WakeLoad, WakeWrite, WakeStore, uevent_base_wait_stopped,
     StopPool, FreeBase, base, loop, ends
<1>2. CASE WakeLoad(p) \/ WakeWrite(p) \/ WakeStore(p)
  <2>1. /\ wk[p] \in {"load", "write", "store"}
        /\ \E l \in {AfterWake(p), "write", "store"} : wk' = [wk EXCEPT ![p] = l]
        /\ UNCHANGED <<rem, pool, freed>>
    BY <1>2 DEF WakeLoad, WakeWrite, WakeStore, ends
  <2>2. /\ wk'[p] \in {"idle", "dwait", "write", "store"}
        /\ wk'[p] = "dwait" => p = closer
        /\ \A q \in Threads : q # p => wk'[q] = wk[q]
    BY <2>1 DEF AfterWake, TypeOK
  <2> QED BY <1>1, <2>1, <2>2 DEF CloseInv, active
<1>3. CASE ClearHeap(p)
  <2>1. active' = {} /\ wk[p] = "heap" /\ wk' = [wk EXCEPT ![p] = "load"]
        /\ UNCHANGED <<pool, freed>>
    BY <1>3 DEF ClearHeap, Restrict, active, ends
  <2> QED BY <1>1, <2>1 DEF CloseInv, TypeOK
<1>4. CASE uevent_base_wait_stopped(p)
  <2>1. wk[p] = "dwait" /\ stopped /\ wk' = [wk EXCEPT ![p] = "dpool"]
        /\ UNCHANGED <<rem, pool, freed>>
    BY <1>4 DEF uevent_base_wait_stopped, ends
  <2>2. p = closer /\ lpc = "off"
    BY <2>1 DEF CloseInv, Threads
  <2> QED BY <1>1, <2>1, <2>2 DEF CloseInv, TypeOK, active
<1>5. CASE StopPool(p)
  BY <1>1, <1>5 DEF StopPool, CloseInv, TypeOK, active, ends
<1>6. CASE FreeBase(p)
  <2>1. /\ wk[p] = "dfree" /\ UNCHANGED <<rem, pool>>
        /\ \/ wk' = [wk EXCEPT ![p] = "stuck"] /\ freed' = freed
           \/ wk' = [wk EXCEPT ![p] = "done"] /\ freed' = TRUE /\ active = {}
    BY <1>6 DEF FreeBase
  <2>2. p = closer /\ lpc = "off" /\ pool = "none"
    BY <2>1 DEF CloseInv
  <2>3. ~freed
    BY <2>1, <2>2 DEF CloseInv
  <2> QED BY <1>1, <2>1, <2>2, <2>3 DEF CloseInv, TypeOK, active
<1> QED BY <1>2, <1>3, <1>4, <1>5, <1>6 DEF Finish

\* The loop thread takes its steps only while the base is there, and starts
\* only while nobody is in uevent_deinit.
LEMMA CloseLoop ==
  ASSUME TypeOK, CloseInv, Start \/ LoopStep \/ EpollInterrupted \/ EpollFails
  PROVE  CloseInv'
<1> USE ConstantTypes DEF DeinitPlaces
<1>1. CASE Start
  <2>1. /\ lpc' = "start" /\ closer = NoOne
        /\ UNCHANGED <<rem, stopped, wk, pool, closer, freed>> /\ ~freed
    BY <1>1 DEF Start, Goto, At, ends
  <2> QED BY <2>1, NobodyCloses DEF CloseInv
<1>2. CASE MarkStarted
  <2>1. /\ lpc = "start" /\ lpc' = "top" /\ ~stopped'
        /\ UNCHANGED <<rem, wk, pool, closer, freed>>
    BY <1>2 DEF MarkStarted, Goto, ends
  <2>2. closer = NoOne
    BY <2>1 DEF CloseInv
  <2>3. ~freed
    BY <2>2 DEF CloseInv, Threads
  <2> QED BY <2>1, <2>2, <2>3, NobodyCloses DEF CloseInv
<1>3. ASSUME lpc \notin {"off", "start"}, ~freed, UNCHANGED <<closer, freed>>,
             lpc' # "start", stopped' = stopped \/ lpc' = "off",
             \A q \in Clients : wk'[q] = wk[q],
             wk'[Loop] \in {"load", wk[Loop]}
      PROVE  CloseInv'
  <2>1. \A q \in Threads : wk[q] \in DeinitPlaces => wk[q] = "dwait"
    BY <1>3 DEF CloseInv
  <2>2. \A q \in Threads : wk'[q] \in DeinitPlaces => wk'[q] = "dwait" /\ q = closer
    BY <1>3, <2>1 DEF CloseInv, Threads
  <2>3. ~stopped
    BY <1>3 DEF CloseInv
  <2> QED BY <1>3, <2>2, <2>3 DEF CloseInv
<1>4. ASSUME NEW t \in Timers, FireTimer(t) PROVE CloseInv'
  <2>1. UNCHANGED <<stopped, closer, freed>> /\ lpc = "timers" /\ ~freed
    BY <1>4 DEF FireTimer, At, base, ends
  <2> QED BY <1>3, <1>4, <2>1, FireFacts
<1>5. CASE EndDispatch \/ EpollFails
  BY <1>3, <1>5 DEF EndDispatch, EpollFails, At, Goto, ends
<1>6. CASE \/ LoopTests \/ NoEvents \/ DrainRead \/ DrainClear \/ calculate_epoll_timeout
           \/ EpollReturns \/ EpollInterrupted \/ BeginTimers \/ EndTimers \/ EndFdCallback
  <2>1. /\ lpc \notin {"off", "start"} /\ ~freed /\ lpc' # "start"
        /\ UNCHANGED <<stopped, wk, closer, freed>>
    BY <1>6 DEF LoopTests, NoEvents, DrainRead, DrainClear, calculate_epoll_timeout,
       EpollReturns, EpollInterrupted, BeginTimers, EndTimers, EndFdCallback, At, Goto,
       base, ends
  <2> QED BY <1>3, <2>1
<1>7. ASSUME NEW e \in {"wakeup", "fd"}, HandleEvent(e) PROVE CloseInv'
  <2>1. /\ lpc = "epoll" /\ ~freed /\ UNCHANGED <<stopped, wk, closer, freed>>
        /\ lpc' \in {"fdcb", "wread", "epoll"}
    BY <1>7 DEF HandleEvent, Goto, At, base, ends
  <2> QED BY <1>3, <2>1
<1> QED BY <1>1, <1>2, <1>4, <1>5, <1>6, <1>7 DEF LoopStep

LEMMA CloseNext ==
  ASSUME ~EarlyDeinit, TypeOK, CloseInv, [Next]_vars
  PROVE  CloseInv'
<1>1. CASE UNCHANGED vars
  BY <1>1 DEF vars, base, loop, ends, CloseInv, active
<1>2. CASE Tick
  <2>1. active' = active /\ UNCHANGED <<lpc, stopped, wk, pool, closer, freed>>
    BY <1>2 DEF Tick, active, base, ends
  <2> QED BY <2>1 DEF CloseInv
<1>3. CASE Worker
  BY <1>3 DEF Worker, WorkerRead, WorkerClear, CloseInv, active, base, loop, ends
<1> QED BY <1>1, <1>2, <1>3, CloseCall, CloseDeinit, CloseFinish, CloseLoop DEF Next

LEMMA InlineNext ==
  ASSUME InlineInv, [Next]_vars
  PROVE  InlineInv'
<1> SUFFICES ASSUME ~Pooled PROVE pool' = "none"
  BY DEF InlineInv
<1>1. pool = "none"
  BY DEF InlineInv
<1>2. CASE \E p \in Threads : Call(p) \/ Finish(p)
  BY <1>1, <1>2 DEF Call, DelTimer, AddTimer, AddFd, DelFd, BreakLoop, Finish, ClearHeap,
     WakeLoad, WakeWrite, WakeStore, uevent_base_wait_stopped, StopPool, FreeBase
<1>3. CASE Start \/ LoopStep \/ EpollInterrupted \/ EpollFails
  BY <1>1, <1>3 DEF Start, LoopStep, EpollInterrupted, EpollFails, MarkStarted, LoopTests,
     NoEvents, DrainRead, DrainClear, calculate_epoll_timeout, EpollReturns, BeginTimers,
     FireTimer, EndTimers, HandleEvent, EndFdCallback, EndDispatch
<1> QED BY <1>1, <1>2, <1>3 DEF Next, Deinit, Worker, WorkerRead, WorkerClear, Tick, vars

-----------------------------------------------------------------------------
(* The wake-up of a waiting loop.                                          *)

Waking == \E p \in Threads : wk[p] \in {"load", "write"}

\* Steps that leave the sleeper, its timers and its wake-up as they are.
LEMMA SleepKept ==
  ASSUME TypeOK, OversleepNeedsFlag,
         lpc' = "wait" /\ ~wakeup_fd_written' => lpc = "wait" /\ ~wakeup_fd_written,
         active' \subseteq active, \A t \in active' : rem'[t] = rem[t],
         UNCHANGED <<sleep, efd, edge>>,
         Waking /\ lpc' = "wait" /\ ~wakeup_fd_written' => Waking'
  PROVE  OversleepNeedsFlag'
BY DEF OversleepNeedsFlag, InTime, Waking

\* A timer that is inserted in front of all others wakes the loop up; one
\* that is not is behind a timer the loop will wake up for.
LEMMA SleepInsert ==
  ASSUME TypeOK, OversleepNeedsFlag, NEW p \in Threads, NEW t \in Timers,
         NEW d \in Int, d >= -MaxLate, InsertTimer(p, t, d), wk[p] = "idle",
         lpc = "wait", UNCHANGED <<sleep, efd, edge, wakeup_fd_written>>
  PROVE  OversleepNeedsFlag'
<1> SUFFICES ASSUME ~wakeup_fd_written, ~Waking', ~(edge /\ efd), NEW u \in active'
             PROVE  sleep <= Max({rem'[u], 0})
  BY DEF OversleepNeedsFlag, InTime, Waking
<1>1. /\ active' = active \cup {t}
      /\ \A v \in active' : rem'[v] = IF v = t THEN d ELSE rem[v]
  BY InsertType
<1>2. PICK root \in BOOLEAN :
        /\ MustRoot(d, active \ {t}) => root
        /\ wk' = [wk EXCEPT ![p] = IF root /\ ~wakeup_fd_written THEN "load" ELSE @]
  BY DEF InsertTimer, WakeIfRoot
<1>3. ~root /\ wk' = wk
  BY <1>2 DEF TypeOK, Waking
<1>4. ~Waking
  BY <1>3 DEF Waking
<1>5. \A v \in active : sleep <= Max({rem[v], 0})
  BY <1>4 DEF OversleepNeedsFlag, InTime, Waking
<1>6. /\ sleep \in Int /\ \A v \in active : rem[v] \in Int
  BY ConstantTypes DEF TypeOK
<1>7. CASE u # t
  BY <1>1, <1>5, <1>7
<1>8. CASE u = t
  <2>1. PICK v \in active \ {t} : ~(d < rem[v])
    BY <1>2, <1>3 DEF MustRoot
  <2>2. rem[v] \in Int /\ rem[v] <= d /\ sleep <= Max({rem[v], 0})
    BY <2>1, <1>5, <1>6
  <2>3. sleep <= Max({d, 0})
    BY <2>2, <1>6, MaxTwo
  <2> QED BY <1>1, <1>8, <2>3
<1> QED BY <1>7, <1>8

LEMMA SleepCall ==
  ASSUME TypeOK, OversleepNeedsFlag, NEW p \in Threads, Call(p)
  PROVE  OversleepNeedsFlag'
<1> USE ConstantTypes
<1>1. /\ wk[p] = "idle" /\ UNCHANGED <<sleep, efd, edge, wakeup_fd_written>>
      /\ lpc' = "wait" => lpc = "wait"
  BY DEF Call, DelTimer, AddTimer, AddFd, DelFd, BreakLoop, MayCall, Called, Goto, wake
<1>2. ASSUME NEW t \in Timers, NEW d \in Delays, AddTimer(p, t, d)
      PROVE  OversleepNeedsFlag'
  <2>1. d \in Int /\ d >= -MaxLate /\ InsertTimer(p, t, d)
    BY <1>2 DEF AddTimer
  <2>2. CASE lpc = "wait"
    BY <1>1, <2>1, <2>2, SleepInsert
  <2>3. CASE lpc # "wait"
    BY <1>1, <2>3 DEF OversleepNeedsFlag
  <2> QED BY <2>2, <2>3
<1>3. ASSUME NEW t \in Timers, DelTimer(p, t)
      PROVE  OversleepNeedsFlag'
  <2>1. wk' = wk /\ active' = active \ {t} /\ \A u \in active' : rem'[u] = rem[u]
    BY <1>3, WithoutType DEF DelTimer
  <2> QED BY <1>1, <2>1, SleepKept DEF Waking
<1>4. CASE AddFd(p) \/ DelFd(p) \/ BreakLoop(p)
  <2>1. rem' = rem /\ (wk' = wk \/ wk' = [wk EXCEPT ![p] = "heap"])
    BY <1>4 DEF AddFd, DelFd, BreakLoop
  <2>2. Waking => Waking'
    BY <1>1, <2>1 DEF Waking, TypeOK
  <2> QED BY <1>1, <2>1, <2>2, SleepKept DEF active
<1> QED BY <1>2, <1>3, <1>4 DEF Call

\* uevent_base_wakeup does not give up its wake-up before the eventfd is
\* written, except where the flag is set.
LEMMA SleepFinish ==
  ASSUME TypeOK, OversleepNeedsFlag, NEW p \in Threads,
         Finish(p) \/ (p \in Clients /\ Deinit(p))
  PROVE  OversleepNeedsFlag'
<1>1. CASE WakeLoad(p)
  <2>1. ~wakeup_fd_written => wk'[p] = "write"
    BY <1>1 DEF WakeLoad, TypeOK
  <2> QED BY <1>1, <2>1, SleepKept DEF WakeLoad, Waking, active, loop, wake
<1>2. CASE WakeWrite(p)
  BY <1>2 DEF WakeWrite, OversleepNeedsFlag, InTime, loop
<1>3. CASE WakeStore(p)
  BY <1>3 DEF WakeStore, OversleepNeedsFlag
<1>4. CASE ClearHeap(p)
  <2>1. active' = {}
    BY <1>4 DEF ClearHeap, Restrict, active
  <2> QED BY <2>1 DEF OversleepNeedsFlag
<1>5. CASE uevent_base_wait_stopped(p) \/ StopPool(p) \/ FreeBase(p) \/ Deinit(p)
  <2>1. /\ wk[p] \notin {"load", "write"} /\ UNCHANGED <<rem, wake, loop>>
        /\ \E l \in WkPlaces : wk' = [wk EXCEPT ![p] = l]
    BY <1>5 DEF uevent_base_wait_stopped, StopPool, FreeBase, Deinit, MayCall, WkPlaces
  <2>2. Waking => Waking'
    BY <2>1 DEF Waking, TypeOK
  <2> QED BY <2>1, <2>2, SleepKept DEF wake, loop, active
<1> QED BY <1>1, <1>2, <1>3, <1>4, <1>5 DEF Finish

\* The loop enters its wait with a timeout that reaches beyond no timer.
LEMMA SleepLoop ==
  ASSUME TypeOK, OversleepNeedsFlag,
         Start \/ LoopStep \/ EpollInterrupted \/ EpollFails
  PROVE  OversleepNeedsFlag'
<1>1. CASE calculate_epoll_timeout
  <2>1. sleep' = epoll_timeout /\ rem' = rem
    BY <1>1 DEF calculate_epoll_timeout
  <2>2. \A t \in active' : sleep' <= Max({rem'[t], 0})
    BY <2>1, TimeoutBound DEF active
  <2> QED BY <2>2 DEF OversleepNeedsFlag, InTime
<1>2. ASSUME ~calculate_epoll_timeout PROVE lpc' # "wait"
  <2>1. ASSUME NEW e \in {"wakeup", "fd"}, HandleEvent(e) PROVE lpc' # "wait"
    BY <2>1 DEF HandleEvent, Goto
  <2>2. ASSUME ~\E e \in {"wakeup", "fd"} : HandleEvent(e) PROVE lpc' # "wait"
    BY <1>2, <2>2 DEF Start, LoopStep, EpollInterrupted, EpollFails, MarkStarted, LoopTests,
       NoEvents, DrainRead, DrainClear, EpollReturns, BeginTimers, FireTimer, EndTimers,
       EndFdCallback, EndDispatch, Goto
  <2> QED BY <2>1, <2>2
<1> QED BY <1>1, <1>2 DEF OversleepNeedsFlag

\* Time passes for the sleeper and for its timers alike.
LEMMA SleepTick ==
  ASSUME TypeOK, OversleepNeedsFlag, Tick
  PROVE  OversleepNeedsFlag'
<1>1. /\ active' = active /\ \A t \in active : rem'[t] = rem[t] - 1
      /\ sleep' = IF sleep > 0 THEN sleep - 1 ELSE sleep
      /\ UNCHANGED <<lpc, efd, edge, wakeup_fd_written, wk>>
  BY DEF Tick, active, wake
<1>2. sleep \in Nat /\ \A t \in active : rem[t] \in Int
  BY ConstantTypes DEF TypeOK
<1>3. ASSUME NEW t \in active, sleep <= Max({rem[t], 0})
      PROVE  sleep' <= Max({rem'[t], 0})
  BY <1>1, <1>2, <1>3, MaxTwo
<1> QED BY <1>1, <1>3 DEF OversleepNeedsFlag, InTime

LEMMA SleepNext ==
  ASSUME ~Pooled, TypeOK, InlineInv, OversleepNeedsFlag, [Next]_vars
  PROVE  OversleepNeedsFlag'
<1>1. CASE UNCHANGED vars
  BY <1>1, SleepKept DEF vars, wake, loop, active, Waking
<1>2. ~Worker
  BY DEF Worker, WorkerRead, WorkerClear, InlineInv
<1> QED BY <1>1, <1>2, SleepCall, SleepFinish, SleepLoop, SleepTick, ConstantTypes DEF Next

-----------------------------------------------------------------------------
(* The theorems.                                                           *)

\* The loop's variables keep their types; in particular the timeout given to
\* epoll_wait is between 0 and EPOLL_MAX_TIMEOUT_MS.
THEOREM LoopTypeCorrect == Spec => []TypeOK
<1>1. Init => TypeOK
  BY LoopTypeInit
<1>2. TypeOK /\ [Next]_vars => TypeOK'
  BY TypeNext
<1> QED BY <1>1, <1>2, PTL DEF Spec

\* Without a pool, a loop that waits with wakeup_fd_written clear sleeps
\* past no timer: insert_timer_to_heap wakes it for every earlier one.
THEOREM OversleepCorrect ==
  ASSUME ~Pooled
  PROVE  Spec => []OversleepNeedsFlag
<1>1. Init => TypeOK /\ InlineInv /\ OversleepNeedsFlag
  BY LoopTypeInit DEF Init, OversleepNeedsFlag
<1>2. TypeOK /\ InlineInv /\ OversleepNeedsFlag /\ [Next]_vars
        => (TypeOK /\ InlineInv /\ OversleepNeedsFlag)'
  BY TypeNext, InlineNext, SleepNext
<1> QED BY <1>1, <1>2, PTL DEF Spec

\* When uevent_deinit has freed the base the loop is out of dispatch, no
\* worker is at its callback and no timer is left in the heap.
THEOREM DeinitCorrect ==
  ASSUME ~EarlyDeinit
  PROVE  Spec => []NoDispatchAfterFree
<1>1. Init => TypeOK /\ CloseInv
  BY LoopTypeInit
<1>2. TypeOK /\ CloseInv /\ [Next]_vars => (TypeOK /\ CloseInv)'
  BY TypeNext, CloseNext
<1>3. CloseInv => NoDispatchAfterFree
  BY DEF CloseInv, DeinitPlaces, NoDispatchAfterFree
<1> QED BY <1>1, <1>2, <1>3, PTL DEF Spec

=============================================================================
