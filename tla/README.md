# Verification of the C module collection

TLA+ models of the modules in this repository, TLC configurations that check
them on small instances, and TLAPS proofs about them. The collection is built
around `uevent`, an epoll event loop with timers, reference-counted events and
a worker pool, and `minheap`, the timer queue of that loop. These two carry the
concurrency and the algorithmic risk, so they come first; around them are a
netlink monitor, a tracer, clocks, a logger, containers and three programs that
ask the kernel or libpcap.

## 1. Inventory

| Component | State | Operations | What is hard | What makes it correct |
|---|---|---|---|---|
| `minheap` | array of node pointers, `size`, `capacity`; in each node `key` and `idx` (slot + 1, 16 bits) | `mh_insert` (also an update in place), `mh_extract_min`, `mh_delete_node`, `mh_get_min` | two sifts after one change, the node-to-slot map, the boundary of `idx`, a full heap | 4-ary order; `idx` is the inverse of the array; extract returns a least node |
| `uevent` loop | timer heap, `num_active_fd`, `running`, `stopped`, eventfd and its flag `wakeup_fd_written` | `uevent_base_dispatch`, `uevent_add`, `uevent_del`, `uevent_base_loopbreak`, `uevent_deinit` | threads that arm timers while the loop sleeps, the wake-up protocol, shutdown | no timer is overslept; loopbreak and deinit end; nothing is freed while in use |
| `uevent` events | slots, stack of free slots, per slot `refcount` and `ev`; per event `pending_free`, `active_fd`, `active_timer`, `modification_lock` | create/assign, `try_ref`, `put`, `add`, `del`, `free` | lock-free reference counts against concurrent `del`, `free` and the loop | an event is destroyed once, when nobody holds it, and its slot comes back once |
| `uevent` worker pool | queue, `queue_size`, `active_tasks`, `total_workers`, `running`, two mutexes, two conditions, `is_in_worker_pool` per event | create, insert, worker threads, extra workers, is_idle, wait_for_idle, stop, destroy | lost wake-ups, extra threads on demand, idle detection, destroy against detached threads | exact counters, the limit on workers, one task per event, destroy waits for everybody |
| `minheap`: `heap-inl.h` | nodes with `left`, `right`, `parent`; `min`, `nelts` | `heap_insert`, `heap_remove`, `heap_dequeue` | a swap rewrites up to seven pointers; the path to the last node comes from the bits of `nelts` | the tree stays complete and ordered, every pointer has its inverse |
| `nlmon` | `g_filters` (an atomic pointer to an immutable list), `g_run`, `g_thread`, the reading thread | `nlmon_run`, `nlmon_stop`, `nlmon_add_filter`, `nlmon_remove_filter`, `nlmon_clear_filters`, `nlmon_list_filters` | lists replaced while they are read or copied, lost updates, failing `pthread_create`, stop against a busy thread | a list has one owner; serial calls add up; no freed list is read; the callbacks called are those asked for; stop returns |
| `list`, kernel `list.h` | links of entries and heads | add, delete, move, replace, cut, splice, rotate | pointer surgery at the ends, lists of length 0 and 1 | every walk, forwards and backwards, meets the promised sequence |
| `udeque` | list, size, items | push, pop, get, free | both ends, ownership of popped items, failing `malloc` | it is a sequence; an item belongs to the deque or to the caller |
| `htable` | chains of nodes | create, set, get, delete, free | `pprev`, reuse of nodes, capacity 0 | it is a map; the chains hold the allocated nodes |
| `assoc_array` | a hash chain and a list of insertion per entry, copies of keys | create, add, replace, delete, get, first/last, free | two structures that must agree, duplicate keys, failing `malloc` | both hold the same entries; a lookup finds the newest |
| `leak_detector_c` | circular list of records | `xmalloc`, `xcalloc`, `xrealloc`, `xfree`, report | the end of the circular list, failing and moving `realloc` | one record per live block; the report names all |
| `dbg_tracer` | registry of slots, a ring per thread, signal handlers | attach, mark, dump, setup, fault | first use by several threads, more threads than slots, a ring written while it is listed, a second fault | a thread owns its slot; a dump has the last points in order; a fault is dumped |
| `timeutil` | cached zone (`g_tz`), cached distance of the clocks (`g_off`) | `tu_init`, `tu_update_offset`, `tu_update_mono_real_offset`, the local clocks | caches written and copied without a lock, summer over the new year, rules kept as days of a year, two clock reads | the local time is that of the zone's file, and when it is not; how wrong a torn copy can be |
| `syslog2` | `level`, mask of syslog, switch, spin lock, `pthread_once` | `setup_syslog2`, `syslog2_`, `syslog2_printf_` | first calls at once, the spin lock, settings without a lock | lines are whole, written in the end, and never before the clock is set up |
| `netlink_getlink` | socket, buffer, the caller's list (`slist.h`) | `get_netdev`, `free_netdev_list` | an answer in many datagrams, silence, errors half way, every failing call | 0 means complete; the list is what was reported; everything is released |
| `netlink_arp_cache` | socket, answer, array of entries | `get_arp_cache`, `parse_arp_cache`, listing | sizes: the first buffer, the array, unsigned lengths of messages | the entries of an answer that was read are listed and fit |
| `libpcap-dhcp-capture` | capture handle, buffers of `tok2str` | open in ten steps, capture, parse | header lengths taken from the packet, options that end or do not | the payload is inside the capture; option 12 is found, and when the search leaves the capture |

Interactions: the loop owns a `minheap` under `base_mut`; it hands callbacks to
the pool (`uevent_worker_pool_insert`, called by the loop thread only); workers
and application threads call back into the base (`uevent_add`, ...), which
wakes the loop through the eventfd; `uevent_deinit` stops the loop, waits for
`stopped` (a condition on `base_mut`), then stops and destroys the pool.

`PROJECT.json` lists every component and, under `hazards`, each place where the
code can go wrong in a way that a test would hardly reach.

## 2. Modules

| Module | Models | Notes |
|---|---|---|
| `MinHeap` | `minheap.c`, `minheap_internal.h` | one step per call, then one step per move of a sift; the refinement mapping to `PriorityQueue` |
| `PriorityQueue` | what `minheap.h` promises | abstract specification |
| `MCMinHeap` | | symmetry |
| `MinHeapProofs` | | proofs about `MinHeap`, its refinement of `PriorityQueue` included |
| `WorkerPool` | `uevent_worker.c` | every thread of the pool, the loop thread as its client, the owner |
| `MCWorkerPool` | | symmetry |
| `WorkerPoolProofs` | | proofs about `WorkerPool` |
| `EventLoop` | the loop, wake-up, timer and deinit parts of `uevent.c` | uses the heap as the priority queue that `MinHeap` refines |
| `MCEventLoop` | | symmetry |
| `EventLoopProofs` | | proofs about `EventLoop` |
| `EventLife` | slots, reference counts, add, del, free and dispatch of events in `uevent.c`, one worker of `uevent_worker.c` | threads interleave at single atomic operations |
| `MCEventLife` | | symmetry, the kinds of events and the calls of each run |
| `EventLifeProofs`, `EventUseProofs`, `EventExactProofs` | | proofs about `EventLife`: counts and slots, uses of freed events, then leaks and the timers' count |
| `Nlmon` | `nlmon.c` | threads interleave at single accesses to shared variables |
| `DbgTracer` | `dbg_tracer.c` | as `Nlmon`; the ring as it is written and listed |
| `TimeUtil` | `timeutil.c` | an updating and a reading thread, the zone rules as pure operators |
| `Syslog2` | `syslog2.c` | once, level, spin lock, write |
| `NullPointer` | | the constant `NULL`, which these modules share |
| `NlmonProofs`, `MonitorProofs` | | proofs about `Nlmon`, and about `DbgTracer` and `Syslog2` |
| `MCMonitors` | | extends `Nlmon`, `DbgTracer` and `Syslog2`, instantiates `TimeUtil` |
| `List`, `KernelList` | `list/list.h`, `hashtable-linux-kernel/list.h` | operators on a record of links; used by the four structures below |
| `CircularList` | the use of either list | sequences of calls on two heads and three entries |
| `UDeque`, `HTable`, `AssocArray`, `LeakDetector` | `udeque.c`, `htable.c`, `assoc_array.c` with `hashtable.h`, `leak_detector.c` | one step per call, over the links of `List` or `KernelList` |
| `SList`, `UvHeap` | `netlink_getlink/slist.h`, `minheap/heap-inl.h` | pointers; one step per swap in `UvHeap` |
| `GetLink`, `ArpCache`, `DhcpCapture` | `libnl_getlink.c`, `libnlarpcache.c` with its `main.c`, `pcap_dhcp.c` with its `main.c` | one step per system call or message |
| `MCSequential` | | instantiates the ten structures and programs above |

The components of `MCMonitors` and of `MCSequential` share nothing. A variable `which`, chosen
at the start, says which of them runs; the others keep their initial values. Its
state space is the union, not the product, of theirs.

### MinHeap

`arr`, `size`, `key`, `idx` are the fields of the C structures (`arr` is
indexed from 0). A call of the API is a step from `phase = "idle"`; when the
code then calls `mh_sift_up` or `mh_sift_down`, the step sets `hole`, `node`
(the value `heap[idx]` that both functions keep in a local) and `phase`, and
every iteration of the C loop is one step `SiftUpMove` or `SiftDownMove`. An
update and a deletion sift up and then down from the *same* index, which is
`start`. `idx` is stored modulo `IdxMod` (65536 in the code). The caller writes
the key before it calls `mh_insert`, as `insert_timer_to_heap` does; with
`RekeyFull = FALSE` callers never do so for a node of a full heap.

### WorkerPool

Program counters `wpc` (workers) and `tpc` (the loop thread and the owner of
the base) follow the statements of the C functions; a mutex is a variable with
its owner where more than one access happens under it, and a condition variable
is the set of threads that are at its wait. `is_in_worker_pool`, the counters
and the queue are shared variables. Extra workers are threads of their own that
`destroy` cannot join. `ProcessTask` chooses whether the task was refused, runs
or has waited long enough to ask for another worker. With `SlowExtras = FALSE`
a callback in an extra worker ends within the five seconds that `destroy` waits.

### EventLoop

Every access to the eventfd and to `wakeup_fd_written` is a step of its own, in
every thread (`wk`), because that protocol is not protected by a lock. What the
code does under `base_mut` is one step, except that the mutex stays taken while
the loop wakes itself for a re-armed timer (`MutexFree`). Time is relative:
`rem[t]` is the key of timer `t` minus the present time and exists while `t` is
in the heap; `Tick` lets one unit pass. `sleep` is the rest of the timeout of
`epoll_wait`. The eventfd is registered edge-triggered: `edge` is an edge not
yet reported, `efd` says that there is something to read. In a base with a pool
the read callback of the eventfd runs in a worker (`WorkerRead`, `WorkerClear`).
An application thread may use the base until it calls `uevent_deinit`, and no
other application thread is in a call at that time; callbacks may still be.

Abstractions: the time between the computation of the timeout and the entry
into `epoll_wait` is taken to be 0; a callback makes at most one call; the
descriptors of the user are one event, whose `epoll_ctl` may fail; events live as
long as the base. Errors of the eventfd other than `EAGAIN` are left out: it is not
blocking and open as long as the base. An empty one counts as read, as in the code.

### EventLife

A slot has `ev` and `refcount`, as `uev_t` has; `free_uev` is `free_uev_arr`.
The Boolean fields of an event are sets of events (`active_timer`, ...), `mem`
says whether its memory is allocated. `heap` and `epoll` are the sets of events
in the timer heap and in the epoll set. A thread (`th`) is the stack of its
frames. A frame is a place in the code (`at`), its local variables `uev` (`s`)
and `ev` (`o`) and the result of the last call it made (`ret`), so that
`uevent_put`, `uevent_try_ref` and `uevent_del` are written once and are called
by API functions, the loop and the worker alike.

Each atomic operation that another thread can observe is a step; local
computations, and operations that no other thread can tell apart, are merged
with the next one. What happens under `base_mut` is one step, except where the
loop calls `uevent_put` with the mutex taken and where `uevent_create_or_assign_event`
publishes the event: there the mutex stays taken over several steps. Time and
descriptors are left out: any timer in the heap may be due, any registered
descriptor ready, `epoll_ctl` may fail. `running` is always true.

Callers: nobody starts a call with a handle that has been given to
`uevent_free`, and with `Exclusive = TRUE` no two calls on one event overlap
(calls on different events do, and the loop and the worker are never held back).
`ClientOps` and `CbOps` say which calls application threads and callbacks make.
A callback may make any number of calls. `Events` bounds the number of events
ever created; their memory is not used again, so that a use after free stays
visible, while slots are used again.

Left out: static events, `uevent_ref` and `uevent_unref` called by the user,
`uevent_active` on a descriptor event, the frees of `uevent_deinit`, and failing
`malloc` and mutexes.

### Nlmon

A list (`nlmon_filter_slot_t`) is a slot of `mem`, `NULL` while it is not
allocated, so that a use after free is seen. A change of the filters is load,
copy, exchange, free, each a step of the calling client (the copies are `Kept`
and `Without`); `want` is what the calls amount to when they take effect one
after the other. The thread looks at
`g_run`, waits in `select` for a message, a timeout or an error, loads the
pointer and walks the list callback by callback. A datagram holds one message, and a
message is an interface and flags. `usage` is the discipline of the
callers: with `"overlap"` calls on the filters overlap freely, with `"serial"`
there is one call at a time, with `"setup"` filters moreover change only while
the monitor is stopped. `nlmon_run` and `nlmon_stop` are always one at a time.
`fault` records that `pthread_create`, the socket or `select` has failed, `stale`
that a freed list was read or a thread joined that is not there.

### DbgTracer, TimeUtil, Syslog2

`DbgTracer`: a registry is what `trace_reg_init` maps; several threads may map
one. An attach loads `gtr` twice, once for the counter and once for the slot, with
the addition in between: these are three steps (`LoadCounter`, `DrawSlot`,
`trace_reg_attach_name`), so that an id may be drawn from one registry and used in
another. `late` records that a registry was mapped when a thread had gone to draw,
or cleared after a slot had been drawn from it. `early` says that `tracer_setup`
ran before the threads. Points are numbered
per thread (`hist`), so that the dump of a ring can be compared with what was
marked; the counter wraps at `IdxWrap`. A dump takes the address of a slot
through `gtr`, tests `used`, loads the count and reads the entries, each in steps
of its own, so that points are marked and registries replaced in between. A handler is removed by its first
signal (`SA_RESETHAND`); a fault without one kills the process. The name of a thread and the
reading of registers are left out; the hint is an operator over the lines of
`/proc/self/maps`.

`TimeUtil`: a second has `NS` ticks, a day `DAY` seconds and a year `YEAR` days,
so that a transition falls inside a day and its date may differ from year to year.
A zone file is its transitions, whether the POSIX tail has a summer time, and the
later transitions that the tail stands for. The code keeps of a file only the day of
the year of the last change to summer and to winter time, and compares whole UTC
days: `LocalExact` and `MonoExact` therefore exempt the seconds between a transition
and the start of the cached day in that year, and no others. Structures are written
and copied in parts; `timespec_sub` borrows after it has written the difference,
or keeps it in a register (`Stores`). `focus` chooses which cache is updated.

`Syslog2`: a line is written in two parts, so that two writers without the lock
would mix. `syslog2_init_once` blocks other first callers until it ends, as
`pthread_once` does. `serial` says whether `setup_syslog2` is called by one
thread at a time.

### The structures

Links are functions from entries and heads to entries, heads, `NULL` or a
poison value. Each module keeps beside them what the interface promises
(`content`, `map`, `order`, `live`: a sequence, a function, a set) and states
that every walk over the links gives just that, forwards and backwards. Memory
is explicit: `malloc` may fail at every call, freed nodes are used again and
keep stale links. `KernelList` has the functions of the kernel's `list.h` with poisoned links,
`List` those of the repository's own; `CircularList` runs the same calls on
either (`lib`). `HTable` uses `List`, `AssocArray` uses `KernelList`, both with
chains whose `pprev` is the cell that points to the node. In `LeakDetector`
`status` becomes `"undefined"` where the code dereferences `NULL` (no memory for
a record, `xfree` before the first allocation) or frees its static head
(`clear` after a report of one or more records); nothing is claimed from there on.

### GetLink, ArpCache, DhcpCapture

The kernel's part is data: `Dumps` and `Answers` are the datagrams it may send,
cut in different places, with errors, foreign devices and unusable messages. Every call
that can fail may fail. A message is its length and what the parser makes of it.
`ArpCache` keeps the unsigned arithmetic on lengths: a message below `MsgLen` bytes,
like the end of a dump, lets the rest of its length wrap around, `parse_arp_cache`
returns -1 and `main.c` goes on with that count. Where the program leaves its
buffer or its array `pc` becomes `"undefined"`, and nothing is claimed from there on.
`DhcpCapture` keeps the arithmetic on header lengths, the operation and the cookie;
options are encoded into the bytes that were captured (`Area`, with or without the
end mark) before they are searched, because the search could take data for a code.
Its limit is the place of the vendor area in the message less the cookie
(`calc_vendor_specific_size`), 232 bytes, whatever was captured; a search that reads
other bytes gives `Outside`. `OptionExact` says what is found when the end mark and a
byte behind it were captured and there is no padding, which the code takes for an
option with a length.

## 3. Runs

| Run | Instance | Shows |
|---|---|---|
| `heap_order` | 7 nodes, capacity 6, keys 0..2, `IdxMod` 7 | order, index map and refinement over all sequences of calls, refused inserts included. Six slots are a root with four children and one grandchild, the smallest 4-ary heap of three levels; three keys give ties and both directions of an update; 6 is the last capacity whose indices fit |
| `pool_extras` | 1 main and up to 2 extra workers, 3 events | the invariants of the pool, with spurious wake-ups and failing `pthread_create`; three events on three workers allow a queue longer than the workers, which is what starts extra ones |
| `pool_live` | 1 main, 1 extra worker, 2 events, fair | no wake-up is lost |
| `loop_wakeup` | 2 clients, a one-shot and a persistent timer | the loop oversleeps only behind a stale flag; deinit frees only after dispatch |
| `loop_live` | 1 client, pool, fair | a lost wake-up delays, but does not lose, a break, a timer or deinit |
| `loop_oversleep` | violation | the stale flag suppresses a wake-up |
| `life_free` | 1 client, 2 slots, 2 events, one-shot and persistent timers and descriptors, `Exclusive`, fair | references, slots, flags and counters are exact, no freed event is used and every freed event is destroyed, when timers are disarmed and freed in callbacks only and descriptors are not freed while the loop runs |
| `life_pool` | 1 client, a worker, 2 slots, 2 events, overlapping calls | the reference of the task keeps an event alive that the loop arms and queues again; `try_ref` meets an event that is being freed |
| `life_del_race` | violation | `uevent_del` of a timer against the loop: the reference of the heap is dropped twice |
| `sequential` | 2 heads and 3 entries (both lists), 3 items, 3 nodes with 4 keys and capacities 0 to 2, 3 entries with 3 keys in 2 buckets, 3 records and 3 addresses, 4 nodes of `slist`, 6 of the pointer heap; four dumps of up to three datagrams, answers of up to four messages around the size of the first buffer, with the end of the dump or not, packets on both sides of every length test, options that end, do not end, are padded, or lie around the end of the capture and the search limit | the seven structures agree with what they promise after every sequence of calls, with failing `malloc`; the three programs list what they were sent unless the kernel falls silent or messages are short, and release what they opened on every path |
| `leak_report` | violation | the report misses the block recorded last |
| `monitors` | 2 clients, 2 threads, 3 lists and 2 filters (`nlmon`); 2 threads on 2 slots with rings of 2 and 4 points (`dbg_tracer`); 5 zone files over 3 years of 5 days (`timeutil`); 2 threads with 2 calls each (`syslog2`); fair | ownership, exactness and progress under the disciplines of `usage`, `early` and `serial` |

Bounds. `Delays`, `Period` and `MaxTimeout` are in ticks and small: what matters
is which of a delay, the sleep and the cap is the longer one. `MaxBatch` stands
for the 500 of `uevent_handle_timers`, `MaxMult` for the multiplier 8 and
`ExtraTasks` for the 100 tasks of an extra worker. `MaxLate` bounds how late a
timer may get; it is at least `MaxTimeout`, so that the clock never stops while
the loop sleeps. `TriggerRounds = 1` instead of 3 makes the wake-ups of destroy
scarcer than in the code. In `EventLife` two events and two slots let one event
be destroyed and its slot taken by another while the loop or a client is still
at work on the first; the counterexamples need one event only.

In `sequential` three entries are the least number with a first, a middle and a
last one; six nodes make a binary heap of three levels whose last node has a
sibling or not. `MaxMsgs = 2` stands for 100 messages, `Small = 10` for 512 bytes,
`PerEntry = 5` for 50, `MsgLen = 3` for 28 and `LenWrap = 64` for 2^32; the lengths of
`DhcpCapture` are those of the code. In `monitors` two clients and three lists are one
published list and one in the hands of each client; a list has room for both
filters, so that walks, copies and removals meet lists of two (that a full list
refuses a further filter is proved only). Where calls come one at a time, one client
makes them (`CallerFixed`). A ring of two wraps twice within four points, and so does
its counter (`IdxWrap = 4`); without an early setup there are two points and one
fault. The zones are one of each hemisphere, with two years in the file and a third
that the tail stands for and all dates a day apart from year to year, one that gave up
summer time, one whose file ends without a tail, and one without transitions. These
runs do not check for deadlock: programs, processes and calls end there (a killed
process, bounded calls, the end of a capture).

Fairness. Every thread that can take a step eventually does (weak fairness of
each thread's steps: the scheduler of the operating system), callbacks return
(they are steps of their thread), and time passes. Nothing is assumed of
signals, errors, callers or the order in which waiters are woken. `loop_live`
assumes that signals do not interrupt `epoll_wait` for ever (`Signals = FALSE`).
In `monitors` the steps of calls that have begun and of the reading thread are
weakly fair; nobody has to make a call, and no message, failure or signal has to
come. `LogEnds` rests on the bound on calls: the spin lock promises no order.
In `life_free` a callback may go on calling the library, but it returns in the
end: strong fairness of `CbEnd`, because the step is disabled during each call.

Uses outside the passing runs. The constants of a model draw the line between
the uses of the code that are safe and those that are not; the violation runs
show two of the latter, and in `leak_report` a function that never does what its
comment says. The others can be seen by changing a configuration:

* `IdxMod = 6` with capacity 6 (`heap_order`): the index of the last slot is
  stored as 0, the mark of a node outside the heap, and `IndexMap` fails. In the
  code this is a heap of 65536 slots; `minheap_internal.h` stores slot + 1 in 16
  bits and `mh_create` accepts any capacity.
* `RekeyFull = TRUE` with as many nodes as slots (`heap_order`): `mh_insert`
  refuses an update in a full heap after the caller has changed the key, and
  the order and the refinement fail.
* `SlowExtras = TRUE` (`pool_extras`): a callback in a detached extra worker
  outlives the five seconds of `destroy`, and `NoUseAfterFree` fails.
* `EarlyDeinit = TRUE` (`loop_wakeup`): `uevent_deinit` meets a dispatch that has
  set `running` and not yet cleared `stopped`, and `NoDispatchAfterFree` fails.
* `Pooled = FALSE`, `LateAdds = TRUE` (`loop_live`): a callback arms a timer after
  `uevent_deinit` has begun; deinit frees the events with `base_mut` held,
  deleting the armed timer locks it again, and TLC reports a deadlock.
* `ClientOps <- ArmFd`, `CbOps <- FreeFd` (`life_free`): `uevent_handle_epoll`
  reads a descriptor event after the callback that freed it, and
  `NoUseAfterFree` fails.
* `life_free` with `Exclusive = FALSE`: `try_ref` drops the last reference with a
  plain subtraction after `uevent_free` has dropped its own, so that nobody
  destroys the event and `NoLeak` fails; with two clients that arm and disarm one
  timer, `uevent_add` falls between the two steps of `uevent_del` and
  `ActiveExact` fails.
* `life_pool` with `<<"free", PersistTimer>>` in `PoolCbOps`: a callback in a worker
  frees its persistent timer while the loop, which has dropped the reference of
  the heap, is about to fire it again, and `NoUseAfterFree` fails.

* `nlmon` with overlapping calls: updates are lost, and a list is read after it
  was freed; with filters changed while the thread runs (`"serial"`), the thread
  walks a freed list. After a failed `pthread_create` every later `nlmon_run` is refused
  until `nlmon_stop`, which joins a thread that is not there. `nlmon_run` that overtakes an `nlmon_stop` makes stop join
  the new thread, which nobody stops.
* `dbg_tracer` without `tracer_setup` before the threads, or with more threads
  than slots: two threads share a slot, or a slot is wiped (`Sound` excludes it). One
  thread may draw id 0 from a registry, take slot 0 of the one that another has just
  published, and lose it to that thread, which clears it and draws id 0 again.
* `timeutil` on the day of a transition, before its second, and on the days between
  the date of a transition and that of the last year in the file: the offset is that of
  the other half of the year.
* `assoc_array` with a key that is a prefix of another in the same bucket:
  `memcmp` over the size of the searched key matches the longer one, and
  `ArraySound` fails.
* `syslog2` with two calls of `setup_syslog2` at once: mask and level differ.
* `netlink_arp_cache`: an answer of at most 512 bytes is peeked at and never read, so
  that nothing is listed; `ListsAnswer` speaks of answers that were read. A message
  shorter than 50 bytes may leave the array too small, the end of a dump in the same
  datagram makes `main.c` index it with a count of -1, and after a failed `setsockopt`
  the socket stays open.
* `netlink_getlink`: silence of the kernel makes `get_netdev` return 0 with a part of
  the list; `ZeroIsComplete` exempts these calls.
* `libpcap-dhcp-capture`: without a captured end mark, and after padding, the search
  for option 12 reads bytes behind the capture.

The properties of `sequential` and `monitors` gather, for each
component, the invariants its module states and explains: `ArraySound`, say, is
`StructuresAgree`, `NewestFound` and `CollisionsExact` of `AssocArray`. The
type invariants of `WorkerPool` and `EventLoop` are proved (section 4) and are
not among the properties of the runs; that of `EventLife` is a part of its
inductive invariant.

Each property of a passing run has a mutant in `PROJECT.json`: a definition with
a plausible slip (marked "Mutant" or "A slip" in the modules) that breaks it; a
property that gathers several invariants has one for each of them.

## 4. Proofs

The theorems hold for every value of the constants that satisfies the hypotheses
named with them: any sets of threads, events, slots, filters and nodes, any
limits. Each hypothesis is a condition on the callers or on the build that the
instances of the passing runs satisfy; section 3 says what happens without it.

| Module | Theorems | Hypotheses |
|---|---|---|
| `MinHeapProofs` | `HeapInvariant`, `TypeCorrect`, `OrderCorrect` (`HeapOrder`), `IndexCorrect` (`IndexMap`), `QueueRefined` (`ImplementsPriorityQueue`) | `IdxFits` (the capacity is below `IdxMod`), `~RekeyFull` |
| `WorkerPoolProofs` | `PoolInvariant`, `PoolTypeCorrect`, `InPoolCorrect`, `CountersCorrect`, `BoundCorrect`, `IdleCorrect`, `FreeCorrect` | `~SlowExtras` |
| `EventLoopProofs` | `LoopTypeCorrect`; `OversleepCorrect`; `DeinitCorrect` | none; `~Pooled`; `~EarlyDeinit` |
| `EventLifeProofs` | `LifeInvariant`, `RefsCorrect` (`RefExact`), `SlotsCorrect` (`SlotsExact`), `AssertionUnderDiscipline` (`RefcountAssertion`, which fails without the hypothesis: `life_del_race`) | `TimersLeftToLoop` |
| `EventUseProofs` | `UseInvariant`, `UseCorrect` (`NoUseAfterFree`) | `TimersLeftToLoop`, `ArmedKept` |
| `EventExactProofs` | `StackInvariant`, `LeakCorrect` (`NoLeak`); `ActiveCorrect` (`ActiveExact`) | `TimersLeftToLoop`, `Exclusive`; also `TimedPersist` |
| `NlmonProofs` | `NlmonInvariant`, `ListsCorrect`, `FiltersCorrect` | `NlmonAssumption` (`NULL` is no slot, thread or list) |
| `MonitorProofs` | `TracerCorrect` (`TracerDumpSound`); `LogInvariant`, `LogCorrect` (`LogSound`) | `TracerAssumption` (positive sizes; the ring divides the range of its counter, as 256 does 2^32; addresses are numbers; `NULL` is nothing else); `LogAssumption` (`NULL` is no thread or function) |

**MinHeap.** `HeapOrder` and `IndexMap` speak of the heap between calls and are
not inductive: during a call the array has a hole. `HeapInv` adds what holds then.
`HoleInv` says where the hole is and that the sifted node is in no other slot;
`MapInv` is the index map for all slots but the hole; `OrderInv` is the order of
all pairs that do not touch the hole; `BridgeInv` relates the parent and the
children of the hole to each other, which is what lets a hole move or be filled;
`UpInv` says that while a node rises every child of the hole is no smaller than
it *once it has moved*, so that the sift down that follows at `start` finds
nothing to do there; `DownInv` says that while a node sinks the parent of the
hole is no larger than it. There is one lemma per action, and lemmas for the
arithmetic of parents and children and for what filling the hole restores.

For the refinement the content of the heap is the set of nodes in slots other
than the hole, and the sifted node. The moves of a sift leave it as it is, so
they are stutters of `PriorityQueue`; a call maps to the operation of the same
name. That `mh_extract_min` returns a least node needs the order along the path
from the root to every slot: the least slot with a smaller key than the root
would have a parent that breaks it too.

**WorkerPool.** The invariant has layers, each proved from those below. The
first says where the threads are and that `total_workers` counts them and the
reservations; while `pool_create` runs, its workers come no further than their
wait. The second is about the queue and its mutex, the third about the one
place of every event (outside, queued, with one worker), the fourth about
`active_tasks`. `IdleIsIdle` is the least obvious: `is_idle` reads
the queue and then the count without keeping the mutex, and it is right because
only the loop thread inserts and that thread is the one that asks.
`~SlowExtras` enters where destroy frees the pool after its bounded wait.

**EventLoop.** `OversleepNeedsFlag` is inductive together with the types, once
the minimum over the timers and the cap of `epoll_wait` are understood
(`LeastNatural` and the lemmas on minima). It is a property of a base without a
pool: in the other case a worker reads the eventfd and clears the flag at its own
time, when the loop may be waiting again. For
`NoDispatchAfterFree`, `CloseInv` follows the thread in `uevent_deinit`: past
its wait the loop is off and cannot start again.

**EventLife.** The discipline `TimersLeftToLoop` has two halves. Events with a
descriptor, and events that a thread other than the loop disarms, are not freed;
otherwise the loop handles events that are gone. And if threads other than the
loop disarm or free events with a timer, these are never armed and no armed
event is freed; otherwise `uevent_del`, which tests `active_timer` and takes the
node out of the heap in two steps, drops the reference of the heap a second
time when the loop fires the timer in between (`life_del_race`). `life_free`
satisfies it because timers are disarmed and freed in callbacks that the loop
runs, `life_pool` because what the client frees is never armed.

`RefExact` is not inductive. An event stays in its slot because a frame that
uses it owns a reference and the count is exact; the count is exact because
flags, heap and queue change together with it in every frame. `LifeInv` proves
both at once: `FramesInv` says what each function knows of its slot and event,
also while a function that it called runs; `ShapeInv` says which function can be
above which on a stack; `UniqueInv` what only one of all frames does (destroying
a slot, owning the reference of a task); `DelRefInv` why `uevent_del` outside
the loop meets a live event; `EventInv`, `EpollInv` and `FreeSlots` relate
slots, flags, heap and queue. Counts are sums of cardinalities over frames, so
that a step is described by what it does to the stack of its thread (replace the
last frame, call, return) and to the references its frames own. There is one
lemma per action.

`UseInv`, on top of `LifeInv`, is about frames that own no reference: a caller
before `uevent_try_ref` has succeeded, the loop between the report of a
descriptor and its callback, and the loop after `uevent_put` of a timer that it
is about to fire. `Known` says for which callers `try_ref` cannot fail, `LoopInv`
that the loop's own `uevent_free` has disarmed a timer before it sets
`pending_free`. `ArmedKept` (calls on one event do not overlap, or no armed event
is freed) excludes the thread that arms an event while another one frees it.

`NoLeak` and `ActiveExact` hold when the program serialises its calls on each
event (`Exclusive`). The model enforces this where a call of the API starts;
`StackInv` carries it through the library. `Passes` says that every function but
a callback passes its slot on to what it calls, so that the slot of a call stays
the same down the stack; `UsesOnce` that no two threads are inside calls on one
slot; `AutoInv` that the call the loop makes by itself disarms a descriptor that
is not persistent. A step either starts a call or works inside one (`Starts`,
`Works`), and each lemma about stacks is proved for these two.

For `NoLeak` the dangerous step is the plain subtraction with which a failed
`uevent_try_ref` undoes its addition. It never takes
the last reference: by `UseInv` only the try_ref of the worker can fail after its
increment when calls do not overlap, and the worker still owns the reference of
the task below on its stack, so that the count is 2 at least (`UndoKeeps`). For `ActiveExact`,
`HeapInv` says in addition that only the loop is ever between the two steps of
`remove_event_from_heap`. That nobody arms the timer in that moment (`NoRace`)
follows from `UsesOnce` if the loop is inside a call of a callback. If it
disarms by itself, it follows from `AutoInv` and `TimedPersist`: no one-shot
descriptor has a timer. Without that hypothesis a client may call `uevent_add`
on such an event while the loop disarms it, which `Exclusive` does not exclude,
because the loop's own call is none of the program's.

**Nlmon.** The invariant says who owns each list (the global pointer, or the call
that made it or took it away), what a call has copied, where the thread is in
its walk, and what each usage excludes: in `"serial"` one call at a time, in
`"setup"` no change while a thread lives. Uses after free with overlapping calls
are a behaviour of the code, and the properties say until when lists are exact.

**DbgTracer.** `TracerDumpSound` compares a finished listing with the points its
thread has marked, and nothing in that statement says why the two should agree.
`TracerInv` does, under the condition of the properties (`Sound`: no registry was
mapped once a thread had gone to draw, none cleared once a slot of it was drawn, no
more than `MAX_THR` slots were drawn). `EarlyInv` says that `tracer_setup` before the
threads gives the first two: `gtr` is set, and `trace_reg_init` returns at once.
`DrawnInv` is about the moment between the two loads of `gtr`: both give the same
registry, and an id that was drawn and not yet used is nobody else's. `SlotInv`: a slot
that was drawn is below `next` and one thread's own, and a registry nobody has
drawn from is as new. `AttachOK`: what a thread has at each step from the draw to
the second half of an entry. `RingOK`: the counter is the number of points modulo
`IdxWrap`, and the ring has the last `TRACE_N` of them at their remainders, but for
one that is half written. `ListOK`: as long as the owner of the slot has marked
nothing since the count was loaded, what is listed so far are the points in order,
and they are still in the ring. The wrap of the counter is why
`TRACE_N` must divide `IdxWrap`: only then is the place of a point the same for the
counter and for the number of points (the lemmas on remainders). After a fault
has stopped its thread half way through a point nothing is said of that thread's
ring any more; `Whole` and `Faulted` keep the two apart. `FaultInv` says that the
handlers are armed until the first fault. `HintCorrect` is about the operator
alone, for all lists of mappings.

**Syslog2.** One thread holds the spin lock and the open line is its own; one
thread runs the initialisation, and everybody beyond `pthread_once` has waited
for its end; between `setlogmask` and the assignment of `level` there is the one
call of `setup_syslog2`, if calls are serial.

Model-checked only:

* all liveness (`IdleReached`, `DestroyEnds`, `TaskServed`, `LoopEnds`,
  `TimerServed`, `DeinitEnds`, `FreeCompletes`, `CallsEnd`): fairness and
  `ENABLED` are outside the fragment the prover supports;
* the structures, whose properties compare recursive walks over links with
  sequences: this needs induction over data;
* the programs that ask the kernel or libpcap and `timeutil`, of which no proof was attempted: most of their
  properties are about what loops over datagrams, options and transitions compute.

## 5. Plan

1. `EventLife`: static events, the frees of `uevent_deinit`, references taken by
   the user.
2. Composition of `EventLoop` and `WorkerPool` at the callback interface.

## 6. Not modelled

* Hash functions (`hash.h`, `hash32_str`): a constant function in `AssocArray`
  and `HTable`; nothing depends on which one it is.
* Iterator macros that no module uses, `hlist_add_before` and its like.
* `dbg_tracer`: names of threads, `dump_maps`, registers of the signal context.
* `timeutil`: the atomic timespec helpers, `msleep`, the search for the name of
  the zone, the byte format of zone files.
* Formatting and printing everywhere; attributes of netlink messages beyond
  what decides about an entry.
* Overlapping calls of `nlmon_run` and `nlmon_stop`.
* Tests, benchmarks and examples.
