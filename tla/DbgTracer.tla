------------------------------ MODULE DbgTracer ------------------------------
(***************************************************************************)
(* dbg_tracer/dbg_tracer.c: every thread marks the points it passes in a   *)
(* ring of its own, in a slot of a shared registry; a dump, on request or  *)
(* from the handler of a fault, lists the rings while the threads go on.   *)
(* Every access to a shared variable is a step.  early says whether        *)
(* tracer_setup ran before the other threads began.                        *)
(***************************************************************************)
EXTENDS NullPointer, Integers, Sequences, SequencesExt

CONSTANTS Traced,     \* the threads
  TRACE_N, MAX_THR,
  IdxWrap,            \* the counter of points is unsigned: 2^32 in the code
  MaxMarks,           \* bound: points marked
  Maps, PCs           \* the lines of /proc/self/maps, and program counters

\* The sizes are positive, the ring divides the range of the counter (256 and 2^32), and
\* NULL is nothing else.
TracerConstants ==
  /\ TRACE_N \in Nat \ {0} /\ MAX_THR \in Nat \ {0} /\ IdxWrap \in Nat \ {0} /\ IdxWrap % TRACE_N = 0
  /\ NULL \notin Traced \cup Nat \cup (Nat \X Nat) \cup {"SEGV", "ILL", "draw", "install"}
  /\ Maps \in Seq(Range(Maps)) /\ \A m \in Range(Maps) : {m.start, m.end, m.pgoff} \subseteq Nat
  /\ PCs \subseteq Nat

ASSUME TracerAssumption == TracerConstants

VARIABLES early,
  late,       \* whether a registry was mapped when a thread had gone to draw a slot, or
              \* cleared when a slot of it was drawn
  gtr,        \* the registry the pointer names: an index of regs, or NULL
  regs,       \* the registries mapped so far, each with next and slots
  me,         \* thread -> place, where trace_reg_init returns to, the registry it
              \* mapped or draws from, its slot, the id or index it drew, and how many
              \* points it had marked when it attached
  hist,       \* thread -> how many points it has marked: they are numbered
  dump,       \* thread -> its dump: slot and registry, count, index, what it listed, the
              \* points marked by then if the slot's thread was not marking one, the signal
  armed,      \* the signals whose handler is installed
  faults, proc

trVars == <<early, late, gtr, regs, me, hist, dump, armed, faults, proc>>

Signals == {"SEGV", "ILL"}
Ring == 0 .. TRACE_N - 1
Empty == [site |-> 0, t |-> 0]
Cleared == [used |-> FALSE, idx |-> 0, owner |-> NULL, ring |-> [r \in Ring |-> Empty]]
Registry == [next |-> 0, slots |-> [i \in 0 .. MAX_THR - 1 |-> Cleared]]
NoDump == [i |-> 0, r |-> NULL, n |-> -1, j |-> 0, list |-> <<>>, seen |-> -1, sig |-> NULL]

\* A slip: SIGILL is forgotten.
InstallSegvOnly == {"SEGV"}

tracer_install_segv == Signals

TracerInit ==
  /\ early \in BOOLEAN /\ late = FALSE
  /\ gtr = (IF early THEN 1 ELSE NULL)
  /\ regs = IF early THEN <<Registry>> ELSE <<>>
  /\ armed = IF early THEN tracer_install_segv ELSE {}
  /\ me = [t \in Traced |-> [pc |-> "idle", ret |-> NULL, reg |-> NULL, slot |-> NULL, k |-> 0, base |-> 0]]
  /\ hist = [t \in Traced |-> 0] /\ dump = [t \in Traced |-> NoDump]
  /\ faults = 0 /\ proc = "run"

Slot(s) == regs[s[1]].slots[s[2]]
Put(s, v) == regs' = [regs EXCEPT ![s[1]].slots[s[2]] = v]
Attached(t) == me[t].slot # NULL /\ Slot(me[t].slot).used
TrGo(t, pc) == me' = [me EXCEPT ![t].pc = pc]
TrAt(t, pc) == me[t].pc = pc
ReturnInit(t) == me' = [me EXCEPT ![t].pc = me[t].ret, ![t].ret = NULL, ![t].reg = NULL]

(* The registry *)

\* A thread has loaded gtr to draw a slot, or has drawn one.
Drawing == (\E u \in Traced : TrAt(u, "add")) \/ \E r \in DOMAIN regs : regs[r].next > 0

\* gtr is tested, the memory mapped and published; then it is cleared, through the
\* pointer or through the result of mmap, as the compiler likes.
trace_reg_init(t) ==
  \/ /\ TrAt(t, "init") /\ gtr # NULL
     /\ ReturnInit(t) /\ UNCHANGED <<gtr, regs, late>>
  \/ /\ TrAt(t, "init") /\ gtr = NULL
     /\ TrGo(t, "map") /\ UNCHANGED <<gtr, regs, late>>
  \/ /\ TrAt(t, "map")
     /\ regs' = Append(regs, Registry) /\ gtr' = Len(regs')
     /\ me' = [me EXCEPT ![t].pc = "clear", ![t].reg = gtr'] /\ late' = (late \/ Drawing)
  \/ /\ TrAt(t, "clear")
     /\ \E r \in {me[t].reg, gtr} :
          regs' = [regs EXCEPT ![r] = Registry] /\ late' = (late \/ regs[r].next > 0)
     /\ ReturnInit(t) /\ UNCHANGED gtr

\* Whether the slot is in use is tested again (a thread that shares it may be attaching to
\* it); if not, gtr is loaded for the counter.
LoadCounter(t) ==
  /\ TrAt(t, "draw")
  /\ IF Attached(t) THEN TrGo(t, "mark")
     ELSE me' = [me EXCEPT ![t].pc = "add", ![t].reg = gtr]

\* A slip: the counter is read and written back, not added to atomically.
DrawTwice(t) ==
  \/ /\ TrAt(t, "add") /\ UNCHANGED regs
     /\ me' = [me EXCEPT ![t].pc = "store", ![t].k = regs[me[t].reg].next]
  \/ /\ TrAt(t, "store") /\ regs' = [regs EXCEPT ![me[t].reg].next = me[t].k + 1]
     /\ me' = [me EXCEPT ![t].pc = "take", ![t].reg = NULL]

DrawSlot(t) ==
  /\ TrAt(t, "add")
  /\ regs' = [regs EXCEPT ![me[t].reg].next = @ + 1]
  /\ me' = [me EXCEPT ![t].pc = "take", ![t].reg = NULL, ![t].k = regs[me[t].reg].next]

\* gtr is loaded once more, for the slot; that is cleared, whoever has it, and named; then
\* it is marked as used.
trace_reg_attach_name(t) ==
  \/ /\ TrAt(t, "take")
     /\ me' = [me EXCEPT ![t].pc = "wipe", ![t].slot = <<gtr, me[t].k % MAX_THR>>, ![t].k = 0]
     /\ UNCHANGED <<regs, hist>>
  \/ /\ TrAt(t, "wipe")
     /\ Put(me[t].slot, [Cleared EXCEPT !.owner = t])
     /\ me' = [me EXCEPT ![t].pc = "use", ![t].base = hist[t]] /\ UNCHANGED hist
  \/ /\ TrAt(t, "use")
     /\ Put(me[t].slot, [Slot(me[t].slot) EXCEPT !.idx = 0, !.used = TRUE])
     /\ TrGo(t, "mark") /\ UNCHANGED hist

(* Marking and dumping *)

\* A thread attaches itself when it has no slot in use.  (Bounds: MaxMarks, or 2 in a
\* late setup; no new mark after a fault, but a requested dump meets new marks.)
BeginMark(t) ==
  /\ TrAt(t, "idle") /\ faults = 0 /\ MapThenSumSet(LAMBDA u : hist[u], Traced) < (IF early THEN MaxMarks ELSE 2)
  /\ IF Attached(t) THEN TrGo(t, "mark")
     ELSE IF gtr = NULL THEN me' = [me EXCEPT ![t].pc = "init", ![t].ret = "draw"]
     ELSE TrGo(t, "draw")

\* The index is drawn, the place written, then the time; safe_snprintf raises SIGSEGV
\* if the place is too long (see Fault).
tracer_mark_point(t) ==
  LET s == me[t].slot IN
  \/ /\ TrAt(t, "mark")
     /\ Put(s, [Slot(s) EXCEPT !.idx = (@ + 1) % IdxWrap])
     /\ hist' = [hist EXCEPT ![t] = @ + 1]
     /\ me' = [me EXCEPT ![t].pc = "site", ![t].k = Slot(s).idx % TRACE_N]
  \/ /\ TrAt(t, "site") /\ Put(s, [Slot(s) EXCEPT !.ring[me[t].k].site = hist[t]])
     /\ TrGo(t, "time") /\ UNCHANGED hist
  \/ /\ TrAt(t, "time") /\ Put(s, [Slot(s) EXCEPT !.ring[me[t].k].t = hist[t]])
     /\ me' = [me EXCEPT ![t].pc = "idle", ![t].k = 0] /\ UNCHANGED hist

\* A slip: the whole counter is dumped, not the last TRACE_N points.
StartZero(n) == 0

StartOf(n) == IF n > TRACE_N THEN n - TRACE_N ELSE 0

\* o is not marking a point: it is idle, or has asked for this dump itself.
Quiet(t, o) == TrAt(o, "idle") \/ (o = t /\ dump[t].sig = NULL)

\* One slot after the other, found through gtr; if it is in use (n is -2 then) its count is
\* loaded once, then the entries are read.
trace_dump_all(t) ==
  LET d == dump[t]
      s == regs[d.r].slots[d.i]
      e == s.ring[d.j % TRACE_N]
      NextSlot == [NoDump EXCEPT !.i = d.i + 1, !.sig = d.sig]
  IN  /\ TrAt(t, "dump") /\ gtr # NULL /\ d.i < MAX_THR
      /\ \/ /\ d.r = NULL
            /\ dump' = [dump EXCEPT ![t] = [d EXCEPT !.r = gtr]]
         \/ /\ d.r # NULL /\ d.n = -1
            /\ dump' = [dump EXCEPT ![t] = IF s.used THEN [d EXCEPT !.n = -2] ELSE NextSlot]
         \/ /\ d.r # NULL /\ d.n = -2
            /\ dump' = [dump EXCEPT ![t] = [d EXCEPT !.n = s.idx, !.j = StartOf(s.idx),
                          !.seen = IF s.owner # NULL /\ Quiet(t, s.owner) THEN hist[s.owner] ELSE -1]]
         \/ /\ d.n >= 0 /\ d.j < d.n
            /\ dump' = [dump EXCEPT ![t] = [d EXCEPT !.j = d.j + 1,
                          !.list = IF e.site = 0 THEN @ ELSE Append(@, e)]]
         \/ /\ d.n >= 0 /\ d.j >= d.n
            /\ dump' = [dump EXCEPT ![t] = NextSlot]

\* The dump is over: a request returns, a handler exits.
EndDump(t) ==
  /\ TrAt(t, "dump") /\ (gtr = NULL \/ dump[t].i = MAX_THR)
  /\ dump' = [dump EXCEPT ![t] = NoDump] /\ TrGo(t, "idle")
  /\ proc' = IF dump[t].sig = NULL THEN "run" ELSE "exited"

tracer_dump_now_fd(t) ==
  /\ TrAt(t, "idle") /\ faults = 0 /\ \A u \in Traced : ~TrAt(u, "dump")
  /\ TrGo(t, "dump")

(* Faults *)

\* A slip: the end of a mapping counts as inside.
HasEnd(m, pc) == m.rx /\ m.start <= pc /\ pc <= m.end

Has(m, pc) == m.rx /\ m.start <= pc /\ pc < m.end

\* The first executable line with the address: its path, and the offset if the
\* program (not the mapped file) is position independent.
segv_print_addr2line_hint(pc, pie) ==
  LET n == SelectInSeq(Maps, LAMBDA m : Has(m, pc) /\ m.path # NULL)
  IN  IF n = 0 THEN NULL
      ELSE [path |-> Maps[n].path,
            off |-> IF pie THEN pc - Maps[n].start + Maps[n].pgoff ELSE pc]

\* A late setup, by a thread that marks points as well: trace_reg_init, then the
\* handlers.  (Bound: at most one thread is in it, before any handler is there.)
tracer_setup(t) ==
  \/ /\ TrAt(t, "idle") /\ armed = {} /\ faults = 0
     /\ \A u \in Traced : me[u].ret # "install" /\ ~TrAt(u, "install")
     /\ me' = [me EXCEPT ![t].pc = "init", ![t].ret = "install"] /\ UNCHANGED armed
  \/ /\ TrAt(t, "install")
     /\ armed' = tracer_install_segv
     /\ TrGo(t, "idle")

\* A fault in any thread at any step.  The handler is installed for one signal only
\* (SA_RESETHAND); without it the process is killed.  (Bound: two faults, one in a late
\* setup.)
Fault(t, sig) ==
  /\ faults < (IF early THEN 2 ELSE 1) /\ ~TrAt(t, "dump") /\ \A u \in Traced : TrAt(u, "dump") => dump[u].sig # NULL
  /\ faults' = faults + 1
  /\ armed' = armed \ {sig}
  /\ IF sig \in armed
     THEN /\ TrGo(t, "dump") /\ dump' = [dump EXCEPT ![t] = [NoDump EXCEPT !.sig = sig]]
          /\ UNCHANGED proc
     ELSE proc' = "killed" /\ UNCHANGED <<me, dump>>

TracerNext ==
  /\ proc = "run"
  /\ UNCHANGED early
  /\ \E t \in Traced :
       \/ trace_reg_init(t) /\ UNCHANGED <<hist, dump, armed, faults, proc>>
       \/ LoadCounter(t) /\ UNCHANGED <<late, gtr, regs, hist, dump, armed, faults, proc>>
       \/ DrawSlot(t) /\ UNCHANGED <<late, gtr, hist, dump, armed, faults, proc>>
       \/ (trace_reg_attach_name(t) \/ tracer_mark_point(t)) /\ UNCHANGED <<late, gtr, dump, armed, faults, proc>>
       \/ BeginMark(t) /\ UNCHANGED <<late, gtr, regs, hist, dump, armed, faults, proc>>
       \/ trace_dump_all(t) /\ UNCHANGED <<late, gtr, regs, me, hist, armed, faults, proc>>
       \/ EndDump(t) /\ UNCHANGED <<late, gtr, regs, hist, armed, faults>>
       \/ tracer_dump_now_fd(t) /\ UNCHANGED <<late, gtr, regs, hist, dump, armed, faults, proc>>
       \/ tracer_setup(t) /\ UNCHANGED <<late, gtr, regs, hist, dump, faults, proc>>
       \/ \E sig \in Signals : Fault(t, sig) /\ UNCHANGED <<late, gtr, regs, hist>>

TracerSpec == TracerInit /\ [][TracerNext]_trVars

Sound == ~late /\ \A r \in DOMAIN regs : regs[r].next <= MAX_THR

\* If no registry was mapped once a thread had gone to draw a slot, and none cleared once a
\* slot of it was drawn, and no more than MAX_THR slots were drawn, then no two threads have
\* one slot.  With tracer_setup before the threads the first two are so; without it, two
\* threads that both find gtr NULL may share a slot.
SlotPrivate ==
  /\ early => ~late
  /\ Sound => \A t, u \in Traced : t # u /\ me[t].slot # NULL => me[t].slot # me[u].slot

\* What a dump has listed of a slot when it goes on to the next one: if the slot is
\* one thread's own and the thread marked nothing meanwhile, these are the last
\* points it marked, complete and in order; TRACE_N of them if it has marked so many,
\* unless its counter has wrapped around.
DumpExact ==
  \A d \in Traced :
    LET s == regs[dump[d].r].slots[dump[d].i]
        o == s.owner
        k == Len(dump[d].list)
        since == hist[o] - me[o].base
    IN  Sound /\ dump[d].seen >= 0 /\ dump[d].j >= dump[d].n /\ dump[d].seen = hist[o] =>
          /\ dump[d].list = [i \in 1 .. k |-> [site |-> hist[o] - k + i, t |-> hist[o] - k + i]]
          /\ k = Min({TRACE_N, since}) \/ (since >= IdxWrap /\ k = Min({TRACE_N, since % IdxWrap}))

\* Once the handlers are installed a single fault does not kill the process: it is
\* dumped before the process exits.
OneFaultDumped == early /\ faults < 2 => proc # "killed"

\* The hint a handler prints names the mapping of the program counter and its offset there if the
\* program is position independent, or its address if it is not.
HintExact ==
  (\E t \in Traced : dump[t].sig # NULL) => \A pc \in PCs, pie \in BOOLEAN :
    LET h == segv_print_addr2line_hint(pc, pie)
        Within == {i \in DOMAIN Maps : /\ Maps[i].rx /\ pc \in Maps[i].start .. Maps[i].end - 1
                                       /\ Maps[i].path # NULL}
    IN  IF Within = {} THEN h = NULL
        ELSE \E i \in Within :
               /\ h.path = Maps[i].path
               /\ h.off = IF pie THEN Maps[i].pgoff + (pc - Maps[i].start) ELSE pc

\* What the module promises: a slot has one thread, a dump has the last points it
\* marked, a single fault is dumped and its hint names the place.
TracerDumpSound == SlotPrivate /\ DumpExact /\ OneFaultDumped /\ HintExact
=============================================================================
