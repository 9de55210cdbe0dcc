-------------------------------- MODULE Nlmon --------------------------------
(***************************************************************************)
(* nlmon/nlmon.c: a thread reads link messages from the kernel and calls   *)
(* the callbacks of the filters that match; any thread may add, remove,    *)
(* clear or list filters and run or stop the monitor.  The filters are in  *)
(* an immutable list behind one atomic pointer: a change copies the list,  *)
(* exchanges the pointer and frees the list it got.  Every access to a     *)
(* shared variable is a step.  Nothing counts the readers of a list.       *)
(*                                                                         *)
(* usage says how the program calls the module: "overlap", where calls on  *)
(* the filters overlap in any way (and the monitor is not run); "serial",  *)
(* one call at a time; or "setup", where in addition filters change only   *)
(* while the monitor is stopped.                                           *)
(***************************************************************************)
EXTENDS NullPointer, Naturals, Sequences, SequencesExt

CONSTANTS Clients, Threads, Slots, Filters, Messages, MaxFilters

VARIABLES usage,
  g_filters, g_run, g_thread,
  mem,        \* slot -> the filters it holds, or NULL while it is not allocated
  cl,         \* client -> its place, its filter, whether it adds it, old and new
  th,         \* thread -> its place, the list it walks, the message and the index
  want,       \* the filters that the completed calls amount to, in order
  called,     \* the filters the last message was reported to, and those it should be
  stale,      \* whether freed memory was read, or a thread joined that is not there
  fault       \* what has failed: "create" a thread, its socket or select ("reader")

\* What nlmon.h and the comment in the loop say of a filter: it asks for events on
\* the listed interfaces, or on all if none is listed.
Due(f, m) == f.events \cap m.flags # {} /\ (f.idx = {} \/ m.idx \in f.idx)

\* The members of A among the first n elements of s, in order.
Kept(s, A, n) ==
  LET kept[i \in 0 .. Len(s)] ==
        IF i = 0 THEN <<>>
        ELSE IF s[i] \in A THEN Append(kept[i - 1], s[i])
        ELSE kept[i - 1]
  IN  kept[n]

\* The list without a filter: the others are copied one by one.
Without(s, f) == Kept(s, Filters \ {f}, Len(s))

vars == <<usage, g_filters, g_run, g_thread, mem, cl, th, want, called, stale, fault>>
shared == <<g_filters, g_run, g_thread, mem, want, stale, fault>>

Idle == [pc |-> "idle", f |-> NULL, add |-> FALSE, old |-> NULL, new |-> NULL]
Gone == [pc |-> "gone", list |-> NULL, m |-> NULL, i |-> 0]

Init ==
  /\ usage \in {"overlap", "serial", "setup"}
  /\ g_filters = NULL /\ g_run = FALSE /\ g_thread = NULL
  /\ mem = [s \in Slots |-> NULL]
  /\ cl = [c \in Clients |-> Idle] /\ th = [t \in Threads |-> Gone]
  /\ want = <<>> /\ called = [got |-> <<>>, due |-> <<>>] /\ stale = FALSE /\ fault = {}

Stopped == ~g_run /\ \A t \in Threads : th[t].pc = "gone"

MayCall(c) == cl[c].pc = "idle" /\ (usage # "overlap" => \A d \in Clients : cl[d].pc = "idle")
MayChange(c) == MayCall(c) /\ (usage = "setup" => Stopped)

MayRun(c) == MayCall(c) /\ usage # "overlap"

Goto(c, r) == cl' = [cl EXCEPT ![c] = r] /\ UNCHANGED <<usage, th, called>>
Return(c) == Goto(c, Idle)
At(c, pc) == cl[c].pc = pc

Note(bad) == stale' = (stale \/ bad)
Read(s) == Note(mem[s] = NULL)
Failed(what) == fault' = fault \cup {what}

(* Filters *)

\* filters_clone_and_add, filters_clone_and_remove: the list is loaded, calloc may
\* fail, and there may be nothing to remove from.
LoadList(c, f, add) ==
  /\ MayChange(c)
  /\ \/ Return(c) /\ UNCHANGED shared
     \/ /\ add \/ g_filters # NULL
        /\ \E s \in Slots :
             /\ mem[s] = NULL
             /\ mem' = [mem EXCEPT ![s] = <<>>]
             /\ Goto(c, [pc |-> "copy", f |-> f, add |-> add, old |-> g_filters, new |-> s])
        /\ UNCHANGED <<g_filters, g_run, g_thread, want, stale, fault>>

OldList(c) == IF cl[c].old = NULL \/ mem[cl[c].old] = NULL THEN <<>> ELSE mem[cl[c].old]

\* A copy of the old list is refused (the new slot is freed) or becomes the new list.
Copied(c, refused, list) ==
  /\ IF cl[c].old = NULL THEN UNCHANGED stale ELSE Read(cl[c].old)
  /\ IF refused THEN mem' = [mem EXCEPT ![cl[c].new] = NULL] /\ Return(c)
     ELSE mem' = [mem EXCEPT ![cl[c].new] = list] /\ Goto(c, [cl[c] EXCEPT !.pc = "publish"])
  /\ UNCHANGED <<g_filters, g_run, g_thread, want, fault>>

\* A slip: the old filters are not copied.
AddForgetsOld(c) ==
  /\ At(c, "copy") /\ cl[c].add
  /\ Copied(c, FALSE, <<cl[c].f>>)

\* A slip: a filter that is in the list already is not noticed.
CopyAgain(c) ==
  /\ At(c, "copy") /\ cl[c].add
  /\ Copied(c, Len(OldList(c)) >= MaxFilters, Append(OldList(c), cl[c].f))

filters_clone_and_add(c) ==
  /\ At(c, "copy") /\ cl[c].add
  /\ Copied(c, Contains(OldList(c), cl[c].f) \/ Len(OldList(c)) >= MaxFilters, Append(OldList(c), cl[c].f))

filters_clone_and_remove(c) ==
  /\ At(c, "copy") /\ ~cl[c].add
  /\ Copied(c, ~Contains(OldList(c), cl[c].f), Without(OldList(c), cl[c].f))

\* What the call amounts to for the program, if it makes one at a time.
Wanted(c) ==
  IF usage = "overlap" THEN <<>>
  ELSE IF cl[c].add THEN Append(want, cl[c].f)
  ELSE Without(want, cl[c].f)

\* A slip: the list that was copied is freed instead of the one exchanged.
FreeCopied(c) ==
  /\ At(c, "publish")
  /\ g_filters' = cl[c].new /\ want' = Wanted(c)
  /\ Goto(c, [cl[c] EXCEPT !.pc = "free", !.new = NULL])
  /\ UNCHANGED <<g_run, g_thread, mem, stale, fault>>

\* The exchange of nlmon_add_filter and nlmon_remove_filter.
Publish(c) ==
  /\ At(c, "publish")
  /\ g_filters' = cl[c].new /\ want' = Wanted(c)
  /\ Goto(c, [cl[c] EXCEPT !.pc = "free", !.old = g_filters, !.new = NULL])
  /\ UNCHANGED <<g_run, g_thread, mem, stale, fault>>

\* free(old)
FreeOld(c) ==
  /\ At(c, "free")
  /\ mem' = IF cl[c].old = NULL THEN mem ELSE [mem EXCEPT ![cl[c].old] = NULL]
  /\ Return(c)
  /\ UNCHANGED <<g_filters, g_run, g_thread, want, stale, fault>>

ExchangeNull(c) ==
  /\ g_filters' = NULL /\ want' = <<>>
  /\ Goto(c, [Idle EXCEPT !.pc = "free", !.old = g_filters])
  /\ UNCHANGED <<g_run, g_thread, mem, stale, fault>>

nlmon_clear_filters(c) == MayChange(c) /\ ExchangeNull(c)

\* The list is loaded, then its count and filters are read.
nlmon_list_filters(c) ==
  \/ /\ MayCall(c) /\ g_filters # NULL
     /\ Goto(c, [Idle EXCEPT !.pc = "list", !.old = g_filters])
     /\ UNCHANGED shared
  \/ /\ At(c, "list")
     /\ Read(cl[c].old) /\ Return(c)
     /\ UNCHANGED <<g_filters, g_run, g_thread, mem, want, fault>>

(* Run and stop *)

\* A slip: it does not matter whether the monitor runs already.
RunTwice(c) ==
  /\ MayRun(c)
  /\ g_run' = TRUE
  /\ Goto(c, [Idle EXCEPT !.pc = "create"])
  /\ UNCHANGED <<g_filters, g_thread, mem, want, stale, fault>>

nlmon_run(c) ==
  /\ MayRun(c)
  /\ g_run' = TRUE
  /\ IF g_run THEN Return(c) ELSE Goto(c, [Idle EXCEPT !.pc = "create"])
  /\ UNCHANGED <<g_filters, g_thread, mem, want, stale, fault>>

\* pthread_create: a failure leaves g_run set.
CreateThread(c) ==
  /\ At(c, "create")
  /\ cl' = [cl EXCEPT ![c] = Idle]
  /\ \/ Failed("create") /\ UNCHANGED <<g_thread, th>>
     \/ \E t \in Threads :
          /\ th[t].pc = "gone"
          /\ th' = [th EXCEPT ![t].pc = "open"] /\ g_thread' = t
          /\ UNCHANGED fault
  /\ UNCHANGED <<usage, called, g_filters, g_run, mem, want, stale>>

nlmon_stop(c) ==
  /\ MayRun(c) /\ g_run
  /\ g_run' = FALSE
  /\ Goto(c, [Idle EXCEPT !.pc = "join"])
  /\ UNCHANGED <<g_filters, g_thread, mem, want, stale, fault>>

\* pthread_join is called with the thread that g_thread names now, if it names one.
JoinThread(c) ==
  /\ At(c, "join")
  /\ Note(g_thread = NULL \/ th[g_thread].pc = "gone")
  /\ Goto(c, [cl[c] EXCEPT !.pc = "wait", !.new = g_thread])
  /\ UNCHANGED <<g_filters, g_run, g_thread, mem, want, fault>>

\* A slip: the thread is not waited for.
JoinNobody(c) ==
  /\ At(c, "wait")
  /\ cl' = [cl EXCEPT ![c].pc = "drop", ![c].new = NULL]
  /\ UNCHANGED <<usage, th, called, shared>>

\* pthread_join returns when the thread has ended, or at once if there is none.
Joined(c) ==
  /\ At(c, "wait")
  /\ cl[c].new # NULL => th[cl[c].new].pc \in {"done", "gone"}
  /\ th' = IF cl[c].new = NULL THEN th ELSE [th EXCEPT ![cl[c].new] = Gone]
  /\ cl' = [cl EXCEPT ![c].pc = "drop", ![c].new = NULL]
  /\ UNCHANGED <<usage, called, shared>>

DropFilters(c) == At(c, "drop") /\ ExchangeNull(c)

(* The thread *)

Step(t, r) == th' = [th EXCEPT ![t] = r] /\ UNCHANGED <<usage, cl, g_filters, g_run, g_thread, mem, want>>
ThAt(t, pc) == th[t].pc = pc
Jump(t, pc) == Step(t, [Gone EXCEPT !.pc = pc])

open_netlink_socket(t) ==
  /\ ThAt(t, "open")
  /\ \/ Jump(t, "loop") /\ UNCHANGED fault
     \/ Jump(t, "done") /\ Failed("reader")
  /\ UNCHANGED <<called, stale>>

\* A slip: the flag is not looked at.
RunForEver(t) ==
  /\ ThAt(t, "loop")
  /\ Jump(t, "select")
  /\ UNCHANGED <<called, stale, fault>>

CheckRun(t) ==
  /\ ThAt(t, "loop")
  /\ Jump(t, IF g_run THEN "select" ELSE "done")
  /\ UNCHANGED <<called, stale, fault>>

\* The timeout of a second, a signal, an empty recv; an error; a link message, for
\* which g_filters is loaded; other messages and unknown interfaces are skipped.
Select(t) ==
  /\ ThAt(t, "select")
  /\ UNCHANGED stale
  /\ \/ Jump(t, "loop") /\ UNCHANGED <<called, fault>>
     \/ Jump(t, "done") /\ Failed("reader") /\ UNCHANGED called
     \/ \E m \in Messages :
          /\ IF g_filters = NULL THEN Jump(t, "loop")
             ELSE Step(t, [pc |-> "handle", list |-> g_filters, m |-> m, i |-> 1])
          /\ called' = [got |-> <<>>, due |-> <<>>]
          /\ UNCHANGED fault

\* A slip: a filter without interfaces matches none.
MatchesListed(f, m) == f.events \cap m.flags # {} /\ m.idx \in f.idx

\* A filter without interfaces matches every interface.
Matches(f, m) == f.events \cap m.flags # {} /\ (m.idx \in f.idx \/ f.idx = {})

\* One filter of the list; the callback is called if it matches.
handle_netlink_msg(t) ==
  LET list == IF mem[th[t].list] = NULL THEN <<>> ELSE mem[th[t].list]
      i == th[t].i
      m == th[t].m
  IN  /\ ThAt(t, "handle")
      /\ Read(th[t].list)
      /\ IF i > Len(list) THEN Jump(t, "loop") /\ UNCHANGED called
         ELSE /\ called' =
                   IF usage # "setup" THEN called
                   ELSE [got |-> called.got \o (IF Matches(list[i], m) THEN <<list[i]>> ELSE <<>>),
                         due |-> Kept(want, {f \in Filters : Due(f, m)}, Min({i, Len(want)}))]
              /\ Step(t, [th[t] EXCEPT !.i = i + 1])
      /\ UNCHANGED fault

ClientStep(c) ==
  \/ filters_clone_and_add(c) \/ filters_clone_and_remove(c) \/ Publish(c) \/ FreeOld(c)
  \/ At(c, "list") /\ nlmon_list_filters(c)
  \/ CreateThread(c) \/ JoinThread(c) \/ Joined(c) \/ DropFilters(c)

Call(c) ==
  \/ \E f \in Filters, add \in BOOLEAN : LoadList(c, f, add)
  \/ nlmon_clear_filters(c)
  \/ At(c, "idle") /\ nlmon_list_filters(c)
  \/ nlmon_run(c) \/ nlmon_stop(c)

ThreadStep(t) == open_netlink_socket(t) \/ CheckRun(t) \/ Select(t) \/ handle_netlink_msg(t)

Next == (\E c \in Clients : Call(c) \/ ClientStep(c)) \/ (\E t \in Threads : ThreadStep(t))

Spec == Init /\ [][Next]_vars

\* A call goes on and a thread runs; nobody has to make a call.
FairSpec ==
  /\ Spec
  /\ \A c \in Clients : WF_vars(ClientStep(c))
  /\ \A t \in Threads : WF_vars(ThreadStep(t))

Owned(c) == ({cl[c].new} \cap Slots) \cup (IF At(c, "free") THEN {cl[c].old} \ {NULL} ELSE {})

\* However calls overlap, until one reads a list that another has freed, a list has
\* one owner: it is published, or one call has made it and not published it, or one
\* call has taken it away and is about to free it.  So no list is freed twice and
\* none is lost.  With one call at a time only the thread can walk a freed list; it
\* changes none, and ownership stays.
SlotsOwned ==
  (usage = "overlap" => ~stale) =>
    /\ {s \in Slots : mem[s] # NULL} = ({g_filters} \ {NULL}) \cup UNION {Owned(c) : c \in Clients}
    /\ \A c \in Clients : g_filters \notin Owned(c) /\ \A d \in Clients \ {c} : Owned(c) \cap Owned(d) = {}

\* However calls overlap, until one reads a freed list, a published list has at most
\* MaxFilters filters, no two equal.
ListSound ==
  (usage = "overlap" => ~stale) /\ g_filters # NULL =>
    Len(mem[g_filters]) <= MaxFilters /\ IsInjective(mem[g_filters])

\* If the program makes one call at a time, the published list is what its calls
\* amount to, also while the thread reads it.  (Overlapping calls lose updates.)
FiltersExact ==
  usage # "overlap" => want = IF g_filters = NULL THEN <<>> ELSE mem[g_filters]

\* If filters change only while the monitor is stopped, no freed list is read and no
\* thread is joined that is not there, unless pthread_create has failed.
NoUseAfterFree == usage = "setup" /\ "create" \notin fault => ~stale

\* In that usage the callbacks called for a message are, at each point of the walk,
\* those of the filters the program has asked for that match the message.
CallbacksExact == usage = "setup" => called.got = called.due

\* If the program makes one call at a time and nothing fails, there is one reader
\* while a further nlmon_run would be refused, and never more than one.
OneReader ==
  LET alive == {t \in Threads : th[t].pc # "gone"}
  IN  usage # "overlap" => /\ \A t, u \in alive : t = u
                           /\ g_run /\ fault = {} /\ (\A c \in Clients : At(c, "idle")) =>
                                alive = {g_thread} /\ th[g_thread].pc # "done"

\* A list of filters has one owner, is bounded and without duplicates, and is not
\* read after it was freed if filters change only while the monitor is stopped.
NlmonListsOwned == SlotsOwned /\ ListSound /\ NoUseAfterFree

\* Serial calls add up, there is one reader, and the callbacks it calls are those
\* asked for.
NlmonFiltersExact == FiltersExact /\ CallbacksExact /\ OneReader

\* If the program makes one call at a time, nlmon_stop returns: the thread looks at
\* g_run at least once a second and after every message.
StopEnds ==
  \A c \in Clients : usage # "overlap" /\ At(c, "wait") ~> At(c, "idle")
=============================================================================
