------------------------------- MODULE TimeUtil -------------------------------
(***************************************************************************)
(* timeutil/timeutil.c: the local time from a cache of the time zone, and  *)
(* from the monotonic clock with a cached distance to the real one.  The   *)
(* caches are plain structures: one thread writes them part by part while  *)
(* another copies them part by part.  A second has NS ticks, a day DAY     *)
(* seconds and a year YEAR days.                                           *)
(***************************************************************************)
EXTENDS Integers, Sequences, SequencesExt, FiniteSetsExt

CONSTANTS NS, DAY, YEAR,
  Files,              \* zone name -> its file: transitions, POSIX tail, and the later
                      \* transitions that the tail stands for; or NULL
  MaxTick,            \* bound on the clock
  Starts, Jumps,      \* how far the real clock is ahead: where only the zone is updated,
                      \* and where the clock is set and its distance updated
  NULL

VARIABLES
  focus,              \* what is updated during the run: the "zone" or the "clock" distance
  mono, jump,         \* the monotonic clock; the real clock is jump ahead of it
  g_tz, g_off,        \* the cached zone, in two parts; the cached distance
  up,                 \* the updating thread: place, what it loads or has read
  rd,                 \* the reading thread: place, clock, copies, whether undisturbed
  skew                \* ticks between the two clock reads of the last update, or NULL

vars == <<focus, mono, jump, g_tz, g_off, up, rd, skew>>

Parts == {"off", "rule"}
NoZone == [off |-> [std |-> 0, day |-> 0], rule |-> [ss |-> 0, ws |-> 0, dst |-> FALSE, name |-> NULL]]
Zero == [s |-> 0, n |-> 0]
Timespec(t) == [s |-> t \div NS, n |-> t % NS]
Ticks(ts) == ts.s * NS + ts.n
yday(sec) == (sec \div DAY) % YEAR

(* The algorithms *)

Difference(a, b) == [s |-> a.s - b.s, n |-> a.n - b.n]

\* A slip: no borrow.
SubNoBorrow(a, b) == Difference(a, b)

timespec_sub(a, b) ==
  LET d == Difference(a, b) IN IF d.n < 0 THEN [s |-> d.s - 1, n |-> d.n + NS] ELSE d

\* What timespec_sub stores in its result: if it borrows, it may have written the
\* difference before, or the compiler keeps that in a register.
Stores(a, b) ==
  {<<timespec_sub(a, b)>>} \cup
    (IF a.n < b.n THEN {<<Difference(a, b), timespec_sub(a, b)>>} ELSE {})

\* A slip: no carry.
AddNoCarry(a, b) == [s |-> a.s + b.s, n |-> a.n + b.n]

timespec_add(a, b) ==
  IF a.n + b.n >= NS THEN [s |-> a.s + b.s + 1, n |-> a.n + b.n - NS]
  ELSE [s |-> a.s + b.s, n |-> a.n + b.n]

\* The last transition to summer and the last to winter time, the tail deciding
\* whether the zone still has a summer time.  A file without transitions is refused.
parse_tzdata(file, name) ==
  LET sum == SelectSeq(file.trans, LAMBDA x : x.isdst)
      win == SelectSeq(file.trans, LAMBDA x : ~x.isdst)
      std == IF win = <<>> THEN 0 ELSE Last(win).off
      saw == sum # <<>>
  IN  [off |-> [std |-> std, day |-> IF saw THEN Last(sum).off ELSE std],
       rule |-> [ss |-> IF saw THEN yday(Last(sum).t) ELSE -1,
                 ws |-> IF saw /\ win # <<>> THEN yday(Last(win).t) ELSE -1,
                 dst |-> IF file.tail = "none" THEN saw ELSE file.tail = "comma",
                 name |-> name]]

\* The zone's file may be missing or unreadable.
load_and_parse_tz(name) ==
  IF Files[name] = NULL \/ Files[name].trans = <<>> THEN NULL ELSE parse_tzdata(Files[name], name)

\* A slip: summer never spans the new year.
NorthOnly(tz, sec) ==
  IF tz.rule.dst /\ yday(sec) >= tz.rule.ss /\ yday(sec) < tz.rule.ws THEN tz.off.day ELSE tz.off.std

fast_calc_offset(tz, sec) ==
  LET d == yday(sec)
      r == tz.rule
      summer == IF r.ss < r.ws THEN d >= r.ss /\ d < r.ws ELSE d >= r.ss \/ d < r.ws
  IN  IF r.dst /\ summer THEN tz.off.day ELSE tz.off.std

\* (Bound: the clock's distance is updated in zones with a summer time.)
Init ==
  /\ focus \in {"zone", "clock"}
  /\ mono = 0 /\ jump \in IF focus = "zone" THEN Starts ELSE Jumps
  /\ g_off = Zero
  /\ IF focus = "zone" THEN g_tz = NoZone
     ELSE g_tz \in {load_and_parse_tz(z) : z \in {z \in DOMAIN Files : Files[z].tail = "comma"}}
  /\ up = [pc |-> "idle", tz |-> NULL, a |-> 0, todo |-> {}]
  /\ rd = [pc |-> "idle", how |-> "local", at |-> 0, ts |-> Zero, off |-> Zero, tz |-> NoZone, todo |-> {}, clean |-> TRUE]
  /\ skew = NULL

(* The clocks and the zone *)

\* (Where only the zone is updated, the one clock that is read has any time from the start.)
Tick == focus = "clock" /\ mono < MaxTick /\ mono' = mono + 1 /\ UNCHANGED <<focus, jump, g_tz, g_off, up, rd, skew>>

Disturb == rd' = IF rd.pc = "idle" THEN rd ELSE [rd EXCEPT !.clean = FALSE]

SetClock ==
  /\ focus = "clock"
  /\ \E j \in Jumps : j > jump /\ jump' = j
  /\ skew' = NULL /\ Disturb
  /\ up' = IF up.pc \in {"sec", "nsec"} THEN [up EXCEPT !.a = NULL] ELSE up
  /\ UNCHANGED <<focus, mono, g_tz, g_off>>

(* Updates *)

\* The system names a zone; nothing is done for the one that is cached; a zone that cannot be loaded leaves
\* the cache as it is.  The copy into the cache goes part by part.
tu_update_offset ==
  \/ /\ up.pc = "idle" /\ focus = "zone"
     /\ \E sys \in DOMAIN Files :
          /\ g_tz.rule.name # sys /\ load_and_parse_tz(sys) # NULL
          /\ up' = [up EXCEPT !.pc = "copy", !.tz = load_and_parse_tz(sys), !.todo = Parts]
     /\ UNCHANGED <<focus, mono, jump, g_tz, g_off, rd, skew>>
  \/ /\ up.pc = "copy"
     /\ \E p \in up.todo :
          /\ g_tz' = [g_tz EXCEPT ![p] = up.tz[p]]
          /\ up' = IF up.todo = {p} THEN [up EXCEPT !.pc = "idle", !.tz = NULL, !.todo = {}]
                   ELSE [up EXCEPT !.todo = @ \ {p}]
     /\ Disturb
     /\ UNCHANGED <<focus, mono, jump, g_off, skew>>

\* One clock is read, then the other; then the two fields are written, once or twice.
tu_update_mono_real_offset ==
  \/ /\ up.pc = "idle" /\ focus = "clock"
     /\ up' = [up EXCEPT !.pc = "real", !.a = mono]
     /\ UNCHANGED <<focus, mono, jump, g_tz, g_off, rd, skew>>
  \/ /\ up.pc = "real"
     /\ \E w \in Stores(Timespec(mono + jump), Timespec(up.a)) :
          up' = [up EXCEPT !.pc = "sec", !.tz = w, !.a = mono - up.a]
     /\ UNCHANGED <<focus, mono, jump, g_tz, g_off, rd, skew>>
  \/ /\ up.pc = "sec"
     /\ g_off' = [g_off EXCEPT !.s = up.tz[1].s] /\ up' = [up EXCEPT !.pc = "nsec"]
     /\ Disturb
     /\ UNCHANGED <<focus, mono, jump, g_tz, skew>>
  \/ /\ up.pc = "nsec"
     /\ g_off' = [g_off EXCEPT !.n = up.tz[1].n]
     /\ IF Len(up.tz) > 1 THEN up' = [up EXCEPT !.pc = "sec", !.tz = Tail(@)] /\ UNCHANGED skew
        ELSE up' = [pc |-> "idle", tz |-> NULL, a |-> 0, todo |-> {}] /\ skew' = up.a
     /\ Disturb
     /\ UNCHANGED <<focus, mono, jump, g_tz>>

(* Reading *)

ReadClock(how) ==
  /\ rd.pc = "idle" /\ (how = "mono") = (focus = "clock")
  /\ rd' = [rd EXCEPT !.pc = IF how = "local" THEN "copy" ELSE "sec", !.how = how, !.at = mono + jump,
                      !.ts = Timespec(IF how = "local" THEN mono + jump ELSE mono),
                      !.todo = Parts, !.clean = up.pc \in {"idle", "real"}]
  /\ UNCHANGED <<focus, mono, jump, g_tz, g_off, up, skew>>

\* The distance is read field by field and added.
AddDistance ==
  \/ rd.pc = "sec" /\ rd' = [rd EXCEPT !.pc = "nsec", !.off.s = g_off.s]
  \/ rd.pc = "nsec" /\ rd' = [rd EXCEPT !.pc = "copy", !.off = Zero,
                                        !.ts = timespec_add(rd.ts, [rd.off EXCEPT !.n = g_off.n])]

\* The zone is copied, then the offset is taken from the copy.
AddZone ==
  \/ /\ rd.pc = "copy" /\ rd.todo # {}
     /\ \E p \in rd.todo : rd' = [rd EXCEPT !.tz[p] = g_tz[p], !.todo = @ \ {p}]
  \/ /\ rd.pc = "copy" /\ rd.todo = {}
     /\ rd' = [rd EXCEPT !.pc = "done", !.off.s = fast_calc_offset(rd.tz, rd.ts.s)]

\* The caller has the sum.
Return ==
  /\ rd.pc = "done"
  /\ rd' = [pc |-> "idle", how |-> "local", at |-> 0, ts |-> Zero, off |-> Zero, tz |-> NoZone, todo |-> {}, clean |-> TRUE]

Next ==
  \/ Tick \/ SetClock
  \/ tu_update_offset \/ tu_update_mono_real_offset
  \/ ReadClock("local") \/ ReadClock("mono")
  \/ (AddDistance \/ AddZone \/ Return) /\ UNCHANGED <<focus, mono, jump, g_tz, g_off, up, skew>>

Spec == Init /\ [][Next]_vars

\* What a zone's file says of a second: the offset of the last transition not after it, the
\* ones that the tail stands for included.
Transitions(name) == Files[name].trans \o Files[name].later
TrueOffset(name, sec) ==
  LET tr == Transitions(name) IN tr[Max({i \in DOMAIN tr : tr[i].t <= sec})].off

\* The transitions since which the zone has its present rule: none of them has other offsets
\* than the last ones, or a summer time that the tail does not have.
Settled(tz) ==
  LET tr == Transitions(tz.rule.name)
      Present(x) == IF x.isdst THEN tz.rule.dst /\ x.off = tz.off.day ELSE x.off = tz.off.std
  IN  {tr[i] : i \in {i \in DOMAIN tr : \A j \in i .. Len(tr) : Present(tr[j])}}

\* The cache has the day of the year of the last change only, and no hour: in every year it
\* changes at the start of that day (UTC), be it before or after the transition x.
YearStart(sec) == sec - (sec % (DAY * YEAR))
Shifted(tz, x) ==
  LET change == YearStart(x.t) + DAY * (IF x.isdst THEN tz.rule.ss ELSE tz.rule.ws)
  IN  Min({x.t, change}) .. Max({x.t, change}) - 1

\* A file without a tail says nothing of later years than its last transition's.
Exact(tz, sec, off) ==
  /\ \E x \in Settled(tz) : x.t <= sec
  /\ \A x \in Settled(tz) : sec \notin Shifted(tz, x)
  /\ Files[tz.rule.name].tail = "none" => YearStart(sec) <= YearStart(Last(Transitions(tz.rule.name)).t)
  => off = TrueOffset(tz.rule.name, sec)

Undisturbed == rd.pc = "done" /\ rd.clean /\ rd.tz.rule.name # NULL

\* The local time is the real time and the offset that the file of the cached zone has
\* for it, on both hemispheres, if no update wrote the caches meanwhile; but between a
\* transition and the start of the day of that year on which the file's last one was.
LocalExact ==
  Undisturbed /\ rd.how = "local" => Ticks(rd.ts) = rd.at /\ Exact(rd.tz, rd.ts.s, rd.off.s)

\* The local time from the monotonic clock is normalised and ahead of the local time
\* by exactly the time that passed between the two clock reads of the last update, if
\* the real clock was not set since.
MonoExact ==
  Undisturbed /\ rd.how = "mono" /\ skew # NULL =>
    rd.ts = Timespec(rd.at + skew) /\ Exact(rd.tz, rd.ts.s, rd.off.s)

\* Even a copy torn by an update (the comment in the code admits the race) gives an
\* offset of some zone, and nanoseconds less than a second away from 0 on either side:
\* a reader that meets a difference before its borrow may return negative ones.
TornBounded ==
  rd.pc = "done" =>
    /\ rd.off.s \in {0} \cup UNION {{x.off : x \in ToSet(Files[z].trans)} : z \in DOMAIN Files}
    /\ rd.ts.n \in 1 - NS .. NS - 1
=============================================================================
