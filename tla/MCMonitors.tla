----------------------------- MODULE MCMonitors -----------------------------
(***************************************************************************)
(* The modules with threads beside the event loop, for TLC: the link       *)
(* monitor, the tracer, the local time and the log.  A variable chooses    *)
(* which of them runs.  The local time is an instance, the others are      *)
(* extended.                                                               *)
(***************************************************************************)
EXTENDS Nlmon, DbgTracer, Syslog2

VARIABLES which,
  focus, mono, jump, g_tz, g_off, up, rd, skew

tuVars == <<focus, mono, jump, g_tz, g_off, up, rd, skew>>
allVars == <<which, vars, trVars, tuVars, logVars>>

\* One filter for every interface and one for the first; a message for each of two.
MCFilters == {[events |-> {"up"}, idx |-> {}], [events |-> {"up"}, idx |-> {1}]}
MCMessages == {[flags |-> {"up"}, idx |-> 1], [flags |-> {"up"}, idx |-> 2]}

Map(a, b, x, o, p) == [start |-> a, end |-> b, rx |-> x, pgoff |-> o, path |-> p]
MCMaps == <<Map(2, 4, TRUE, 1, "exe"), Map(3, 5, TRUE, 1, NULL), Map(4, 6, TRUE, 0, "lib"), Map(6, 7, FALSE, 0, "lib")>>

\* Years of 5 days of 2 seconds.  Zones of both hemispheres, with two years in the file (one
\* had another offset before) and one that the tail stands for, the dates a day apart; one
\* without summer time any more; one whose file ends without a tail; one whose file has no
\* transitions.
Tr(t, o, d) == [t |-> t, off |-> o, isdst |-> d]
Files ==
  [north |-> [trans |-> <<Tr(1, 7, FALSE), Tr(3, 2, TRUE), Tr(7, 1, FALSE), Tr(13, 2, TRUE), Tr(18, 1, FALSE)>>,
              tail |-> "comma", later |-> <<Tr(23, 2, TRUE), Tr(27, 1, FALSE)>>],
   south |-> [trans |-> <<Tr(3, 3, FALSE), Tr(7, 4, TRUE), Tr(13, 3, FALSE), Tr(16, 4, TRUE)>>,
              tail |-> "comma", later |-> <<Tr(22, 3, FALSE), Tr(29, 4, TRUE)>>],
   fixed |-> [trans |-> <<Tr(3, 6, TRUE), Tr(6, 5, FALSE)>>, tail |-> "plain", later |-> <<>>],
   ended |-> [trans |-> <<Tr(2, 9, TRUE), Tr(7, 8, FALSE)>>, tail |-> "none", later |-> <<>>],
   empty |-> [trans |-> <<>>, tail |-> "plain", later |-> <<>>]]

C == INSTANCE TimeUtil WITH NS <- 2, DAY <- 2, YEAR <- 5, MaxTick <- 4,
                            Starts <- {2 * i : i \in 0 .. 29}, Jumps <- {30, 33}

MCInit ==
  /\ which \in {"nlmon", "dbg_tracer", "timeutil", "syslog2"}
  /\ Init /\ TracerInit /\ C!Init /\ LogInit
  /\ which # "nlmon" => usage = "setup"
  /\ which # "dbg_tracer" => early
  /\ which # "timeutil" => focus = "zone" /\ jump = 0
  /\ which # "syslog2" => serial

\* Bound: where calls come one at a time, one client makes them; the others could as well.
CallerFixed == usage # "overlap" => \A c \in Clients \ {CHOOSE c \in Clients : TRUE} : cl'[c] = Idle

MCNext ==
  /\ UNCHANGED which
  /\ \/ which = "nlmon" /\ Next /\ CallerFixed /\ UNCHANGED <<trVars, tuVars, logVars>>
     \/ which = "dbg_tracer" /\ TracerNext /\ UNCHANGED <<vars, tuVars, logVars>>
     \/ which = "timeutil" /\ C!Next /\ UNCHANGED <<vars, trVars, logVars>>
     \/ which = "syslog2" /\ LogNext /\ UNCHANGED <<vars, trVars, tuVars>>

\* Calls go on once they are made and the reading thread runs.
MCSpec ==
  /\ MCInit /\ [][MCNext]_allVars
  /\ \A c \in Clients : WF_vars(which = "nlmon" /\ ClientStep(c))
  /\ \A t \in Threads : WF_vars(which = "nlmon" /\ ThreadStep(t))
  /\ \A t \in Loggers : WF_logVars(which = "syslog2" /\ LogStep(t))

(* What each module promises is NlmonListsOwned and NlmonFiltersExact, TracerDumpSound,
   LogSound, and of the local time: *)

\* timeutil: the local time is what the zone's file says but around the transitions, which
\* the cache keeps as days of a year; the monotonic one is off by the update's delay only,
\* and a torn copy still gives some zone's offset.
LocalTimeSound == C!LocalExact /\ C!MonoExact /\ C!TornBounded

\* nlmon_stop returns, and a line of log that waits for the lock is written.
CallsEnd == StopEnds /\ LogEnds
=============================================================================
