------------------------------- MODULE Syslog2 -------------------------------
(***************************************************************************)
(* syslog2/syslog2.c: lines of log written by many threads, to syslog and  *)
(* to the standard output.  The first call of any function initialises the *)
(* module (pthread_once); a spin lock protects the output; the level, the  *)
(* mask of syslog and the switch are set by setup_syslog2 without a lock.  *)
(* serial says whether one thread at a time calls setup_syslog2.           *)
(***************************************************************************)
EXTENDS NullPointer, Naturals, Sequences

CONSTANTS Loggers,    \* the threads
  Levels, Default,
  MaxCalls            \* bound: calls of each thread

\* NULL is neither a thread nor the name of a function.
NullIsNew == NULL \notin Loggers \cup {"setup", "log"}

ASSUME LogAssumption == NullIsNew

VARIABLES serial,
  once,               \* pthread_once: "no", "runs" or "done"
  level, mask, log_syslog, stdout_lock,
  ready,              \* whether tu_init has run
  open,               \* the thread whose line is half written
  torn,               \* whether a line was written into another
  calls,              \* thread -> its calls
  logger              \* thread -> place, function, priority or level, use_syslog

settings == <<level, mask, log_syslog>>
output == <<stdout_lock, open, torn>>
logVars == <<serial, once, settings, output, ready, calls, logger>>

NoCall == [pc |-> "idle", fn |-> NULL, pri |-> NULL, use |-> FALSE]

LogInit ==
  /\ serial \in BOOLEAN
  /\ once = "no" /\ level = Default /\ mask = NULL /\ log_syslog = TRUE
  /\ stdout_lock = FALSE /\ ready = FALSE /\ open = NULL /\ torn = FALSE
  /\ calls = [t \in Loggers |-> 0] /\ logger = [t \in Loggers |-> NoCall]

LogAt(t, pc) == logger[t].pc = pc
LogGo(t, pc) == logger' = [logger EXCEPT ![t].pc = pc]
LogReturn(t) == logger' = [logger EXCEPT ![t] = NoCall]

\* A call of setup_syslog2 or of one of the functions that log.
LogCall(t) ==
  /\ LogAt(t, "idle") /\ calls[t] < MaxCalls
  /\ calls' = [calls EXCEPT ![t] = @ + 1]
  /\ \E pri \in Levels, fn \in {"setup", "log"}, use \in BOOLEAN :
       /\ fn = "setup" /\ serial => \A u \in Loggers : logger[u].fn # "setup"
       /\ fn = "log" => ~use
       /\ logger' = [logger EXCEPT ![t] = [pc |-> "once", fn |-> fn, pri |-> pri, use |-> use]]
  /\ UNCHANGED <<serial, once, settings, output, ready>>

\* A slip: a flag instead of pthread_once, set before the work is done.
OnceFlag(t) ==
  \/ /\ LogAt(t, "once") /\ once = "no"
     /\ once' = "done" /\ LogGo(t, "init") /\ UNCHANGED <<mask, ready>>
  \/ /\ LogAt(t, "init")
     /\ mask' = level /\ ready' = TRUE /\ LogGo(t, logger[t].fn) /\ UNCHANGED once
  \/ /\ LogAt(t, "once") /\ once = "done"
     /\ LogGo(t, logger[t].fn) /\ UNCHANGED <<once, mask, ready>>

\* pthread_once: the first thread runs it, the others wait for it.
syslog2_init_once(t) ==
  \/ /\ LogAt(t, "once") /\ once = "no"
     /\ once' = "runs" /\ LogGo(t, "init") /\ UNCHANGED <<mask, ready>>
  \/ /\ LogAt(t, "init")
     /\ mask' = level /\ ready' = TRUE /\ once' = "done" /\ LogGo(t, logger[t].fn)
  \/ /\ LogAt(t, "once") /\ once = "done"
     /\ LogGo(t, logger[t].fn) /\ UNCHANGED <<once, mask, ready>>

\* A slip: the mask of syslog stays as it was.
SetupKeepsMask(t) ==
  \/ LogAt(t, "setup") /\ LogGo(t, "level") /\ UNCHANGED settings
  \/ LogAt(t, "level") /\ level' = logger[t].pri /\ LogGo(t, "switch") /\ UNCHANGED <<mask, log_syslog>>
  \/ LogAt(t, "switch") /\ log_syslog' = logger[t].use /\ LogReturn(t) /\ UNCHANGED <<level, mask>>

\* setlogmask, then the level, then the switch.
setup_syslog2(t) ==
  \/ LogAt(t, "setup") /\ mask' = logger[t].pri /\ LogGo(t, "level") /\ UNCHANGED <<level, log_syslog>>
  \/ LogAt(t, "level") /\ level' = logger[t].pri /\ LogGo(t, "switch") /\ UNCHANGED <<mask, log_syslog>>
  \/ LogAt(t, "switch") /\ log_syslog' = logger[t].use /\ LogReturn(t) /\ UNCHANGED <<level, mask>>

\* A slip: the lock is tested, then set.
TestThenSet(t) ==
  \/ LogAt(t, "lock") /\ ~stdout_lock /\ LogGo(t, "set") /\ UNCHANGED output
  \/ LogAt(t, "set") /\ stdout_lock' = TRUE /\ LogGo(t, "write") /\ UNCHANGED <<open, torn>>

\* Spin until the test-and-set succeeds.
lock_stdout(t) ==
  /\ LogAt(t, "lock") /\ ~stdout_lock
  /\ stdout_lock' = TRUE
  /\ LogGo(t, "write") /\ UNCHANGED <<open, torn>>

\* A slip: the lock is kept.
UnlockNever(t) == LogAt(t, "unlock") /\ LogReturn(t) /\ UNCHANGED output

unlock_stdout(t) ==
  /\ LogAt(t, "unlock")
  /\ stdout_lock' = FALSE
  /\ LogReturn(t) /\ UNCHANGED <<open, torn>>

\* The level is tested; the line goes to syslog if the switch is on, then to the
\* output (syslog2_printf_ writes no empty one), in two parts if the write is not
\* atomic; a short write is not repeated.
syslog2_(t) ==
  \/ LogAt(t, "log") /\ (IF logger[t].pri > level THEN LogReturn(t) ELSE LogGo(t, "syslog")) /\ UNCHANGED output
  \/ LogAt(t, "syslog") /\ (LogGo(t, "lock") \/ LogReturn(t)) /\ UNCHANGED output
  \/ LogAt(t, "write") /\ open' = t /\ torn' = (torn \/ open # NULL) /\ LogGo(t, "rest") /\ UNCHANGED stdout_lock
  \/ LogAt(t, "rest") /\ open' = NULL /\ torn' = (torn \/ open # t) /\ LogGo(t, "unlock") /\ UNCHANGED stdout_lock

LogStep(t) ==
  \/ syslog2_init_once(t) /\ UNCHANGED <<serial, level, log_syslog, output, calls>>
  \/ setup_syslog2(t) /\ UNCHANGED <<serial, once, output, ready, calls>>
  \/ (syslog2_(t) \/ lock_stdout(t) \/ unlock_stdout(t)) /\ UNCHANGED <<serial, once, settings, ready, calls>>

LogNext == \E t \in Loggers : LogCall(t) \/ LogStep(t)

LogSpec == LogInit /\ [][LogNext]_logVars

LogFairSpec == LogSpec /\ \A t \in Loggers : WF_logVars(LogStep(t))

\* No line is written into another, and one thread at a time has the lock.
LinesWhole ==
  ~torn /\ \A t, u \in Loggers : LogAt(t, "write") /\ LogAt(u, "rest") => t = u

\* A line is formatted with the local time only after tu_init has loaded the zone,
\* however many threads make their first call at once.
ReadyFirst == \A t \in Loggers : logger[t].pc \notin {"idle", "once", "init"} => ready

\* If one thread at a time calls setup_syslog2, the mask of syslog is the level of
\* this module whenever no call of it is under way.  (Two calls at once may leave the
\* mask of one and the level of the other.)
MaskIsLevel ==
  serial /\ once = "done" /\ (\A t \in Loggers : logger[t].fn # "setup") => mask = level

\* What the module promises of the lines, of its first call and of its settings.
LogSound == LinesWhole /\ ReadyFirst /\ MaskIsLevel

\* A line that waits for the lock is written at last, once the calls cease: the lock
\* promises no order, so that lines without end could overtake it.
LogEnds == \A t \in Loggers : LogAt(t, "lock") ~> LogAt(t, "idle")
=============================================================================
