---------------------------- MODULE MCEventLife ----------------------------
(* Model of EventLife for TLC: the calls that clients and callbacks make.  *)
EXTENDS EventLife

Symmetry == Permutations(Events) \cup Permutations(Clients)

Timer == {"timeout"}
PersistTimer == {"timeout", "persist"}
Fd == {"fd"}
PersistFd == {"fd", "persist"}

OneShot == {Timer}
Fds == {Fd}
MixedKinds == {Timer, PersistTimer, Fd}
PoolKinds == {Timer, PersistTimer, PersistFd}

Timers == {Timer, PersistTimer}

\* Clients create and arm events and disarm descriptors; the rest is done in
\* callbacks, and descriptor events are not freed while the loop runs.
SafeClientOps == ({"create", "add", "peek"} \X Timers)
                   \cup ({"create", "add", "del"} \X Fds)
SafeCbOps == ({"add", "del", "free"} \X Timers) \cup ({"add", "del"} \X Fds)

\* Callbacks in a worker look at, arm and disarm events; what a client frees
\* meanwhile, and callbacks may be looking at, was never armed.
PoolClientOps == ({"create", "add"} \X {PersistTimer})
                   \cup ({"create", "add", "del"} \X {PersistFd})
                   \cup ({"create", "free"} \X {Timer})
PoolCbOps == {<<"add", PersistTimer>>, <<"add", PersistFd>>,
              <<"del", PersistFd>>, <<"peek", Timer>>}

\* What the header allows and the library does not survive.
ArmAndDel == {"create", "add", "del"} \X OneShot
ArmFd == {"create", "add"} \X Fds
FreeFd == {"free"} \X Fds
NoOps == {}
=============================================================================
