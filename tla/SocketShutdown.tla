--------------------------- MODULE SocketShutdown ---------------------------
(***************************************************************************)
(* Shutdown of a magicsock.  Background tasks are spawned through a        *)
(* TaskRegistry, which keeps their join handles until it is closed.        *)
(* Magicsock::shutdown closes admission, starts one detached shutdown      *)
(* flight that aborts and joins the tasks, and waits for it with a         *)
(* deadline; request_shutdown (and Drop) only close admission and abort.   *)
(* Both may be called from several threads.                                *)
(***************************************************************************)
EXTENDS Naturals, FiniteSets

CONSTANTS
  BackgroundTasks, \* background tasks the socket may spawn
  PeerTasks,       \* those of them in Inner.background_tasks, one per peer
  Callers,         \* calls of shutdown
  Requesters       \* calls of request_shutdown

ASSUME ShutdownAssumption == Callers \cap Requesters = {} /\ PeerTasks \subseteq BackgroundTasks

VARIABLES
  task,          \* task -> "none", "running", "aborted" or "ended"
  handles,       \* tasks whose JoinHandle the registry has
  regClosed,     \* TaskRegistryState.closed
  closed,        \* Inner.closed
  transports,    \* the UDP socket and the DERP connections are still owned
  shutdownPhase, \* ShutdownPhase
  flight,        \* where the shutdown flight is
  owned,         \* tasks whose JoinHandle the flight has
  callPc,        \* thread -> where it is
  woken          \* callers whose notification has fired

shutdownVars == <<task, handles, regClosed, closed, transports, shutdownPhase, flight, owned, callPc, woken>>

Threads == Callers \cup Requesters

\* A join handle has one owner, the registry or the shutdown flight
\* (close_and_take).
ShutdownTypeOK ==
  /\ task \in [BackgroundTasks -> {"none", "running", "aborted", "ended"}]
  /\ handles \subseteq BackgroundTasks /\ owned \subseteq BackgroundTasks /\ handles \cap owned = {}
  /\ regClosed \in BOOLEAN /\ closed \in BOOLEAN /\ transports \in BOOLEAN
  /\ shutdownPhase \in {"running", "shutting", "complete"}
  /\ flight \in {"none", "relay", "take", "join", "notify", "done"}
  /\ callPc \in [Threads -> {"idle", "begin", "gates", "transports", "spawn", "register", "check", "poll",
                         "wait", "ok", "timeout"}]
  /\ woken \subseteq Callers

ShutdownInit ==
  /\ task = [t \in BackgroundTasks |-> "none"]
  /\ handles = {} /\ owned = {}
  /\ regClosed = FALSE /\ closed = FALSE /\ transports = TRUE
  /\ shutdownPhase = "running" /\ flight = "none"
  /\ callPc = [c \in Threads |-> "idle"]
  /\ woken = {}

Goto(c, there) == callPc' = [callPc EXCEPT ![c] = there]

Abort(ts) == task' = [t \in BackgroundTasks |-> IF t \in ts /\ task[t] = "running" THEN "aborted" ELSE task[t]]

-----------------------------------------------------------------------------
(* BackgroundTasks and their registry *)

\* TaskRegistry::spawn: finished handles are dropped, a closed registry
\* refuses.
Spawn(t) ==
  /\ task[t] = "none" /\ ~regClosed
  /\ task' = [task EXCEPT ![t] = "running"]
  /\ handles' = {u \in handles : task[u] # "ended"} \cup {t}
  /\ UNCHANGED <<regClosed, closed, transports, shutdownPhase, flight, owned, callPc, woken>>

\* A task returns, or the runtime drops an aborted one at its next await.
End(t) ==
  /\ task[t] \in {"running", "aborted"}
  /\ task' = [task EXCEPT ![t] = "ended"]
  /\ UNCHANGED <<handles, regClosed, closed, transports, shutdownPhase, flight, owned, callPc, woken>>

-----------------------------------------------------------------------------
(* The calls *)

\* start_shutdown: the first caller leads the flight, the others join it.
Start(c) ==
  /\ c \in Callers /\ callPc[c] = "idle"
  /\ IF shutdownPhase = "running" THEN shutdownPhase' = "shutting" /\ Goto(c, "begin")
     ELSE Goto(c, "register") /\ UNCHANGED shutdownPhase
  /\ UNCHANGED <<task, handles, regClosed, closed, transports, flight, owned, woken>>

\* request_shutdown
Request(c) ==
  /\ c \in Requesters /\ callPc[c] = "idle"
  /\ Goto(c, "begin")
  /\ UNCHANGED <<task, handles, regClosed, closed, transports, shutdownPhase, flight, owned, woken>>

\* begin_shutdown returns at once when another thread has begun: ...
MarkClosed(c) ==
  /\ callPc[c] = "begin"
  /\ closed' = TRUE
  /\ Goto(c, IF closed THEN "spawn" ELSE "gates")
  /\ UNCHANGED <<task, handles, regClosed, transports, shutdownPhase, flight, owned, woken>>

\* ... else it closes registration ...
CloseRegistration(c) ==
  /\ callPc[c] = "gates"
  /\ regClosed' = TRUE
  /\ Goto(c, "transports")
  /\ UNCHANGED <<task, handles, closed, transports, shutdownPhase, flight, owned, woken>>

\* ... lets go of the transports and aborts the peers' tasks.
ReleaseTransports(c) ==
  /\ callPc[c] = "transports"
  /\ transports' = FALSE
  /\ Abort(PeerTasks)
  /\ Goto(c, "spawn")
  /\ UNCHANGED <<handles, regClosed, closed, shutdownPhase, flight, owned, woken>>

\* The leader spawns the flight, which the registry does not own; ...
SpawnFlight(c) ==
  /\ c \in Callers /\ callPc[c] = "spawn"
  /\ flight' = "relay"
  /\ Goto(c, "register")
  /\ UNCHANGED <<task, handles, regClosed, closed, transports, shutdownPhase, owned, woken>>

\* ... request_shutdown aborts what the registry has (TaskRegistry::abort_now)
\* and drops the handles.
AbortNow(c) ==
  /\ c \in Requesters /\ callPc[c] = "spawn"
  /\ regClosed' = TRUE
  /\ Abort(handles)
  /\ handles' = {}
  /\ Goto(c, "ok")
  /\ UNCHANGED <<closed, transports, shutdownPhase, flight, owned, woken>>

-----------------------------------------------------------------------------
(* Waiting for completion *)

\* Mutant: the notification is only registered by its first poll.
RegisteredAt_FirstPoll == {"wait"}

\* Notified::enable registers the caller before it looks at the phase.
RegisteredAt == {"check", "poll", "wait"}

Register(c) ==
  /\ callPc[c] = "register"
  /\ Goto(c, "check")
  /\ woken' = woken \ {c}
  /\ UNCHANGED <<task, handles, regClosed, closed, transports, shutdownPhase, flight, owned>>

Check(c) ==
  /\ callPc[c] = "check"
  /\ Goto(c, IF shutdownPhase = "complete" THEN "ok" ELSE "poll")
  /\ UNCHANGED <<task, handles, regClosed, closed, transports, shutdownPhase, flight, owned, woken>>

Poll(c) ==
  /\ callPc[c] = "poll"
  /\ Goto(c, "wait")
  /\ UNCHANGED <<task, handles, regClosed, closed, transports, shutdownPhase, flight, owned, woken>>

Wake(c) ==
  /\ callPc[c] = "wait" /\ c \in woken
  /\ Goto(c, "register")
  /\ UNCHANGED <<task, handles, regClosed, closed, transports, shutdownPhase, flight, owned, woken>>

\* Mutant: the flight is part of its leader's future.
Timeout_KillsFlight(c) ==
  /\ callPc[c] = "wait"
  /\ Goto(c, "timeout")
  /\ flight' = "none"
  /\ UNCHANGED <<task, handles, regClosed, closed, transports, shutdownPhase, owned, woken>>

\* The deadline passes, or the caller's future is dropped.
Timeout(c) ==
  /\ callPc[c] = "wait"
  /\ Goto(c, "timeout")
  /\ UNCHANGED <<task, handles, regClosed, closed, transports, shutdownPhase, flight, owned, woken>>

-----------------------------------------------------------------------------
(* The flight *)

RelayStopped ==
  /\ flight = "relay"
  /\ flight' = "take"
  /\ UNCHANGED <<task, handles, regClosed, closed, transports, shutdownPhase, owned, callPc, woken>>

\* TaskRegistry::close_and_take, then every task is aborted.
TakeAll ==
  /\ flight = "take"
  /\ flight' = "join"
  /\ regClosed' = TRUE
  /\ owned' = handles /\ handles' = {}
  /\ Abort(handles)
  /\ UNCHANGED <<closed, transports, shutdownPhase, callPc, woken>>

\* Mutant: the tasks are aborted and not awaited.
JoinAll_NoAwait ==
  /\ flight = "join"
  /\ flight' = "notify"
  /\ shutdownPhase' = "complete"
  /\ UNCHANGED <<task, handles, regClosed, closed, transports, owned, callPc, woken>>

JoinAll ==
  /\ flight = "join" /\ \A t \in owned : task[t] = "ended"
  /\ flight' = "notify"
  /\ shutdownPhase' = "complete"
  /\ UNCHANGED <<task, handles, regClosed, closed, transports, owned, callPc, woken>>

NotifyWaiters ==
  /\ flight = "notify"
  /\ flight' = "done"
  /\ woken' = woken \cup {c \in Callers : callPc[c] \in RegisteredAt}
  /\ UNCHANGED <<task, handles, regClosed, closed, transports, shutdownPhase, owned, callPc>>

Flight == RelayStopped \/ TakeAll \/ JoinAll \/ NotifyWaiters

-----------------------------------------------------------------------------

Step(c) ==
  \/ Start(c) \/ Request(c) \/ MarkClosed(c) \/ CloseRegistration(c) \/ ReleaseTransports(c)
  \/ SpawnFlight(c) \/ AbortNow(c) \/ Register(c) \/ Check(c) \/ Poll(c) \/ Wake(c)

ShutdownNext ==
  \/ \E t \in BackgroundTasks : Spawn(t) \/ End(t)
  \/ \E c \in Threads : Step(c)
  \/ \E c \in Callers : Timeout(c)
  \/ Flight

ShutdownSpec == ShutdownInit /\ [][ShutdownNext]_shutdownVars

\* A thread that is inside a call goes on, the runtime polls the flight, and an
\* aborted task ends.  Nobody has to call shutdown, and no running task to end.
ShutdownFairness ==
  /\ \A c \in Threads : WF_shutdownVars(callPc[c] # "idle" /\ Step(c))
  /\ \A t \in BackgroundTasks : WF_shutdownVars(task[t] = "aborted" /\ End(t))
  /\ WF_shutdownVars(Flight)

ShutdownFairSpec == ShutdownSpec /\ ShutdownFairness

-----------------------------------------------------------------------------
(* Properties *)

\* Nobody has called request_shutdown.
NoRequest == \A q \in Requesters : callPc[q] = "idle"

\* When shutdown reports completion and nobody called request_shutdown, every
\* task the socket ever spawned has ended, none can start, and the transports
\* are gone (start_shutdown closes the gates before the flight is spawned; a
\* task may be spawned at any moment until the registry is closed).
ShutdownStopsAll ==
  shutdownPhase = "complete" /\ NoRequest =>
    /\ \A t \in BackgroundTasks : task[t] \in {"none", "ended"}
    /\ regClosed /\ ~transports

\* A caller that waits is told: a completion between its look at the phase and
\* its wait is not missed (wait_for_shutdown_complete).
ShutdownReturns == \A c \in Callers : callPc[c] = "register" ~> callPc[c] \in {"ok", "timeout"}

\* Cleanup ends although every caller has given up (the flight is owned by the
\* runtime, not by its leader).
CleanupFinishes == shutdownPhase = "shutting" ~> shutdownPhase = "complete"
=============================================================================
