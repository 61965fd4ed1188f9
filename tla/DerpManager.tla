---------------------------- MODULE DerpManager ----------------------------
(***************************************************************************)
(* magicsock's multi-region DERP connection manager: lazy connects         *)
(* (get_or_connect), the receive consumer of every connection, the         *)
(* reconnect supervisor and its per-signal tasks (reconnect_region), link  *)
(* changes (close_all) and shutdown.                                       *)
(*                                                                         *)
(* A connection is a member of Conns, whose name is used again once no     *)
(* task, map or receiver refers to it.  A reconnect signal names only its  *)
(* region, so the channel is a count per region.  Frames and backoff       *)
(* delays are abstracted away.                                             *)
(***************************************************************************)
EXTENDS Naturals, FiniteSets

CONSTANTS
  Regions,     \* DERP regions
  Home,        \* our home region (DerpManager.home_region)
  Conns,       \* connection names
  Senders,     \* concurrent send_packet calls
  Tasks,       \* concurrent reconnect_region tasks
  RegionOf,    \* the region a connection, a send or a reconnect task is for
  MaxSignals,  \* bound: where the count of a region's waiting signals saturates
  NoConn,
  NoRegion

Procs == Senders \cup Tasks

ASSUME ConstAssumption ==
  /\ Home \in Regions
  /\ Senders \cap Tasks = {}
  /\ \A x \in Procs \cup Conns : RegionOf[x] \in Regions
  /\ MaxSignals \in Nat \ {0}
  /\ NoConn \notin Conns
  /\ NoRegion \notin Regions

VARIABLES
  connections, \* region -> connection held by the manager, or NoConn
  live,        \* connections whose reader task runs on an open socket
  closing,     \* close_all's caller -> connections it took out of the map and has yet to close
  consumers,   \* connections whose receive consumer is running
  signals,     \* region -> reconnect signals in the unbounded channel
  pc,          \* where a send or a reconnect task is
  held,        \* the DerpIo a process in get_or_connect has spawned
  derpMap,     \* regions of the current DERPMap ({} also stands for None)
  phase,       \* shutdown progress of the owning Magicsock
  warnHome,    \* health warnable derp-home-unreachable
  warnConn     \* region named by the health warnable no-derp-connection

vars == <<connections, live, closing, consumers, signals, pc, held, derpMap,
          phase, warnHome, warnConn>>

\* "start" is a spawned reconnect_region, "sleep" its backoff; the others are
\* inside get_or_connect: the connect await, the check of the registry after
\* DerpIo::spawn, the insertion and the spawn of the consumer.
PC == {"idle", "start", "sleep", "dial", "gate", "insert", "spawn"}
Connecting == {"dial", "gate", "insert", "spawn"}

\* TaskRegistry::closed, set by close_registration
RegistryClosed == phase # "running"

Mapped == {c \in Conns : connections[RegionOf[c]] = c}

\* link_changed and begin_shutdown call close_all.
Closers == {"link", "shutdown"}
Drained == closing["link"] \cup closing["shutdown"]

\* A region's slot holds a connection of that region or none (get_or_connect).
TypeOK ==
  /\ connections \in [Regions -> Conns \cup {NoConn}]
  /\ \A r \in Regions : connections[r] # NoConn => RegionOf[connections[r]] = r
  /\ live \subseteq Conns
  /\ closing \in [Closers -> SUBSET Conns]
  /\ consumers \subseteq Conns
  /\ signals \in [Regions -> 0 .. MaxSignals]
  /\ pc \in [Procs -> PC]
  /\ held \in [Procs -> Conns \cup {NoConn}]
  /\ derpMap \subseteq Regions
  /\ phase \in {"running", "gated", "drained", "complete"}
  /\ warnHome \in BOOLEAN
  /\ warnConn \in Regions \cup {NoRegion}

\* new(): the home client may be connected already.
Init ==
  /\ derpMap \in {{}, Regions}
  /\ \/ /\ connections = [r \in Regions |-> NoConn]
        /\ live = {}
        /\ consumers = {}
     \/ \E c \in Conns :
          /\ RegionOf[c] = Home
          /\ connections = [r \in Regions |-> IF r = Home THEN c ELSE NoConn]
          /\ live = {c}
          /\ consumers = {c}
  /\ closing = [w \in Closers |-> {}]
  /\ signals = [r \in Regions |-> 0]
  /\ pc = [p \in Procs |-> "idle"]
  /\ held = [p \in Procs |-> NoConn]
  /\ phase = "running"
  /\ warnHome = FALSE
  /\ warnConn = NoRegion

-----------------------------------------------------------------------------
(* get_or_connect *)

\* Some(io): a send is done, a reconnect task ends.
ReturnSome(p) == pc' = [pc EXCEPT ![p] = "idle"]

\* Mutant: a reconnect task ends after its first failed attempt.
ReturnNone_NoRetry(p) == pc' = [pc EXCEPT ![p] = "idle"]

\* None: a send drops its packet, a reconnect task backs off and retries.
ReturnNone(p) == pc' = [pc EXCEPT ![p] = IF p \in Tasks THEN "sleep" ELSE "idle"]

\* The slow path is taken: registry open, no connection, region in the map.
MustDial(r) == ~RegistryClosed /\ connections[r] = NoConn /\ r \in derpMap

\* send_packet on a region without a connection starts to connect; with one,
\* or with no way to connect, it changes nothing here.
SendPacket(s) ==
  /\ pc[s] = "idle"
  /\ MustDial(RegionOf[s])
  /\ pc' = [pc EXCEPT ![s] = "dial"]
  /\ UNCHANGED <<closing, connections, live, consumers, signals, held, derpMap, phase, warnHome, warnConn>>

\* Connect failed: both warnables are raised and the caller gets None.
DialFail(p) ==
  /\ pc[p] = "dial"
  /\ warnHome' = (warnHome \/ RegionOf[p] = Home)
  /\ warnConn' = RegionOf[p]
  /\ ReturnNone(p)
  /\ UNCHANGED <<closing, connections, live, consumers, signals, held, derpMap, phase>>

\* The name c is free.  An open connection nobody holds (one that lost the
\* race in Insert) is followed only until its name is used again.
Retired(c) == c \notin consumers \cup Mapped \cup Drained /\ \A p \in Procs : held[p] # c

\* Mutant: the tasks are spawned without asking the registry.
DialOk_Ungated(p, c) ==
  /\ pc[p] = "dial" /\ Retired(c) /\ RegionOf[c] = RegionOf[p]
  /\ live' = live \cup {c}
  /\ held' = [held EXCEPT ![p] = c]
  /\ pc' = [pc EXCEPT ![p] = "gate"]
  /\ UNCHANGED <<closing, connections, consumers, signals, derpMap, phase, warnHome, warnConn>>

\* Connect succeeded: the warnables clear and DerpIo::spawn starts the reader
\* and writer, unless the registry is closed.
DialOk(p, c) ==
  /\ pc[p] = "dial"
  /\ Retired(c)
  /\ RegionOf[c] = RegionOf[p]
  /\ warnHome' = (warnHome /\ RegionOf[p] # Home)
  /\ warnConn' = NoRegion
  /\ live' = IF RegistryClosed THEN live \ {c} ELSE live \cup {c}
  /\ held' = [held EXCEPT ![p] = c]
  /\ pc' = [pc EXCEPT ![p] = "gate"]
  /\ UNCHANGED <<closing, connections, consumers, signals, derpMap, phase>>

\* Once the registry is closed the new connection is closed and not used.
Gate(p) ==
  /\ pc[p] = "gate"
  /\ IF RegistryClosed
     THEN /\ live' = live \ {held[p]}
          /\ held' = [held EXCEPT ![p] = NoConn]
          /\ ReturnNone(p)
     ELSE pc' = [pc EXCEPT ![p] = "insert"] /\ UNCHANGED <<live, held>>
  /\ UNCHANGED <<closing, connections, consumers, signals, derpMap, phase, warnHome, warnConn>>

\* Insert under the write lock unless another task connected meanwhile, whose
\* connection is then used; ours is dropped without close(), its tasks run on.
Insert(p) ==
  LET r == RegionOf[p] IN
  /\ pc[p] = "insert"
  /\ IF connections[r] # NoConn
     THEN /\ held' = [held EXCEPT ![p] = NoConn]
          /\ ReturnSome(p)
          /\ UNCHANGED connections
     ELSE /\ connections' = [connections EXCEPT ![r] = held[p]]
          /\ pc' = [pc EXCEPT ![p] = "spawn"]
          /\ UNCHANGED held
  /\ UNCHANGED <<closing, live, consumers, signals, derpMap, phase, warnHome, warnConn>>

\* After the lock is released the consumer is spawned, if it still may be.
SpawnConsumer(p) ==
  /\ pc[p] = "spawn"
  /\ consumers' = IF RegistryClosed THEN consumers ELSE consumers \cup {held[p]}
  /\ held' = [held EXCEPT ![p] = NoConn]
  /\ ReturnSome(p)
  /\ UNCHANGED <<closing, connections, live, signals, derpMap, phase, warnHome, warnConn>>

-----------------------------------------------------------------------------
(* Connection loss, consumers and reconnection *)

\* The reader task ends: the server closed, a read failed or a frame was bad.
ConnDies(c) ==
  /\ c \in live
  /\ live' = live \ {c}
  /\ UNCHANGED <<closing, connections, consumers, signals, pc, held, derpMap, phase, warnHome, warnConn>>

\* Mutant: the consumer exits without a signal.
ConsumerExit_Silent(c) ==
  /\ c \in consumers \ live
  /\ consumers' = consumers \ {c}
  /\ UNCHANGED <<closing, connections, live, signals, pc, held, derpMap, phase, warnHome, warnConn>>

\* try_recv returned None: the consumer signals its region and exits.
ConsumerExit(c) ==
  /\ c \in consumers \ live
  /\ consumers' = consumers \ {c}
  /\ signals' = [signals EXCEPT ![RegionOf[c]] =
                   IF @ < MaxSignals THEN @ + 1 ELSE @]
  /\ UNCHANGED <<closing, connections, live, pc, held, derpMap, phase, warnHome, warnConn>>

\* The supervisor takes a signal and spawns its task, if it still may.
Supervise(t) ==
  /\ pc[t] = "idle"
  /\ signals[RegionOf[t]] > 0
  /\ signals' = [signals EXCEPT ![RegionOf[t]] = @ - 1]
  /\ pc' = [pc EXCEPT ![t] = IF RegistryClosed THEN "idle" ELSE "start"]
  /\ UNCHANGED <<closing, connections, live, consumers, held, derpMap, phase, warnHome, warnConn>>

\* reconnect_region: remove and close whatever the map holds for the region,
\* give up if the DERPMap lacks the region, else enter the backoff loop.
ReconnectStart(t) ==
  LET r == RegionOf[t] IN
  /\ pc[t] = "start"
  /\ connections' = [connections EXCEPT ![r] = NoConn]
  /\ live' = live \ {connections[r]}
  /\ pc' = [pc EXCEPT ![t] = IF r \in derpMap THEN "sleep" ELSE "idle"]
  /\ UNCHANGED <<closing, consumers, signals, held, derpMap, phase, warnHome, warnConn>>

\* The backoff ended: get_or_connect finds a connection, dials, or fails.
ReconnectWake(t) ==
  LET r == RegionOf[t] IN
  /\ pc[t] = "sleep"
  /\ pc' = [pc EXCEPT ![t] =
              IF MustDial(r) THEN "dial"
              ELSE IF ~RegistryClosed /\ connections[r] # NoConn THEN "idle"
              ELSE "sleep"]
  /\ UNCHANGED <<closing, connections, live, consumers, signals, held, derpMap, phase, warnHome, warnConn>>

-----------------------------------------------------------------------------
(* Link changes, new DERP maps and shutdown *)

\* Mutant: the map is emptied, the connections are left open.
CloseAll_NoClose(w) ==
  /\ connections' = [r \in Regions |-> NoConn]
  /\ UNCHANGED closing

\* close_all takes every connection out of the map under the write lock ...
CloseAll(w) ==
  /\ connections' = [r \in Regions |-> NoConn]
  /\ closing' = [closing EXCEPT ![w] = @ \cup Mapped]

\* ... and closes them one by one after releasing it, while other tasks run.
CloseDrained(w, c) ==
  /\ c \in closing[w]
  /\ closing' = [closing EXCEPT ![w] = @ \ {c}]
  /\ live' = live \ {c}
  /\ UNCHANGED <<connections, consumers, signals, pc, held, derpMap, phase, warnHome, warnConn>>

LinkChanged ==
  /\ CloseAll("link")
  /\ UNCHANGED <<live, consumers, signals, pc, held, derpMap, phase, warnHome, warnConn>>

SetDerpMap(m) ==
  /\ derpMap' = m
  /\ UNCHANGED <<closing, connections, live, consumers, signals, pc, held, phase, warnHome, warnConn>>

\* begin_shutdown: registration closes first, ...
BeginShutdown ==
  /\ phase = "running"
  /\ phase' = "gated"
  /\ UNCHANGED <<closing, connections, live, consumers, signals, pc, held, derpMap, warnHome, warnConn>>

\* ... then every mapped connection is drained and closed, ...
DrainConnections ==
  /\ phase = "gated"
  /\ phase' = "drained"
  /\ CloseAll("shutdown")
  /\ UNCHANGED <<live, consumers, signals, pc, held, derpMap, warnHome, warnConn>>

\* ... and the registry's tasks are aborted and joined.  A send is not one of
\* them: it belongs to the caller of Magicsock::send.
AbortTasks ==
  /\ phase = "drained"
  /\ closing["shutdown"] = {}
  /\ phase' = "complete"
  /\ live' = {}
  /\ consumers' = {}
  /\ signals' = [r \in Regions |-> 0]
  /\ pc' = [p \in Procs |-> IF p \in Tasks THEN "idle" ELSE pc[p]]
  /\ held' = [p \in Procs |-> IF p \in Tasks THEN NoConn ELSE held[p]]
  /\ UNCHANGED <<closing, connections, derpMap, warnHome, warnConn>>

-----------------------------------------------------------------------------

Next ==
  \/ \E s \in Senders : SendPacket(s)
  \/ \E p \in Procs : DialFail(p) \/ Gate(p) \/ Insert(p) \/ SpawnConsumer(p)
  \/ \E p \in Procs, c \in Conns : DialOk(p, c)
  \/ \E c \in Conns : ConnDies(c) \/ ConsumerExit(c)
  \/ \E t \in Tasks : Supervise(t) \/ ReconnectStart(t) \/ ReconnectWake(t)
  \/ \E w \in Closers, c \in Conns : CloseDrained(w, c)
  \/ LinkChanged
  \/ \E m \in SUBSET Regions : SetDerpMap(m)
  \/ BeginShutdown \/ DrainConnections \/ AbortTasks

Spec == Init /\ [][Next]_vars

\* The tokio scheduler runs every ready task and the caller of close_all goes
\* on; a dial that is tried again and again is assumed to succeed at last.
Fairness ==
  /\ \A p \in Procs : /\ SF_vars(\E c \in Conns : DialOk(p, c)) /\ WF_vars(DialFail(p))
                      /\ WF_vars(Gate(p)) /\ WF_vars(Insert(p)) /\ WF_vars(SpawnConsumer(p))
  /\ \A c \in Conns : WF_vars(ConsumerExit(c))
  /\ \A w \in Closers : WF_vars(\E c \in Conns : CloseDrained(w, c))
  /\ \A t \in Tasks : WF_vars(ReconnectStart(t)) /\ WF_vars(ReconnectWake(t))
  /\ WF_vars(\E t \in Tasks : Supervise(t))
  /\ WF_vars(DrainConnections) /\ WF_vars(AbortTasks)

\* The network at last stops losing connections.  Without it each new
\* connection may die before it is inserted, which no program can prevent.
NetworkSettles == <>[][\A c \in Conns : ~ConnDies(c)]_vars

FairSpec == Spec /\ Fairness /\ NetworkSettles

-----------------------------------------------------------------------------
(* Properties *)

\* A connection that died while the manager still holds it is never forgotten:
\* its consumer is about to be spawned or has yet to notice, a signal for its
\* region is in the channel, or a spawned reconnect_region has yet to remove it
\* (get_or_connect, spawn_derp_recv_consumer, reconnect_region).
NoLostReconnect ==
  phase = "running" =>
    \A c \in Mapped \ live :
      \/ c \in consumers
      \/ \E p \in Procs : pc[p] = "spawn" /\ held[p] = c
      \/ signals[RegionOf[c]] > 0
      \/ \E t \in Tasks : RegionOf[t] = RegionOf[c] /\ pc[t] = "start"

\* However connects, link changes and reconnects interleave, at most one open
\* connection per region feeds the shared receive channel, and it is the one
\* sends use.  Only a connection that a close_all has taken out of the map and
\* is about to close may feed beside it (get_or_connect's re-check under the
\* write lock, close_all and reconnect_region closing what they remove).
SingleFeed == consumers \cap live \subseteq Mapped \cup Drained

\* When shutdown is complete no DERP socket is open and no consumer or
\* reconnect task is left, even if a connect was in flight when registration
\* closed (Magicsock::shutdown, DerpIo::spawn on a closed registry).
ShutdownClosesAll ==
  phase = "complete" =>
    /\ live = {} /\ consumers = {}
    /\ \A t \in Tasks : pc[t] = "idle"

\* A region whose connection is lost, dead but still mapped or removed with
\* its signal waiting, gets an open connection again, unless it leaves the
\* DERPMap or the node shuts down first (spawn_derp_recv_consumer's signal,
\* the reconnect supervisor and reconnect_region's retry loop).
RegionRecovers ==
  \A r \in Regions :
    signals[r] > 0 \/ connections[r] \in Conns \ live
      ~> \/ connections[r] \in live
         \/ r \notin derpMap
         \/ phase # "running"
=============================================================================
