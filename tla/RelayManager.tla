---------------------------- MODULE RelayManager ----------------------------
(***************************************************************************)
(* The peer relay manager of magicsock and the map commit that drives it.  *)
(* An event loop owns the set of relay servers and the work in flight; it  *)
(* spawns allocation and handshake tasks, which answer through the loop's  *)
(* own queue.  Magicsock::set_netmap cancels the work of peers that left,  *)
(* publishes new authorization generations, replaces the server set and    *)
(* waits for the loop at each of these steps.                              *)
(*                                                                         *)
(* A relay server has one UDP address and one ephemeral disco key, and     *)
(* both are named by its node.  A node's disco key changes exactly when    *)
(* its generation does while it stays in the map, so a generation stands   *)
(* for the key too.  A message of the network is handled when the loop is  *)
(* idle, or is lost.                                                       *)
(***************************************************************************)
EXTENDS Naturals, Sequences

CONSTANTS
  Nodes,      \* node keys
  Clients,    \* the nodes whose discovery is followed
  Relays,     \* the nodes that may be relay servers
  Vnis,       \* virtual network identifiers
  Lamports,   \* lamport ids a server gives to allocations
  Ids,        \* bound on work of one kind, peer and server at a time
  MaxCommits, \* bound on map commits
  None

ASSUME RelayAssumption ==
  /\ Clients \subseteq Nodes /\ Relays \subseteq Nodes
  /\ Vnis \subseteq Nat \ {0} /\ Lamports \subseteq Nat \ {0} /\ Ids \subseteq Nat
  /\ MaxCommits \in Nat
  /\ None \notin Nodes /\ None \notin [vni : Vnis, lamport : Lamports]

VARIABLES
  gen,      \* node -> authorization generation, 0 when not authorized
  gone,     \* nodes whose endpoint is gone or has a new disco key, in a commit
  known,    \* nodes that disco_to_peer leads to
  relay,    \* client -> relay path of its endpoint, or None
  servers,  \* relay -> its generation in servers_by_node_key, or 0
  work,     \* alloc_work and handshake_work
  bySdv,    \* handshake_by_sdv: <<server, vni>> -> client or None
  awaiting, \* handshake_awaiting_pong: <<address, vni>> -> client or None
  tasks,    \* spawned tasks that have not ended
  queue,    \* events of the loop
  loop,     \* what the loop does while it joins cancelled tasks
  cpc,      \* where the map commit is
  target,   \* the map it commits
  offered,  \* the relay servers of that map
  todo,     \* peers it has still to cancel or to start
  commits   \* map commits so far

manager == <<relay, servers, work, bySdv, awaiting, tasks, loop>>
commit == <<gen, gone, known, cpc, target, offered, todo, commits>>
vars == <<manager, commit, queue>>

Generations == 0..MaxCommits
Endpoints == [vni : Vnis, lamport : Lamports]
Work == [kind : {"alloc", "handshake"}, peer : Clients, server : Relays, pgen : Generations,
         sgen : Generations, id : Ids, vni : Vnis \cup {0}, lamport : Lamports \cup {0}]
Idle == [at |-> "idle"]

Init ==
  /\ gen = [n \in Nodes |-> 0] /\ gone = {} /\ known = {}
  /\ relay = [p \in Clients |-> None]
  /\ servers = [s \in Relays |-> 0]
  /\ work = {} /\ tasks = {} /\ queue = <<>> /\ loop = Idle
  /\ bySdv = [k \in Relays \X Vnis |-> None]
  /\ awaiting = [k \in Relays \X Vnis |-> None]
  /\ cpc = "idle" /\ target = {} /\ offered = {} /\ todo = {} /\ commits = 0

-----------------------------------------------------------------------------
(* What the manager asks of the socket *)

\* peer_authorization_generation
Authorized(n, g) == g # 0 /\ gen[n] = g

\* ... and peer_disco_key: the endpoint has the key of that generation.
Current(n, g) == Authorized(n, g) /\ n \notin gone

\* state_has_current_server
HasServer(s, g) == servers[s] = g /\ Current(s, g)

Handshakes(p) == {w \in work : w.kind = "handshake" /\ w.peer = p}
Handshake(p, s) == {w \in Handshakes(p) : w.server = s}
WorkCurrent(w) == Authorized(w.peer, w.pgen) /\ HasServer(w.server, w.sgen)

-----------------------------------------------------------------------------
(* Spawning and cancelling work *)

\* Work generations are compared for equality only: an id that nothing refers
\* to any more is used again.
FreeIds(kind, p, s) ==
  LET used == work \cup {t.work : t \in tasks}
              \cup {queue[i].work : i \in {j \in DOMAIN queue : queue[j].type = "done"}}
  IN  Ids \ {w.id : w \in {u \in used : u.kind = kind /\ u.peer = p /\ u.server = s}}

FreshId(kind, p, s) == CHOOSE i \in FreeIds(kind, p, s) : TRUE

NewTask(w) == [work |-> w, reply |-> None, pinged |-> {}, pong |-> None, cancelled |-> FALSE]

\* Mutant: the index by server and VNI keeps cancelled handshakes.
Cancel_KeepIndex(ws) ==
  /\ work' = work \ ws
  /\ tasks' = {IF t.work \in ws THEN [t EXCEPT !.cancelled = TRUE] ELSE t : t \in tasks}
  /\ UNCHANGED bySdv

\* The tasks of ws get their cancel signal; the loop joins them next.
Cancel(ws) ==
  /\ work' = work \ ws
  /\ tasks' = {IF t.work \in ws THEN [t EXCEPT !.cancelled = TRUE] ELSE t : t \in tasks}
  /\ bySdv' = [k \in DOMAIN bySdv |->
                 IF \E w \in ws : w.kind = "handshake" /\ k = <<w.server, w.vni>> THEN None ELSE bySdv[k]]

\* cancel_handshake: pongs of the peer's VNI are no longer awaited.
Forget(ws) ==
  awaiting' = [k \in DOMAIN awaiting |->
                 IF \E w \in ws : w.kind = "handshake" /\ awaiting[k] = w.peer /\ k[2] = w.vni
                   THEN None ELSE awaiting[k]]

ForgetPeer(p) == awaiting' = [k \in DOMAIN awaiting |-> IF awaiting[k] = p THEN None ELSE awaiting[k]]

\* Mutant: every task is waited for.
Joined_All == tasks = {}

\* join_cancelled
Joined == \A t \in tasks : ~t.cancelled

-----------------------------------------------------------------------------
(* The event loop *)

Event(type) == loop.at = "idle" /\ queue # <<>> /\ queue[1].type = type
Pop == queue' = Tail(queue)

\* Mutant: allocations in flight are overlooked.
HasActiveWork_Handshakes(p) == \E w \in work : w.kind = "handshake" /\ w.peer = p

\* has_active_work_for
HasActiveWork(p) == \E w \in work : w.peer = p

\* StartDiscovery: an allocation with every server, unless the peer has work.
StartDiscovery ==
  /\ Event("start")
  /\ LET e == queue[1]
         chosen == {s \in Relays : servers[s] # 0}
         new == {[kind |-> "alloc", peer |-> e.peer, server |-> s, pgen |-> e.pgen, sgen |-> servers[s],
                  id |-> FreshId("alloc", e.peer, s), vni |-> 0, lamport |-> 0] : s \in chosen}
     IN  /\ \A s \in chosen : FreeIds("alloc", e.peer, s) # {}
         /\ IF Authorized(e.peer, e.pgen) /\ ~HasActiveWork(e.peer)
              THEN work' = work \cup new /\ tasks' = tasks \cup {NewTask(w) : w \in new}
              ELSE UNCHANGED <<work, tasks>>
  /\ Pop
  /\ UNCHANGED <<relay, servers, bySdv, awaiting, loop, commit>>

\* CancelWork: stop_work, join, acknowledge.
CancelWork ==
  /\ Event("cancel")
  /\ Cancel({w \in work : w.peer = queue[1].peer})
  /\ ForgetPeer(queue[1].peer)
  /\ loop' = [at |-> "cancel"]
  /\ Pop
  /\ UNCHANGED <<relay, servers, commit>>

CancelDone ==
  /\ loop.at = "cancel" /\ Joined
  /\ loop' = Idle
  /\ cpc' = "purge"
  /\ UNCHANGED <<relay, servers, work, bySdv, awaiting, tasks, queue,
                 gen, gone, known, target, offered, todo, commits>>

\* Mutant: only allocations are stopped.
ServerWork_AllocOnly(removed) ==
  {w \in work : w.kind = "alloc" /\ w.server \in removed /\ w.sgen = servers[w.server]}

\* stop_server_work
ServerWork(removed) == {w \in work : w.server \in removed /\ w.sgen = servers[w.server]}

\* handle_servers_update: stop_server_work and clear_relay_server for every
\* server identity that is not in the new set.
ServersUpdate ==
  /\ Event("servers")
  /\ LET new == [s \in Relays |-> IF Current(s, queue[1].servers[s]) THEN queue[1].servers[s] ELSE 0]
         removed == {s \in Relays : servers[s] # 0 /\ new[s] # servers[s]}
         stopped == ServerWork(removed)
     IN  /\ servers' = new
         /\ Cancel(stopped)
         /\ Forget(stopped)
         /\ relay' = [p \in Clients |->
                        IF relay[p] # None /\ relay[p].server \in removed /\ relay[p].sgen = servers[relay[p].server]
                          THEN None ELSE relay[p]]
         /\ known' = known \ {s \in removed : gen[s] = servers[s]}
  /\ loop' = [at |-> "servers"]
  /\ Pop
  /\ UNCHANGED <<gen, gone, cpc, target, offered, todo, commits>>

Acknowledge == cpc' = "start" /\ todo' = target \cap Clients

\* Mutant: the commit is acknowledged without the round through the queue.
ServersJoined_AckNow ==
  /\ loop.at = "servers" /\ Joined
  /\ loop' = Idle
  /\ Acknowledge
  /\ UNCHANGED <<relay, servers, work, bySdv, awaiting, tasks, queue,
                 gen, gone, known, target, offered, commits>>

\* The acknowledgement goes behind the completions of the joined tasks.
ServersJoined ==
  /\ loop.at = "servers" /\ Joined
  /\ loop' = Idle
  /\ queue' = Append(queue, [type |-> "complete"])
  /\ UNCHANGED <<relay, servers, work, bySdv, awaiting, tasks, commit>>

ServersUpdateComplete ==
  /\ Event("complete")
  /\ Pop
  /\ Acknowledge
  /\ UNCHANGED <<manager, gen, gone, known, target, offered, commits>>

\* handle_new_server_endpoint, first part: work for the same server and VNI, of
\* any peer, gives way to a later lamport id.
NewServerEndpoint(p, pgen, s, sgen, ep, rest) ==
  LET owner == bySdv[<<s, ep.vni>>]
      existing == IF owner = None THEN {} ELSE Handshake(owner, s) \cap rest
  IN  IF /\ Current(p, pgen) /\ HasServer(s, sgen)
         /\ \A w \in existing : w.lamport < ep.lamport
        THEN /\ work' = rest \ existing
             /\ tasks' = {IF t.work \in existing THEN [t EXCEPT !.cancelled = TRUE] ELSE t : t \in tasks}
             /\ bySdv' = IF existing = {} THEN bySdv ELSE [bySdv EXCEPT ![<<s, ep.vni>>] = None]
             /\ Forget(existing)
             /\ loop' = [at |-> "replace", peer |-> p, pgen |-> pgen, server |-> s, sgen |-> sgen, ep |-> ep]
        ELSE work' = rest /\ UNCHANGED <<tasks, bySdv, awaiting, loop>>

\* Second part: so does other work of this peer with this server.
Replace ==
  /\ loop.at = "replace" /\ Joined
  /\ LET existing == Handshake(loop.peer, loop.server)
     IN  IF \E w \in existing : loop.ep.lamport <= w.lamport
           THEN loop' = Idle /\ UNCHANGED <<work, tasks, bySdv, awaiting>>
           ELSE Cancel(existing) /\ Forget(existing) /\ loop' = [loop EXCEPT !.at = "spawn"]
  /\ UNCHANGED <<relay, servers, queue, commit>>

\* Third part: the handshake task is spawned and indexed.  Authorization is not
\* looked at again after the joins.
SpawnHandshake ==
  /\ loop.at = "spawn" /\ Joined
  /\ FreeIds("handshake", loop.peer, loop.server) # {}
  /\ LET w == [kind |-> "handshake", peer |-> loop.peer, server |-> loop.server, pgen |-> loop.pgen,
               sgen |-> loop.sgen, id |-> FreshId("handshake", loop.peer, loop.server),
               vni |-> loop.ep.vni, lamport |-> loop.ep.lamport]
     IN  /\ work' = work \cup {w}
         /\ tasks' = tasks \cup {NewTask(w)}
         /\ bySdv' = [bySdv EXCEPT ![<<w.server, w.vni>>] = w.peer]
  /\ loop' = Idle
  /\ UNCHANGED <<relay, servers, awaiting, queue, commit>>

\* Mutant: an allocation that failed keeps its entry.
AllocRemoved_OnSuccess(e) == IF e.reply = None THEN {} ELSE
  {w \in work : w.kind = "alloc" /\ w.peer = e.work.peer /\ w.server = e.work.server
                /\ w.sgen = e.work.sgen /\ w.pgen = e.work.pgen}

\* The entry an allocation result belongs to: its generation is not compared.
AllocRemoved(e) ==
  {w \in work : w.kind = "alloc" /\ w.peer = e.work.peer /\ w.server = e.work.server
                /\ w.sgen = e.work.sgen /\ w.pgen = e.work.pgen}

\* handle_alloc_work_done
AllocWorkDone ==
  /\ Event("done") /\ queue[1].work.kind = "alloc"
  /\ LET e == queue[1]
         mine == AllocRemoved(e)
     IN  IF mine # {} /\ e.reply # None
           THEN NewServerEndpoint(e.work.peer, e.work.pgen, e.work.server, e.work.sgen, e.reply, work \ mine)
           ELSE work' = work \ mine /\ UNCHANGED <<tasks, bySdv, awaiting, loop>>
  /\ Pop
  /\ UNCHANGED <<relay, servers, commit>>

\* handle_handshake_work_done: of the current work only; a path is set when the
\* peer and the server are still current.
HandshakeWorkDone ==
  /\ Event("done") /\ queue[1].work.kind = "handshake"
  /\ LET w == queue[1].work
         pong == queue[1].pong
     IN  IF w \in work
           THEN /\ work' = work \ {w}
                /\ bySdv' = [bySdv EXCEPT ![<<w.server, w.vni>>] = None]
                /\ ForgetPeer(w.peer)
                /\ relay' = IF pong # None /\ Current(w.peer, w.pgen) /\ HasServer(w.server, w.sgen)
                              THEN [relay EXCEPT ![w.peer] = [addr |-> pong, vni |-> w.vni,
                                                              server |-> w.server, sgen |-> w.sgen]]
                              ELSE relay
           ELSE UNCHANGED <<work, bySdv, awaiting, relay>>
  /\ Pop
  /\ UNCHANGED <<servers, tasks, loop, commit>>

LoopStep ==
  \/ StartDiscovery \/ CancelWork \/ CancelDone \/ ServersUpdate \/ ServersJoined
  \/ ServersUpdateComplete \/ Replace \/ SpawnHandshake \/ AllocWorkDone \/ HandshakeWorkDone

-----------------------------------------------------------------------------
(* Messages of the network *)

\* AllocateUdpRelayEndpointResponse, to the allocation of that server.
AllocResponse(w, ep) ==
  /\ loop.at = "idle" /\ w \in work /\ w.kind = "alloc" /\ WorkCurrent(w)
  /\ \E t \in tasks : /\ t.work = w /\ t.reply = None
                      /\ tasks' = (tasks \ {t}) \cup {[t EXCEPT !.reply = ep]}
  /\ UNCHANGED <<relay, servers, work, bySdv, awaiting, loop, queue, commit>>

\* CallMeMaybeVia: accepted for a server the peer has a handshake with.
CallMeMaybeVia(p, s, ep) ==
  /\ loop.at = "idle"
  /\ \E w \in Handshake(p, s) : NewServerEndpoint(p, gen[p], s, w.sgen, ep, work)
  /\ UNCHANGED <<relay, servers, queue, commit>>

\* BindUdpRelayEndpointChallenge of server s: the task answers it and pings the
\* peer through s, once.
Challenge(s, v) ==
  /\ loop.at = "idle" /\ bySdv[<<s, v>>] # None /\ awaiting[<<s, v>>] = None
  /\ \E w \in Handshake(bySdv[<<s, v>>], s) :
       /\ WorkCurrent(w)
       /\ tasks' = {IF t.work = w /\ t.pinged = {} THEN [t EXCEPT !.pinged = {s}] ELSE t : t \in tasks}
  /\ awaiting' = [awaiting EXCEPT ![<<s, v>>] = bySdv[<<s, v>>]]
  /\ UNCHANGED <<relay, servers, work, bySdv, loop, queue, commit>>

\* The work a relayed Ping or Pong is routed to: some handshake of the awaiting
\* peer with that VNI.
Routed(a, v) ==
  IF awaiting[<<a, v>>] = None THEN {}
  ELSE {w \in Handshakes(awaiting[<<a, v>>]) : w.vni = v /\ WorkCurrent(w)}

\* A task that has answered its challenge pings back.
RelayedPing(a, v) ==
  /\ loop.at = "idle"
  /\ \E w \in Routed(a, v), t \in tasks :
       /\ t.work = w /\ t.pinged # {}
       /\ tasks' = (tasks \ {t}) \cup {[t EXCEPT !.pinged = @ \cup {a}]}
  /\ UNCHANGED <<relay, servers, work, bySdv, awaiting, loop, queue, commit>>

\* A Pong counts when the task has sent the Ping it answers.
RelayedPong(a, v) ==
  /\ loop.at = "idle"
  /\ \E w \in Routed(a, v), t \in tasks :
       /\ t.work = w /\ a \in t.pinged /\ t.pong = None
       /\ tasks' = (tasks \ {t}) \cup {[t EXCEPT !.pong = a]}
  /\ UNCHANGED <<relay, servers, work, bySdv, awaiting, loop, queue, commit>>

Message ==
  \/ \E w \in work, ep \in Endpoints : AllocResponse(w, ep)
  \/ \E p \in Clients, s \in Relays, ep \in Endpoints : CallMeMaybeVia(p, s, ep)
  \/ \E a \in Relays, v \in Vnis : Challenge(a, v) \/ RelayedPing(a, v) \/ RelayedPong(a, v)

-----------------------------------------------------------------------------
(* The tasks *)

\* spawn_alloc_work and spawn_handshake_work end with what they have got, or
\* with nothing at their timeout, also when a cancel signal waits ...
Finish(t) ==
  /\ \E got \in BOOLEAN :
       queue' = Append(queue, [type |-> "done", work |-> t.work,
                               reply |-> IF got THEN t.reply ELSE None,
                               pong |-> IF got THEN t.pong ELSE None])
  /\ tasks' = tasks \ {t}
  /\ UNCHANGED <<relay, servers, work, bySdv, awaiting, loop, commit>>

\* ... or without a word when they see the signal first.
Cancelled(t) ==
  /\ t.cancelled
  /\ tasks' = tasks \ {t}
  /\ UNCHANGED <<relay, servers, work, bySdv, awaiting, loop, queue, commit>>

-----------------------------------------------------------------------------
(* The map commit *)

\* set_netmap purges the endpoints of the nodes that left the map or have a new
\* disco key, and their reverse maps.
BeginCommit(map, relays, refreshed) ==
  /\ cpc = "idle" /\ commits < MaxCommits
  /\ commits' = commits + 1
  /\ target' = map /\ offered' = relays
  /\ gone' = {n \in Nodes : gen[n] # 0 /\ n \notin map} \cup refreshed
  /\ todo' = gone'
  /\ known' = known \ gone'
  /\ relay' = [p \in Clients |-> IF p \in gone' THEN None ELSE relay[p]]
  /\ cpc' = "purge"
  /\ UNCHANGED <<gen, servers, work, bySdv, awaiting, tasks, loop, queue>>

\* cancel_work_and_wait
CancelPeer(n) ==
  /\ cpc = "purge" /\ n \in todo
  /\ cpc' = "cancel"
  /\ todo' = todo \ {n}
  /\ queue' = Append(queue, [type |-> "cancel", peer |-> n])
  /\ UNCHANGED <<manager, gen, gone, known, target, offered, commits>>

\* Endpoints and reverse maps follow the new map.
Rebuild ==
  /\ cpc = "purge" /\ todo = {}
  /\ known' = target
  /\ cpc' = "rebuild"
  /\ UNCHANGED <<manager, gen, gone, target, offered, todo, commits, queue>>

\* PeerAuthorization::reconcile, and the relay servers with their generations
\* go to the manager.  Generations are compared per node: a commit gives all
\* its new nodes the same.
Reconcile ==
  /\ cpc = "rebuild"
  /\ gen' = [n \in Nodes |-> IF n \notin target THEN 0
                             ELSE IF n \in gone \/ gen[n] = 0 THEN commits ELSE gen[n]]
  /\ gone' = {}
  /\ queue' = Append(queue, [type |-> "servers",
                             servers |-> [s \in Relays |-> IF s \in offered THEN gen'[s] ELSE 0]])
  /\ cpc' = "servers"
  /\ UNCHANGED <<manager, known, target, offered, todo, commits>>

\* start_discovery for every peer of the map.
StartPeer(p) ==
  /\ cpc = "start" /\ p \in todo
  /\ queue' = Append(queue, [type |-> "start", peer |-> p, pgen |-> gen[p]])
  /\ todo' = todo \ {p}
  /\ UNCHANGED <<manager, gen, gone, known, cpc, target, offered, commits>>

EndCommit ==
  /\ cpc = "start" /\ todo = {}
  /\ cpc' = "idle"
  /\ UNCHANGED <<manager, queue, gen, gone, known, target, offered, todo, commits>>

CommitStep == Rebuild \/ Reconcile \/ EndCommit \/ \E n \in todo : CancelPeer(n) \/ StartPeer(n)

-----------------------------------------------------------------------------

Next ==
  \/ LoopStep
  \/ Message
  \/ \E t \in tasks : Finish(t) \/ Cancelled(t)
  \/ \E map \in SUBSET Nodes :
       \E relays \in SUBSET (map \cap Relays), refreshed \in SUBSET {n \in map : gen[n] # 0} :
         BeginCommit(map, relays, refreshed)
  \/ CommitStep

Spec == Init /\ [][Next]_vars

\* The runtime polls the loop and the commit, and a task sees its cancel signal.
Fairness ==
  /\ WF_vars(LoopStep)
  /\ WF_vars(CommitStep)
  /\ WF_vars(\E t \in tasks : t.cancelled /\ (Finish(t) \/ Cancelled(t)))

FairSpec == Spec /\ Fairness

-----------------------------------------------------------------------------
(* Properties *)

Paths == [addr : Relays, vni : Vnis, server : Relays, sgen : Generations]

Tasks == [work : Work, reply : Endpoints \cup {None}, pinged : SUBSET Relays, pong : Relays \cup {None},
          cancelled : BOOLEAN]

Events ==
  [type : {"start"}, peer : Clients, pgen : Generations] \cup [type : {"cancel"}, peer : Nodes]
  \cup [type : {"servers"}, servers : [Relays -> Generations]] \cup [type : {"complete"}]
  \cup [type : {"done"}, work : Work, reply : Endpoints \cup {None}, pong : Relays \cup {None}]

Loops ==
  [at : {"idle", "cancel", "servers"}]
  \cup [at : {"replace", "spawn"}, peer : Clients, pgen : Generations, server : Relays, sgen : Generations,
        ep : Endpoints]

\* Work, tasks, events and paths name peers and servers there are.
TypeOK ==
  /\ gen \in [Nodes -> Generations] /\ gone \subseteq Nodes /\ known \subseteq Nodes
  /\ relay \in [Clients -> Paths \cup {None}]
  /\ servers \in [Relays -> Generations]
  /\ work \subseteq Work /\ tasks \subseteq Tasks /\ queue \in Seq(Events) /\ loop \in Loops
  /\ bySdv \in [Relays \X Vnis -> Clients \cup {None}]
  /\ awaiting \in [Relays \X Vnis -> Clients \cup {None}]
  /\ cpc \in {"idle", "purge", "cancel", "rebuild", "servers", "start"}
  /\ target \subseteq Nodes /\ offered \subseteq target \cap Relays
  /\ todo \subseteq (IF cpc = "start" THEN target \cap Clients ELSE gone) /\ commits \in 0..MaxCommits

\* The three tables of the loop agree: a server and VNI leads to the one
\* handshake there is for them, and a pong is awaited only for a peer that has
\* a handshake of that VNI (cancel_handshake, stop_work, stop_server_work and
\* handle_handshake_work_done each undo all three).
TablesAgree ==
  /\ \A k \in Relays \X Vnis, p \in Clients :
       bySdv[k] = p <=> \E w \in Handshake(p, k[1]) : w.vni = k[2]
  /\ \A v, w \in work : v.kind = "handshake" /\ w.kind = v.kind /\ v.peer = w.peer /\ v.server = w.server => v = w
  /\ \A k \in Relays \X Vnis : awaiting[k] # None => \E w \in Handshakes(awaiting[k]) : w.vni = k[2]

\* Work has a task, or a result on its way to the loop: else it would block the
\* discovery of its peer for good (StartDiscovery skips a peer with work).
NoStuckWork ==
  \A w \in work : \/ \E t \in tasks : t.work = w /\ ~t.cancelled
                  \/ \E i \in DOMAIN queue : queue[i].type = "done" /\ queue[i].work = w

\* An allocation result that the loop takes for a piece of work comes from that
\* work, although the allocation generation is not compared
\* (handle_alloc_work_done).
OwnCompletion ==
  \A i \in DOMAIN queue :
    queue[i].type = "done" /\ queue[i].work.kind = "alloc" =>
      \A w \in work :
        w = [queue[i].work EXCEPT !.id = w.id] => w = queue[i].work

Committed == cpc \in {"start", "idle"}

\* When a map commit is over, work, relay paths and completions still to be
\* taken are of peers and servers of that map, at their current generation,
\* although work may be spawned and a path be set in the middle of the commit:
\* it is acknowledged behind the completions of the work it stopped
\* (set_netmap, handle_servers_update, ServersUpdateComplete of run_event_loop).
CommittedWorkIsCurrent ==
  Committed =>
    /\ \A w \in work : Authorized(w.peer, w.pgen) /\ servers[w.server] = w.sgen /\ Authorized(w.server, w.sgen)
    /\ \A p \in Clients : relay[p] # None =>
         /\ gen[p] # 0
         /\ servers[relay[p].server] = relay[p].sgen /\ Authorized(relay[p].server, relay[p].sgen)
    /\ \A i \in DOMAIN queue : queue[i].type = "done" =>
         LET w == queue[i].work IN gen[w.peer] = w.pgen /\ servers[w.server] = w.sgen

\* A map commit ends: no wait of the commit, the loop and the tasks for each
\* other is circular (cancel_work_and_wait, join_cancelled).
CommitEnds == cpc # "idle" ~> cpc = "idle"
=============================================================================
