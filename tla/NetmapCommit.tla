---------------------------- MODULE NetmapCommit ----------------------------
(***************************************************************************)
(* Committing a network map against the receive path.  A map update of     *)
(* tsnet holds peer_map.gate for writing and runs Magicsock::set_netmap,   *)
(* which holds authorization_delivery_barrier for writing: endpoints and   *)
(* reverse maps are purged and rebuilt, then the peers' authorization      *)
(* generations are published.  Meanwhile receive tasks look peers up,      *)
(* stamp ciphertexts with a generation and queue them under a credit, and  *)
(* the packet pump takes them out, checks the stamp and delivers.          *)
(*                                                                         *)
(* Both locks are tokio RwLocks, whose queue is fair: a reader waits while *)
(* a writer holds the lock or is queued for it.  Who holds a lock follows  *)
(* from where the processes are.  A receive batch is one run of packets of *)
(* one peer; it holds one credit, the least a batch may hold.              *)
(***************************************************************************)
EXTENDS Integers, Sequences, FiniteSets

CONSTANTS
  Peers,         \* node keys
  Discos,        \* disco keys
  Addrs,         \* UDP source addresses
  Receivers,     \* receive tasks: UDP sockets and DERP connections
  Credits,       \* WG_RECEIVE_PACKET_CAPACITY
  MaxCommits,    \* bound on map updates
  DisableDirect, \* Inner.disable_direct_paths
  TunPump,       \* the pumps there are: TUN (TRUE), netstack (FALSE)
  NoKey,         \* the zero disco key
  Absent,        \* no such node in the map, no endpoint
  NoPeer,
  NoAddr         \* the source of a DERP frame

ASSUME NetmapAssumption ==
  /\ IsFiniteSet(Peers) /\ IsFiniteSet(Receivers)
  /\ Credits \in Nat \ {0}
  /\ MaxCommits \in Nat
  /\ DisableDirect \in BOOLEAN
  /\ TunPump \subseteq BOOLEAN
  /\ NoKey \notin Discos /\ Absent \notin Discos /\ NoKey # Absent
  /\ NoPeer \notin Peers /\ NoAddr \notin Addrs

VARIABLES
  endpoints,     \* peer -> disco key of its endpoint, or Absent
  discoToPeer,   \* reverse map of disco keys
  addrToPeer,    \* reverse map of UDP addresses
  generations,   \* peer -> authorization generation, 0 when not authorized
  nextGeneration,
  era,           \* peer -> revocations so far; history, read by no action
  evidence,      \* peer -> era its endpoint's path evidence is of, or -1
  upd,           \* where the map update is
  target,        \* the map it commits: peer -> disco key, or Absent
  withdraw,      \* it withdraws every peer (Tailnet Lock, changed identity)
  refreshed,     \* peers of it whose disco key changed
  commits,       \* map updates so far
  rpc, pkt,      \* where each receive task is and the packet it handles
  channel,       \* the wg_send channel
  credits,       \* free wg_receive_credits
  cpc, batch,    \* where the pump is and the batch it handles
  tun,           \* TRUE for the TUN pump, FALSE for the netstack pump
  sameEpoch,     \* authorization_epoch is what the TUN pump read for its batch
  tunnels,       \* peers with a WireGuard tunnel
  closed         \* Inner.closed

authVars == <<endpoints, discoToPeer, addrToPeer, generations, nextGeneration, era, evidence>>
updVars == <<upd, target, withdraw, refreshed, commits>>
recvVars == <<rpc, pkt>>
pumpVars == <<cpc, batch, tun>>
vars == <<authVars, updVars, recvVars, channel, credits, pumpVars, sameEpoch, tunnels, closed>>

Keys == Discos \cup {NoKey}
Maps == [Peers -> Keys \cup {Absent}]
Packets == [peer : Peers, gen : Nat, era : Nat, addr : Addrs \cup {NoAddr}]

UpdPC == {"idle", "gate", "clear", "netmap", "barrier", "purge", "maps", "rebuild", "reconcile",
          "servers", "install"}
RecvPC == {"idle", "order", "stamp", "credit", "enqueue", "send", "pong", "reply"}
PumpPC == {"idle", "observe", "gate", "guard", "deliver", "note"}

\* Receive tasks and pump states that own a packet credit.
HoldsCredit == {r \in Receivers : rpc[r] \in {"enqueue", "send"}}
PumpHoldsCredit == cpc = "observe" \/ (cpc = "gate" /\ ~tun)

\* No more credits are free than were made, and a receive task beyond its lookup
\* has a packet, however tasks and batches are dropped (WgReceiveBatch).
TypeOK ==
  /\ endpoints \in Maps
  /\ discoToPeer \in [Discos -> Peers \cup {NoPeer}]
  /\ addrToPeer \in [Addrs -> Peers \cup {NoPeer}]
  /\ generations \in [Peers -> Nat] /\ nextGeneration \in Nat
  /\ era \in [Peers -> Nat] /\ evidence \in [Peers -> Nat \cup {-1}]
  /\ upd \in UpdPC /\ target \in Maps /\ withdraw \in BOOLEAN
  /\ refreshed \subseteq Peers /\ commits \in 0 .. MaxCommits
  /\ rpc \in [Receivers -> RecvPC] /\ pkt \in [Receivers -> Packets \cup {NoPeer}]
  /\ \A r \in Receivers : rpc[r] # "idle" => pkt[r] \in Packets
  /\ channel \in Seq(Packets)
  /\ credits \in 0 .. Credits
  /\ cpc \in PumpPC /\ (cpc # "idle" => batch \in Packets)
  /\ tun \in BOOLEAN /\ sameEpoch \in BOOLEAN
  /\ tunnels \subseteq Peers /\ closed \in BOOLEAN

\* A node that has not yet been given a map.
Init ==
  /\ endpoints = [p \in Peers |-> Absent]
  /\ discoToPeer = [d \in Discos |-> NoPeer]
  /\ addrToPeer = [a \in Addrs |-> NoPeer]
  /\ generations = [p \in Peers |-> 0] /\ nextGeneration = 0
  /\ era = [p \in Peers |-> 0] /\ evidence = [p \in Peers |-> -1]
  /\ upd = "idle" /\ target = [p \in Peers |-> Absent] /\ withdraw = FALSE
  /\ refreshed = {} /\ commits = 0
  /\ rpc = [r \in Receivers |-> "idle"] /\ pkt = [r \in Receivers |-> NoPeer]
  /\ channel = <<>> /\ credits = Credits
  /\ cpc = "idle" /\ batch = NoPeer /\ tun \in TunPump /\ sameEpoch = FALSE
  /\ tunnels = {} /\ closed = FALSE

-----------------------------------------------------------------------------
(* The two locks *)

\* Mutant: the ping handler drops its guard before the pong is sent.
BarrierReaders_NoPong == {r \in Receivers : rpc[r] \in {"send", "reply"}}

\* Handlers that keep the barrier's read side across an await.
BarrierReaders == {r \in Receivers : rpc[r] \in {"send", "pong", "reply"}}

BarrierReadable == upd \in {"idle", "gate", "clear", "netmap", "install"}

\* Mutant: the gate is released before path evidence is recorded.
GateRead_NotForNote == cpc \in {"guard", "deliver"}

\* The pump reads peer_map.gate while it handles a batch.
GateRead == cpc \in {"guard", "deliver", "note"}

GateReadable == upd = "idle"

-----------------------------------------------------------------------------
(* The map update *)

Desired == {p \in Peers : target[p] # Absent}
Current(p, gen) == generations[p] = gen /\ gen # 0

\* A map response is ready, or every peer must be withdrawn: the update queues
\* for the gate.
MapResponse(m, w) ==
  /\ upd = "idle" /\ commits < MaxCommits
  /\ w => m = [p \in Peers |-> Absent]
  /\ upd' = "gate"
  /\ target' = m
  /\ withdraw' = w
  /\ commits' = commits + 1
  /\ UNCHANGED <<authVars, refreshed, recvVars, channel, credits, pumpVars, sameEpoch, tunnels, closed>>

Step(next) ==
  /\ upd' = next
  /\ UNCHANGED <<target, withdraw, commits, recvVars, channel, credits, pumpVars, closed>>

\* The gate is won once its readers are gone.
GateWrite ==
  /\ upd = "gate" /\ ~GateRead
  /\ Step(IF withdraw THEN "clear" ELSE "netmap")
  /\ UNCHANGED <<authVars, refreshed, sameEpoch, tunnels>>

\* A withdrawal clears the tunnels and the identities before set_netmap.
ClearTunnels ==
  /\ upd = "clear"
  /\ Step("netmap")
  /\ tunnels' = {}
  /\ sameEpoch' = FALSE
  /\ UNCHANGED <<authVars, refreshed>>

\* set_netmap is refused once the socket is closed (the error is logged), ...
SetNetmap ==
  /\ upd = "netmap"
  /\ Step(IF closed THEN "install" ELSE "barrier")
  /\ UNCHANGED <<authVars, refreshed, sameEpoch, tunnels>>

\* ... else it waits for the barrier.
BarrierWrite ==
  /\ upd = "barrier" /\ BarrierReaders = {} /\ cpc # "deliver"
  /\ Step("purge")
  /\ UNCHANGED <<authVars, refreshed, sameEpoch, tunnels>>

\* Endpoints of removed peers and of peers with a new disco key go, ...
PurgeEndpoints ==
  LET fresh == {p \in Desired : endpoints[p] # Absent /\ endpoints[p] # target[p]}
      keep(p) == p \in Desired \ fresh
  IN
  /\ upd = "purge"
  /\ Step("maps")
  /\ refreshed' = fresh
  /\ endpoints' = [p \in Peers |-> IF keep(p) THEN endpoints[p] ELSE Absent]
  /\ evidence' = [p \in Peers |-> IF keep(p) THEN evidence[p] ELSE -1]
  /\ UNCHANGED <<discoToPeer, addrToPeer, generations, nextGeneration, era, sameEpoch, tunnels>>

\* ... then what the reverse maps say of them.
PurgeMaps ==
  LET keep(p) == p \in Desired \ refreshed IN
  /\ upd = "maps"
  /\ Step("rebuild")
  /\ discoToPeer' = [d \in Discos |->
       IF keep(discoToPeer[d]) /\ target[discoToPeer[d]] = d THEN discoToPeer[d] ELSE NoPeer]
  /\ addrToPeer' = [a \in Addrs |-> IF keep(addrToPeer[a]) THEN addrToPeer[a] ELSE NoPeer]
  /\ UNCHANGED <<endpoints, generations, nextGeneration, era, evidence, refreshed, sameEpoch, tunnels>>

\* Phase 1: an endpoint for every peer of the map.  Of peers with one disco key
\* the last in the map's order is indexed.
Rebuild ==
  /\ upd = "rebuild"
  /\ Step("reconcile")
  /\ endpoints' = [p \in Peers |-> IF p \in Desired THEN target[p] ELSE Absent]
  /\ discoToPeer' \in [Discos -> Peers \cup {NoPeer}]
  /\ \A d \in Discos : LET holders == {p \in Desired : target[p] = d} IN
       IF holders = {} THEN discoToPeer'[d] = IF discoToPeer[d] \in Desired THEN discoToPeer[d] ELSE NoPeer
       ELSE discoToPeer'[d] \in holders
  /\ addrToPeer' = [a \in Addrs |-> IF addrToPeer[a] \in Desired THEN addrToPeer[a] ELSE NoPeer]
  /\ UNCHANGED <<generations, nextGeneration, era, evidence, refreshed, sameEpoch, tunnels>>

\* Mutant: a peer with a new disco key keeps its generation.
Fresh_KeepRefreshed == {p \in Desired : generations[p] = 0}

\* Peers that need a new generation.
Fresh == {p \in Desired : p \in refreshed \/ generations[p] = 0}

\* PeerAuthorization::reconcile: they get the next generations, in the order a
\* hash set yields them; the others keep theirs or lose it.
Reconcile ==
  /\ upd = "reconcile"
  /\ Step("servers")
  /\ nextGeneration' = nextGeneration + Cardinality(Fresh)
  /\ generations' \in [Peers -> 0 .. nextGeneration']
  /\ \A p \in Peers :
       IF p \in Fresh THEN generations'[p] > nextGeneration
       ELSE generations'[p] = IF p \in Desired THEN generations[p] ELSE 0
  /\ \A p, q \in Fresh : generations'[p] = generations'[q] => p = q
  /\ era' = [p \in Peers |-> IF generations[p] # 0 /\ p \notin Desired \ refreshed
                             THEN era[p] + 1 ELSE era[p]]
  /\ UNCHANGED <<endpoints, discoToPeer, addrToPeer, evidence, refreshed, sameEpoch, tunnels>>

\* The relay servers are updated: a server that is none any more takes the
\* addresses of its paths (any of addrs) and its disco key (any of keys) out of
\* the reverse maps.  set_netmap returns and the barrier is free.
RelayServersSet(addrs, keys) ==
  /\ upd = "servers"
  /\ Step("install")
  /\ addrToPeer' = [a \in Addrs |-> IF a \in addrs THEN NoPeer ELSE addrToPeer[a]]
  /\ discoToPeer' = [d \in Discos |-> IF d \in keys THEN NoPeer ELSE discoToPeer[d]]
  /\ UNCHANGED <<endpoints, generations, nextGeneration, era, evidence, refreshed, sameEpoch, tunnels>>

\* A commit replaces the tunnels and advances the epoch (a withdrawal has done
\* so already); the gate is free.
InstallPeers ==
  /\ upd = "install"
  /\ upd' = "idle"
  /\ target' = [p \in Peers |-> Absent] /\ withdraw' = FALSE /\ refreshed' = {}
  /\ IF withdraw THEN UNCHANGED <<tunnels, sameEpoch>>
     ELSE tunnels' = Desired /\ sameEpoch' = FALSE
  /\ UNCHANGED <<authVars, commits, recvVars, channel, credits, pumpVars, closed>>

\* A policy change (ShieldsUp) advances the epoch under the gate.
PolicyChange ==
  /\ upd = "idle" /\ ~GateRead /\ commits < MaxCommits
  /\ commits' = commits + 1
  /\ sameEpoch' = FALSE
  /\ UNCHANGED <<authVars, upd, target, withdraw, refreshed, recvVars, channel, credits, pumpVars,
                 tunnels, closed>>

-----------------------------------------------------------------------------
(* Receive tasks *)

At(r, there, p) ==
  /\ rpc' = [rpc EXCEPT ![r] = there]
  /\ pkt' = [pkt EXCEPT ![r] = p]

Drop(r) == At(r, "idle", NoPeer)

Found(p, a) == [peer |-> p, gen |-> 0, era |-> 0, addr |-> a]
Stamped(p, a) == [peer |-> p, gen |-> generations[p], era |-> era[p], addr |-> a]

\* handle_wg_udp and the Linux batch look the source up without any ordering.
LookupUdp(r, a, next) ==
  /\ rpc[r] = "idle" /\ addrToPeer[a] # NoPeer
  /\ At(r, next, Found(addrToPeer[a], a))
  /\ UNCHANGED <<authVars, updVars, channel, credits, pumpVars, sameEpoch, tunnels, closed>>

\* handle_wg_udp then confirms the mapping and stamps under the barrier, ...
StampUdp(r) ==
  LET p == pkt[r].peer
      a == pkt[r].addr
  IN
  /\ rpc[r] = "order" /\ BarrierReadable
  /\ IF addrToPeer[a] = p /\ generations[p] # 0 /\ endpoints[p] # Absent
     THEN At(r, "credit", Stamped(p, a))
     ELSE Drop(r)
  /\ UNCHANGED <<authVars, updVars, channel, credits, pumpVars, sameEpoch, tunnels, closed>>

\* ... the Linux batch stamps at any moment.
StampLinux(r) ==
  LET p == pkt[r].peer IN
  /\ rpc[r] = "stamp"
  /\ IF generations[p] # 0 THEN At(r, "credit", Stamped(p, pkt[r].addr)) ELSE Drop(r)
  /\ UNCHANGED <<authVars, updVars, channel, credits, pumpVars, sameEpoch, tunnels, closed>>

\* handle_derp_packet names the peer by the frame's source key.
StampDerp(r, p) ==
  /\ rpc[r] = "idle" /\ BarrierReadable
  /\ generations[p] # 0 /\ endpoints[p] # Absent
  /\ At(r, "credit", Stamped(p, NoAddr))
  /\ UNCHANGED <<authVars, updVars, channel, credits, pumpVars, sameEpoch, tunnels, closed>>

\* publish_wg_batch: wait for a credit, ...
TakeCredit(r) ==
  /\ rpc[r] = "credit" /\ credits > 0
  /\ credits' = credits - 1
  /\ At(r, "enqueue", pkt[r])
  /\ UNCHANGED <<authVars, updVars, channel, pumpVars, sameEpoch, tunnels, closed>>

\* ... take the barrier and check the stamp again (the credit goes back with
\* the permit when nothing is left to send), ...
Revalidate(r) ==
  /\ rpc[r] = "enqueue" /\ BarrierReadable
  /\ IF Current(pkt[r].peer, pkt[r].gen)
     THEN At(r, "send", pkt[r]) /\ UNCHANGED credits
     ELSE Drop(r) /\ credits' = credits + 1
  /\ UNCHANGED <<authVars, updVars, channel, pumpVars, sameEpoch, tunnels, closed>>

\* Mutant: one slot less.
ChannelCapacity_Short == Credits - 1

\* The channel is made with one slot per credit.
ChannelCapacity == Credits

\* ... and send, holding the barrier; a full channel would block here.
Send(r) ==
  /\ rpc[r] = "send" /\ Len(channel) < ChannelCapacity
  /\ channel' = Append(channel, pkt[r])
  /\ Drop(r)
  /\ UNCHANGED <<authVars, updVars, credits, pumpVars, sameEpoch, tunnels, closed>>

\* authorized_disco_generation
AuthorizedDisco(p, d) == p \in Peers /\ endpoints[p] = d /\ generations[p] # 0

Note(p) == evidence' = [evidence EXCEPT ![p] = era[p]]

\* handle_disco_udp, a Ping of disco key d naming node n: the index finds the
\* peer, or n is indexed.  The pong is awaited under the barrier.
DiscoPing(r, d, n, a) ==
  LET p == IF AuthorizedDisco(discoToPeer[d], d) THEN discoToPeer[d] ELSE n IN
  /\ rpc[r] = "idle" /\ BarrierReadable
  /\ AuthorizedDisco(p, d)
  /\ discoToPeer' = [discoToPeer EXCEPT ![d] = p]
  /\ Note(p)
  /\ IF DisableDirect THEN UNCHANGED recvVars ELSE At(r, "pong", Stamped(p, a))
  /\ UNCHANGED <<endpoints, addrToPeer, generations, nextGeneration, era, updVars, channel, credits,
                 pumpVars, sameEpoch, tunnels, closed>>

\* The pong is sent (or failed): the source address is indexed.
PongSent(r) ==
  /\ rpc[r] = "pong"
  /\ addrToPeer' = [addrToPeer EXCEPT ![pkt[r].addr] = pkt[r].peer]
  /\ Drop(r)
  /\ UNCHANGED <<endpoints, discoToPeer, generations, nextGeneration, era, evidence, updVars, channel,
                 credits, pumpVars, sameEpoch, tunnels, closed>>

\* A Pong that matches a ping this node sent from the endpoint of p.
DiscoPong(r, d, p, a) ==
  /\ rpc[r] = "idle" /\ BarrierReadable
  /\ AuthorizedDisco(p, d)
  /\ AuthorizedDisco(discoToPeer[d], d) => p = discoToPeer[d]
  /\ Note(p)
  /\ addrToPeer' = [addrToPeer EXCEPT ![a] = p]
  /\ UNCHANGED <<endpoints, discoToPeer, generations, nextGeneration, era, updVars, recvVars, channel,
                 credits, pumpVars, sameEpoch, tunnels, closed>>

\* Inner::set_relay, called by the relay manager without the barrier: the relay
\* address a is indexed for p and the addresses it replaces are not any more.
\* The work's generation and disco key must be the current ones.
SetRelay(p, a, replaced) ==
  /\ generations[p] # 0 /\ endpoints[p] \in Discos
  /\ addrToPeer' = [b \in Addrs |-> IF b = a THEN p
                                   ELSE IF b \in replaced /\ addrToPeer[b] = p THEN NoPeer
                                   ELSE addrToPeer[b]]
  /\ UNCHANGED <<endpoints, discoToPeer, generations, nextGeneration, era, evidence, updVars, recvVars,
                 channel, credits, pumpVars, sameEpoch, tunnels, closed>>

\* handle_disco_derp keeps the barrier while it answers (a pong, pings to the
\* addresses of a CallMeMaybe), if the message asks for an answer.
DiscoDerp(r, p, d, answers) ==
  /\ rpc[r] = "idle" /\ BarrierReadable
  /\ AuthorizedDisco(p, d)
  /\ Note(p)
  /\ IF answers THEN At(r, "reply", Stamped(p, NoAddr)) ELSE UNCHANGED recvVars
  /\ UNCHANGED <<endpoints, discoToPeer, addrToPeer, generations, nextGeneration, era, updVars, channel,
                 credits, pumpVars, sameEpoch, tunnels, closed>>

ReplySent(r) ==
  /\ rpc[r] = "reply"
  /\ Drop(r)
  /\ UNCHANGED <<authVars, updVars, channel, credits, pumpVars, sameEpoch, tunnels, closed>>

\* Shutdown aborts a receive task at any await; its guard and permit go.
AbortReceiver(r) ==
  /\ closed /\ rpc[r] # "idle"
  /\ credits' = IF r \in HoldsCredit THEN credits + 1 ELSE credits
  /\ Drop(r)
  /\ UNCHANGED <<authVars, updVars, channel, pumpVars, sameEpoch, tunnels, closed>>

Close ==
  /\ ~closed
  /\ closed' = TRUE
  /\ UNCHANGED <<authVars, updVars, recvVars, channel, credits, pumpVars, sameEpoch, tunnels>>

-----------------------------------------------------------------------------
(* The packet pump *)

Pump(there) ==
  /\ cpc' = there
  /\ batch' = IF there = "idle" THEN NoPeer ELSE batch
  /\ UNCHANGED tun

Receive ==
  /\ cpc = "idle" /\ channel # <<>>
  /\ cpc' = IF tun THEN "observe" ELSE "gate"
  /\ batch' = Head(channel)
  /\ channel' = Tail(channel)
  /\ UNCHANGED <<authVars, updVars, recvVars, credits, tun, sameEpoch, tunnels, closed>>

\* The TUN pumps unpack the batch (the credit goes back) and read the epoch
\* before they queue for the gate.
ObserveEpoch ==
  /\ cpc = "observe"
  /\ Pump("gate")
  /\ credits' = credits + 1
  /\ sameEpoch' = TRUE
  /\ UNCHANGED <<authVars, updVars, recvVars, channel, tunnels, closed>>

\* Under the gate: the netstack pump unpacks; a stale stamp or a peer without
\* a tunnel ends the batch.  The TUN pumps decapsulate before they ask for the
\* barrier, the netstack pump after.
EnterGate ==
  /\ cpc = "gate" /\ GateReadable
  /\ credits' = IF tun THEN credits ELSE credits + 1
  /\ IF Current(batch.peer, batch.gen) /\ batch.peer \in tunnels
     THEN Pump(IF tun THEN "note" ELSE "guard")
     ELSE Pump("idle")
  /\ UNCHANGED <<authVars, updVars, recvVars, channel, sameEpoch, tunnels, closed>>

\* authorization_delivery_guard, and the last check before delivery.
DeliveryGuard ==
  /\ cpc = "guard" /\ BarrierReadable
  /\ Pump(IF Current(batch.peer, batch.gen) /\ (tun => sameEpoch) THEN "deliver" ELSE "idle")
  /\ UNCHANGED <<authVars, updVars, recvVars, channel, credits, sameEpoch, tunnels, closed>>

\* The plaintext is handed over and the barrier released.
Deliver ==
  /\ cpc = "deliver"
  /\ Pump(IF tun THEN "idle" ELSE "note")
  /\ UNCHANGED <<authVars, updVars, recvVars, channel, credits, sameEpoch, tunnels, closed>>

\* note_authenticated_wg_transport: path evidence, outside the barrier.
NoteTransport ==
  LET p == batch.peer IN
  /\ cpc = "note"
  /\ evidence' = IF Current(p, batch.gen) /\ endpoints[p] # Absent
                 THEN [evidence EXCEPT ![p] = batch.era] ELSE evidence
  /\ Pump(IF tun THEN "guard" ELSE "idle")
  /\ UNCHANGED <<endpoints, discoToPeer, addrToPeer, generations, nextGeneration, era, updVars,
                 recvVars, channel, credits, sameEpoch, tunnels, closed>>

-----------------------------------------------------------------------------

Update ==
  \/ \E m \in Maps, w \in BOOLEAN : MapResponse(m, w)
  \/ GateWrite \/ ClearTunnels \/ SetNetmap \/ BarrierWrite \/ PurgeEndpoints \/ PurgeMaps
  \/ Rebuild \/ Reconcile \/ InstallPeers \/ PolicyChange
  \/ \E addrs \in SUBSET Addrs, keys \in SUBSET Discos : RelayServersSet(addrs, keys)
  \/ \E p \in Peers, a \in Addrs, replaced \in SUBSET Addrs : SetRelay(p, a, replaced)

Handle(r) ==
  \/ \E a \in Addrs : LookupUdp(r, a, "order") \/ LookupUdp(r, a, "stamp")
  \/ StampUdp(r) \/ StampLinux(r) \/ TakeCredit(r) \/ Revalidate(r) \/ Send(r)
  \/ PongSent(r) \/ ReplySent(r) \/ AbortReceiver(r)
  \/ \E p \in Peers : StampDerp(r, p)
  \/ \E d \in Discos, p \in Peers, a \in Addrs : DiscoPing(r, d, p, a) \/ DiscoPong(r, d, p, a)
  \/ \E d \in Keys, p \in Peers, b \in BOOLEAN : DiscoDerp(r, p, d, b)

Consume == Receive \/ ObserveEpoch \/ EnterGate \/ DeliveryGuard \/ Deliver \/ NoteTransport

Next == Update \/ (\E r \in Receivers : Handle(r)) \/ Consume \/ Close

Spec == Init /\ [][Next]_vars

\* tokio polls every ready task, and its locks are fair, so a process that can
\* take its next step takes it.
Fairness ==
  /\ WF_vars(GateWrite) /\ WF_vars(ClearTunnels) /\ WF_vars(SetNetmap) /\ WF_vars(BarrierWrite)
  /\ WF_vars(PurgeEndpoints) /\ WF_vars(PurgeMaps) /\ WF_vars(Rebuild) /\ WF_vars(Reconcile)
  /\ WF_vars(RelayServersSet({}, {})) /\ WF_vars(InstallPeers)
  /\ \A r \in Receivers : WF_vars(Send(r)) /\ WF_vars(PongSent(r)) /\ WF_vars(ReplySent(r))
  /\ WF_vars(DeliveryGuard) /\ WF_vars(Deliver) /\ WF_vars(NoteTransport)

FairSpec == Spec /\ Fairness

-----------------------------------------------------------------------------
(* Properties *)

\* A ciphertext accepted before its peer was removed, or changed its disco key,
\* is never delivered after that commit, not even when the peer has returned;
\* and at delivery the peer has a tunnel and an endpoint
\* (set_netmap, publish_wg_batch, handle_inbound_wg_datagrams).
NoStaleDelivery ==
  cpc = "deliver" =>
    /\ batch.era = era[batch.peer]
    /\ batch.peer \in tunnels
    /\ endpoints[batch.peer] # Absent

\* Whenever the barrier can be read, the reverse maps name only peers of the
\* committed map, a disco key only a peer that has this key, and exactly the
\* peers with an endpoint are authorized (set_netmap against the disco
\* handlers, which insert into the maps after an await).
ReverseMapsAuthorized ==
  BarrierReadable =>
    /\ \A p \in Peers : generations[p] # 0 <=> endpoints[p] # Absent
    /\ \A a \in Addrs : addrToPeer[a] # NoPeer => endpoints[addrToPeer[a]] # Absent
    /\ \A d \in Discos : discoToPeer[d] # NoPeer => endpoints[discoToPeer[d]] = d

\* Path evidence of an endpoint was authenticated since its peer was last
\* revoked.  note_authenticated_wg_transport is not under the barrier and the
\* generations are published after the endpoints are rebuilt: only the gate
\* keeps old evidence off a new endpoint.
EvidenceFresh == \A p \in Peers : evidence[p] \in {-1, era[p]}

\* A receive task that holds the barrier and sends finds room in the channel:
\* credits, carried by the batch until the pump unpacks it, never let the
\* channel fill up.  If it blocked here, the map update would wait for the
\* barrier, the pump for the gate and the task for the pump.
PublisherNeverBlocks == \A r \in Receivers : rpc[r] = "send" => Len(channel) < ChannelCapacity

\* While the pump works on a batch it sees one map: the peers with a tunnel are
\* the authorized ones, unless set_netmap was refused by a closed socket
\* (map commits replace every peer-derived table under the gate).
OneMap == GateRead /\ ~closed => tunnels = {p \in Peers : generations[p] # 0}

\* A map update always gets through: the handlers that keep the barrier across
\* an await and the pump that keeps the gate let go of them.
CommitCompletes == upd # "idle" ~> upd = "idle"
=============================================================================
