----------------------------- MODULE PortMapper -----------------------------
(***************************************************************************)
(* The port mapping client (portmapper/src/client.rs).  One allocation     *)
(* flight at a time asks the gateway for a NAT mapping by PMP, PCP or UPnP.*)
(* A change of the gateway or of the local port starts a new generation    *)
(* and hands the cached mapping to a release task.  Whatever a gateway may *)
(* hold without the client knowing stands in a ledger (uncertain_releases) *)
(* until a deletion of it is confirmed or its lease is over.  Shutdown     *)
(* joins or aborts all tasks, works the ledger off and closes the gate     *)
(* that every send passes.                                                 *)
(*                                                                         *)
(* A request is handled while its sender waits for the answer, or lost;    *)
(* so may the answer be.  Leases are compared by who granted last: a lease *)
(* is over for the client no earlier than for the gateway.                 *)
(***************************************************************************)
EXTENDS Naturals, FiniteSets

CONSTANTS
  Gateways,   \* gateways the machine can be behind
  None,       \* no gateway, no mapping
  Protocols,  \* protocols some gateway answers: of pmp, pcp, upnp
  Services,   \* UPnP services a gateway can announce
  Ports,      \* external ports; 0 stands for a port that is not known
  LocalPorts, \* local UDP ports; None until one is set
  MaxEvents,  \* bound: calls, and changes of the gateway, of leases and of trust
  MaxShutdown \* bound: calls of shutdown

Kinds == {"pmp", "pcp", "upnp"}
Lookers == {"reader", "prober", "flight"}
\* An entry of the ledger (UncertainRelease): what a deletion needs to know.
Ownerships == [own : Nat, kind : Kinds, gw : Gateways, iport : LocalPorts, port : Ports \cup {0},
               gen : Nat, svc : Services \cup {0}, lease : {"unknown", "finite", "permanent"}]
\* CachedMapping
Mappings == [e : Ownerships, age : {"fresh", "renew", "over"}]
Observations == [gw : Gateways \cup {None}, stale : BOOLEAN, older : SUBSET Lookers]

ASSUME PortMapperAssumption ==
  /\ Protocols \subseteq Kinds
  /\ Ports \subseteq Nat \ {0} /\ Ports # {}
  /\ None \notin Gateways /\ None \notin LocalPorts
  /\ None \notin Mappings /\ None \notin Observations
  /\ MaxEvents \in Nat /\ MaxShutdown \in Nat

VARIABLES
  gwNow,     \* the default gateway of the machine
  nat,       \* per gateway: the mappings it holds for this client
  st,        \* ClientState and local_port
  closing,   \* WorkGate::closing, and closed
  terminal,  \* WorkGate::send_terminal
  pending,   \* WorkGate::pending_releases
  nextOwn,   \* next_ownership_id
  lookups,   \* each task's gateway lookup under way, with those numbered before it
  flight,    \* the allocation supervisor
  prober,    \* a task of probe()
  reader,    \* a caller that reads the cache
  launcher,  \* the background task of maybe_start_create, with running_create
  releases,  \* release tasks
  sh,        \* the shutdown supervisor
  permits,   \* tasks that hold a SendPermit across an await
  events     \* calls and changes so far

world == <<gwNow, nat>>
gate == <<closing, terminal, pending, nextOwn>>
tasks == <<flight, prober, reader, launcher, releases, sh>>
vars == <<world, st, gate, lookups, tasks, permits, events>>

Pxp == {"pmp", "pcp"}
NoSnap == [gw |-> None, gen |-> 0]
IdleFlight == [pc |-> "idle", snap |-> NoSnap, kind |-> "pmp", svc |-> 0, left |-> {},
               iport |-> None, prev |-> 0, recent |-> {}, cand |-> None, back |-> "idle"]
Idle == [pc |-> "idle", snap |-> NoSnap]

Event == events < MaxEvents /\ events' = events + 1

-----------------------------------------------------------------------------
(* State under the lock                                                       *)

\* Mutant: only the gateway is compared, not the generation.
Current_GatewayOnly(snap) == ~closing /\ st.gateway = snap.gw

\* with_current_gateway
Current(snap) == ~closing /\ st.gen = snap.gen /\ st.gateway = snap.gw

\* acquire_send_permit, for a snapshot and for a cleanup
MaySend(snap) == st.gen = snap.gen /\ st.gateway = snap.gw /\ ~terminal /\ ~closing
MayCleanUp == ~terminal

\* reset_mapping_state
Reset(s) == [s EXCEPT !.mapping = None, !.probed = FALSE, !.seen = {}, !.services = {}]

\* reserve_release: ledger, count and task, before the lock is given up
Owned(s, own) == \E e \in s.ledger : e.own = own

Reserve(s, old) ==
  IF old = None THEN UNCHANGED <<pending, releases>> /\ st' = s
  ELSE /\ st' = IF Owned(s, old.e.own) THEN s ELSE [s EXCEPT !.ledger = @ \cup {old.e}]
       /\ pending' = pending + 1
       /\ releases' = releases \cup {[e |-> old.e, pc |-> "new"]}

\* invalidate_mappings(true) on the state s
Invalidate(s) ==
  Reserve([Reset(s) EXCEPT !.gen = @ + 1, !.needsProbe = (s.gateway # None)], s.mapping)

\* clear_uncertain_ownership, clear_uncertain_release
Forget(s, own) == [s EXCEPT !.ledger = {e \in @ : e.own # own}]

-----------------------------------------------------------------------------
(* The gateway.  PMP and PCP know a mapping by protocol and internal port,    *)
(* UPnP by external port.                                                     *)

\* What a deletion built from entry e removes at its gateway.
Hits(e, r) == IF e.kind \in Pxp THEN r.kind = e.kind /\ r.iport = e.iport
              ELSE r.kind = "upnp" /\ r.port = e.port
Deleted(e) == [nat EXCEPT ![e.gw] = {r \in @ : ~Hits(e, r)}]

Record(e, port) == [kind |-> e.kind, port |-> port, iport |-> e.iport, by |-> e.own,
                    perm |-> (e.lease = "permanent")]
\* The port the gateway gives: the one it already maps, or a free one.
Grants(e) ==
  LET same == {r \in nat[e.gw] : Hits(e, r)}
      taken == {r.port : r \in nat[e.gw]}
  IN IF e.kind = "upnp" THEN (IF e.port \in taken /\ same = {} THEN {} ELSE {e.port})
     ELSE IF same # {} THEN {r.port : r \in same} ELSE Ports \ taken
Added(e, port) == [Deleted(e) EXCEPT ![e.gw] = @ \cup {Record(e, port)}]

\* The machine moves to another network.
GatewayChanges(g) ==
  /\ Event
  /\ gwNow # g /\ gwNow' = g
  /\ UNCHANGED <<nat, st, gate, lookups, tasks, permits>>

\* The gateway's lease of a mapping ends.
LeaseEnds(g, r) ==
  /\ Event
  /\ r \in nat[g] /\ ~r.perm
  /\ nat' = [nat EXCEPT ![g] = @ \ {r}]
  /\ UNCHANGED <<gwNow, st, gate, lookups, tasks, permits>>

GoneAt(e) == \A r \in nat[e.gw] : r.by # e.own

\* The cached mapping passes half its lifetime, and its end.
MappingAges ==
  /\ Event
  /\ st.mapping # None
  /\ \/ st.mapping.age = "fresh" /\ st' = [st EXCEPT !.mapping.age = "renew"]
     \/ /\ st.mapping.age = "renew"
        /\ st.mapping.e.lease = "permanent" \/ GoneAt(st.mapping.e)
        /\ st' = [st EXCEPT !.mapping.age = "over"]
  /\ UNCHANGED <<world, gate, lookups, tasks, permits>>

\* TRUST_DURATION has passed since the last probe.
TrustExpires ==
  /\ Event
  /\ st.probed
  /\ st' = [st EXCEPT !.probed = FALSE, !.seen = {}]
  /\ UNCHANGED <<world, gate, lookups, tasks, permits>>

-----------------------------------------------------------------------------
(* observe_gateway: numbered, looked up, and applied unless a lookup with a   *)
(* higher number was applied in between.                                      *)

Lookup(who) ==
  lookups' = [lookups EXCEPT ![who] = [gw |-> gwNow, stale |-> FALSE,
                                       older |-> {w \in Lookers : lookups[w] # None}]]

\* The lookups of ws are over; those in `passed` have lost to a later one.
LookupsEnd(ws, passed) ==
  lookups' = [w \in Lookers |->
                IF w \in ws \/ lookups[w] = None THEN None
                ELSE [lookups[w] EXCEPT !.stale = @ \/ w \in passed, !.older = @ \ ws]]

Observe(who) ==
  LET l == lookups[who] IN
  /\ LookupsEnd({who}, IF l.stale THEN {} ELSE l.older)
  /\ IF l.stale \/ l.gw = st.gateway THEN UNCHANGED <<st, pending, releases>>
     ELSE Invalidate([st EXCEPT !.gateway = l.gw])
Snapshot == [gw |-> st'.gateway, gen |-> st'.gen]

\* set_local_port: the port and the invalidation, under the port lock
SetLocalPort(p) ==
  /\ Event
  /\ ~closing /\ st.port # p
  /\ Invalidate([st EXCEPT !.port = p])
  /\ UNCHANGED <<world, closing, terminal, nextOwn, lookups, flight, prober, reader, launcher,
                 sh, permits>>

\* have_mapping, cached_mapping, get_cached_mapping_or_start_creating_one
ReadStart ==
  /\ Event
  /\ reader.pc = "idle" /\ ~closing
  /\ reader' = [reader EXCEPT !.pc = "lookup"]
  /\ Lookup("reader")
  /\ UNCHANGED <<world, st, gate, flight, prober, launcher, releases, sh, permits>>

\* maybe_start_create: only a mapping that is fresh needs none
StartCreate ==
  launcher' = IF closing \/ launcher.pc # "idle" \/ (st'.mapping # None /\ st'.mapping.age = "fresh")
              THEN launcher ELSE [launcher EXCEPT !.pc = "create"]

ReadObserves ==
  /\ reader.pc = "lookup"
  /\ Observe("reader")
  /\ reader' = Idle
  /\ \/ st'.gateway # None /\ StartCreate
     \/ UNCHANGED launcher
  /\ UNCHANGED <<world, closing, terminal, nextOwn, flight, prober, sh, permits, events>>

-----------------------------------------------------------------------------
(* probe_with_snapshot, in a task of probe() and inside the flight            *)

ProbeStart ==
  /\ Event
  /\ prober.pc = "idle" /\ ~closing
  /\ prober' = [prober EXCEPT !.pc = "lookup"]
  /\ Lookup("prober")
  /\ UNCHANGED <<world, st, gate, flight, reader, launcher, releases, sh, permits>>

ProbeObserves ==
  /\ prober.pc = "lookup"
  /\ Observe("prober")
  /\ prober' = [pc |-> IF st'.gateway = None THEN "idle" ELSE "p_reset", snap |-> Snapshot]
  /\ UNCHANGED <<world, closing, terminal, nextOwn, flight, reader, launcher, sh, permits, events>>

\* A full probe forgets what was seen and notes the protocols that answer; any
\* step finds out that its snapshot is no longer current.
ProbeReset == st' = [st EXCEPT !.seen = {}, !.services = {}]
ProbeEnds ==
  \E seen \in SUBSET Protocols, s \in Services :
    st' = [st EXCEPT !.seen = seen, !.services = IF "upnp" \in seen THEN {s} ELSE {},
                     !.probed = TRUE, !.needsProbe = FALSE]

ProbeTask ==
  /\ \/ /\ prober.pc = "p_reset" /\ Current(prober.snap)
        /\ ProbeReset
        /\ prober' = [prober EXCEPT !.pc = "p_see"]
     \/ /\ prober.pc = "p_see" /\ Current(prober.snap)
        /\ ProbeEnds
        /\ prober' = Idle
     \/ /\ prober.pc \in {"p_reset", "p_see"} /\ ~Current(prober.snap)
        /\ prober' = Idle /\ UNCHANGED st
  /\ UNCHANGED <<world, gate, lookups, flight, reader, launcher, releases, sh, permits, events>>

-----------------------------------------------------------------------------
(* The allocation flight                                                      *)

FGoto(pc) == flight' = [flight EXCEPT !.pc = pc]
\* The supervisor has its result; a launcher that waits for it goes on.
WakeLauncher == launcher' = IF launcher.pc = "wait" THEN [launcher EXCEPT !.pc = "tail"] ELSE launcher
FEnd == flight' = IdleFlight /\ WakeLauncher
flightOnly == <<world, gate, lookups, prober, reader, releases, sh, permits, events>>

\* create_or_get_mapping: join the flight, or start one; it looks up the gateway
\* when it is polled first.
StartFlight == flight' = [IdleFlight EXCEPT !.pc = "lookup"] /\ Lookup("flight")
CallCreate ==
  /\ Event
  /\ flight.pc = "idle" /\ ~closing
  /\ StartFlight
  /\ UNCHANGED <<world, st, gate, prober, reader, launcher, releases, sh, permits>>

Launch ==
  /\ launcher.pc = "create"
  /\ launcher' = [pc |-> IF closing THEN "tail" ELSE "wait", gen |-> st.gen]
  /\ IF flight.pc = "idle" /\ ~closing THEN StartFlight ELSE UNCHANGED <<flight, lookups>>
  /\ UNCHANGED <<world, st, gate, prober, reader, releases, sh, permits, events>>

\* running_create is false again; a new generation means another round.
LaunchEnds ==
  /\ launcher.pc = "tail"
  /\ launcher' = [launcher EXCEPT !.pc = IF st.gateway # None /\ st.gen # launcher.gen /\ ~closing
                                        THEN "create" ELSE "idle"]
  /\ UNCHANGED <<st, flight>> /\ UNCHANGED flightOnly

\* A new or reappeared gateway is probed first.
FlightObserves ==
  /\ flight.pc = "lookup"
  /\ Observe("flight")
  /\ IF st'.gateway = None THEN FEnd
     ELSE /\ flight' = [flight EXCEPT !.pc = IF st'.needsProbe THEN "p_reset" ELSE "fast",
                                      !.snap = Snapshot, !.back = "fast"]
          /\ UNCHANGED launcher
  /\ UNCHANGED <<world, closing, terminal, nextOwn, prober, reader, sh, permits, events>>

\* A step of the flight under with_current_gateway; else GatewayRange.
Checked(pc) == flight.pc = pc /\ Current(flight.snap)
FlightStale ==
  /\ flight.pc \in {"p_reset", "p_see", "fast", "gate", "services"}
  /\ ~Current(flight.snap)
  /\ FEnd
  /\ UNCHANGED st /\ UNCHANGED flightOnly

FlightProbes ==
  /\ \/ Checked("p_reset") /\ ProbeReset /\ FGoto("p_see")
     \/ Checked("p_see") /\ ProbeEnds /\ FGoto(flight.back)
  /\ UNCHANGED launcher /\ UNCHANGED flightOnly

\* A fresh mapping, or no local port, ends the flight; a probe or a protocol
\* that is no longer trusted is probed again.
Untrusted == ~st.probed \/ (st.mapping # None /\ st.mapping.e.kind \notin st.seen)
FastPath ==
  /\ Checked("fast")
  /\ IF (st.mapping # None /\ st.mapping.age = "fresh") \/ st.port = None
     THEN FEnd
     ELSE /\ flight' = [flight EXCEPT !.iport = st.port, !.back = "settle",
                                      !.pc = IF Untrusted THEN "p_reset" ELSE "settle"]
          /\ UNCHANGED launcher
  /\ UNCHANGED st /\ UNCHANGED flightOnly

\* wait_for_pending_releases, then the previous port and the protocol
Settle ==
  /\ flight.pc = "settle" /\ pending = 0
  /\ IF ~Current(flight.snap) THEN FEnd
     ELSE LET r == st.seen
              pxp == r \cap Pxp # {} \/ "upnp" \notin r
          IN /\ flight' = [flight EXCEPT
                  !.recent = r,
                  !.prev = IF st.mapping = None THEN 0 ELSE st.mapping.e.port,
                  !.kind = IF r \cap Pxp = {"pcp"} THEN "pcp" ELSE "pmp",
                  !.pc = IF pxp THEN "gate" ELSE "services"]
             /\ UNCHANGED launcher
  /\ UNCHANGED st /\ UNCHANGED flightOnly

\* release_incompatible_mapping: the old mapping goes to a release task first
Compatible(e) == e.kind = flight.kind /\ (e.kind = "upnp" => e.svc = flight.svc)
Incompatible == st.mapping # None /\ ~Compatible(st.mapping.e)
TakeIncompatible ==
  /\ Checked("gate") /\ Incompatible
  /\ Reserve([st EXCEPT !.mapping = None], st.mapping)
  /\ FGoto("taken")
  /\ UNCHANGED <<world, closing, terminal, nextOwn, lookups, prober, reader, launcher, sh, permits, events>>

TakenReleased ==
  /\ flight.pc = "taken" /\ pending = 0
  /\ FGoto("gate")
  /\ UNCHANGED <<st, launcher>> /\ UNCHANGED flightOnly

\* Entries whose lease is over leave the ledger; one that is left gates its port.
Live(e) == e.lease \in {"unknown", "permanent"} \/ ~GoneAt(e)

\* Mutant: an allocation without a previous port is not gated.
Blocks_SamePort(e) == e.port = flight.prev

Blocks(e) == flight.prev = 0 \/ e.port = flight.prev
PassGate ==
  /\ Checked("gate") /\ ~Incompatible
  /\ \E over \in SUBSET {e \in st.ledger : ~Live(e)} :
       /\ st' = [st EXCEPT !.ledger = @ \ over]
       /\ IF \E e \in st'.ledger : Blocks(e) THEN FEnd
          ELSE FGoto(IF flight.kind = "upnp" THEN "retry" ELSE "push") /\ UNCHANGED launcher
  /\ UNCHANGED flightOnly

Entry(port, lease) ==
  [own |-> nextOwn, kind |-> flight.kind, gw |-> flight.snap.gw, iport |-> flight.iport,
   port |-> port, gen |-> flight.snap.gen, svc |-> flight.svc, lease |-> lease]

\* Mutant: ownership is not recorded before the request is sent.
Push_Unrecorded(e) == nextOwn' = nextOwn + 1 /\ UNCHANGED st

Push(e) ==
  /\ nextOwn' = nextOwn + 1
  /\ st' = [st EXCEPT !.ledger = @ \cup {e}]

\* Where try_pxp_mapping returned nothing: UPnP when it was seen lately.
AfterPxp == IF "upnp" \in flight.recent THEN FGoto("services") /\ UNCHANGED launcher ELSE FEnd
GiveUp == IF flight.kind = "upnp" THEN FGoto("next_service") /\ UNCHANGED launcher ELSE AfterPxp

\* try_pxp_mapping: ownership is in the ledger before the request is sent
PushPxp ==
  /\ flight.pc = "push"
  /\ \/ /\ ~Current(flight.snap) /\ AfterPxp
        /\ UNCHANGED <<st, nextOwn>>
     \/ FEnd /\ UNCHANGED <<st, nextOwn>>    \* the socket, or the address request, fails
     \/ /\ Current(flight.snap)
        /\ Push(Entry(flight.prev, "unknown"))
        /\ flight' = [flight EXCEPT !.pc = "send", !.cand = Entry(flight.prev, "unknown")]
        /\ UNCHANGED launcher
  /\ UNCHANGED <<world, closing, terminal, pending, lookups, prober, reader, releases, sh, permits, events>>

SendPxp ==
  /\ flight.pc = "send"
  /\ \/ MaySend(flight.snap) /\ FGoto("sent") /\ UNCHANGED <<st, launcher>>
     \/ st' = Forget(st, flight.cand.own) /\ FEnd     \* refused, or a send error
  /\ UNCHANGED flightOnly

\* retained_port_conflicts; retained_key_conflicts for UPnP
Conflicts(e) ==
  \E o \in st.ledger :
    /\ o.own # e.own /\ o.port = e.port
    /\ e.kind = "upnp" /\ o.kind = "upnp" => o.svc = e.svc

\* The request reaches the gateway and so does the answer the client: the
\* provisional entry takes the granted port.  A UPnP mapping still needs its
\* external address, which may not come.
Granted ==
  /\ flight.pc = "sent"
  /\ \E p \in Grants(flight.cand) :
       LET c == [flight.cand EXCEPT !.port = p, !.lease = IF @ = "unknown" THEN "finite" ELSE @] IN
       /\ nat' = Added(flight.cand, p)
       /\ st' = IF Owned(st, c.own) THEN [Forget(st, c.own) EXCEPT !.ledger = @ \cup {c}] ELSE st
       /\ \E pc \in {"commit", "compensate"} :
            /\ pc = "commit" => ~Conflicts(c)
            /\ pc = "compensate" => Conflicts(c) \/ c.kind = "upnp"
            /\ flight' = [flight EXCEPT !.pc = pc, !.cand = c]
  /\ permits' = permits \ {"flight"}
  /\ UNCHANGED <<gwNow, gate, lookups, prober, reader, launcher, releases, sh, events>>

\* Nothing usable comes back, whether or not the request arrived: a PMP or PCP
\* entry just stays, a UPnP one is compensated.
Lost ==
  /\ flight.pc = "sent"
  /\ \/ \E p \in Grants(flight.cand) : nat' = Added(flight.cand, p)
     \/ UNCHANGED nat
  /\ IF flight.kind = "upnp" THEN FGoto("compensate") /\ UNCHANGED launcher ELSE AfterPxp
  /\ permits' = permits \ {"flight"}
  /\ UNCHANGED <<gwNow, st, gate, lookups, prober, reader, releases, sh, events>>

\* A rejection proves that nothing was created.  Some UPnP faults are followed
\* by a second request, for a permanent lease.
Rejected ==
  /\ flight.pc = "sent"
  /\ st' = Forget(st, flight.cand.own)
  /\ permits' = permits \ {"flight"}
  /\ \/ GiveUp
     \/ flight.cand.lease = "finite" /\ FGoto("add_permanent") /\ UNCHANGED launcher
  /\ UNCHANGED <<world, gate, lookups, prober, reader, releases, sh, events>>

Commit ==
  /\ flight.pc = "commit"
  /\ LET c == flight.cand IN
     IF Current(flight.snap)
     THEN /\ st' = [Forget(st, c.own) EXCEPT
                    !.mapping = [e |-> c, age |-> "fresh"],
                    !.seen = IF c.kind = "pmp" THEN @ \cup {"pmp"} ELSE @]
          /\ FEnd
     ELSE FGoto("compensate") /\ UNCHANGED <<st, launcher>>
  /\ UNCHANGED flightOnly

\* do_release: the deletion is confirmed, or done without a confirmation, or
\* not even sent.
DoRelease(e) ==
  \/ MayCleanUp /\ nat' = Deleted(e) /\ st' = Forget(st, e.own)
  \/ MayCleanUp /\ nat' = Deleted(e) /\ UNCHANGED st
  \/ UNCHANGED <<nat, st>>

Compensate ==
  /\ flight.pc = "compensate"
  /\ DoRelease(flight.cand)
  /\ GiveUp
  /\ UNCHANGED <<gwNow, gate, lookups, prober, reader, releases, sh, permits, events>>

-----------------------------------------------------------------------------
(* try_upnp_mapping                                                           *)

TryServices ==
  /\ Checked("services")
  /\ flight' = [flight EXCEPT !.kind = "upnp", !.left = st.services, !.pc = "next_service"]
  /\ UNCHANGED <<st, launcher>> /\ UNCHANGED flightOnly

NextService ==
  /\ flight.pc = "next_service"
  /\ \/ flight.left = {} /\ FEnd
     \/ \E s \in flight.left :
          /\ flight' = [flight EXCEPT !.svc = s, !.left = @ \ {s}, !.pc = "gate"]
          /\ UNCHANGED launcher
  /\ UNCHANGED st /\ UNCHANGED flightOnly

\* retry_uncertain_upnp: what is over, or confirmed deleted, leaves the ledger.
SameService(e) == e.kind = "upnp" /\ e.svc = flight.svc
RetryUncertain ==
  /\ flight.pc = "retry"
  /\ \E tried \in SUBSET {e \in st.ledger : SameService(e) /\ MayCleanUp} :
     \E over \in SUBSET (tried \cup {e \in st.ledger : SameService(e) /\ ~Live(e)}) :
       /\ st' = IF Current(flight.snap) THEN [st EXCEPT !.ledger = @ \ over] ELSE st
       /\ nat' = [g \in Gateways |-> {r \in nat[g] : \A e \in tried : e.gw = g => ~Hits(e, r)}]
       /\ FGoto(IF Current(flight.snap) /\ ~\E e \in st'.ledger : SameService(e)
                THEN "add" ELSE "next_service")
  /\ UNCHANGED <<gwNow, gate, lookups, prober, reader, launcher, releases, sh, permits, events>>

\* add_port_mapping: permit and ledger entry, before the request is sent
AddUpnp ==
  /\ flight.pc \in {"add", "add_permanent"}
  /\ \/ /\ ~MaySend(flight.snap) /\ FGoto("next_service")
        /\ UNCHANGED <<st, nextOwn, permits>>
     \/ \E p \in IF flight.pc = "add_permanent" THEN {flight.cand.port}
                 ELSE IF flight.prev = 0 THEN Ports ELSE {flight.prev} :
          LET e == Entry(p, IF flight.pc = "add" THEN "finite" ELSE "permanent") IN
          /\ MaySend(flight.snap)
          /\ Push(e)
          /\ flight' = [flight EXCEPT !.pc = "sent", !.cand = e]
          /\ permits' = permits \cup {"flight"}
  /\ UNCHANGED <<world, closing, terminal, pending, lookups, prober, reader, launcher, releases, sh, events>>

-----------------------------------------------------------------------------
(* Release tasks: do_release with the captured entry                          *)

Becomes(t, pc) == releases' = (releases \ {t}) \cup {[t EXCEPT !.pc = pc]}

\* The first poll creates the guard that counts the task off again.
ReleasePolled(t) ==
  /\ t.pc = "new"
  /\ Becomes(t, "polled")
  /\ UNCHANGED <<world, st, gate, lookups, flight, prober, reader, launcher, sh, permits, events>>

ReleaseDeletes(t) ==
  /\ t.pc = "polled"
  /\ DoRelease(t.e)
  /\ Becomes(t, "over")
  /\ UNCHANGED <<gwNow, gate, lookups, flight, prober, reader, launcher, sh, permits, events>>

ReleaseCompletes(t) ==
  /\ t.pc = "over"
  /\ releases' = releases \ {t}
  /\ pending' = pending - 1
  /\ UNCHANGED <<world, st, closing, terminal, nextOwn, lookups, flight, prober, reader, launcher,
                 sh, permits, events>>

-----------------------------------------------------------------------------
(* close and shutdown                                                         *)

\* close: the gate first, then the invalidation
Close ==
  /\ ~closing /\ sh.pc = "idle"
  /\ closing' = TRUE
  /\ sh' = [sh EXCEPT !.pc = "closed"]
  /\ UNCHANGED <<world, st, terminal, pending, nextOwn, lookups, flight, prober, reader, launcher,
                 releases, permits, events>>

Closed ==
  /\ sh.pc = "closed"
  /\ Invalidate(st)
  /\ sh' = [sh EXCEPT !.pc = "idle"]
  /\ UNCHANGED <<world, closing, terminal, nextOwn, lookups, flight, prober, reader, launcher, permits, events>>

\* shutdown: one supervisor; a call after its result starts another.
Shutdown ==
  /\ sh.pc \in {"idle", "done"} /\ sh.calls < MaxShutdown
  /\ closing' = TRUE
  /\ sh' = [pc |-> "invalidate", calls |-> sh.calls + 1, late |-> FALSE, left |-> {}, result |-> None]
  /\ UNCHANGED <<world, st, terminal, pending, nextOwn, lookups, flight, prober, reader, launcher,
                 releases, permits, events>>

\* Mutant: shutdown leaves the cached mapping alone.
ShutdownInvalidates_KeepsMapping ==
  /\ sh.pc = "invalidate"
  /\ sh' = [sh EXCEPT !.pc = "join"]
  /\ UNCHANGED <<world, st, gate, lookups, flight, prober, reader, launcher, releases, permits, events>>

ShutdownInvalidates ==
  /\ sh.pc = "invalidate"
  /\ Invalidate(st)
  /\ sh' = [sh EXCEPT !.pc = "join"]
  /\ UNCHANGED <<world, closing, terminal, nextOwn, lookups, flight, prober, reader, launcher, permits, events>>

\* The deadline can pass at any await.
Deadline ==
  /\ sh.pc \in {"join", "join_releases", "pending", "ledger", "gate"} /\ ~sh.late
  /\ sh' = [sh EXCEPT !.late = TRUE]
  /\ UNCHANGED <<world, st, gate, lookups, flight, prober, reader, launcher, releases, permits, events>>

\* await_join_set of allocations, probes and launchers; late, they are aborted.
WorkDone == flight.pc = "idle" /\ prober.pc = "idle" /\ launcher.pc = "idle"
\* Mutant: shutdown does not wait for the tasks.
Joined_NoWait ==
  /\ sh.pc = "join"
  /\ sh' = [sh EXCEPT !.pc = "join_releases"]
  /\ UNCHANGED <<world, st, gate, lookups, flight, prober, reader, launcher, releases, permits, events>>

Joined ==
  /\ sh.pc = "join" /\ (WorkDone \/ sh.late)
  /\ sh' = [sh EXCEPT !.pc = "join_releases", !.result = IF WorkDone THEN @ ELSE "deadline"]
  /\ flight' = IdleFlight /\ prober' = Idle /\ launcher' = [launcher EXCEPT !.pc = "idle"]
  /\ LookupsEnd(Lookers \ {"reader"}, {})
  /\ permits' = permits \ {"flight"}
  /\ UNCHANGED <<world, st, gate, reader, releases, events>>

\* A release task that is aborted before its first poll has no guard yet: its
\* count stays.
ReleasesJoined ==
  /\ sh.pc = "join_releases" /\ (releases = {} \/ sh.late)
  /\ sh' = [sh EXCEPT !.pc = "pending", !.result = IF releases = {} THEN @ ELSE "deadline"]
  /\ pending' = pending - Cardinality({t \in releases : t.pc # "new"})
  /\ releases' = {}
  /\ UNCHANGED <<world, st, closing, terminal, nextOwn, lookups, flight, prober, reader, launcher, permits, events>>

PendingSettled ==
  /\ sh.pc = "pending" /\ (pending = 0 \/ sh.late)
  /\ LET bad == sh.result # None \/ pending # 0 IN
     sh' = [sh EXCEPT !.pc = IF bad THEN "done" ELSE "ledger",
                      !.result = IF bad THEN "deadline" ELSE None,
                      !.left = st.ledger]
  /\ UNCHANGED <<world, st, gate, lookups, flight, prober, reader, launcher, releases, permits, events>>

\* do_release of every entry that is left, each once
ShutdownReleases ==
  /\ sh.pc = "ledger"
  /\ \/ /\ sh.left = {}
        /\ sh' = [sh EXCEPT !.pc = "gate"]
        /\ UNCHANGED <<nat, st>>
     \/ /\ sh.left # {} /\ sh.late
        /\ sh' = [sh EXCEPT !.pc = "done", !.result = "deadline"]
        /\ UNCHANGED <<nat, st>>
     \/ \E e \in sh.left :
        /\ sh' = [sh EXCEPT !.left = @ \ {e}]
        /\ DoRelease(e)
  /\ UNCHANGED <<gwNow, gate, lookups, flight, prober, reader, launcher, releases, permits, events>>

\* finish_send_gate, and the answer
FinishSendGate ==
  /\ sh.pc = "gate"
  /\ permits = {} \/ sh.late
  /\ terminal' = (terminal \/ permits = {})
  /\ sh' = [sh EXCEPT !.pc = "done",
                      !.result = IF permits # {} THEN "deadline"
                                 ELSE IF st.ledger = {} THEN "ok" ELSE "unconfirmed"]
  /\ UNCHANGED <<world, st, closing, pending, nextOwn, lookups, flight, prober, reader, launcher,
                 releases, permits, events>>

-----------------------------------------------------------------------------
Init ==
  /\ gwNow \in Gateways \cup {None}
  /\ nat = [g \in Gateways |-> {}]
  /\ \E p \in LocalPorts \cup {None} : st = [mapping |-> None, ledger |-> {}, seen |-> {}, probed |-> FALSE, services |-> {},
           needsProbe |-> FALSE, gateway |-> None, gen |-> 0, port |-> p]
  /\ closing = FALSE /\ terminal = FALSE /\ pending = 0 /\ nextOwn = 1
  /\ lookups = [w \in Lookers |-> None]
  /\ flight = IdleFlight /\ prober = Idle /\ reader = Idle
  /\ launcher = [pc |-> "idle", gen |-> 0]
  /\ releases = {} /\ permits = {} /\ events = 0
  /\ sh = [pc |-> "idle", calls |-> 0, late |-> FALSE, left |-> {}, result |-> None]

Environment ==
  \/ \E g \in Gateways \cup {None} : GatewayChanges(g)
  \/ \E g \in Gateways : \E r \in nat[g] : LeaseEnds(g, r)
  \/ MappingAges \/ TrustExpires

Callers ==
  \/ \E p \in LocalPorts : SetLocalPort(p)
  \/ ReadStart \/ ReadObserves
  \/ ProbeStart \/ ProbeObserves \/ ProbeTask
  \/ CallCreate \/ Launch \/ LaunchEnds

FlightStep ==
  \/ FlightObserves \/ FlightStale \/ FlightProbes \/ FastPath
  \/ Settle \/ TakeIncompatible \/ TakenReleased \/ PassGate
  \/ PushPxp \/ SendPxp \/ Granted \/ Lost \/ Rejected \/ Commit
  \/ Compensate \/ TryServices \/ NextService \/ RetryUncertain \/ AddUpnp

ReleaseStep == \E t \in releases :
  ReleasePolled(t) \/ ReleaseDeletes(t) \/ ReleaseCompletes(t)

ShutdownStep ==
  \/ Close \/ Closed \/ Shutdown \/ ShutdownInvalidates \/ Deadline
  \/ Joined \/ ReleasesJoined \/ PendingSettled \/ ShutdownReleases \/ FinishSendGate

Next == Environment \/ Callers \/ FlightStep \/ ReleaseStep \/ ShutdownStep

Spec == Init /\ [][Next]_vars

-----------------------------------------------------------------------------
(* Properties                                                                 *)

Snaps == [gw : Gateways \cup {None}, gen : Nat]
FlightPcs == {"idle", "lookup", "p_reset", "p_see", "fast", "settle", "gate", "taken", "services",
              "next_service", "push", "send", "sent", "commit", "compensate", "retry", "add",
              "add_permanent"}
ShutdownPcs == {"idle", "closed", "invalidate", "join", "join_releases", "pending", "ledger", "gate",
                "done"}
Records == [kind : Kinds, port : Ports, iport : LocalPorts, by : Nat, perm : BOOLEAN]
States == [mapping : Mappings \cup {None}, ledger : SUBSET Ownerships, seen : SUBSET Kinds,
           probed : BOOLEAN, services : SUBSET Services, needsProbe : BOOLEAN,
           gateway : Gateways \cup {None}, gen : Nat, port : LocalPorts \cup {None}]
Flights == [pc : FlightPcs, snap : Snaps, kind : Kinds, svc : Services \cup {0},
            left : SUBSET Services, iport : LocalPorts \cup {None}, prev : Ports \cup {0},
            recent : SUBSET Kinds, cand : Ownerships \cup {None}, back : {"idle", "fast", "settle"}]
StateOK ==
  /\ gwNow \in Gateways \cup {None}
  /\ nat \in [Gateways -> SUBSET Records]
  /\ st \in States
  /\ closing \in BOOLEAN /\ terminal \in BOOLEAN /\ nextOwn \in Nat
  /\ lookups \in [Lookers -> Observations \cup {None}]
  /\ flight \in Flights
  /\ prober \in [pc : {"idle", "lookup", "p_reset", "p_see"}, snap : Snaps]
  /\ reader \in [pc : {"idle", "lookup"}, snap : Snaps]
  /\ launcher \in [pc : {"idle", "create", "wait", "tail"}, gen : Nat]
  /\ sh \in [pc : ShutdownPcs, calls : Nat, late : BOOLEAN, left : SUBSET Ownerships,
             result : {None, "ok", "unconfirmed", "deadline"}]
  /\ permits \subseteq {"flight"} /\ events \in Nat
\* The count of pending releases is never below that of the tasks.
ReleasesCounted ==
  /\ releases \subseteq [e : Ownerships, pc : {"new", "polled", "over"}] /\ IsFiniteSet(releases)
  /\ pending \in Nat /\ pending >= Cardinality(releases)

\* The state has its type.
TypeOK == StateOK /\ ReleasesCounted

Entries == st.ledger \cup (IF st.mapping = None THEN {} ELSE {st.mapping.e})

\* Whatever a gateway holds for this client, a deletion the client knows of
\* would remove: the cached mapping's or one of the ledger's.
LedgerCovers == \A g \in Gateways : \A r \in nat[g] : \E e \in Entries : e.gw = g /\ Hits(e, r)

\* The cached mapping belongs to the gateway and the local port of now (work of
\* an older generation never commits), and no unconfirmed deletion of an older
\* generation names its key: a late deletion cannot hit a successor.
CachedIsCurrent ==
  st.mapping # None =>
    /\ st.mapping.e.gen = st.gen
    /\ st.mapping.e.gw = st.gateway /\ st.mapping.e.iport = st.port
    /\ \A e \in st.ledger \cup {t.e : t \in releases} :
         e.gw = st.mapping.e.gw /\ e.gen # st.mapping.e.gen => ~Hits(e, st.mapping.e)

\* A shutdown that reports success has left nothing at any gateway; one that
\* reports success, or an unconfirmed deletion only, has stopped all local work
\* ("Local portmapper work is fully stopped").
CleanShutdown ==
  sh.pc = "done" =>
    /\ sh.result = "ok" => st.mapping = None /\ \A g \in Gateways : nat[g] = {}
    /\ sh.result \in {"ok", "unconfirmed"} =>
         /\ WorkDone /\ releases = {} /\ pending = 0
         /\ permits = {} /\ terminal
=============================================================================
