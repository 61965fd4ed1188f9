----------------------------- MODULE PeerPath -----------------------------
(***************************************************************************)
(* The direct path to one peer: its Endpoint (confirmed address with a     *)
(* trust that expires, pending pings, activity times, UDP lifetime probe), *)
(* the background task that keeps the path alive while there is traffic    *)
(* and probes it afterwards, sends, pongs, map commits and link changes.   *)
(* Locks make each action atomic; what happens between two lock sections   *)
(* of one thread are different actions.  Time passes in ticks: ages count  *)
(* up to Never, and a sleep that is over may be noticed late.  Which       *)
(* addresses discovery pings and how often is left open: such a ping may   *)
(* be sent at any time.  Datagrams wait in the receive channel until the   *)
(* pump has authenticated them; which of them it drops is left open.       *)
(***************************************************************************)
EXTENDS Naturals, Sequences, FiniteSets

CONSTANTS
  Addrs,             \* UDP addresses of the peer
  Txs,               \* bound on pings that wait for a pong or are on the wire
  PathTasks,         \* bound on background tasks, aborted ones included
  PathSenders,       \* threads that send datagrams
  InboxCap,          \* bound on the different stamps in the receive channel at a time
  HeartbeatInterval, PingTimeout, Trust, SessionTimeout,
  Cliffs,            \* the cliffs of ProbeUDPLifetime, less the slack
  Never,             \* cap of ages, no less than any duration
  None

ASSUME PathAssumption ==
  /\ None \notin Addrs /\ None \notin Txs /\ None \notin PathTasks
  /\ Never \in Nat
  /\ Cliffs \in Seq(1..Never) /\ Cliffs # <<>>
  /\ {HeartbeatInterval, PingTimeout, Trust, SessionTimeout} \subseteq 1..Never

VARIABLES
  present,  \* the peer has an endpoint
  best,     \* the address of Endpoint.best_addr, or None
  trust,    \* time until its trust expires
  pending,  \* pending_pings: transaction -> age, or None
  sendAge,  \* time since last_send_ext
  recvAge,  \* time since last_recv_udp
  cycle,    \* ProbeUDPLifetime
  pathTask, \* background tasks
  handle,   \* the peer's task in Inner.background_tasks, or None
  sender,   \* sender -> what it does after it has looked at the endpoint
  wire,     \* transactions whose ping or pong is in the network
  stale,    \* those of them that were sent before the endpoint was reset
  inbox,    \* stamps of the peer's datagrams in the receive channel
  proof,    \* what confirmed the best address: "none", or a pong or datagram, "new" or "old"
  cpc,      \* where the map commit is
  link      \* where a link change is

endpoint == <<present, best, trust, pending, sendAge, recvAge, cycle>>
network == <<wire, stale, inbox>>
pathVars == <<endpoint, pathTask, handle, sender, network, proof, cpc, link>>

NoCycle == [active |-> FALSE, cliff |-> 1, addr |-> None, recent |-> FALSE, tx |-> None]
Ended == [at |-> "none", trusted |-> FALSE, timer |-> 0, aborted |-> FALSE]
NoPending == [x \in Txs |-> None]

\* The authorization a datagram is stamped with is the peer's present one or not.
Stamps == {"current", "revoked"}

\* Endpoint::new.  The commit that drops an endpoint also gives up the peer's
\* authorization generation; it holds peer_map.gate, so to the pump both are
\* one step.
NewEndpoint ==
  /\ best' = None /\ trust' = 0 /\ proof' = "none"
  /\ pending' = NoPending /\ stale' = wire
  /\ inbox' = IF inbox = {} THEN {} ELSE {"revoked"}
  /\ sendAge' = Never /\ recvAge' = Never
  /\ cycle' = NoCycle

PathInit ==
  /\ present = FALSE /\ best = None /\ trust = 0 /\ pending = NoPending
  /\ sendAge = Never /\ recvAge = Never /\ cycle = NoCycle
  /\ pathTask = [t \in PathTasks |-> Ended] /\ handle = None
  /\ sender = [s \in PathSenders |-> "idle"]
  /\ wire = {} /\ stale = {} /\ inbox = {} /\ proof = "none"
  /\ cpc = "idle" /\ link = "idle"

LeastOf(m, n) == IF m < n THEN m ELSE n

SessionActive == present /\ sendAge < SessionTimeout
TrustedAddr == IF trust > 0 THEN best ELSE None

\* A transaction that is not pending any more is never again (ids are random).
Normal(c, pend) == [c EXCEPT !.tx = IF c.tx # None /\ pend[c.tx] = None THEN None ELSE c.tx]

-----------------------------------------------------------------------------
(* Pings and pongs *)

Expired == [x \in Txs |-> IF pending[x] # None /\ pending[x] >= PingTimeout THEN None ELSE pending[x]]
FreeTxs == {x \in Txs : Expired[x] = None /\ x \notin wire}

\* send_disco_ping: old pings are dropped and a new one is recorded before it
\* is sent.
SendPing(lifetime) ==
  \E x \in FreeTxs :
    /\ pending' = IF present THEN [Expired EXCEPT ![x] = 0] ELSE pending
    /\ wire' = wire \cup {x}
    /\ stale' = IF present THEN stale ELSE stale \cup {x}
    /\ cycle' = IF present THEN [Normal(cycle, pending') EXCEPT !.tx = IF lifetime THEN x ELSE @] ELSE cycle

\* The pings of discovery rounds, map commits and answers to a CallMeMaybe.
DiscoveryPing ==
  /\ SendPing(FALSE)
  /\ UNCHANGED <<present, best, trust, sendAge, recvAge, pathTask, handle, sender, inbox, proof, cpc, link>>

\* handle_disco_udp with a pong, which may be late, duplicated, or come from
\* another address than the one that was pinged.
Pong(x, a) ==
  /\ x \in wire
  /\ present /\ pending[x] # None
  /\ pending' = [pending EXCEPT ![x] = None]
  /\ cycle' = Normal(cycle, pending')
  /\ best' = a /\ trust' = Trust /\ recvAge' = 0
  /\ proof' = IF x \in stale THEN "old" ELSE "new"
  /\ UNCHANGED <<present, sendAge, pathTask, handle, sender, network, cpc, link>>

\* A packet leaves the network: lost, or an answer nobody waits for.
Lose(x) ==
  /\ x \in wire
  /\ wire' = wire \ {x} /\ stale' = stale \ {x}
  /\ UNCHANGED <<endpoint, pathTask, handle, sender, inbox, proof, cpc, link>>

\* A ping or a datagram of the peer (handle_disco_udp, handle_wg_udp).  A
\* datagram is stamped with the generation and queued for the pump.
Received ==
  /\ present
  /\ recvAge' = 0
  /\ \/ UNCHANGED inbox
     \/ Cardinality(inbox) < InboxCap /\ inbox' = inbox \cup {"current"}
  /\ UNCHANGED <<present, best, trust, pending, sendAge, cycle, pathTask, handle, sender, wire, stale, proof, cpc, link>>

\* The pump takes a datagram, of which the channel may hold more.
Take(d) == d \in inbox /\ inbox' \in {inbox, inbox \ {d}}

\* Mutant: the stamp of the datagram is not compared.
Authenticated_AnyStamp(d, a) ==
  /\ Take(d) /\ present
  /\ best' = a /\ trust' = Trust
  /\ proof' = IF d = "current" THEN "new" ELSE "old"
  /\ UNCHANGED <<present, pending, sendAge, recvAge, cycle, pathTask, handle, sender, wire, stale, cpc, link>>

\* note_authenticated_wg_transport: WireGuard has authenticated a datagram that
\* came from a.  If its stamp is current, a is confirmed; no ping is needed.
Authenticated(d, a) ==
  /\ Take(d) /\ present /\ d = "current"
  /\ best' = a /\ trust' = Trust
  /\ proof' = "new"
  /\ UNCHANGED <<present, pending, sendAge, recvAge, cycle, pathTask, handle, sender, wire, stale, cpc, link>>

\* A datagram is of no use: its stamp is not current, the endpoint is gone, or
\* WireGuard refuses it.
Refused(d) ==
  /\ Take(d)
  /\ UNCHANGED <<endpoint, pathTask, handle, sender, wire, stale, proof, cpc, link>>

-----------------------------------------------------------------------------
(* Sends *)

\* send_batch notes the activity; a session that was idle needs a task.
Send(s) ==
  /\ sender[s] = "idle" /\ present
  /\ sendAge' = 0
  /\ sender' = [sender EXCEPT ![s] = IF SessionActive THEN "idle" ELSE "arm"]
  /\ UNCHANGED <<present, best, trust, pending, recvAge, cycle, pathTask, handle, network, proof, cpc, link>>

\* Awaits at which an abort takes effect; between them a task runs on.
Awaits == {"sleep", "cliff", "pong"}
AbortOf(tk, h) ==
  IF h = None \/ tk[h].at = "none" THEN tk
  ELSE [tk EXCEPT ![h] = IF @.at \in Awaits THEN Ended ELSE [@ EXCEPT !.aborted = TRUE]]

\* arm_heartbeat: a new task replaces the one in the table.
ArmHeartbeat(s) ==
  /\ sender[s] = "arm"
  /\ \E t \in PathTasks :
       /\ pathTask[t] = Ended
       /\ pathTask' = [AbortOf(pathTask, handle) EXCEPT
                         ![t] = [Ended EXCEPT !.at = "sleep", !.timer = HeartbeatInterval]]
       /\ handle' = t
  /\ sender' = [sender EXCEPT ![s] = "idle"]
  /\ UNCHANGED <<endpoint, network, proof, cpc, link>>

-----------------------------------------------------------------------------
(* The background task, phase 1 *)

\* An aborted task ends at its next await.
GoOn(t, there) ==
  pathTask' = [pathTask EXCEPT ![t] = IF pathTask[t].aborted /\ there.at \in Awaits THEN Ended ELSE there]
Sleep(t, n, at) == GoOn(t, [pathTask[t] EXCEPT !.at = at, !.timer = n])
Return(t) == pathTask' = [pathTask EXCEPT ![t] = Ended]

\* peer_background_task: what to do is decided under a lock ...
TimerFires(t) ==
  /\ pathTask[t].at = "sleep" /\ pathTask[t].timer = 0
  /\ IF ~present THEN Return(t)
     ELSE GoOn(t, [pathTask[t] EXCEPT !.at = IF ~SessionActive THEN "phase2"
                                         ELSE IF TrustedAddr = None THEN "retrigger" ELSE "beat"])
  /\ UNCHANGED <<endpoint, handle, sender, network, proof, cpc, link>>

\* ... and done under another.
Beat(t) ==
  /\ pathTask[t].at = "beat"
  /\ SendPing(FALSE)
  /\ Sleep(t, HeartbeatInterval, "sleep")
  /\ UNCHANGED <<present, best, trust, sendAge, recvAge, handle, sender, inbox, proof, cpc, link>>

\* maybe_retrigger_call_me_maybe: a message to the peer, over DERP
Retrigger(t) ==
  /\ pathTask[t].at = "retrigger"
  /\ Sleep(t, HeartbeatInterval, "sleep")
  /\ UNCHANGED <<endpoint, handle, sender, network, proof, cpc, link>>

-----------------------------------------------------------------------------
(* The background task, phase 2: udp_lifetime_probe_phase *)

\* maybe_probe_udp_lifetime (the peer's disco key is the greater one) and
\* can_start_cycle
MayProbe == best # None /\ ~cycle.active /\ ~cycle.recent

Inactivity == LeastOf(sendAge, recvAge)

ProbePhase(t) ==
  /\ pathTask[t].at = "phase2"
  /\ IF present /\ ~SessionActive /\ MayProbe /\ Inactivity < Cliffs[cycle.cliff]
       THEN Sleep(t, Cliffs[cycle.cliff] - Inactivity, "cliff")
       ELSE Return(t)
  /\ UNCHANGED <<endpoint, handle, sender, network, proof, cpc, link>>

\* The best address of the cycle is compared after the sleep.  Whether there is
\* a trusted address is remembered while a cycle is started.
CliffReached(t) ==
  /\ pathTask[t].at = "cliff" /\ pathTask[t].timer = 0
  /\ LET matches == best # None /\ cycle.addr = best
     IN  IF ~present \/ SessionActive \/ (~matches /\ cycle.active) THEN Return(t)
         ELSE IF ~matches THEN GoOn(t, [pathTask[t] EXCEPT !.at = "start", !.trusted = TrustedAddr # None])
         ELSE IF TrustedAddr = None THEN Return(t)
         ELSE GoOn(t, [pathTask[t] EXCEPT !.at = "probe"])
  /\ UNCHANGED <<endpoint, handle, sender, network, proof, cpc, link>>

\* start_udp_lifetime_cycle, then the task gives up without a trusted address.
StartCycle(t) ==
  /\ pathTask[t].at = "start"
  /\ cycle' = IF present /\ best # None
                THEN [cycle EXCEPT !.active = TRUE, !.cliff = 1, !.addr = best, !.recent = TRUE] ELSE cycle
  /\ IF pathTask[t].trusted THEN GoOn(t, [pathTask[t] EXCEPT !.at = "probe", !.trusted = FALSE]) ELSE Return(t)
  /\ UNCHANGED <<present, best, trust, pending, sendAge, recvAge, handle, sender, network, proof, cpc, link>>

LifetimePing(t) ==
  /\ pathTask[t].at = "probe"
  /\ SendPing(TRUE)
  /\ Sleep(t, PingTimeout, "pong")
  /\ UNCHANGED <<present, best, trust, sendAge, recvAge, handle, sender, inbox, proof, cpc, link>>

\* The ping counts as answered when it is not pending any more.
ProbeDone(t) ==
  /\ pathTask[t].at = "pong" /\ pathTask[t].timer = 0
  /\ IF present /\ cycle.tx = None /\ cycle.cliff < Len(Cliffs)
       THEN /\ cycle' = [cycle EXCEPT !.cliff = @ + 1]
            /\ GoOn(t, [pathTask[t] EXCEPT !.at = "phase2"])
            /\ UNCHANGED <<best, trust, proof>>
       ELSE /\ cycle' = IF present THEN [cycle EXCEPT !.active = FALSE, !.cliff = 1, !.addr = None] ELSE cycle
            /\ IF present /\ cycle.tx # None
                 THEN best' = None /\ trust' = 0 /\ proof' = "none"
                 ELSE UNCHANGED <<best, trust, proof>>
            /\ Return(t)
  /\ UNCHANGED <<present, pending, sendAge, recvAge, handle, sender, network, cpc, link>>

TaskStep(t) ==
  \/ TimerFires(t) \/ Beat(t) \/ Retrigger(t) \/ ProbePhase(t) \/ CliffReached(t) \/ StartCycle(t)
  \/ LifetimePing(t) \/ ProbeDone(t)

-----------------------------------------------------------------------------
(* Map commits and link changes *)

\* set_netmap drops the endpoint of a peer that left, or has a new disco key.
DropEndpoint ==
  /\ cpc = "idle" /\ present
  /\ present' = FALSE /\ NewEndpoint
  /\ cpc' = "dropped"
  /\ UNCHANGED <<pathTask, handle, sender, wire, link>>

\* Its task is aborted under another lock; a peer with a new key comes back.
AbortDropped ==
  /\ cpc = "dropped"
  /\ pathTask' = AbortOf(pathTask, handle) /\ handle' = None
  /\ cpc' \in {"idle", "rebuild"}
  /\ UNCHANGED <<endpoint, sender, network, proof, link>>

\* A peer of the map that has no endpoint gets one.
Rebuild ==
  /\ \/ cpc = "rebuild"
     \/ cpc = "idle" /\ ~present
  /\ present' = TRUE
  /\ cpc' = "idle"
  /\ UNCHANGED <<best, trust, pending, sendAge, recvAge, cycle, pathTask, handle, sender, network, proof, link>>

\* link_changed aborts the task ...
LinkAbort ==
  /\ link = "idle"
  /\ pathTask' = AbortOf(pathTask, handle) /\ handle' = None
  /\ link' = "reset"
  /\ UNCHANGED <<endpoint, sender, network, proof, cpc>>

ResetCycle == [cycle EXCEPT !.active = FALSE, !.cliff = 1, !.addr = None, !.tx = None]

\* Mutant: the time of the last send is kept.
Reset_KeepSession ==
  /\ best' = None /\ trust' = 0 /\ proof' = "none"
  /\ pending' = NoPending /\ stale' = wire
  /\ UNCHANGED sendAge /\ recvAge' = Never
  /\ cycle' = ResetCycle

\* Mutant: the pending pings are kept.
Reset_KeepPending ==
  /\ best' = None /\ trust' = 0 /\ proof' = "none"
  /\ UNCHANGED pending /\ stale' = wire
  /\ sendAge' = Never /\ recvAge' = Never
  /\ cycle' = [ResetCycle EXCEPT !.tx = cycle.tx]

\* reset_for_link_change: datagrams in the receive channel are left alone.
Reset ==
  /\ best' = None /\ trust' = 0 /\ proof' = "none"
  /\ pending' = NoPending /\ stale' = wire
  /\ sendAge' = Never /\ recvAge' = Never
  /\ cycle' = ResetCycle

\* ... then resets the endpoint ...
LinkReset ==
  /\ link = "reset"
  /\ Reset
  /\ link' = "pmtud"
  /\ UNCHANGED <<present, pathTask, handle, sender, wire, inbox, cpc>>

\* ... and, when path MTU discovery was switched, resets it once more
\* (update_pmtud, reset_endpoint_states).
LinkPmtud ==
  /\ link = "pmtud"
  /\ link' = "idle"
  /\ \/ Reset
     \/ UNCHANGED <<best, trust, proof, pending, stale, sendAge, recvAge, cycle>>
  /\ UNCHANGED <<present, pathTask, handle, sender, wire, inbox, cpc>>

-----------------------------------------------------------------------------

Older(n) == LeastOf(n + 1, Never)

Tick ==
  /\ trust' = IF trust > 0 THEN trust - 1 ELSE 0
  /\ pending' = [x \in Txs |-> IF pending[x] = None THEN None ELSE LeastOf(pending[x] + 1, PingTimeout)]
  /\ sendAge' = Older(sendAge) /\ recvAge' = Older(recvAge)
  /\ pathTask' = [t \in PathTasks |-> [pathTask[t] EXCEPT !.timer = IF @ > 0 THEN @ - 1 ELSE 0]]
  /\ UNCHANGED <<present, best, cycle, handle, sender, network, proof, cpc, link>>

\* cycle_can_start_every, a day, is over.
DayPassed ==
  /\ cycle.recent /\ Inactivity = Never /\ trust = 0
  /\ cycle' = [cycle EXCEPT !.recent = FALSE]
  /\ UNCHANGED <<present, best, trust, pending, sendAge, recvAge, pathTask, handle, sender, network, proof, cpc, link>>

PathNext ==
  \/ DiscoveryPing \/ Received
  \/ \E x \in Txs, a \in Addrs : Pong(x, a)
  \/ \E x \in Txs : Lose(x)
  \/ \E d \in Stamps, a \in Addrs : Authenticated(d, a)
  \/ \E d \in Stamps : Refused(d)
  \/ \E s \in PathSenders : Send(s) \/ ArmHeartbeat(s)
  \/ \E t \in PathTasks : TaskStep(t)
  \/ DropEndpoint \/ AbortDropped \/ Rebuild
  \/ LinkAbort \/ LinkReset \/ LinkPmtud
  \/ Tick \/ DayPassed

PathSpec == PathInit /\ [][PathNext]_pathVars

-----------------------------------------------------------------------------
(* Properties *)

CycleStates ==
  [active : BOOLEAN, cliff : DOMAIN Cliffs, addr : Addrs \cup {None}, recent : BOOLEAN, tx : Txs \cup {None}]
TaskStates ==
  [at : Awaits \cup {"none", "beat", "retrigger", "phase2", "start", "probe"},
   trusted : BOOLEAN, timer : 0..Never, aborted : BOOLEAN]

\* Ages and timers keep within their bounds, the trust of an address is never
\* more than one period (confirm_direct), and the probed cliff exists
\* (advance_cliff).
PathTypeOK ==
  /\ present \in BOOLEAN /\ best \in Addrs \cup {None} /\ trust \in 0..Trust
  /\ pending \in [Txs -> (0..PingTimeout) \cup {None}]
  /\ {sendAge, recvAge} \subseteq 0..Never
  /\ cycle \in CycleStates
  /\ pathTask \in [PathTasks -> TaskStates]
  /\ handle \in PathTasks \cup {None}
  /\ sender \in [PathSenders -> {"idle", "arm"}]
  /\ wire \subseteq Txs /\ stale \subseteq wire
  /\ inbox \subseteq Stamps
  /\ proof \in {"none", "new", "old"}
  /\ cpc \in {"idle", "dropped", "rebuild"} /\ link \in {"idle", "reset", "pmtud"}

\* While there is traffic a heartbeat task keeps the path, or a sender is about
\* to start one, whatever aborts tasks meanwhile (note_tx_activity_transition,
\* arm_heartbeat, link_changed, set_netmap).
SessionBeats ==
  SessionActive /\ link # "reset" =>
    \/ handle # None /\ pathTask[handle].at \in {"sleep", "beat", "retrigger"} /\ ~pathTask[handle].aborted
    \/ \E s \in PathSenders : sender[s] = "arm"

\* A peer has at most one task that will go on: arm_heartbeat's "at most one
\* task at a time".
OneTask == \A t \in PathTasks : pathTask[t].at # "none" /\ ~pathTask[t].aborted => handle = t

\* A direct path was confirmed by the endpoint it is used for: by the pong of a
\* ping sent after the last link change (reset_for_link_change drops the
\* pending pings, set_netmap the endpoint), or by a datagram that carries the
\* peer's present authorization and that WireGuard authenticated.  Such a
\* datagram may have been received before the link change: nothing empties the
\* receive channel then (note_authenticated_wg_transport).
DirectIsCurrent == best # None => proof = "new"
=============================================================================
