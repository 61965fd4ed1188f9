# TLA+ models of rustscale

rustscale is a Rust implementation of Tailscale's client stack: a daemon and an
embedding API that join a tailnet, keep WireGuard tunnels to the peers of the
network map, and carry their packets over direct UDP, DERP relays or peer
relays. This directory holds TLA+ models of its concurrent core and of the parts
whose mistakes outlive the process (routes of the host, mappings of a gateway,
files), the TLC configurations that check them, and proofs that TLAPS checks.

Run a model with `tlc -config PeerPath.cfg MC_PeerPath`, a proof with
`tlapm MagicsockProofs.tla`. `PROJECT.json` lists the runs, the source lines each
definition stands for, the hazards the properties are aimed at, and the
theorems.

## 1. The system

### Parts that carry the core logic

| Part | State | Operations | Interacts with |
|---|---|---|---|
| **magicsock: network map and authorization** (`magicsock/src/lib.rs`) | endpoint table, `disco_to_peer`, `addr_to_peer`, authorization generations | `set_netmap`, `PeerAuthorization::reconcile`, disco and WireGuard receive handlers | map updates of tsnet, receive tasks, relay manager; ordered by `authorization_delivery_barrier` |
| **magicsock: receive handoff** | credits (a semaphore), the `wg_send` channel | stamp, take credits, revalidate, send | receive tasks produce, the packet pump consumes |
| **magicsock: endpoint and path keeping** (`endpoint.rs`) | confirmed address and its trust, pending pings, activity times, lifetime probe, per-peer background task | sends, pongs, heartbeats, UDP lifetime probes, link changes | sends arm the task; map commits and link changes abort it |
| **magicsock: DERP manager** (`lib.rs`, `derp_io.rs`) | one connection per region, receive consumers, reconnect signals | `get_or_connect`, `reconnect_region`, `close_all` | sends, reconnect supervisor, shutdown |
| **magicsock: relay manager** (`relay_manager.rs`) | relay servers, allocation and handshake work, routing tables by server, VNI and peer | event loop, spawned tasks, cancellation and joins | `set_netmap` waits for the loop, the loop waits for tasks, tasks send to the loop |
| **magicsock: task registry and shutdown** | join handles, phase, notification | `spawn`, `shutdown`, `request_shutdown`, `Drop` | every background task of the socket |
| **tsnet: map updates** (`map_update.rs`, `peer_map.rs`) | tunnels, peers, epochs behind `peer_map.gate` | commit of a map response, withdrawal of all peers | holds the gate for writing while it runs `set_netmap` |
| **tsnet: packet pumps** (`netstack_pump.rs`, `tun_pump.rs`) | the batch in hand | receive, check generation, deliver, record path evidence | hold the gate, or the barrier, for reading |
| **OS router and emergency block** (`router/src/lib.rs`, tsnet `tun_pump.rs`, `lifecycle.rs`, `link_monitor.rs`) | rules, routes and addresses in the kernel, the owner record under `/run`, pending inverses, the latch `direct_blocked` with its reasons | `up`, `set`, `block_direct`, `close`, recovery of a dead owner's rules; start, sync and retried close by tsnet | map updates and link changes latch and clear reasons; a crash leaves the kernel state behind |
| **port mapper** (`portmapper/src/client.rs`) | gateway and generation, cached mapping, ledger of uncertain mappings, `WorkGate` | `probe`, `get_cached_mapping_or_start_creating_one`, gateway and port changes, `shutdown` | asks the gateway over a lossy network; release tasks and shutdown share the ledger |
| **systemd user units** (`freedesktop/src/systemd_user.rs`) | the unit file, the operation journal, staging names, what systemd has loaded and enabled | `install`, `update`, `remove`, `enable`, `disable`, `status` | file system and `systemctl`; other processes may ignore its lock |
| **IPN extension host** (`ipnext/src/lib.rs`) | lifecycle, owners to be shut down, attempts, publications | seeding, `start`, strict start with rollback, publications, `shutdown` | runs user callbacks on a bounded pool of workers |
| **SSH recording callbacks** (`controlclient/src/ssh_notify.rs`) | dispatcher of a profile, generations, fair queues, the process-wide worker scheduler | admission, revocation, the loop of a map stream, dispatch tasks | the map stream starts a generation; SSH sessions produce callbacks |

The remaining crates (control client, IPN backend, Tailnet Lock, DNS, filter,
UDP relay server, health, logging, platform code, CLI and so on)
are listed in `PROJECT.json` under `components`, each with the reason it is not
modelled or the note that it is planned.

### What is hard

* **Lock order with awaits.** The barrier and the gate are async read-write
  locks. Handlers keep the barrier while they wait for a UDP send or a DERP
  dial; a receive task keeps it while it sends into a bounded channel.
* **State used after an await.** A ciphertext is looked up, stamped, queued and
  delivered in four places with waits between them; `set_relay` and
  `note_authenticated_wg_transport` take no barrier at all.
* **Signals that name too little.** A reconnect signal names a region and not a
  connection; relayed messages are routed by peer and VNI and not by server;
  an allocation's result does not name its allocation.
* **Shutdown from several sides**, with callers that time out or are dropped.
* **Time.** Trust, session, ping and probe timeouts run against late pongs,
  link changes and map commits.
* **State that outlives the process.** Kernel rules, a gateway's mappings and
  unit files stay when the process dies between two steps, and the next process
  has to tell its own leftovers from somebody else's.
* **Undoing that fails.** A rollback is a sequence of commands, each of which can
  fail; what is left must be owned by somebody who tries again.
* **Answers that never come.** A lost answer of a gateway leaves a mapping the
  client does not know of.
* **User code in the way of shutdown.** Extension callbacks block, fail or panic
  on a pool with fewer workers than extensions.
* **Permits across revocation.** A worker permit that revocation has given back is
  still in the hands of a task that has not noticed yet.

### What makes each part correct

* A packet accepted before a peer was revoked is never delivered afterwards; the
  reverse maps never lead to a peer outside the committed map; a map update ends.
* A dead DERP connection is noticed and replaced; no region has two readers;
  shutdown leaves nothing open.
* After a map commit no relay work or relay path of a former peer or server is
  left; nothing blocks a peer's relay discovery for good.
* A completed shutdown means that every task has ended, and every caller is told.
* While there is traffic the direct path is kept alive by exactly one task, and a
  direct address is never one that was confirmed before the last link change.
* While an exit node is in force, traffic is covered by its catch-all routes or by
  the block; a block reported as verified is in the kernel; a failed `set` is
  undone or its inverses are owned; a close that succeeds leaves nothing behind.
* Every mapping a gateway may hold is cached, being allocated or in the ledger; a
  shutdown that reports success left no mapping and no task.
* A unit file changes as a whole, in a transaction that is on record before the
  change and that the next operation finishes after a crash; foreign bytes are
  never deleted.
* Extensions shut down in reverse order, never two attempts of one at once, after
  publications have fallen silent; a stopped host has released everything.
* A revoked generation sends nothing more, a latched key has no voice, no worker
  is lost and no admitted callback is forgotten.

## 2. Modules

| Module | Models | Checked by | Proved in |
|---|---|---|---|
| `NetmapCommit` | map commit, authorization, receive handoff, pumps (a composition of tsnet and magicsock around their two locks) | `NetmapCommit.cfg` | `NetmapCommitProofs` |
| `DerpManager` | DERP connections, reconnects, link and DERP map changes, shutdown | `DerpManager.cfg` | `MagicsockProofs` |
| `RelayManager` | relay event loop, its tasks, and the map commit that drives it | `RelayManager.cfg` | `RelayManagerProofs` |
| `SocketShutdown` | task registry, shutdown flight, waiting callers, `request_shutdown` | `SocketShutdown.cfg` | `MagicsockProofs` |
| `PeerPath` | one peer's direct path and its background task | `PeerPath.cfg` | `MagicsockProofs` |
| `TunRouter` | the Linux router, the fail-closed latch around it, and the owner that starts and closes it, over a kernel that outlives them | `TunRouter.cfg`, `TunRouter_wedge.cfg` | `TunRouterProofs` |
| `PortMapper` | the port mapping client and the gateways it asks | `PortMapper.cfg` | `PortMapperProofs` |
| `UserUnit` | the unit manager, its file store and systemd | `UserUnit.cfg` | `UserUnitProofs` |
| `UnitTransaction` | what `UserUnit` promises: one recoverable transaction at a time (abstract) | as `Implements` of `UserUnit.cfg` | `UserUnitProofs` |
| `ExtensionHost` | life cycle, publications and shutdown workers of extensions | `ExtensionHost.cfg` | `ExtensionHostProofs` |
| `SshCallbacks` | dispatchers, generations, the worker scheduler and the map streams' loops | `SshCallbacks.cfg`, `SshCallbacks_workers.cfg` | `SshCallbacksProofs` |

The `MC_*` modules only give constants and symmetry sets for TLC. Operators
whose name ends in `_Something` are mutants: the same step with a plausible
slip, used to show that a property can fail.

### How state and actions correspond to the code

An action is what one task does between two points where another one may run: an
await, or the release of a lock. A guard that reads a lock's state stands for a
wait for the lock.

* **NetmapCommit.** Who holds the gate or the barrier follows from where the
  processes are (`GateRead`, `GateReadable`, `BarrierReaders`,
  `BarrierReadable`). Both locks are tokio's, whose queue is fair: readers wait
  behind a queued writer. `upd` walks through the map update: `MapResponse`,
  `GateWrite`, `ClearTunnels`, then `set_netmap` as `SetNetmap`, `BarrierWrite`,
  `PurgeEndpoints`, `PurgeMaps`, `Rebuild`, `Reconcile`, `RelayServersSet`, then
  `InstallPeers`. A receive task looks up and stamps (`LookupUdp`, `StampUdp`,
  `StampLinux`, `StampDerp`), takes a credit, revalidates and sends; the disco
  handlers are `DiscoPing`, `DiscoPong`, `DiscoDerp` with their sends. The pump is
  either pump, chosen at the start. `era` counts revocations of a peer; it is
  history that only properties read.
* **DerpManager.** `get_or_connect` is split at the dial, the check for shutdown,
  the insertion and the spawn of the consumer. A reconnect signal is a count per
  region. A `DerpIo` that lost the insertion race stays live with no consumer,
  because the code drops it without `close()`. `close_all` is two kinds of steps:
  `CloseAll` takes every connection out of the map under the write lock,
  `CloseDrained` closes one of them after its release; `closing` is the vector in
  between, one for the link change and one for the shutdown, which may overlap.
* **RelayManager.** The loop handles one event at a time; while it joins
  cancelled tasks it is in a state of its own and takes no event. Work is a
  record with peer, server, both generations and an id; a task carries its work.
  Messages of the network reach the loop when it is idle, or are lost.
  `gone` and `known` are the parts of the endpoint table and of `disco_to_peer`
  the manager asks for. The shortcut for a relay server on the own node is left
  out: `discover_relay_servers` never yields a self node with a generation.
* **SocketShutdown.** The registry's lock makes `spawn` atomic with respect to
  its closing. The flight is a task of the runtime; `Register`, `Check`, `Poll`
  and `Wake` are the steps of `wait_for_shutdown_complete`.
* **PeerPath.** Time passes in ticks; an age counts up to `Never`, a timer down to
  zero, and a sleep that is over may be noticed late. An aborted task ends at its
  next await. A transaction that is not pending is forgotten as the id of the last
  lifetime ping, because the code asks only whether it is pending. Which
  addresses discovery pings, and when, is left open: such a ping may be sent at
  any moment. The peer's disco key is the greater one, so that this side probes.
  A socket that closes is left to `SocketShutdown`. `inbox` holds the stamps of
  the peer's datagrams between the receive task and the pump: `Received` puts one
  there, `Authenticated` is `note_authenticated_wg_transport`, which makes the
  datagram's address the direct one without a ping, `Refused` everything that
  ends a datagram before that. A datagram's address is chosen when it is
  authenticated, because nothing before depends on it. `DirectIsCurrent` does not
  say that the datagram was received after the last link change: the code leaves
  the channel alone then.
* **TunRouter.** `stack` holds the labels of the calls in progress, innermost
  first: a label is the code that runs when its callee returns. Between labels one
  `ip` command runs per step; it succeeds, fails because of what the kernel holds
  (a rule that is there already, IPv6 switched off), or fails for no reason, at most
  `MaxFail` times. `mode` says what a failure does: start the rollback, go into
  the pending inverses, or be collected. A crash clears everything but `kern`, which
  loses what hangs on the TUN device, and `owner`. Configurations are records of
  address, route and throw sets; their values are small sets in `MC_TunRouter`. A
  destination is a name, of which 6 is kept for the IPv6 family of rules, block and
  catch-all (`RouterAssumption`).
  Operations on the owner record fail as commands do (`RecordFault`, from the same
  `MaxFail`). A record whose write failed is `torn`, one whose sync or removal
  failed is `left`: it names this process and no open router. A torn record
  refuses every later start, one that was left is taken over by a later start of
  the process and adopted as a dead owner's after its death. The few bytes of a
  record are taken to be written together or not at all. The MagicDNS service
  address, which the code puts on `lo`, is treated as an address of the device:
  in a real kernel it survives a crash, in the model it does not.
  The watchdog of the link monitor and a map update are calls of the same
  `sync_router_config`, each with its own reason. The numbers of rule bases are
  left out: a restarted process is taken to have the interface index it had.
* **PortMapper.** `flight` is the allocation supervisor with its current attempt,
  `launcher` the task behind a cache miss, `releases` the release tasks, `sh` the
  shutdown supervisor. A request is handled by the gateway while its sender waits,
  or lost, and so may the answer be; only then does an attempt end in doubt and
  enter the ledger. Every send passes `SendPermit`, which shutdown closes
  (`terminal`). A flight, a reader and a prober remember the generation they
  started in, and compare it after each wait, as the code does.
* **UserUnit.** A file is an inode and its bytes, so that the code's comparison of
  identities has a meaning. An operation is cut at every rename and unlink, every
  `systemctl` command and every check that a later step relies on; at each cut it
  can fail, die, or be met by a process that ignores the lock. The journal is
  written before the unit changes and goes when systemd has loaded the outcome, in
  two steps: `ClearBegins` renames it to a tombstone, `ClearUnlinks` removes that.
  A failure before the rename leaves the journal, as a plain error while names are
  looked at, as `CommittedNeedsReload` or `RepairRequired` inside the removal; one
  after it leaves the tombstone, or puts the journal back. A tombstone, also one
  that a crash left, makes every later operation answer `RepairRequired`.
  `Implements` maps `txn` to the journal on record (`OnRecord`: until the unlink
  that is the one the store remembers, since it may get its name back) and `alone`
  to "nobody interfered"; the rest of the state, crashes included, is invisible to
  `UnitTransaction`, except that a death at the unlink ends the transaction.
* **ExtensionHost.** `starter` is the task of `run_start` with the caller that may
  go away, `sweep` the task of `shutdown_active`, `jobs` and `busy` the queue and
  the workers. `res` is a ghost: what each extension holds between its init and
  its shutdown callback.
* **SshCallbacks.** A generation's `phase` walks through the steps of its
  revocation; the lock of the dispatcher, of the queue and of the scheduler each
  cover one step. `loop` is the select loop of a map stream, which holds a worker
  permit between its grant and the spawn of a dispatch task. Jobs and generations
  are used again once nothing refers to them. The `notify_one` after a lock's
  release is in the step that releases it (`EnqueuePushes`, `Granted`): the
  permit it stores is taken only by a loop that looks again, so a wake-up that
  comes later delays that loop and no more. Expiry removes the oldest jobs in the
  order of arrival; the code goes by timestamps, which two producers may take in
  another order than they push.

## 3. Runs

### Passing runs

| Run | Instance | What it shows |
|---|---|---|
| `netmap` | one peer, one disco key (or none), one address, two receive tasks, one credit, two commits, both pumps | `NoStaleDelivery`, `ReverseMapsAuthorized`, `EvidenceFresh`, `PublisherNeverBlocks`; every map update ends (`CommitCompletes`) |
| `derp` | one region, two connection names, one sender, two reconnect tasks | `NoLostReconnect`, `SingleFeed`, `ShutdownClosesAll`; a region whose connection died gets an open one again (`RegionRecovers`) |
| `relay` | one peer, two servers with the same VNI, two commits | `TablesAgree`, `NoStuckWork`, `OwnCompletion`, `CommittedWorkIsCurrent`; a commit ends (`CommitEnds`) |
| `shutdown` | two tasks, two callers of `shutdown`, one of `request_shutdown` | `ShutdownStopsAll`; no caller is stranded (`ShutdownReturns`), cleanup ends without its leader (`CleanupFinishes`) |
| `path` | two addresses, one transaction, two senders, two tasks, datagrams of one stamp queued at a time | `SessionBeats`, `DirectIsCurrent` |
| `router` | five configurations (plain, exit node with LAN denied or allowed, each with and without a connected host route), kernels with and without IPv6, two failing commands or record operations, one crash | `VerifiedIsBlocked`, `RunningNeverLeaks`, `CleanClose`, `SetIsAtomic` |
| `portmap` | two gateways, PMP and UPnP, two external and two local ports, three events, one shutdown | `LedgerCovers`, `CachedIsCurrent`, `CleanShutdown` |
| `unit` | two contents, two operations, two failing steps, two deaths, one foreign write | `CrashRecovers`, `SuccessMeansLoaded`, `FailureRestores`, `RacerPreserved`; `UserUnit` implements `UnitTransaction` (`Implements`) |
| `extensions` | three extensions, two workers, a queue of one, two errors, one panic, two publications | `DependentsFirst`, `QuietBeforeShutdown`, `StoppedMeansReleased`, `OneShutdownAtATime`; every transition ends (`TransitionsEnd`) |
| `ssh` | two profiles, one key, two principals, one producer, two jobs, two generations, one worker for all | `RevokedIsSilent`, `LatchedKeyHasNoVoice`, `NoWorkerLost`, `CallbackNotForgotten` |

The runs are spent on properties that take several steps to break. A module's
`TypeOK` describes its state; for the modules with proofs it is a theorem, and so
are `OneMap` of `NetmapCommit` and `OneTask` of `PeerPath`.

### Runs that show a disagreement between the code and its text

| Run | The text | What the code does |
|---|---|---|
| `router_wedge` (`CleanupCompletes`) | `router/src/lib.rs:504`: "Failed inverses remain owned and are retried before another set() or during close()." | `close` calls `block_direct` before it retries. When the block fails at its second rule and the rollback of the first fails once, every later `block_direct` meets its own rule (`EEXIST`), so `close` never reaches the pending inverse and start-up stays refused |
| `ssh_workers` (`WorkersBounded`) | `docs/parity.md:117`: "globally capped generation workers with atomic tombstoned round-robin grants" | `release` (`ssh_notify.rs:698`) grants a worker also for a permit that revocation has given back already, and `grant_next_worker` does not ask whether one is free: one callback too many runs at once |

### Other disagreements seen while reading, without a run

DERP:

* `reconnect_region` says "Remove the dead connection (if still present)"
  (`magicsock/src/lib.rs:1606`); a late signal removes and closes the healthy
  successor, since a signal names only a region.
* "All connections' recv tasks feed the same `wg_send` + disco demux path"
  (`lib.rs:1380`); the connection that loses the insertion race (`lib.rs:1582`)
  stays open with no reader.
* `reconnect_region` is said to retry "until a new connection is established or
  the region is no longer in the DERPMap" (`lib.rs:1600`); the loop does not look
  at the map again and `get_or_connect` returns nothing for an unknown region, so
  it sleeps for ever.
* The connection-down warnable is one for all regions: any region's successful
  dial clears it (`lib.rs:1566`) while another region is still down, though the
  comment above it calls it "the per-region connection-down warnable".

Socket, relay manager and paths:

* After `request_shutdown` a later `shutdown` "can still take and join their
  retained handles" (`lib.rs:2051`); `abort_now` takes and drops the handles, so
  `shutdown` completes while an aborted task may still run. `ShutdownStopsAll` is
  stated for sockets without such a request.
* "Route to handshake work if we have one awaiting": the end of one handshake
  forgets the awaited pongs of the peer's other handshakes
  (`relay_manager.rs:1181`, `1285`).
* `clear_relay_server` speaks of "every relay address associated with this exact
  server identity"; with equal VNIs a path through one server is stored under
  another (`relay_manager.rs:1311`).
* `clear_relay_server` takes a peer that stopped being a relay out of
  `disco_to_peer` (`lib.rs:4036`) although it is still a peer.
* `ProbeUDPLifetime`: "A cycle completes when all cliffs receive a pong or a ping
  times out"; a cycle that starts when trust is over stays active, and after an
  answered ping the next cliff is not probed, because `can_start_cycle` is false
  while a cycle is active (`lib.rs:3813`).
* `maybe_retrigger_call_me_maybe` needs `call_me_maybe_sent`, which only
  `set_netmap` sets: after one retrigger none follows until the next map.
* `link_changed` is to "reset all peers' confirmed direct paths (so disco
  re-probes)" (`lib.rs:2854`); a datagram received before it and authenticated
  after it confirms its address again, without a probe (`lib.rs:2480`).
* A lifetime probe that times out clears whatever address is the best one then,
  also one that was confirmed during the wait (`lib.rs:3853`), and a lifetime
  ping expired by the housekeeping of another ping counts as answered
  (`endpoint.rs:1085`).

OS router (`router/src/lib.rs`):

* An owner record torn by a crash or by a failing write (`1720`) is refused for
  good: the router that failed to write it does not own it, so its `close` does
  not remove it. `release_ownership` ignores a removal that fails (`1854`), so a
  close that reports success can leave a record; `CleanClose` says which ones.
* Throw routes in table 52 survive a crash (`429`).
* `block_direct` meeting a transient failure of its verification deletes the block
  before it adds it again, also while the catch-all is torn down, against the
  comment at `712`.
* The base of the rule numbers comes from the interface index modulo 200: a
  restarted process with another index does not adopt the record.
* On a kernel without IPv6 the block never verifies, and a close that needs it
  never succeeds.
* Going between LAN access allowed and denied with a connected /32 fails with
  `EEXIST`; entering an exit node that fails at the block leaks a count of the
  underlay bypass.

Port mapper (`portmapper/src/client.rs`):

* An unanswered PMP request leaves a ledger entry with port 0 and no end of lease,
  which refuses later allocations that have no previous port.
* A release task that is aborted before its first poll never gives back its count
  of `pending_releases`, so that later shutdowns run into their deadline (`632`,
  `999`).
* The compensation of a UPnP renewal in doubt deletes the live cached mapping;
  `retry_uncertain_upnp` never finds anything to retry; a launcher can join a
  flight of an old generation.

User units (`freedesktop/src/systemd_user.rs`):

* When the journal's tombstone cannot be unlinked, or the process dies between the
  rename to it (`1404`) and the unlink (`1448`), every later operation is refused
  with `RepairRequired` (`898`, `2050`), though the change is complete and loaded
  (`CrashRecovers` says so). In the first case the operation reports
  `CommittedNeedsReload`, as if a retry could help; a test (`4077`) expects a retry to find nothing to do, with a fake store
  that leaves no tombstone.
* Between the last revalidation and `daemon-reload` another process can change the
  unit, against the file's header.
* A rollback that cannot be written leaves `RepairRequired` for good; a crash during
  the rollback of a removal restores the unit and not its enablement; an inspection
  that fails right after `rename_noreplace` reports `Io` although the unit is
  published (`1351`); the journal stays, so the next operation finishes it.
  `FailureRestores` says so.
* `clear_reload_required` can fail with a plain `Io` or `Conflict` (`1844`, `1855`,
  `1863`) after systemd has loaded the new unit, and `replace_and_reload` passes
  that on without a rollback: the caller reads a plain failure although the change
  is in force. The journal stays, and the next operation clears it;
  `FailureRestores` names the case.

Extensions and callbacks:

* A shutdown callback that panics takes its worker with it, and its attempt stays
  `Running` for good (`ipnext/src/lib.rs:323`): only waiters' timeouts end.
* Revoking publications before the host starts is undone by `publications.start`
  (`1005`).
* An enqueue that races a revocation leaves its job in the revoked queue
  (`ssh_notify.rs:528`); nothing sends it.

### Bounds, and why they are enough

* Two commits let a peer be there, leave or change its key, and return. One credit
  and two receive tasks are the smallest case in which the channel could be full.
  Two peers that contend for one disco key or address are covered by the proofs of
  `NetmapCommit`, which hold for any sets.
* Two reconnect tasks of one region let a stale signal meet a new connection.
  Connection names are used again once nothing refers to them, so two of them give
  runs of any length; `MaxSignals` is where a count saturates.
* Ids of relay work are used again when nothing refers to them; three of them
  allow an old result, current work and a task at the same time. Generations grow
  by one per commit.
* In `PeerPath` two tasks are enough for an aborted one beside its successor, two
  senders for one that is late to arm. Durations keep their order (heartbeat and
  ping timeout up to trust, trust below the cliffs, cliffs up to the session; in
  the run one tick and two), not their ratios; the theorems hold for any durations. `Never` caps ages at the
  greatest duration, beyond which comparisons do not change. With one transaction
  at a time late, duplicated and lost pongs of one ping are covered; several
  pings at a time are covered by the theorems. `InboxCap` is one: a datagram of
  the channel stands for any number of its stamp, and a current one becomes a
  revoked one with a map commit; both at a time are covered by the theorems.
* Two failing commands or record operations of the router are one that starts a rollback and one that
  breaks it; the crash may come on top. The configurations are those between which
  the plan of `set` differs. `MaxBypass` saturates a count that the code only
  compares with zero.
* Three events of the port mapper are enough to change the gateway or port during a
  flight, let its lease end and ask again. PCP takes the steps of PMP apart from
  its nonce, so that one of the two is enough.
* Two faults and two deaths of the unit manager are a step that fails, its rollback
  that fails, the recovery that dies and the recovery of the recovery; two
  operations let the second one find what the first left.
* Three extensions on two workers and a queue of one is the smallest host in which
  an attempt is refused by a full queue while another one is timed out and running.
* Two generations of one worker, one admitted and one revoked, is where permits
  cross; with more jobs (`ssh_workers`) the surplus grant is visible. Jobs and
  generations are used again, so the runs are of any length.

### Fairness

Safety runs need none. Where a run has a temporal property:

* a ready task is polled and a lock's queue is served in order: both are what
  tokio does (weak fairness of every step that follows from an earlier one);
* `DialOk` is strongly fair: a dial that is tried again and again succeeds at last.
  Without it `RegionRecovers` could only fail because the network is down for ever;
* from some time on no connection dies by itself (`NetworkSettles`). Without it a
  region whose every new connection dies at once would refute `RegionRecovers`,
  which no code can help; deaths before that time come in any number and order;
* a `close_all` that has drained the map closes what it took (a synchronous loop);
* a task that was aborted or cancelled ends: tokio drops it at its next await, and
  the relay tasks select on their signal;
* no caller has to call `shutdown`, no running task has to end by itself, no map
  has to come, no packet has to arrive;
* a call of the router that has begun runs on, and a router whose close failed is
  retried by every later start (`router_wedge`); commands fail only finitely often;
* tasks and workers of the extension host run on, and a callback returns unless it
  panics, which is bounded; nobody has to start, publish or shut down.

Deadlock checking is off where the system may come to rest: a bounded number of
commits or operations, a socket that has shut down, a stopped host.

## 4. Proofs

All theorems have the form `Spec => []P`, or `Spec => Implements` for the
refinement of `UnitTransaction`, and hold for every value of the
constants that the modules' named assumptions admit: distinct model values,
positive durations, finite sets of peers, receivers, queued callbacks and routes.

* **`MagicsockProofs`, connections.** `IndInv` adds to the types that a process holds a
  connection exactly between dial and return. `Watched` (a mapped connection that
  is dead has a consumer, a signal or a task) gives `ReconnectNeverLost`;
  `FeedInv` adds that a process which is about to spawn a consumer holds the
  mapped connection or one that a `close_all` has taken and will close, and gives
  `FeedIsMapped`; `ShutdownComplete` rests on the order gate, drain, close, abort.
* **`NetmapCommitProofs`.** `Exclusion` states what the two locks exclude, from
  where the processes are. `NoPublisherBlocks` is a count of credits: those of the
  channel, of tasks and of the pump are at most all there are. `AuthInv` relates
  endpoints, generations and reverse maps at each step of the commit, which is
  needed because they disagree in its middle, and gives
  `ReverseMapsStayAuthorized`. `Stamps` says that a stamp with a current
  generation was made in the current era of its peer, and gives
  `StaleNeverDelivered` and, with the gate, `EvidenceStaysFresh`. `PumpSeesOneMap`
  follows from the gate.
* **`MagicsockProofs`, shutdown.** Every task that runs has its handle in the registry
  or with the flight unless a request took it; the flight's position tells which.
  This gives `CompleteMeansStopped`.
* **`MagicsockProofs`, paths.** `Fresh` says that an absent endpoint left nothing behind and
  that a ping sent before the last reset is not pending; with the stamp of a queued
  datagram, which a commit that drops the endpoint revokes, it gives
  `DirectStaysCurrent`. `OneTaskAtATime` is inductive with the types.
  `ActiveSessionBeats` needs both: a rebuilt endpoint has no session, and the only
  way out of the heartbeat loop is an idle session, whose next send arms a new task.

* **`RelayManagerProofs`.** The commit, the loop, its tasks and the results on
  their way each hold a piece of the same work. `Turns` says that commit and loop
  ask one question at a time, and in which order; `Refs` that a piece of work is
  referred to once, by a task or by a result; `Works` that work in the tables is
  of the current identities and of a peer the commit has not purged; `Joining`
  which cancelled tasks the loop can be waiting for at each of its positions;
  `Late` that a result which outlived its work cannot be taken for a later one;
  `Routes` and `Tables` that paths and routing tables lead to such work. They
  give `TablesConsistent`, `WorkIsDriven`, `CompletionsAreOwn` and
  `CommitIsCurrent`. `Late` is the part that is easy to miss: after a purge old
  results are still in the queue, in front of the server update.
* **`ExtensionHostProofs`.** `Phases` and `Position` tell from the life cycle which
  of the two tasks runs and how far it is, `Holdings` who owns what an extension
  holds, `Ordered` that owners are listed in the order of registration (which is
  why popping from the end goes backwards), `Attempts` what the state of an
  attempt says about its owner, `Quiet` that nothing is touched while publications
  drain. `LaterFirst` is `DependentsFirst` from the moment a shutdown is asked for.
  They give `ShutdownInReverse`, `CallbacksEndFirst`, `StoppedIsReleased` and
  `SharedAttempt`.
* **`PortMapperProofs`.** `Owns` says that an ownership number belongs to one
  mapping wherever it is met: cached, in flight, in the ledger or with a release
  task. It is needed because an entry of the ledger is forgotten by its number,
  when the gateway rejects the request or confirms the deletion. `Covered` is
  `LedgerCovers` with the entry named that accounts for a mapping of a gateway;
  `MapGen` ties the cached mapping to the generation it was made in. `Unsent`,
  `Context` and `Settled` say what a flight knows at each of its waits: before it
  has sent anything there is nothing to account for, and what it has read of the
  client is current only while the generation is the one it started in.
  `Stopping` says what each position of the shutdown supervisor has behind it;
  its wait for pending releases means something because the counter is never
  below the number of release tasks, which is part of `TypeOK`. They give
  `NothingForgotten`, `MappingIsCurrent` and `ShutdownReportIsTrue`.
* **`UserUnitProofs`.** `IInv` has three parts besides the types. `World` is about
  the directory, whatever operation is under way: a journal leads from one content
  to another (`Lawful`), and while nobody interfered the unit is one of the two and
  systemd has loaded it unless a published change is on record (`Directory`).
  `Conduct` is about the operation: which procedure a position belongs to
  (`Flow`), what it replaces by what (`Errand`), which exchange it is in
  (`Exchange`), which journal it has found or written and remembers (`Journal`),
  and how far the directory has followed it (`Place`). `Told` is about its report.
  The parts under `races = 0` and `faults = 0` cannot be merged with the others: a
  foreign write or a failing step may break them at any position, and
  `RacersPreserved` holds nevertheless. `Smooth` is what makes `CrashesRecover`
  inductive: without failing steps nothing but a forward change is ever given up,
  so a rollback keeps the file its record names. A journal that is a tombstone is
  still followed (`Parked`): what the store remembers leads between the same
  contents, and what it led to is in place and loaded, which is the second half
  of `CrashesRecover`. `Undone` and `Resumable` are the two outcomes of a plain
  failure. The steps that open a journal
  again inside an operation (`rollback_file`, putting a removed unit back) are why
  `Journal` tells the record found from the record written.
  `MissingAssumption` says that the value for "no file" is none of the records the
  state is made of.
  `Refinement` rests on the same invariant. The mapping reads the transaction off
  the journal on record (`Txn`, `OnRecord`). A record without one before it is `Begin`; a rollback
  record is `Undo`, because the forward change is in place then; a rename moves
  between the two contents of the journal, so it is `Commit`, `TakeBack` or no
  change of content; a reload finds the outcome in place, or what was loaded before
  when the change was given up; the rename to the tombstone is not seen; and the
  record goes with the unlink, or with a death before it, only from a state in
  which the loaded content is that of the file (`Finishes`). Everything else
  leaves the mapped state alone (`Elsewhere`: no other step is at the unlink), and
  a foreign write is `Interfere`.

* **`SshCallbacksProofs`.** Several threads take part in one revocation, and a
  worker's permit can come back twice, from `cancel` and from the aborted task
  that held it. So no part of the invariant is about one thread alone. `Voice`
  says that a live generation is its profile's current one, not blocked and with
  an unlatched key; `Loops` where the loop of a stream may be, given what became
  of its generation, and what it holds there; `Queues` and `Fair` that a queue
  holds jobs of its own generation, each once, and that the order of principals
  lists those with jobs and no other; `Silence` that a task which has not ended
  is either aborted or among the tasks the revocation still has to abort. They
  give `RevokedIsSilent` and `LatchedKeyHasNoVoice`. `Line` ties the scheduler's
  tables together: the tombstones are the cancelled generations, a generation in
  line is alive and has no promise, and a promise is made once. `Enough` counts:
  free workers, promised ones and those in use are at least `GLOBAL_WORKERS`. At
  least, because a release grants a worker whatever has been given back
  before (the finding of `ssh_workers`). With `NoneIdle`, no free worker
  while somebody is in line, it gives `NoWorkerLost`; `Watched`, which follows a
  queued job to a wake-up, a running task or a place in line, gives
  `CallbackNotForgotten`. The queues are filtered by `Kept`, which names
  the elements by rank; `KeptIs` says that of a sequence without repetitions this
  leaves the elements asked for, each once.

* **`TunRouterProofs`.** `Owed` is the set of inverses that somebody still has to
  run: those of the transaction under way, those a rollback or a retry is running,
  and those kept in `pending_cleanup`. `Wanted` is what the recorded state says the
  kernel holds. `Upper` says that what the kernel holds is wanted or will be
  deleted, `Lower` that what is wanted is there or will be added, `OwedFits` that
  no inverse works against the record. They hold at every command, while the
  record changes only at the end of a `set`: where it changes, the inverses
  collected so far are dropped, and `TxTop` (which commands of the transaction are
  left, and that the others had their effect) shows that nothing was owed any
  more. This gives `SetHolds`. The rules of the block need parts of
  their own, because they come and go while `set` is at rest: an owed deletion of
  a block rule is owed once and never of a block that is recorded (`DelBlock`,
  `OneDel`); otherwise a late inverse could take down a verified block. `Latch` is
  `VerifiedIsBlocked` with the router's own record; `ExitOwed` says that a
  catch-all route is owed only behind a verified block, which is the step from
  `Lower` to `NoLeak`. `Frames` says which call may be waiting for which, `Notes`
  what is known while a label waits on the stack, whatever runs above it, and
  `TopFits` what its callee has left behind when it returns. `CloseIsClean`
  follows the notes through the close: block, pending inverses, teardown,
  unblock, record; of the record it says which states a failing operation on it
  can leave. The theorems hold for every finite choice of destinations and
  any bounds on failing commands and crashes.

Only model-checked: everything temporal (`RegionRecovers`, `CommitCompletes`,
`CommitEnds`, `ShutdownReturns`, `CleanupFinishes`, `TransitionsEnd`), which needs
fairness and is out of the prover's reach. Every invariant of a passing run is
also proved. `CleanupCompletes` and the property of `ssh_workers` are not: the
code does not have them.

## 5. Not modelled

Wire formats, cryptography, platform code and user interfaces are left out: they
are pure I/O or pure data. Of the modelled parts the following is left out:
frames and keepalive of a DERP connection (a writer task that ended on an error
while the reader lives, `derp_io.rs:94`, makes sends fail and tells nobody: no
property covers it), the ranking of candidates and the choice
between relay and DERP, path telemetry, CLI pings, path MTU sizes, routes,
filter, DNS and Tailnet Lock work of a map update, and the outbound half of the
pumps; the routers of other platforms and what they share with Linux only in
outline; the byte formats of PMP, PCP and UPnP, and a late `AddPortMapping` that a
gateway executes after it has confirmed a deletion; loss of power (a rename is
durable once it returned), tampering with the journal, reloads of systemd by
others, reuse of inode numbers, linked, masked and runtime enablement; the
contents of callbacks, their redirects and their counters.

A large part of the repository is request handling, formats and platform calls
around this core (LocalAPI alone is as long as all of magicsock), which has no
state of its own that a small model would tell apart. The map therefore covers a
small share of the lines.

## 6. Plan

1. `RelayServer`: `udprelay` with allocation, VNI and lamport numbering, handshake,
   MAC rotation and garbage collection, then composed with `RelayManager` through
   VNIs and lamport ids.
2. `EndpointRoute`: `best_path`, relay history, DERP route and its expiry, CLI
   pings; an abstract specification of "a packet has a path" that it implements.
3. `ServerLifecycle`: start, rollback and close of tsnet (`lifecycle.rs`), composed
   with `TunRouter` and `ExtensionHost`.
4. `IpnBackend`, `IpnBus`, `ProfileStore`: state machine, notification bus with
   bounded queues, profiles with crashes between writes; `AtomicFile` as the
   abstract store they use.
5. `MapPoll`: the control client's long poll with retry and backoff, composed with
   `NetmapCommit` and `SshCallbacks`.
6. `HealthTracker`, `SingleFlight`, `AuditLog`, `Logtail`.
7. Pure algorithms in one module with a reference definition each: token bucket,
   Tailnet Lock fork choice, longest-prefix match, LRU flow table.

The order follows the importance of the behaviour: first what decides whether
packets reach the right peer, then what keeps the node alive, then what stores its
state.
