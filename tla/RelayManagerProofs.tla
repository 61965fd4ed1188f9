------------------------ MODULE RelayManagerProofs ------------------------
(***************************************************************************)
(* Proofs about RelayManager, for any nodes, servers and map commits.      *)
(***************************************************************************)
EXTENDS RelayManager, TLAPS

\* The work of tasks that run on, of tasks with a cancel signal, and of results
\* on their way to the loop.
Live == {t.work : t \in {u \in tasks : ~u.cancelled}}
Ending == {t.work : t \in {u \in tasks : u.cancelled}}
Results == {queue[i].work : i \in {j \in DOMAIN queue : queue[j].type = "done"}}

\* The identities of the peer and of the server are those of the tables.
Cur(w) == gen[w.peer] = w.pgen /\ servers[w.server] = w.sgen

\* The peers of this commit whose work the loop has cancelled.
Pending == {n \in Nodes : \E i \in DOMAIN queue : queue[i].type = "cancel" /\ queue[i].peer = n}
Purged == gone \ (todo \cup Pending)

Asked(type) == \E i \in DOMAIN queue : queue[i].type = type

\* The commit and the loop take turns: one question at a time, and those who
\* ask for work to start have asked before.
Turns ==
  /\ \A i, j \in DOMAIN queue :
       queue[i].type \in {"cancel", "servers", "complete"} /\ queue[j].type \in {"cancel", "servers", "complete"} => i = j
  /\ Asked("cancel") \/ loop.at = "cancel" => cpc = "cancel"
  /\ Asked("servers") \/ Asked("complete") \/ loop.at = "servers" => cpc = "servers"
  /\ loop.at \in {"cancel", "servers"} => ~Asked("cancel") /\ ~Asked("servers") /\ ~Asked("complete")
  /\ cpc \in {"servers", "start", "idle"} => gone = {}
  /\ cpc = "rebuild" => todo = {}
  /\ \A i, j \in DOMAIN queue : queue[i].type = "cancel" /\ queue[j].type = "start" => j < i
  /\ \A i \in DOMAIN queue : queue[i].type = "start" => queue[i].peer \notin Purged
  /\ \A i \in DOMAIN queue : queue[i].type = "cancel" => queue[i].peer \in gone \ todo
  /\ cpc \in {"purge", "cancel", "rebuild"} => \A n \in Nodes : gen[n] < commits
  /\ cpc \in {"purge", "cancel", "rebuild"} => \A n \in Nodes : gen[n] # 0 /\ n \notin target => n \in gone
  /\ \A n \in Nodes : gen[n] <= commits

\* The shape of a piece of work tells its kind.
Shapes ==
  \A w \in work \cup Live \cup Ending \cup Results :
    /\ w.pgen # 0 /\ w.sgen # 0
    /\ w.kind = "alloc" => w.vni = 0 /\ w.lamport = 0
    /\ w.kind = "handshake" => w.vni \in Vnis /\ w.lamport \in Lamports

OneTask == \A t, u \in tasks : t.work = u.work => t = u
OneResult ==
  \A i, j \in DOMAIN queue :
    queue[i].type = "done" /\ queue[j].type = "done" /\ queue[i].work = queue[j].work => i = j

\* Every piece of work is referred to once: by a task or by a result.
Refs ==
  /\ OneTask /\ OneResult
  /\ (Live \cup Ending) \cap Results = {}
  /\ Live \subseteq work /\ work \subseteq Live \cup Results

\* Work is current, of a peer that has not been purged; there is one allocation
\* for a peer and a server.
Works ==
  /\ \A w \in work : Cur(w) /\ w.peer \notin Purged
  /\ \A v, w \in work : v.kind = "alloc" /\ w.kind = "alloc" /\ v.peer = w.peer /\ v.server = w.server => v = w

\* What the loop keeps across its joins, and which tasks it joins.
Joining ==
  /\ loop.at \in {"replace", "spawn"} =>
       /\ loop.pgen = gen[loop.peer] /\ loop.pgen # 0 /\ loop.peer \notin Purged
       /\ loop.sgen = servers[loop.server] /\ loop.sgen # 0
  /\ loop.at = "idle" => Ending = {}
  /\ loop.at \in {"replace", "spawn"} => \A w \in Ending : w.kind = "handshake" /\ Cur(w) /\ w.peer \notin Purged
  /\ loop.at = "cancel" => \A w \in Ending : Cur(w) /\ w.peer \in Purged
  /\ loop.at = "servers" => \A w \in Ending : w.sgen # servers[w.server]

\* Results are current unless the loop has yet to work through the commit; those
\* of allocations that were stopped cannot be taken for later ones.
Late ==
  /\ cpc # "servers" => \A w \in Results : Cur(w)
  /\ \A i, j \in DOMAIN queue : queue[i].type = "complete" /\ queue[j].type = "done" /\ i < j => Cur(queue[j].work)
  /\ \A w \in Results \ work : w.kind = "alloc" =>
       IF cpc # "servers" THEN w.peer \in Purged
       ELSE w.pgen # gen[w.peer] \/ (~Asked("servers") /\ w.sgen # servers[w.server])

\* Relay paths and servers are of this map, once the loop has heard of it.
Routes ==
  /\ \A p \in Clients : relay[p] # None =>
       /\ gen[p] # 0 /\ p \notin gone
       /\ relay[p].sgen # 0 /\ relay[p].sgen = servers[relay[p].server]
  /\ ~Asked("servers") => \A s \in Relays : servers[s] # 0 => gen[s] = servers[s]

\* TablesAgree, and what the loop has made room for.
Tables ==
  /\ TablesAgree
  /\ loop.at \in {"replace", "spawn"} => bySdv[<<loop.server, loop.ep.vni>>] = None
  /\ loop.at = "spawn" => Handshake(loop.peer, loop.server) = {}

IInv == TypeOK /\ Turns /\ Shapes /\ Refs /\ Works /\ Joining /\ Late /\ Routes /\ Tables

-----------------------------------------------------------------------------
(* Records, the queue and the tasks                                           *)

\* What the fields of a piece of work range over.
LEMMA WorkFields ==
  ASSUME NEW w \in Work
  PROVE  /\ w.kind \in {"alloc", "handshake"} /\ w.peer \in Clients /\ w.server \in Relays
         /\ w.peer \in Nodes /\ w.server \in Nodes
         /\ w.pgen \in Generations /\ w.sgen \in Generations /\ w.id \in Ids
         /\ w.vni \in Vnis \cup {0} /\ w.lamport \in Lamports \cup {0}
  BY RelayAssumption DEF Work

\* What the fields of an event range over.
LEMMA EventFields ==
  ASSUME NEW e \in Events
  PROVE  /\ e.type \in {"start", "cancel", "servers", "complete", "done"}
         /\ e.type = "start" => e.peer \in Clients /\ e.pgen \in Generations
         /\ e.type = "cancel" => e.peer \in Nodes
         /\ e.type = "servers" => e.servers \in [Relays -> Generations]
         /\ e.type = "done" => e.work \in Work /\ e.reply \in Endpoints \cup {None} /\ e.pong \in Relays \cup {None}
  BY DEF Events

\* What the loop keeps across its joins.
LEMMA LoopFields ==
  ASSUME NEW l \in Loops
  PROVE  /\ l.at \in {"idle", "cancel", "servers", "replace", "spawn"}
         /\ l.at \in {"replace", "spawn"} =>
              /\ l.peer \in Clients /\ l.server \in Relays /\ l.ep \in Endpoints
              /\ l.pgen \in Generations /\ l.sgen \in Generations
              /\ l.ep.vni \in Vnis /\ l.ep.lamport \in Lamports
  BY DEF Loops, Endpoints

\* Work, tasks and results are work.
LEMMA AllWork ==
  ASSUME TypeOK
  PROVE  work \subseteq Work /\ Live \subseteq Work /\ Ending \subseteq Work /\ Results \subseteq Work
<1>1. work \subseteq Work /\ \A t \in tasks : t.work \in Work
  BY DEF TypeOK, Tasks
<1>2. \A i \in DOMAIN queue : queue[i] \in Events
  BY DEF TypeOK
<1>3. Results \subseteq Work
  BY <1>2, EventFields DEF Results
<1> QED BY <1>1, <1>3 DEF Live, Ending

\* Indices of the queue.
LEMMA QueueIndex ==
  ASSUME TypeOK
  PROVE  /\ Len(queue) \in Nat /\ DOMAIN queue = 1..Len(queue)
         /\ \A i \in DOMAIN queue : i \in Nat /\ i >= 1 /\ i <= Len(queue) /\ queue[i] \in Events
  BY DEF TypeOK

\* The loop takes the first event; the others move up.
LEMMA PopFacts ==
  ASSUME TypeOK, queue # <<>>, Pop
  PROVE  /\ queue' \in Seq(Events) /\ 1 \in DOMAIN queue
         /\ \A i \in DOMAIN queue' : i \in Nat /\ i + 1 \in DOMAIN queue /\ queue'[i] = queue[i + 1]
         /\ \A i \in DOMAIN queue : i # 1 => i - 1 \in DOMAIN queue' /\ queue'[i - 1] = queue[i]
<1>1. queue \in Seq(Events) /\ Len(queue) \in Nat \ {0} /\ DOMAIN queue = 1..Len(queue)
  BY DEF TypeOK
<1>2. queue' \in Seq(Events) /\ DOMAIN queue' = 1..(Len(queue) - 1) /\ \A i \in 1..(Len(queue) - 1) : queue'[i] = queue[i + 1]
  BY <1>1 DEF Pop
<1>3. \A i \in DOMAIN queue' : i \in Nat /\ i + 1 \in DOMAIN queue /\ queue'[i] = queue[i + 1]
  BY <1>1, <1>2
<1>4. \A i \in DOMAIN queue : i # 1 => i - 1 \in 1..(Len(queue) - 1) /\ i - 1 + 1 = i
  BY <1>1
<1> QED BY <1>1, <1>2, <1>3, <1>4

\* A new event goes to the end.
LEMMA AppendFacts ==
  ASSUME TypeOK, NEW e \in Events, queue' = Append(queue, e)
  PROVE  /\ queue' \in Seq(Events) /\ DOMAIN queue' = DOMAIN queue \cup {Len(queue) + 1}
         /\ Len(queue) + 1 \notin DOMAIN queue /\ queue'[Len(queue) + 1] = e
         /\ \A i \in DOMAIN queue : i \in Nat /\ i < Len(queue) + 1 /\ queue'[i] = queue[i]
<1>1. queue \in Seq(Events) /\ Len(queue) \in Nat /\ DOMAIN queue = 1..Len(queue)
  BY DEF TypeOK
<1>2. /\ queue' \in Seq(Events) /\ DOMAIN queue' = 1..(Len(queue) + 1)
      /\ queue'[Len(queue) + 1] = e /\ \A i \in 1..Len(queue) : queue'[i] = queue[i]
  BY <1>1
<1> QED BY <1>1, <1>2

\* Cancel signals: the work of ws is no longer live.
LEMMA SignalFacts ==
  ASSUME tasks \subseteq Tasks, OneTask, NEW ws,
         tasks' = {IF t.work \in ws THEN [t EXCEPT !.cancelled = TRUE] ELSE t : t \in tasks}
  PROVE  /\ tasks' \subseteq Tasks /\ OneTask'
         /\ Live' = Live \ ws /\ Ending' = Ending \cup (Live \cap ws)
<1> DEFINE f(t) == IF t.work \in ws THEN [t EXCEPT !.cancelled = TRUE] ELSE t
<1>1. \A t \in tasks : f(t) \in Tasks /\ f(t).work = t.work /\ (f(t).cancelled <=> t.cancelled \/ t.work \in ws)
  BY DEF Tasks
<1>2. tasks' = {f(t) : t \in tasks}
  OBVIOUS
<1> HIDE DEF f
<1>3. tasks' \subseteq Tasks
  BY <1>1, <1>2
<1>4. OneTask'
  BY <1>1, <1>2 DEF OneTask
<1>5. Live' = Live \ ws
  BY <1>1, <1>2 DEF Live
<1>6. Ending' = Ending \cup (Live \cap ws)
  BY <1>1, <1>2 DEF Live, Ending
<1> QED BY <1>3, <1>4, <1>5, <1>6

\* A task notes something.
LEMMA NoteFacts ==
  ASSUME tasks \subseteq Tasks, OneTask, NEW t \in tasks, NEW u \in Tasks,
         u.work = t.work, u.cancelled = t.cancelled, tasks' = (tasks \ {t}) \cup {u}
  PROVE  tasks' \subseteq Tasks /\ OneTask' /\ Live' = Live /\ Ending' = Ending
<1>1. tasks' \subseteq Tasks /\ OneTask'
  BY DEF OneTask
<1>2. Live' = Live
  BY DEF Live
<1>3. Ending' = Ending
  BY DEF Ending
<1> QED BY <1>1, <1>2, <1>3

\* Tasks are spawned for new work.
LEMMA SpawnFacts ==
  ASSUME tasks \subseteq Tasks, OneTask, NEW ws \in SUBSET Work, ws \cap (Live \cup Ending) = {},
         tasks' = tasks \cup {NewTask(w) : w \in ws}
  PROVE  tasks' \subseteq Tasks /\ OneTask' /\ Live' = Live \cup ws /\ Ending' = Ending
<1>1. \A w \in ws : NewTask(w) \in Tasks /\ NewTask(w).work = w /\ ~NewTask(w).cancelled
  BY DEF NewTask, Tasks
<1>2. \A t \in tasks : t.work \notin ws
  BY DEF Live, Ending, Tasks
<1>3. tasks' \subseteq Tasks
  BY <1>1
<1>4. OneTask'
  BY <1>1, <1>2 DEF OneTask
<1>5. Live' = Live \cup ws
  BY <1>1 DEF Live
<1>6. Ending' = Ending
  BY <1>1 DEF Ending
<1> QED BY <1>3, <1>4, <1>5, <1>6

\* A task ends.
LEMMA EndFacts ==
  ASSUME tasks \subseteq Tasks, OneTask, NEW t \in tasks, tasks' = tasks \ {t}
  PROVE  /\ tasks' \subseteq Tasks /\ OneTask'
         /\ t.cancelled => Live' = Live /\ Ending' = Ending \ {t.work} /\ t.work \in Ending
         /\ ~t.cancelled => Live' = Live \ {t.work} /\ Ending' = Ending /\ t.work \in Live
<1>1. tasks' \subseteq Tasks /\ OneTask'
  BY DEF OneTask
<1>2. t.cancelled => Live' = Live /\ Ending' = Ending \ {t.work} /\ t.work \in Ending
  BY DEF Live, Ending, OneTask
<1>3. ~t.cancelled => Live' = Live \ {t.work} /\ Ending' = Ending /\ t.work \in Live
  BY DEF Live, Ending, OneTask
<1> QED BY <1>1, <1>2, <1>3

\* A free id is one that no reference to work of that kind, peer and server has.
LEMMA FreshIdFacts ==
  ASSUME NEW kind, NEW p, NEW s, FreeIds(kind, p, s) # {}
  PROVE  /\ FreshId(kind, p, s) \in Ids
         /\ \A w \in work \cup Live \cup Ending \cup Results :
              w.kind = kind /\ w.peer = p /\ w.server = s => w.id # FreshId(kind, p, s)
<1>1. FreshId(kind, p, s) \in FreeIds(kind, p, s)
  BY DEF FreshId
<1>2. Live \cup Ending = {t.work : t \in tasks}
  BY DEF Live, Ending
<1> QED BY <1>1, <1>2 DEF FreeIds, Results

-----------------------------------------------------------------------------
(* The tables                                                                 *)

IsHandshake(w, p, s, v) == w.kind = "handshake" /\ w.peer = p /\ w.server = s /\ w.vni = v

\* TablesAgree, with servers and VNIs instead of pairs.
PairTables ==
  /\ \A s \in Relays, v \in Vnis, p \in Clients :
       bySdv[<<s, v>>] = p <=> \E w \in work : IsHandshake(w, p, s, v)
  /\ \A v, w \in work : v.kind = "handshake" /\ w.kind = "handshake" /\ v.peer = w.peer /\ v.server = w.server => v = w
  /\ \A s \in Relays, v \in Vnis : awaiting[<<s, v>>] # None =>
       \E w \in work : w.kind = "handshake" /\ w.peer = awaiting[<<s, v>>] /\ w.vni = v

\* The two forms say the same.
LEMMA PairForm == TablesAgree <=> PairTables
<1>1. ASSUME TablesAgree PROVE PairTables
  <2>1. ASSUME NEW s \in Relays, NEW v \in Vnis
        PROVE  /\ \A p \in Clients : bySdv[<<s, v>>] = p <=> \E w \in work : IsHandshake(w, p, s, v)
               /\ awaiting[<<s, v>>] # None =>
                    \E w \in work : w.kind = "handshake" /\ w.peer = awaiting[<<s, v>>] /\ w.vni = v
    <3> DEFINE k == <<s, v>>
    <3>1. k \in Relays \X Vnis /\ k[1] = s /\ k[2] = v
      OBVIOUS
    <3> HIDE DEF k
    <3>2. /\ \A p \in Clients : bySdv[k] = p <=> \E w \in work : IsHandshake(w, p, s, v)
          /\ awaiting[k] # None => \E w \in work : w.kind = "handshake" /\ w.peer = awaiting[k] /\ w.vni = v
      BY <1>1, <3>1 DEF TablesAgree, Handshake, Handshakes, IsHandshake
    <3> QED BY <3>2 DEF k
  <2>2. \A v, w \in work : v.kind = "handshake" /\ w.kind = "handshake" /\ v.peer = w.peer /\ v.server = w.server => v = w
    BY <1>1 DEF TablesAgree
  <2> QED BY <2>1, <2>2 DEF PairTables
<1>2. ASSUME PairTables PROVE TablesAgree
  <2>1. ASSUME NEW k \in Relays \X Vnis
        PROVE  /\ \A p \in Clients : bySdv[k] = p <=> \E w \in Handshake(p, k[1]) : w.vni = k[2]
               /\ awaiting[k] # None => \E w \in Handshakes(awaiting[k]) : w.vni = k[2]
    <3>1. PICK s \in Relays, v \in Vnis : k = <<s, v>>
      OBVIOUS
    <3>2. k[1] = s /\ k[2] = v
      BY <3>1
    <3> QED BY <1>2, <3>1, <3>2 DEF PairTables, Handshake, Handshakes, IsHandshake
  <2>2. \A v, w \in work : v.kind = "handshake" /\ w.kind = v.kind /\ v.peer = w.peer /\ v.server = w.server => v = w
    BY <1>2 DEF PairTables
  <2> QED BY <2>1, <2>2 DEF TablesAgree
<1> QED BY <1>1, <1>2

\* cancel_handshake, stop_work, stop_server_work and handle_handshake_work_done:
\* the work of ws leaves the three tables.
LEMMA TablesShrink ==
  ASSUME TypeOK, Shapes, TablesAgree, NEW ws \in SUBSET work, work' = work \ ws,
         \A s \in Relays, v \in Vnis :
           bySdv'[<<s, v>>] = IF \E w \in ws : w.kind = "handshake" /\ w.server = s /\ w.vni = v
                                THEN None ELSE bySdv[<<s, v>>],
         \A s \in Relays, v \in Vnis : awaiting'[<<s, v>>] \in {awaiting[<<s, v>>], None},
         \A s \in Relays, v \in Vnis, w \in ws :
           w.kind = "handshake" /\ awaiting[<<s, v>>] = w.peer /\ w.vni = v => awaiting'[<<s, v>>] = None
  PROVE  TablesAgree'
<1>1. PairTables
  BY PairForm
<1>2. \A w \in work : w.peer \in Clients /\ w.server \in Relays /\ w.peer # None
                      /\ (w.kind = "handshake" => w.vni \in Vnis)
  BY AllWork, WorkFields, RelayAssumption DEF Shapes
<1>3. \A s \in Relays, v \in Vnis, p \in Clients :
        bySdv'[<<s, v>>] = p <=> \E w \in work' : IsHandshake(w, p, s, v)
  <2> SUFFICES ASSUME NEW s \in Relays, NEW v \in Vnis, NEW p \in Clients
               PROVE  bySdv'[<<s, v>>] = p <=> \E w \in work' : IsHandshake(w, p, s, v)
    OBVIOUS
  <2>1. p # None
    BY RelayAssumption
  <2>2. CASE \E w \in ws : w.kind = "handshake" /\ w.server = s /\ w.vni = v
    <3>1. bySdv'[<<s, v>>] = None
      BY <2>2
    <3>2. PICK x \in ws : x.kind = "handshake" /\ x.server = s /\ x.vni = v
      BY <2>2
    <3>3. ASSUME NEW w \in work', IsHandshake(w, p, s, v) PROVE FALSE
      <4>1. bySdv[<<s, v>>] = p
        BY <1>1, <3>3 DEF PairTables
      <4>2. bySdv[<<s, v>>] = x.peer
        BY <1>1, <1>2, <3>2 DEF PairTables, IsHandshake
      <4>3. w = x
        BY <1>1, <3>2, <3>3, <4>1, <4>2 DEF PairTables, IsHandshake
      <4> QED BY <3>3, <4>3
    <3> QED BY <2>1, <3>1, <3>3
  <2>3. CASE ~ \E w \in ws : w.kind = "handshake" /\ w.server = s /\ w.vni = v
    <3>1. bySdv'[<<s, v>>] = bySdv[<<s, v>>]
      BY <2>3
    <3> QED BY <1>1, <2>3, <3>1 DEF PairTables, IsHandshake
  <2> QED BY <2>2, <2>3
<1>4. \A v, w \in work' : v.kind = "handshake" /\ w.kind = "handshake" /\ v.peer = w.peer /\ v.server = w.server => v = w
  BY <1>1 DEF PairTables
<1>5. \A s \in Relays, v \in Vnis : awaiting'[<<s, v>>] # None =>
        \E w \in work' : w.kind = "handshake" /\ w.peer = awaiting'[<<s, v>>] /\ w.vni = v
  <2> SUFFICES ASSUME NEW s \in Relays, NEW v \in Vnis, awaiting'[<<s, v>>] # None
               PROVE  \E w \in work' : w.kind = "handshake" /\ w.peer = awaiting'[<<s, v>>] /\ w.vni = v
    OBVIOUS
  <2>1. awaiting'[<<s, v>>] = awaiting[<<s, v>>]
    OBVIOUS
  <2>2. PICK w \in work : w.kind = "handshake" /\ w.peer = awaiting[<<s, v>>] /\ w.vni = v
    BY <1>1, <2>1 DEF PairTables
  <2>3. w \notin ws
    BY <2>1, <2>2
  <2> QED BY <2>1, <2>2, <2>3
<1>6. PairTables'
  BY <1>3, <1>4, <1>5 DEF PairTables
<1> QED BY <1>6, PairForm, PTL

\* Work that is no handshake is in none of the tables.
LEMMA TablesGrowAlloc ==
  ASSUME TablesAgree, NEW new, \A w \in new : w.kind # "handshake", work' = work \cup new, UNCHANGED <<bySdv, awaiting>>
  PROVE  TablesAgree'
<1>1. PairTables
  BY PairForm
<1>2. PairTables'
  BY <1>1 DEF PairTables, IsHandshake
<1> QED BY <1>2, PairForm, PTL

-----------------------------------------------------------------------------
(* The queue and the turns of the commit and the loop                         *)

\* The first event leaves the results.
LEMMA PopResults ==
  ASSUME TypeOK, OneResult, queue # <<>>, Pop
  PROVE  /\ OneResult'
         /\ queue[1].type = "done" => Results' = Results \ {queue[1].work} /\ queue[1].work \in Results
         /\ queue[1].type # "done" => Results' = Results
<1>1. /\ 1 \in DOMAIN queue
      /\ \A i \in DOMAIN queue' : i \in Nat /\ i + 1 \in DOMAIN queue /\ queue'[i] = queue[i + 1] /\ i + 1 # 1
      /\ \A i \in DOMAIN queue : i # 1 => i - 1 \in DOMAIN queue' /\ queue'[i - 1] = queue[i]
  BY PopFacts
<1>2. OneResult'
  <2> SUFFICES ASSUME NEW i \in DOMAIN queue', NEW j \in DOMAIN queue', queue'[i].type = "done",
                      queue'[j].type = "done", queue'[i].work = queue'[j].work
               PROVE  i = j
    BY DEF OneResult
  <2>1. i + 1 = j + 1 /\ i \in Nat /\ j \in Nat
    BY <1>1 DEF OneResult
  <2> QED BY <2>1
<1>3. ASSUME queue[1].type = "done" PROVE Results' = Results \ {queue[1].work} /\ queue[1].work \in Results
  <2>1. queue[1].work \in Results
    BY <1>1, <1>3 DEF Results
  <2>2. ASSUME NEW w \in Results' PROVE w \in Results /\ w # queue[1].work
    <3>1. PICK i \in DOMAIN queue' : queue'[i].type = "done" /\ w = queue'[i].work
      BY DEF Results
    <3>2. i + 1 \in DOMAIN queue /\ i + 1 # 1 /\ queue[i + 1].type = "done" /\ w = queue[i + 1].work
      BY <1>1, <3>1
    <3> QED BY <1>1, <1>3, <3>2 DEF Results, OneResult
  <2>3. ASSUME NEW w \in Results, w # queue[1].work PROVE w \in Results'
    <3>1. PICK i \in DOMAIN queue : queue[i].type = "done" /\ w = queue[i].work
      BY DEF Results
    <3>2. i - 1 \in DOMAIN queue' /\ queue'[i - 1] = queue[i]
      BY <1>1, <2>3, <3>1
    <3> QED BY <3>1, <3>2 DEF Results
  <2> QED BY <2>1, <2>2, <2>3
<1>4. ASSUME queue[1].type # "done" PROVE Results' = Results
  <2>2. ASSUME NEW w \in Results' PROVE w \in Results
    <3>1. PICK i \in DOMAIN queue' : queue'[i].type = "done" /\ w = queue'[i].work
      BY DEF Results
    <3> QED BY <1>1, <3>1 DEF Results
  <2>3. ASSUME NEW w \in Results PROVE w \in Results'
    <3>1. PICK i \in DOMAIN queue : queue[i].type = "done" /\ w = queue[i].work
      BY DEF Results
    <3>2. i - 1 \in DOMAIN queue' /\ queue'[i - 1] = queue[i]
      BY <1>1, <1>4, <3>1
    <3> QED BY <3>1, <3>2 DEF Results
  <2> QED BY <2>2, <2>3
<1> QED BY <1>2, <1>3, <1>4

\* A result of new work joins the results; no other event does.
LEMMA AppendResults ==
  ASSUME TypeOK, OneResult, NEW e \in Events, queue' = Append(queue, e), e.type = "done" => e.work \notin Results
  PROVE  OneResult' /\ Results' = IF e.type = "done" THEN Results \cup {e.work} ELSE Results
<1>1. /\ DOMAIN queue' = DOMAIN queue \cup {Len(queue) + 1} /\ Len(queue) + 1 \notin DOMAIN queue
      /\ queue'[Len(queue) + 1] = e /\ \A i \in DOMAIN queue : queue'[i] = queue[i]
  BY AppendFacts
<1>2. OneResult'
  BY <1>1 DEF OneResult, Results
<1>3. Results' = IF e.type = "done" THEN Results \cup {e.work} ELSE Results
  BY <1>1 DEF Results
<1> QED BY <1>2, <1>3

\* After a pop, what is asked for was asked for before; after the pop of a
\* question of the commit, nothing is.
LEMMA PopAsked ==
  ASSUME TypeOK, Turns, queue # <<>>, Pop
  PROVE  /\ \A type \in {"cancel", "servers", "complete"} :
              /\ Asked(type)' => Asked(type)
              /\ queue[1].type \in {"start", "done"} /\ Asked(type) => Asked(type)'
              /\ queue[1].type \in {"cancel", "servers", "complete"} => ~Asked(type)'
         /\ queue[1].type # "cancel" => Pending' = Pending
         /\ queue[1].type = "cancel" => Pending' = {} /\ Pending = {queue[1].peer}
<1>1. /\ 1 \in DOMAIN queue
      /\ \A i \in DOMAIN queue' : i \in Nat /\ i + 1 \in DOMAIN queue /\ queue'[i] = queue[i + 1] /\ i + 1 # 1
      /\ \A i \in DOMAIN queue : i # 1 => i - 1 \in DOMAIN queue' /\ queue'[i - 1] = queue[i]
  BY PopFacts
<1>2. ASSUME NEW type \in {"cancel", "servers", "complete"}
      PROVE  /\ Asked(type)' => Asked(type)
             /\ queue[1].type \in {"start", "done"} /\ Asked(type) => Asked(type)'
             /\ queue[1].type \in {"cancel", "servers", "complete"} => ~Asked(type)'
  <2>1. Asked(type)' => Asked(type)
    BY <1>1 DEF Asked
  <2>2. queue[1].type \in {"start", "done"} /\ Asked(type) => Asked(type)'
    BY <1>1 DEF Asked
  <2>3. queue[1].type \in {"cancel", "servers", "complete"} => ~Asked(type)'
    BY <1>1 DEF Asked, Turns
  <2> QED BY <2>1, <2>2, <2>3
<1>3. queue[1].type # "cancel" => Pending' = Pending
  <2> SUFFICES ASSUME queue[1].type # "cancel", NEW n \in Nodes
               PROVE  (\E i \in DOMAIN queue' : queue'[i].type = "cancel" /\ queue'[i].peer = n)
                      <=> \E i \in DOMAIN queue : queue[i].type = "cancel" /\ queue[i].peer = n
    BY DEF Pending
  <2> QED BY <1>1
<1>4. ASSUME queue[1].type = "cancel" PROVE Pending' = {} /\ Pending = {queue[1].peer}
  <2>1. \A i \in DOMAIN queue : queue[i].type = "cancel" => i = 1
    BY <1>1, <1>4 DEF Turns
  <2>2. queue[1].peer \in Nodes
    BY <1>1, <1>4, QueueIndex, EventFields
  <2> QED BY <1>1, <1>4, <2>1, <2>2 DEF Pending
<1> QED BY <1>2, <1>3, <1>4

\* The loop takes a result or a request to start work.
LEMMA PopTurns ==
  ASSUME TypeOK, Turns, queue # <<>>, Pop, queue[1].type \in {"start", "done"},
         UNCHANGED <<gen, gone, todo, cpc, target, commits>>,
         loop.at = "idle", loop'.at \in {"idle", "replace"}
  PROVE  Turns' /\ Purged' = Purged /\ (Asked("servers")' <=> Asked("servers"))
<1>1. /\ 1 \in DOMAIN queue
      /\ \A i \in DOMAIN queue' : i \in Nat /\ i + 1 \in DOMAIN queue /\ queue'[i] = queue[i + 1]
  BY PopFacts
<1>2. /\ \A type \in {"cancel", "servers", "complete"} : Asked(type)' <=> Asked(type)
      /\ Pending' = Pending
  BY PopAsked
<1>3. Purged' = Purged
  BY <1>2 DEF Purged
<1>4. \A i, j \in DOMAIN queue' :
        queue'[i].type \in {"cancel", "servers", "complete"} /\ queue'[j].type \in {"cancel", "servers", "complete"} => i = j
  <2> SUFFICES ASSUME NEW i \in DOMAIN queue', NEW j \in DOMAIN queue',
                      queue'[i].type \in {"cancel", "servers", "complete"}, queue'[j].type \in {"cancel", "servers", "complete"}
               PROVE  i = j
    OBVIOUS
  <2>1. i + 1 = j + 1 /\ i \in Nat /\ j \in Nat
    BY <1>1 DEF Turns
  <2> QED BY <2>1
<1>5. \A i, j \in DOMAIN queue' : queue'[i].type = "cancel" /\ queue'[j].type = "start" => j < i
  <2> SUFFICES ASSUME NEW i \in DOMAIN queue', NEW j \in DOMAIN queue', queue'[i].type = "cancel", queue'[j].type = "start"
               PROVE  j < i
    OBVIOUS
  <2>1. j + 1 < i + 1 /\ i \in Nat /\ j \in Nat
    BY <1>1 DEF Turns
  <2> QED BY <2>1
<1>6. \A i \in DOMAIN queue' : queue'[i].type = "start" => queue'[i].peer \notin Purged'
  BY <1>1, <1>3 DEF Turns
<1>7. \A i \in DOMAIN queue' : queue'[i].type = "cancel" => queue'[i].peer \in gone \ todo
  BY <1>1 DEF Turns
<1>8. /\ Asked("cancel")' \/ loop'.at = "cancel" => cpc' = "cancel"
      /\ Asked("servers")' \/ Asked("complete")' \/ loop'.at = "servers" => cpc' = "servers"
      /\ loop'.at \in {"cancel", "servers"} => ~Asked("cancel")' /\ ~Asked("servers")' /\ ~Asked("complete")'
  BY <1>2 DEF Turns
<1> QED BY <1>2, <1>3, <1>4, <1>5, <1>6, <1>7, <1>8 DEF Turns

\* The loop moves on and nothing else of the turns does.
LEMMA SameTurns ==
  ASSUME TypeOK, Turns, UNCHANGED <<gen, gone, todo, cpc, target, commits, queue>>,
         loop'.at = loop.at \/ loop'.at \in {"idle", "replace", "spawn"}
  PROVE  Turns' /\ Purged' = Purged /\ Results' = Results /\ \A type : Asked(type)' <=> Asked(type)
<1>1. Purged' = Purged /\ Results' = Results /\ (\A type : Asked(type)' <=> Asked(type))
  BY DEF Purged, Pending, Results, Asked
<1> QED BY <1>1 DEF Turns

\* A task sends its result.
LEMMA ResultTurns ==
  ASSUME TypeOK, Turns, NEW e \in Events, e.type = "done", queue' = Append(queue, e),
         UNCHANGED <<gen, gone, todo, cpc, target, commits, loop>>
  PROVE  Turns' /\ Purged' = Purged /\ \A type \in {"cancel", "servers", "complete"} : Asked(type)' <=> Asked(type)
<1>1. /\ DOMAIN queue' = DOMAIN queue \cup {Len(queue) + 1} /\ Len(queue) + 1 \notin DOMAIN queue
      /\ queue'[Len(queue) + 1] = e
      /\ \A i \in DOMAIN queue : i \in Nat /\ i < Len(queue) + 1 /\ queue'[i] = queue[i]
  BY AppendFacts
<1>2. \A type \in {"cancel", "servers", "complete"} : Asked(type)' <=> Asked(type)
  BY <1>1 DEF Asked
<1>3. Pending' = Pending
  BY <1>1 DEF Pending
<1>4. Purged' = Purged
  BY <1>3 DEF Purged
<1> QED BY <1>1, <1>2, <1>4 DEF Turns

-----------------------------------------------------------------------------
(* The steps of the loop                                                      *)

\* An event is there to be taken.
LEMMA EventFacts ==
  ASSUME TypeOK, NEW type, Event(type)
  PROVE  queue # <<>> /\ 1 \in DOMAIN queue /\ queue[1] \in Events /\ queue[1].type = type /\ loop.at = "idle"
<1>1. loop.at = "idle" /\ queue # <<>> /\ queue[1].type = type /\ queue \in Seq(Events)
  BY DEF Event, TypeOK
<1>2. Len(queue) \in Nat \ {0} /\ DOMAIN queue = 1..Len(queue)
  BY <1>1
<1> QED BY <1>1, <1>2

\* A result the loop takes for an allocation is that allocation's own.
LEMMA OwnResult ==
  ASSUME IInv, NEW x \in Results, x.kind = "alloc", NEW w \in work,
         w.kind = "alloc", w.peer = x.peer, w.server = x.server, w.sgen = x.sgen, w.pgen = x.pgen
  PROVE  w = x
<1> USE DEF IInv
<1>1. CASE x \in work
  BY <1>1 DEF Works
<1>2. CASE x \notin work
  BY <1>2 DEF Works, Late, Cur
<1> QED BY <1>1, <1>2

\* Results stay acceptable when they become fewer, and the work does only by
\* results that are taken.
LEMMA LateKept ==
  ASSUME TypeOK, Late, UNCHANGED <<gen, servers, cpc>>, Purged' = Purged, Asked("servers")' <=> Asked("servers"),
         Results' \subseteq Results,
         \A w \in Results' : w.kind = "alloc" /\ w \in work => w \in work',
         queue' = queue \/ (queue # <<>> /\ Pop)
  PROVE  Late'
<1>1. \A w \in Work : Cur(w)' <=> Cur(w)
  BY DEF Cur
<1>2. \A w \in Results : w \in Work
  BY AllWork
<1>3. cpc' # "servers" => \A w \in Results' : Cur(w)'
  BY <1>1, <1>2 DEF Late
<1>4. \A w \in Results' \ work' : w.kind = "alloc" =>
        IF cpc' # "servers" THEN w.peer \in Purged'
        ELSE w.pgen # gen'[w.peer] \/ (~Asked("servers")' /\ w.sgen # servers'[w.server])
  BY DEF Late
<1>5. \A i, j \in DOMAIN queue' :
        queue'[i].type = "complete" /\ queue'[j].type = "done" /\ i < j => Cur(queue[j].work)'
  <2> SUFFICES ASSUME NEW i \in DOMAIN queue', NEW j \in DOMAIN queue',
                      queue'[i].type = "complete", queue'[j].type = "done", i < j
               PROVE  Cur(queue[j].work)'
    OBVIOUS
  <2>1. CASE queue' = queue
    BY <2>1 DEF Late, Cur
  <2>2. CASE queue # <<>> /\ Pop
    <3>1. /\ i \in Nat /\ j \in Nat /\ i + 1 \in DOMAIN queue /\ j + 1 \in DOMAIN queue
          /\ queue'[i] = queue[i + 1] /\ queue'[j] = queue[j + 1]
      BY <2>2, PopFacts
    <3>2. Cur(queue[j + 1].work)
      BY <3>1 DEF Late
    <3> QED BY <3>1, <3>2 DEF Cur
  <2> QED BY <2>1, <2>2
<1> QED BY <1>3, <1>4, <1>5 DEF Late

\* The loop starts the discovery of a peer, or skips it.
LEMMA StartDiscoveryKeeps ==
  ASSUME IInv, StartDiscovery
  PROVE  IInv'
<1> USE DEF IInv
<1> DEFINE e == queue[1]
           chosen == {s \in Relays : servers[s] # 0}
           rec(s) == [kind |-> "alloc", peer |-> e.peer, server |-> s, pgen |-> e.pgen, sgen |-> servers[s],
                      id |-> FreshId("alloc", e.peer, s), vni |-> 0, lamport |-> 0]
           new == {rec(s) : s \in chosen}
<1>1. /\ queue # <<>> /\ 1 \in DOMAIN queue /\ e \in Events /\ e.type = "start" /\ loop.at = "idle" /\ Pop
      /\ UNCHANGED <<relay, servers, bySdv, awaiting, loop, commit>>
  BY EventFacts DEF StartDiscovery
<1>2. e.peer \in Clients /\ e.peer \in Nodes /\ e.pgen \in Generations /\ e.peer \notin Purged
  BY <1>1, EventFields, RelayAssumption DEF Turns
<1>3. UNCHANGED <<gen, gone, known, cpc, target, offered, todo, commits>>
  BY <1>1 DEF commit
<1>4. Turns' /\ Purged' = Purged /\ (Asked("servers")' <=> Asked("servers"))
  BY <1>1, <1>3, PopTurns
<1>5. OneResult' /\ Results' = Results /\ queue' \in Seq(Events)
  BY <1>1, PopResults, PopFacts DEF Refs
<1>6. \A w \in Work : Cur(w)' <=> Cur(w)
  BY <1>1, <1>3 DEF Cur
<1>7. Routes'
  BY <1>1, <1>3, <1>4 DEF Routes
<1>8. /\ \A s \in chosen : FreeIds("alloc", e.peer, s) # {}
      /\ \/ Authorized(e.peer, e.pgen) /\ ~HasActiveWork(e.peer) /\ work' = work \cup new
            /\ tasks' = tasks \cup {NewTask(w) : w \in new}
         \/ UNCHANGED <<work, tasks>>
  BY DEF StartDiscovery
<1> HIDE DEF e, new
<1>9. CASE UNCHANGED <<work, tasks>>
  <2>1. Live' = Live /\ Ending' = Ending /\ OneTask'
    BY <1>9 DEF Live, Ending, OneTask, Refs
  <2>2. TypeOK'
    BY <1>1, <1>3, <1>5, <1>9 DEF TypeOK
  <2>3. Shapes' /\ Refs'
    BY <1>5, <1>9, <2>1 DEF Shapes, Refs
  <2>4. Works' /\ Joining'
    BY <1>1, <1>3, <1>4, <1>9, <2>1 DEF Works, Joining, Cur
  <2>5. Late'
    BY <1>1, <1>3, <1>4, <1>5, <1>9, LateKept
  <2>6. Tables'
    BY <1>1, <1>9 DEF Tables, TablesAgree, Handshake, Handshakes
  <2> QED BY <1>4, <1>7, <2>2, <2>3, <2>4, <2>5, <2>6
<1>10. CASE /\ Authorized(e.peer, e.pgen) /\ ~HasActiveWork(e.peer)
            /\ work' = work \cup new /\ tasks' = tasks \cup {NewTask(w) : w \in new}
  <2>1. \A s \in chosen : /\ FreshId("alloc", e.peer, s) \in Ids
                          /\ \A w \in work \cup Live \cup Ending \cup Results :
                               w.kind = "alloc" /\ w.peer = e.peer /\ w.server = s => w.id # FreshId("alloc", e.peer, s)
    BY <1>8, FreshIdFacts
  <2>2. ASSUME NEW s \in chosen
        PROVE  /\ rec(s) \in Work /\ rec(s).kind = "alloc" /\ rec(s).peer = e.peer /\ rec(s).server = s
               /\ rec(s).pgen = e.pgen /\ rec(s).sgen = servers[s] /\ rec(s).vni = 0 /\ rec(s).lamport = 0
               /\ rec(s).id = FreshId("alloc", e.peer, s)
    <3>1. s \in Relays /\ servers[s] \in Generations
      BY DEF TypeOK
    <3> QED BY <1>2, <2>1, <3>1 DEF Work
  <2> HIDE DEF rec
  <2>3. new = {rec(s) : s \in chosen}
    BY DEF new
  <2>4. \A w \in new : /\ w \in Work /\ w.kind = "alloc" /\ w.peer = e.peer /\ w.server \in chosen
                       /\ w.pgen = e.pgen /\ w.sgen = servers[w.server] /\ w.vni = 0 /\ w.lamport = 0
                       /\ w = rec(w.server) /\ w.id = FreshId("alloc", e.peer, w.server)
    BY <2>2, <2>3
  <2>5. new \cap (work \cup Live \cup Ending \cup Results) = {} /\ new \in SUBSET Work
    BY <2>1, <2>4
  <2>6. tasks' \subseteq Tasks /\ OneTask' /\ Live' = Live \cup new /\ Ending' = Ending
    <3>1. new \in SUBSET Work /\ new \cap (Live \cup Ending) = {}
      BY <2>5
    <3> QED BY <3>1, <1>10, SpawnFacts DEF TypeOK, Refs
  <2>7. TypeOK'
    BY <1>1, <1>3, <1>5, <1>10, <2>5, <2>6 DEF TypeOK
  <2>8. Shapes'
    <3>1. e.pgen # 0 /\ \A w \in new : w.sgen # 0
      BY <1>10, <2>4 DEF Authorized
    <3> QED BY <1>5, <1>10, <2>4, <2>6, <3>1 DEF Shapes
  <2>9. Refs'
    BY <1>5, <1>10, <2>5, <2>6 DEF Refs
  <2>10. Works'
    <3>1. \A w \in work : w.peer # e.peer /\ w \in Work
      BY <1>10, AllWork DEF HasActiveWork
    <3>2. \A w \in new : Cur(w)
      BY <1>10, <2>4 DEF Cur, Authorized
    <3>3. \A v, w \in new : v.server = w.server => v = w
      BY <2>4
    <3>4. \A v \in work, w \in new : v.peer # w.peer
      BY <2>4, <3>1
    <3>5. \A w \in work' : Cur(w)' /\ w.peer \notin Purged'
      BY <1>2, <1>4, <1>6, <1>10, <2>4, <3>1, <3>2 DEF Works
    <3>6. \A v, w \in work' : v.kind = "alloc" /\ w.kind = "alloc" /\ v.peer = w.peer /\ v.server = w.server => v = w
      BY <1>10, <3>3, <3>4 DEF Works
    <3> QED BY <3>5, <3>6 DEF Works
  <2>11. Joining'
    BY <1>1, <2>6 DEF Joining
  <2>12. Late'
    BY <1>1, <1>3, <1>4, <1>5, <1>10, LateKept
  <2>13. Tables'
    <3>1. TablesAgree'
      BY <1>1, <1>10, <2>4, TablesGrowAlloc DEF Tables
    <3> QED BY <1>1, <3>1 DEF Tables
  <2> QED BY <1>4, <1>7, <2>7, <2>8, <2>9, <2>10, <2>11, <2>12, <2>13
<1> QED BY <1>8, <1>9, <1>10

\* The work of ws is cancelled and the tables forget it.
LEMMA CancelFacts ==
  ASSUME TypeOK, Shapes, Refs, TablesAgree, NEW ws \in SUBSET work, Cancel(ws),
         Forget(ws) \/ \E p \in Nodes : ForgetPeer(p) /\ \A w \in ws : w.peer = p
  PROVE  /\ TablesAgree' /\ work' = work \ ws
         /\ bySdv' \in [Relays \X Vnis -> Clients \cup {None}] /\ awaiting' \in [Relays \X Vnis -> Clients \cup {None}]
         /\ tasks' \subseteq Tasks /\ OneTask' /\ Live' = Live \ ws /\ Ending' = Ending \cup (Live \cap ws)
         /\ \A s \in Relays, v \in Vnis : bySdv[<<s, v>>] = None => bySdv'[<<s, v>>] = None
<1> DEFINE gets(s, v) == \E w \in ws : w.kind = "handshake" /\ w.server = s /\ w.vni = v
<1>1. tasks' \subseteq Tasks /\ OneTask' /\ Live' = Live \ ws /\ Ending' = Ending \cup (Live \cap ws)
  BY SignalFacts DEF Cancel, TypeOK, Refs
<1>2. bySdv' \in [Relays \X Vnis -> Clients \cup {None}]
  BY DEF Cancel, TypeOK
<1>3. awaiting' \in [Relays \X Vnis -> Clients \cup {None}]
  BY DEF Forget, ForgetPeer, TypeOK
<1>4. \A s \in Relays, v \in Vnis :
        bySdv'[<<s, v>>] = IF \E w \in ws : w.kind = "handshake" /\ w.server = s /\ w.vni = v
                             THEN None ELSE bySdv[<<s, v>>]
  <2> SUFFICES ASSUME NEW s \in Relays, NEW v \in Vnis
               PROVE  bySdv'[<<s, v>>] = IF \E w \in ws : w.kind = "handshake" /\ w.server = s /\ w.vni = v
                                           THEN None ELSE bySdv[<<s, v>>]
    OBVIOUS
  <2>1. <<s, v>> \in DOMAIN bySdv
    BY DEF TypeOK
  <2>2. \A w \in ws : <<s, v>> = <<w.server, w.vni>> <=> w.server = s /\ w.vni = v
    OBVIOUS
  <2> QED BY <2>1, <2>2 DEF Cancel
<1>5. \A s \in Relays, v \in Vnis : awaiting'[<<s, v>>] \in {awaiting[<<s, v>>], None}
  BY DEF Forget, ForgetPeer, TypeOK
<1>6. ASSUME NEW s \in Relays, NEW v \in Vnis, NEW w \in ws, w.kind = "handshake", awaiting[<<s, v>>] = w.peer, w.vni = v
      PROVE  awaiting'[<<s, v>>] = None
  <2>1. <<s, v>> \in DOMAIN awaiting /\ <<s, v>>[2] = v
    BY DEF TypeOK
  <2> QED BY <1>6, <2>1 DEF Forget, ForgetPeer
<1>7. work' = work \ ws
  BY DEF Cancel
<1>8. TablesAgree'
  BY <1>4, <1>5, <1>6, <1>7, TablesShrink
<1> QED BY <1>1, <1>2, <1>3, <1>4, <1>7, <1>8

\* stop_work for a peer that leaves.
LEMMA CancelWorkKeeps ==
  ASSUME IInv, CancelWork
  PROVE  IInv'
<1> USE DEF IInv
<1> DEFINE p == queue[1].peer
           ws == {w \in work : w.peer = p}
<1>1. /\ queue # <<>> /\ 1 \in DOMAIN queue /\ queue[1] \in Events /\ queue[1].type = "cancel" /\ loop.at = "idle" /\ Pop
      /\ UNCHANGED <<relay, servers, gen, gone, known, cpc, target, offered, todo, commits>>
      /\ loop' = [at |-> "cancel"] /\ Cancel(ws) /\ ForgetPeer(p)
  BY EventFacts DEF CancelWork, commit
<1>2. p \in Nodes /\ p \in gone \ todo /\ cpc = "cancel"
  BY <1>1, EventFields DEF Turns, Asked
<1> HIDE DEF p
<1>3. /\ TablesAgree' /\ work' = work \ ws
      /\ bySdv' \in [Relays \X Vnis -> Clients \cup {None}] /\ awaiting' \in [Relays \X Vnis -> Clients \cup {None}]
      /\ tasks' \subseteq Tasks /\ OneTask' /\ Live' = Live \ ws /\ Ending' = Ending \cup (Live \cap ws)
  BY <1>1, <1>2, CancelFacts DEF Tables
<1>4. OneResult' /\ Results' = Results
  BY <1>1, PopResults DEF Refs
<1>5. /\ Pending' = {} /\ Pending = {p}
      /\ ~Asked("cancel")' /\ ~Asked("servers")' /\ ~Asked("complete")'
  BY <1>1, PopAsked DEF p
<1>6. Purged' = Purged \cup {p}
  BY <1>1, <1>2, <1>5 DEF Purged
<1>7. /\ queue' \in Seq(Events)
      /\ \A i \in DOMAIN queue' : i \in Nat /\ i + 1 \in DOMAIN queue /\ queue'[i] = queue[i + 1] /\ ~(i + 1 < 1)
  BY <1>1, PopFacts
<1>8. TypeOK'
  <2>1. loop' \in Loops
    BY <1>1 DEF Loops
  <2> QED BY <1>1, <1>3, <1>7, <2>1 DEF TypeOK
<1>9. \A i \in DOMAIN queue' : queue'[i].type \notin {"start", "cancel", "servers", "complete"}
  <2>1. \A i \in DOMAIN queue' : queue'[i].type # "start"
    BY <1>1, <1>7 DEF Turns
  <2> QED BY <2>1, <1>5 DEF Asked
<1>10. Turns'
  BY <1>1, <1>2, <1>5, <1>9 DEF Turns
<1>11. Shapes' /\ Refs'
  BY <1>3, <1>4 DEF Shapes, Refs
<1>12. Works'
  BY <1>1, <1>3, <1>6 DEF Works, Cur
<1>13. Joining'
  <2>1. Ending' \subseteq ws
    BY <1>1, <1>3 DEF Joining
  <2> QED BY <1>1, <1>6, <2>1 DEF Joining, Works, Cur
<1>14. Late'
  <2>1. \A w \in Results' : Cur(w)'
    BY <1>1, <1>2, <1>4 DEF Late, Cur
  <2> QED BY <1>1, <1>2, <1>3, <1>4, <1>6, <1>9, <2>1 DEF Late
<1>15. Routes'
  <2>1. ~Asked("servers")
    BY <1>2 DEF Turns
  <2> QED BY <1>1, <2>1 DEF Routes
<1>16. Tables'
  BY <1>1, <1>3 DEF Tables
<1> QED BY <1>8, <1>10, <1>11, <1>12, <1>13, <1>14, <1>15, <1>16

\* No task with a cancel signal is left.
LEMMA JoinedFacts == ASSUME Joined PROVE Ending = {}
  BY DEF Joined, Ending

\* The commit hears that the work of a peer has ended.
LEMMA CancelDoneKeeps ==
  ASSUME IInv, CancelDone
  PROVE  IInv'
<1> USE DEF IInv
<1>1. /\ loop.at = "cancel" /\ Ending = {} /\ loop' = Idle /\ loop'.at = "idle" /\ cpc' = "purge" /\ cpc = "cancel"
      /\ UNCHANGED <<relay, servers, work, bySdv, awaiting, tasks, queue, gen, gone, known, target, offered, todo, commits>>
  BY JoinedFacts DEF CancelDone, Idle, Turns
<1>2. Purged' = Purged /\ Results' = Results /\ Live' = Live /\ Ending' = Ending /\ (\A type : Asked(type)' <=> Asked(type))
  BY <1>1 DEF Purged, Pending, Results, Live, Ending, Asked
<1>3. TypeOK'
  <2>1. loop' \in Loops
    BY <1>1 DEF Loops, Idle
  <2> QED BY <1>1, <2>1 DEF TypeOK
<1>4. Turns'
  BY <1>1, <1>2 DEF Turns
<1>5. Shapes' /\ Refs'
  BY <1>1, <1>2 DEF Shapes, Refs, OneTask, OneResult
<1>6. Works' /\ Joining'
  BY <1>1, <1>2 DEF Works, Joining, Cur
<1>7. Late'
  BY <1>1, <1>2 DEF Late, Cur
<1>8. Routes'
  BY <1>1, <1>2 DEF Routes
<1>9. Tables'
  BY <1>1 DEF Tables, TablesAgree, Handshake, Handshakes
<1> QED BY <1>3, <1>4, <1>5, <1>6, <1>7, <1>8, <1>9

\* handle_servers_update, up to its joins.
LEMMA ServersUpdateKeeps ==
  ASSUME IInv, ServersUpdate
  PROVE  IInv'
<1> USE DEF IInv
<1> DEFINE new == [s \in Relays |-> IF Current(s, queue[1].servers[s]) THEN queue[1].servers[s] ELSE 0]
           removed == {s \in Relays : servers[s] # 0 /\ new[s] # servers[s]}
           stopped == ServerWork(removed)
<1>1. /\ queue # <<>> /\ 1 \in DOMAIN queue /\ queue[1] \in Events /\ queue[1].type = "servers" /\ loop.at = "idle" /\ Pop
      /\ UNCHANGED <<gen, gone, cpc, target, offered, todo, commits>>
      /\ loop' = [at |-> "servers"] /\ servers' = new /\ Cancel(stopped) /\ Forget(stopped)
      /\ relay' = [p \in Clients |->
                     IF relay[p] # None /\ relay[p].server \in removed /\ relay[p].sgen = servers[relay[p].server]
                       THEN None ELSE relay[p]]
      /\ known' \subseteq known
  BY EventFacts DEF ServersUpdate
<1>2. cpc = "servers" /\ gone = {} /\ Purged = {}
  BY <1>1 DEF Turns, Asked, Purged
<1>3. /\ queue[1].servers \in [Relays -> Generations] /\ 0 \in Generations
      /\ new \in [Relays -> Generations]
      /\ \A s \in Relays : new[s] # 0 => gen[s] = new[s]
  <2>1. queue[1].servers \in [Relays -> Generations]
    BY <1>1, EventFields
  <2>2. 0 \in Generations
    BY RelayAssumption DEF Generations
  <2> QED BY <2>1, <2>2 DEF Current, Authorized
<1> HIDE DEF new
<1>4. stopped = {w \in work : w.server \in removed} /\ stopped \in SUBSET work
  BY DEF ServerWork, Works, Cur
<1> HIDE DEF stopped
<1>5. /\ TablesAgree' /\ work' = work \ stopped
      /\ bySdv' \in [Relays \X Vnis -> Clients \cup {None}] /\ awaiting' \in [Relays \X Vnis -> Clients \cup {None}]
      /\ tasks' \subseteq Tasks /\ OneTask' /\ Live' = Live \ stopped /\ Ending' = Ending \cup (Live \cap stopped)
  BY <1>1, <1>4, CancelFacts DEF Tables
<1>6. OneResult' /\ Results' = Results
  BY <1>1, PopResults DEF Refs
<1>7. Pending' = Pending /\ ~Asked("cancel")' /\ ~Asked("servers")' /\ ~Asked("complete")'
  BY <1>1, PopAsked
<1>8. /\ queue' \in Seq(Events)
      /\ \A i \in DOMAIN queue' : i + 1 \in DOMAIN queue /\ queue'[i] = queue[i + 1]
  BY <1>1, PopFacts
<1>9. Purged' = {}
  BY <1>1, <1>2 DEF Purged
<1>10. TypeOK'
  <2>1. loop' \in Loops
    BY <1>1 DEF Loops
  <2>2. relay' \in [Clients -> Paths \cup {None}]
    BY <1>1 DEF TypeOK
  <2>3. work' \subseteq Work /\ known' \subseteq Nodes
    BY <1>1, <1>5 DEF TypeOK
  <2> QED BY <1>1, <1>3, <1>5, <1>8, <2>1, <2>2, <2>3 DEF TypeOK
<1>11. \A i \in DOMAIN queue' : queue'[i].type \notin {"cancel", "servers", "complete"}
  BY <1>7 DEF Asked
<1>12. Turns'
  BY <1>1, <1>2, <1>7, <1>8, <1>9, <1>11 DEF Turns
<1>13. Shapes' /\ Refs'
  BY <1>5, <1>6 DEF Shapes, Refs
<1>14. \A w \in work : w \in Work /\ w.server \in Relays /\ w.sgen = servers[w.server] /\ w.sgen # 0
  BY AllWork, WorkFields DEF Works, Shapes, Cur
<1>15. Works'
  <2>1. \A w \in work' : servers'[w.server] = w.sgen
    BY <1>1, <1>4, <1>5, <1>14
  <2> QED BY <1>1, <1>5, <1>9, <2>1 DEF Works, Cur
<1>16. Joining'
  <2>1. Ending' \subseteq stopped
    BY <1>1, <1>5 DEF Joining
  <2>2. \A w \in stopped : w.sgen # servers'[w.server]
    BY <1>1, <1>4, <1>14
  <2> QED BY <1>1, <2>1, <2>2 DEF Joining
<1>17. Late'
  <2>1. Asked("servers")
    BY <1>1 DEF Asked
  <2>2. \A w \in stopped : w.sgen # servers'[w.server]
    BY <1>1, <1>4, <1>14
  <2> QED BY <1>1, <1>2, <1>5, <1>6, <1>7, <1>11, <2>1, <2>2 DEF Late
<1>18. Routes'
  <2>1. ASSUME NEW p \in Clients, relay'[p] # None
        PROVE  /\ gen'[p] # 0 /\ p \notin gone'
               /\ relay'[p].sgen # 0 /\ relay'[p].sgen = servers'[relay'[p].server]
    <3>1. relay'[p] = relay[p] /\ relay[p].server \notin removed
      BY <1>1, <2>1 DEF Routes
    <3>2. relay[p] \in Paths /\ relay[p].server \in Relays
      BY <2>1, <3>1 DEF TypeOK, Paths
    <3> QED BY <1>1, <2>1, <3>1, <3>2 DEF Routes
  <2> QED BY <1>1, <1>3, <2>1 DEF Routes
<1>19. Tables'
  BY <1>1, <1>5 DEF Tables
<1> QED BY <1>10, <1>12, <1>13, <1>15, <1>16, <1>17, <1>18, <1>19

\* handle_servers_update has joined its tasks; the acknowledgement goes to the
\* end of the queue.
LEMMA ServersJoinedKeeps ==
  ASSUME IInv, ServersJoined
  PROVE  IInv'
<1> USE DEF IInv
<1> DEFINE e == [type |-> "complete"]
<1>1. /\ loop.at = "servers" /\ Ending = {} /\ loop' = Idle /\ loop'.at = "idle" /\ cpc = "servers"
      /\ queue' = Append(queue, e)
      /\ UNCHANGED <<relay, servers, work, bySdv, awaiting, tasks, gen, gone, known, cpc, target, offered, todo, commits>>
  BY JoinedFacts DEF ServersJoined, Idle, Turns, commit
<1>2. e \in Events /\ e.type = "complete"
  BY DEF Events
<1> HIDE DEF e
<1>3. /\ queue' \in Seq(Events) /\ DOMAIN queue' = DOMAIN queue \cup {Len(queue) + 1}
      /\ Len(queue) + 1 \notin DOMAIN queue /\ queue'[Len(queue) + 1] = e
      /\ \A i \in DOMAIN queue : i \in Nat /\ i < Len(queue) + 1 /\ queue'[i] = queue[i]
  BY <1>1, <1>2, AppendFacts
<1>4. OneResult' /\ Results' = Results
  BY <1>1, <1>2, AppendResults DEF Refs
<1>5. /\ ~Asked("cancel") /\ ~Asked("servers") /\ ~Asked("complete")
      /\ ~Asked("cancel")' /\ ~Asked("servers")' /\ gone = {}
  BY <1>1, <1>2, <1>3 DEF Turns, Asked
<1>6. Purged' = {} /\ Purged = {} /\ Live' = Live /\ Ending' = Ending
  BY <1>1, <1>5 DEF Purged, Live, Ending
<1>7. TypeOK'
  <2>1. loop' \in Loops
    BY <1>1 DEF Loops, Idle
  <2> QED BY <1>1, <1>3, <2>1 DEF TypeOK
<1>8. \A i \in DOMAIN queue : queue[i].type \notin {"cancel", "servers", "complete"}
  BY <1>5 DEF Asked
<1>9. Turns'
  BY <1>1, <1>2, <1>3, <1>5, <1>6, <1>8 DEF Turns
<1>10. Shapes' /\ Refs'
  BY <1>1, <1>4, <1>6 DEF Shapes, Refs, OneTask
<1>11. Works' /\ Joining'
  BY <1>1, <1>6 DEF Works, Joining, Cur
<1>12. Late'
  <2>1. \A i, j \in DOMAIN queue' : ~(queue'[i].type = "complete" /\ queue'[j].type = "done" /\ i < j)
    <3>1. Len(queue) \in Nat /\ \A i \in DOMAIN queue' : i \in Nat /\ i <= Len(queue) + 1
      BY <1>3, QueueIndex
    <3>2. \A i \in DOMAIN queue' : queue'[i].type = "complete" => i = Len(queue) + 1
      BY <1>3, <1>8
    <3> QED BY <3>1, <3>2
  <2> QED BY <1>1, <1>4, <1>5, <2>1 DEF Late
<1>13. Routes'
  BY <1>1, <1>5 DEF Routes
<1>14. Tables'
  BY <1>1 DEF Tables, TablesAgree, Handshake, Handshakes
<1> QED BY <1>7, <1>9, <1>10, <1>11, <1>12, <1>13, <1>14

\* ServersUpdateComplete: every result that was queued before has been taken.
LEMMA ServersUpdateCompleteKeeps ==
  ASSUME IInv, ServersUpdateComplete
  PROVE  IInv'
<1> USE DEF IInv
<1>1. /\ queue # <<>> /\ 1 \in DOMAIN queue /\ queue[1] \in Events /\ queue[1].type = "complete" /\ loop.at = "idle" /\ Pop
      /\ cpc' = "start" /\ todo' = target \cap Clients
      /\ UNCHANGED <<relay, servers, work, bySdv, awaiting, tasks, loop, gen, gone, known, target, offered, commits>>
  BY EventFacts DEF ServersUpdateComplete, Acknowledge, manager
<1>2. cpc = "servers" /\ gone = {}
  BY <1>1 DEF Turns, Asked
<1>3. OneResult' /\ Results' = Results
  BY <1>1, PopResults DEF Refs
<1>4. /\ ~Asked("cancel")' /\ ~Asked("servers")' /\ ~Asked("complete")' /\ ~Asked("servers")
  <2>1. ~Asked("servers")
    BY <1>1 DEF Turns, Asked
  <2> QED BY <1>1, <2>1, PopAsked
<1>5. /\ queue' \in Seq(Events)
      /\ \A i \in DOMAIN queue' : i \in Nat /\ i + 1 \in DOMAIN queue /\ queue'[i] = queue[i + 1]
      /\ \A i \in DOMAIN queue : i # 1 => i - 1 \in DOMAIN queue' /\ queue'[i - 1] = queue[i]
  BY <1>1, PopFacts
<1>6. Purged' = {} /\ Purged = {} /\ Live' = Live /\ Ending' = Ending
  BY <1>1, <1>2 DEF Purged, Live, Ending
<1>7. TypeOK'
  BY <1>1, <1>2, <1>5 DEF TypeOK
<1>8. \A i \in DOMAIN queue' : queue'[i].type \notin {"cancel", "servers", "complete"}
  BY <1>4 DEF Asked
<1>9. Turns'
  BY <1>1, <1>2, <1>4, <1>6, <1>8 DEF Turns
<1>10. Shapes' /\ Refs'
  BY <1>1, <1>3, <1>6 DEF Shapes, Refs, OneTask
<1>11. Works' /\ Joining'
  BY <1>1, <1>6 DEF Works, Joining, Cur
<1>12. \A w \in Results : Cur(w)
  <2> SUFFICES ASSUME NEW w \in Results PROVE Cur(w)
    OBVIOUS
  <2>1. PICK i \in DOMAIN queue : queue[i].type = "done" /\ w = queue[i].work
    BY DEF Results
  <2>2. 1 < i
    BY <1>1, <2>1, QueueIndex
  <2> QED BY <1>1, <2>1, <2>2 DEF Late
<1>13. Late'
  <2>1. \A w \in Results \ work : w.kind # "alloc"
    BY <1>2, <1>12 DEF Late, Cur
  <2> QED BY <1>1, <1>3, <1>8, <1>12, <2>1 DEF Late, Cur
<1>14. Routes'
  BY <1>1, <1>4 DEF Routes
<1>15. Tables'
  BY <1>1 DEF Tables, TablesAgree, Handshake, Handshakes
<1> QED BY <1>7, <1>9, <1>10, <1>11, <1>13, <1>14, <1>15

\* A result that the loop takes, or none, and the work it may take with it.
Taken(mine) ==
  \/ queue' = queue /\ mine = {}
  \/ queue # <<>> /\ Pop /\ queue[1].type = "done" /\ mine \subseteq {queue[1].work} /\ queue[1].work \notin work \ mine

\* What a taken result leaves of the queue.
LEMMA TakenFacts ==
  ASSUME IInv, loop.at = "idle", loop'.at \in {"idle", "replace"}, NEW mine \in SUBSET work, Taken(mine),
         UNCHANGED <<gen, gone, todo, cpc, target, commits>>
  PROVE  /\ Turns' /\ Purged' = Purged /\ (Asked("servers")' <=> Asked("servers"))
         /\ queue' \in Seq(Events) /\ OneResult' /\ Results' \subseteq Results
         /\ mine \cap Results' = {} /\ mine \cap Live = {} /\ \A w \in work \ mine : w \in Results => w \in Results'
<1> USE DEF IInv
<1>1. CASE queue' = queue /\ mine = {}
  BY <1>1, SameTurns DEF TypeOK, Refs, OneResult
<1>2. CASE queue # <<>> /\ Pop /\ queue[1].type = "done" /\ mine \subseteq {queue[1].work} /\ queue[1].work \notin work \ mine
  <2>1. Turns' /\ Purged' = Purged /\ (Asked("servers")' <=> Asked("servers"))
    BY <1>2, PopTurns
  <2>2. OneResult' /\ Results' = Results \ {queue[1].work} /\ queue[1].work \in Results /\ queue' \in Seq(Events)
    BY <1>2, PopResults, PopFacts DEF Refs
  <2>3. queue[1].work \notin Live
    BY <2>2 DEF Refs
  <2> QED BY <1>2, <2>1, <2>2, <2>3
<1> QED BY <1>1, <1>2 DEF Taken

\* Work is taken by its result and leads nowhere.
LEMMA TakenKeeps ==
  ASSUME IInv, loop.at = "idle", NEW mine \in SUBSET work, \A w \in mine : w.kind = "alloc", Taken(mine),
         work' = work \ mine, UNCHANGED <<tasks, bySdv, awaiting, loop, relay, servers, commit>>
  PROVE  IInv'
<1> USE DEF IInv, commit
<1>1. /\ Turns' /\ Purged' = Purged /\ (Asked("servers")' <=> Asked("servers"))
      /\ queue' \in Seq(Events) /\ OneResult' /\ Results' \subseteq Results
      /\ mine \cap Results' = {} /\ mine \cap Live = {} /\ \A w \in work \ mine : w \in Results => w \in Results'
  BY TakenFacts
<1>2. Live' = Live /\ Ending' = Ending /\ OneTask'
  BY DEF Live, Ending, OneTask, Refs
<1>3. TypeOK'
  BY <1>1 DEF TypeOK
<1>4. Shapes' /\ Refs'
  BY <1>1, <1>2 DEF Shapes, Refs
<1>5. Works' /\ Joining'
  BY <1>1, <1>2 DEF Works, Joining, Cur
<1>6. Late'
  <2>1. queue' = queue \/ (queue # <<>> /\ Pop)
    BY DEF Taken
  <2> QED BY <1>1, <2>1, LateKept
<1>7. Routes'
  BY <1>1 DEF Routes
<1>8. Tables'
  BY TablesShrink DEF Tables
<1> QED BY <1>1, <1>3, <1>4, <1>5, <1>6, <1>7, <1>8

\* handle_new_server_endpoint, first part.
LEMMA NewServerEndpointKeeps ==
  ASSUME IInv, loop.at = "idle", NEW p \in Clients, NEW pgen \in Generations, NEW s \in Relays, NEW sgen \in Generations,
         NEW ep \in Endpoints, NEW mine \in SUBSET work, \A w \in mine : w.kind = "alloc", Taken(mine),
         NewServerEndpoint(p, pgen, s, sgen, ep, work \ mine), UNCHANGED <<relay, servers, commit>>
  PROVE  IInv'
<1> USE DEF IInv, commit
<1> DEFINE owner == bySdv[<<s, ep.vni>>]
           existing == IF owner = None THEN {} ELSE Handshake(owner, s) \cap (work \ mine)
           ok == Current(p, pgen) /\ HasServer(s, sgen) /\ \A w \in existing : w.lamport < ep.lamport
<1>1. CASE ~ok
  <2>1. work' = work \ mine /\ UNCHANGED <<tasks, bySdv, awaiting, loop>>
    BY <1>1 DEF NewServerEndpoint
  <2> QED BY <2>1, TakenKeeps
<1>2. CASE ok
  <2>1. /\ work' = (work \ mine) \ existing
        /\ tasks' = {IF t.work \in existing THEN [t EXCEPT !.cancelled = TRUE] ELSE t : t \in tasks}
        /\ bySdv' = IF existing = {} THEN bySdv ELSE [bySdv EXCEPT ![<<s, ep.vni>>] = None]
        /\ Forget(existing)
        /\ loop' = [at |-> "replace", peer |-> p, pgen |-> pgen, server |-> s, sgen |-> sgen, ep |-> ep]
    BY <1>2 DEF NewServerEndpoint
  <2>2. /\ loop'.at = "replace" /\ loop'.peer = p /\ loop'.pgen = pgen /\ loop'.server = s /\ loop'.sgen = sgen
        /\ loop'.ep = ep /\ loop' \in Loops
    BY <2>1 DEF Loops
  <2>3. ep.vni \in Vnis /\ gen[p] = pgen /\ pgen # 0 /\ p \notin gone /\ servers[s] = sgen /\ sgen # 0
    BY <1>2 DEF Current, Authorized, HasServer, Endpoints
  <2>4. /\ Turns' /\ Purged' = Purged /\ (Asked("servers")' <=> Asked("servers"))
        /\ queue' \in Seq(Events) /\ OneResult' /\ Results' \subseteq Results
        /\ mine \cap Results' = {} /\ mine \cap Live = {} /\ \A w \in work \ mine : w \in Results => w \in Results'
    BY <2>2, TakenFacts
  <2>5. PairTables /\ owner \in Clients \cup {None}
    BY <2>3, PairForm DEF Tables, TypeOK
  <2>6. \A w \in existing : w \in work /\ w \notin mine /\ IsHandshake(w, owner, s, ep.vni)
    <3> SUFFICES ASSUME NEW w \in existing PROVE w \in work /\ w \notin mine /\ IsHandshake(w, owner, s, ep.vni)
      OBVIOUS
    <3>1. owner \in Clients /\ w \in work /\ w \notin mine /\ w.kind = "handshake" /\ w.peer = owner /\ w.server = s
      BY <2>5 DEF Handshake, Handshakes
    <3>2. PICK x \in work : IsHandshake(x, owner, s, ep.vni)
      BY <2>3, <2>5, <3>1 DEF PairTables
    <3>3. x = w
      BY <2>5, <3>1, <3>2 DEF PairTables, IsHandshake
    <3> QED BY <3>1, <3>2, <3>3
  <2>7. existing = {} => owner = None
    <3> SUFFICES ASSUME owner # None PROVE existing # {}
      OBVIOUS
    <3>1. PICK x \in work : IsHandshake(x, owner, s, ep.vni)
      BY <2>3, <2>5 DEF PairTables
    <3>2. x \notin mine
      BY <3>1 DEF IsHandshake
    <3> QED BY <3>1, <3>2 DEF Handshake, Handshakes, IsHandshake
  <2> HIDE DEF existing
  <2>8. /\ tasks' \subseteq Tasks /\ OneTask' /\ Live' = Live \ existing /\ Ending' = Ending \cup (Live \cap existing)
        /\ Ending = {}
    BY <2>1, SignalFacts DEF TypeOK, Refs, Joining
  <2>9. \A u \in Relays, v \in Vnis :
          bySdv'[<<u, v>>] = IF \E w \in mine \cup existing : w.kind = "handshake" /\ w.server = u /\ w.vni = v
                               THEN None ELSE bySdv[<<u, v>>]
    <3> SUFFICES ASSUME NEW u \in Relays, NEW v \in Vnis
                 PROVE  bySdv'[<<u, v>>] = IF \E w \in mine \cup existing : w.kind = "handshake" /\ w.server = u /\ w.vni = v
                                             THEN None ELSE bySdv[<<u, v>>]
      OBVIOUS
    <3>1. (\E w \in mine \cup existing : w.kind = "handshake" /\ w.server = u /\ w.vni = v)
          <=> existing # {} /\ u = s /\ v = ep.vni
      BY <2>6 DEF IsHandshake
    <3>2. <<u, v>> \in DOMAIN bySdv /\ (<<u, v>> = <<s, ep.vni>> <=> u = s /\ v = ep.vni)
      BY DEF TypeOK
    <3> QED BY <2>1, <3>1, <3>2
  <2>10. /\ bySdv' \in [Relays \X Vnis -> Clients \cup {None}] /\ awaiting' \in [Relays \X Vnis -> Clients \cup {None}]
         /\ \A u \in Relays, v \in Vnis : awaiting'[<<u, v>>] \in {awaiting[<<u, v>>], None}
    BY <2>1 DEF TypeOK, Forget
  <2>11. ASSUME NEW u \in Relays, NEW v \in Vnis, NEW w \in mine \cup existing, w.kind = "handshake",
                awaiting[<<u, v>>] = w.peer, w.vni = v
         PROVE  awaiting'[<<u, v>>] = None
    <3>1. <<u, v>> \in DOMAIN awaiting /\ <<u, v>>[2] = v /\ w \in existing
      BY <2>11 DEF TypeOK
    <3> QED BY <2>1, <2>11, <3>1 DEF Forget
  <2>12. Tables'
    <3>1. TablesAgree'
      <4>1. work' = work \ (mine \cup existing) /\ mine \cup existing \in SUBSET work
        BY <2>1, <2>6
      <4> DEFINE ws == mine \cup existing
      <4>2. \A u \in Relays, v \in Vnis :
              bySdv'[<<u, v>>] = IF \E w \in ws : w.kind = "handshake" /\ w.server = u /\ w.vni = v
                                   THEN None ELSE bySdv[<<u, v>>]
        BY <2>9
      <4>3. \A u \in Relays, v \in Vnis, w \in ws :
              w.kind = "handshake" /\ awaiting[<<u, v>>] = w.peer /\ w.vni = v => awaiting'[<<u, v>>] = None
        BY <2>11
      <4>4. work' = work \ ws /\ ws \in SUBSET work
        BY <4>1
      <4> HIDE DEF ws
      <4> QED BY <4>2, <4>3, <4>4, <2>10, TablesShrink DEF Tables
    <3>2. bySdv'[<<s, ep.vni>>] = None
      <4>1. CASE existing = {}
        BY <2>1, <2>7, <4>1
      <4>2. CASE existing # {}
        BY <2>3, <2>6, <2>9, <4>2 DEF IsHandshake
      <4> QED BY <4>1, <4>2
    <3> QED BY <2>2, <3>1, <3>2 DEF Tables
  <2>13. TypeOK'
    BY <2>1, <2>2, <2>4, <2>8, <2>10 DEF TypeOK
  <2>14. Shapes' /\ Refs'
    BY <2>1, <2>4, <2>8 DEF Shapes, Refs
  <2>15. Works'
    BY <2>1, <2>4 DEF Works, Cur
  <2>16. Joining'
    <3>1. p \notin Purged'
      BY <2>3, <2>4 DEF Purged
    <3>2. \A w \in Ending' : w.kind = "handshake" /\ Cur(w)' /\ w.peer \notin Purged'
      BY <2>4, <2>6, <2>8 DEF Works, Cur, IsHandshake
    <3> QED BY <2>2, <2>3, <3>1, <3>2 DEF Joining
  <2>17. Late'
    <3>1. queue' = queue \/ (queue # <<>> /\ Pop)
      BY DEF Taken
    <3>2. \A w \in Results' : w.kind = "alloc" /\ w \in work => w \in work'
      BY <2>1, <2>4, <2>6 DEF IsHandshake
    <3> QED BY <2>4, <3>1, <3>2, LateKept
  <2>18. Routes'
    BY <2>4 DEF Routes
  <2> QED BY <2>4, <2>12, <2>13, <2>14, <2>15, <2>16, <2>17, <2>18
<1> QED BY <1>1, <1>2

\* handle_alloc_work_done
LEMMA AllocWorkDoneKeeps ==
  ASSUME IInv, AllocWorkDone
  PROVE  IInv'
<1> DEFINE e == queue[1]
           x == queue[1].work
           mine == AllocRemoved(e)
<1>1. /\ queue # <<>> /\ 1 \in DOMAIN queue /\ e \in Events /\ e.type = "done" /\ loop.at = "idle" /\ Pop
      /\ x.kind = "alloc" /\ UNCHANGED <<relay, servers, commit>>
  BY EventFacts DEF AllocWorkDone, IInv
<1>2. x \in Work /\ e.reply \in Endpoints \cup {None} /\ x \in Results
  BY <1>1, EventFields DEF Results
<1>3. x.peer \in Clients /\ x.server \in Relays /\ x.pgen \in Generations /\ x.sgen \in Generations
  BY <1>2, WorkFields
<1>4. mine \in SUBSET work /\ (\A w \in mine : w.kind = "alloc" /\ w = x) /\ (x \in work => x \in mine)
  <2>1. \A w \in mine : w \in work /\ w.kind = "alloc" /\ w = x
    BY <1>1, <1>2, OwnResult DEF AllocRemoved
  <2>2. x \in work => x \in mine
    BY <1>1 DEF AllocRemoved
  <2> QED BY <2>1, <2>2
<1>5. Taken(mine)
  BY <1>1, <1>4 DEF Taken
<1>6. CASE e.reply # None /\ NewServerEndpoint(x.peer, x.pgen, x.server, x.sgen, e.reply, work \ mine)
  <2> HIDE DEF mine
  <2>1. e.reply \in Endpoints
    BY <1>2, <1>6
  <2> QED BY <1>1, <1>3, <1>4, <1>5, <1>6, <2>1, NewServerEndpointKeeps
<1>7. CASE work' = work \ mine /\ UNCHANGED <<tasks, bySdv, awaiting, loop>>
  <2> HIDE DEF mine
  <2> QED BY <1>1, <1>4, <1>5, <1>7, TakenKeeps
<1> QED BY <1>6, <1>7 DEF AllocWorkDone

\* A CallMeMaybeVia for a server the peer has a handshake with.
LEMMA CallMeMaybeViaKeeps ==
  ASSUME IInv, NEW p \in Clients, NEW s \in Relays, NEW ep \in Endpoints, CallMeMaybeVia(p, s, ep)
  PROVE  IInv'
<1>1. PICK w \in Handshake(p, s) : NewServerEndpoint(p, gen[p], s, w.sgen, ep, work)
  BY DEF CallMeMaybeVia
<1>2. w \in work /\ w.sgen \in Generations /\ gen[p] \in Generations
  BY <1>1, AllWork, WorkFields, RelayAssumption DEF Handshake, Handshakes, IInv, TypeOK
<1>3. loop.at = "idle" /\ UNCHANGED <<relay, servers, queue, commit>> /\ Taken({})
  BY DEF CallMeMaybeVia, Taken
<1>4. work \ {} = work
  OBVIOUS
<1>5. NewServerEndpoint(p, gen[p], s, w.sgen, ep, work \ {})
  BY <1>1, <1>4
<1> QED BY <1>2, <1>3, <1>5, NewServerEndpointKeeps

\* handle_new_server_endpoint, second part.
LEMMA ReplaceKeeps ==
  ASSUME IInv, Replace
  PROVE  IInv'
<1> USE DEF IInv, commit
<1> DEFINE existing == Handshake(loop.peer, loop.server)
<1>1. loop.at = "replace" /\ Ending = {} /\ UNCHANGED <<relay, servers, queue, commit>> /\ loop \in Loops
  BY JoinedFacts DEF Replace, TypeOK
<1>2. /\ loop.peer \in Clients /\ loop.server \in Relays /\ loop.ep \in Endpoints
      /\ loop.pgen \in Generations /\ loop.sgen \in Generations /\ loop.ep.vni \in Vnis
  BY <1>1, LoopFields
<1>3. CASE loop' = Idle /\ UNCHANGED <<work, tasks, bySdv, awaiting>>
  <2>1. loop'.at = "idle" /\ loop' \in Loops
    BY <1>3 DEF Idle, Loops
  <2>2. Turns' /\ Purged' = Purged /\ Results' = Results /\ (\A type : Asked(type)' <=> Asked(type))
    BY <1>1, <2>1, SameTurns
  <2>3. Live' = Live /\ Ending' = Ending
    BY <1>3 DEF Live, Ending
  <2>4. TypeOK'
    BY <1>1, <1>3, <2>1 DEF TypeOK
  <2>5. Shapes' /\ Refs'
    BY <1>1, <1>3, <2>2, <2>3 DEF Shapes, Refs, OneTask, OneResult
  <2>6. Works' /\ Joining'
    BY <1>1, <1>3, <2>1, <2>2, <2>3 DEF Works, Joining, Cur
  <2>7. Late'
    BY <1>1, <1>3, <2>2, LateKept
  <2>8. Routes'
    BY <1>1, <2>2 DEF Routes
  <2>9. Tables'
    BY <1>3, <2>1 DEF Tables, TablesAgree, Handshake, Handshakes
  <2> QED BY <2>2, <2>4, <2>5, <2>6, <2>7, <2>8, <2>9
<1>4. CASE Cancel(existing) /\ Forget(existing) /\ loop' = [loop EXCEPT !.at = "spawn"]
  <2>1. /\ loop'.at = "spawn" /\ loop'.peer = loop.peer /\ loop'.pgen = loop.pgen /\ loop'.server = loop.server
        /\ loop'.sgen = loop.sgen /\ loop'.ep = loop.ep
    BY <1>1, <1>4 DEF Loops
  <2>2. loop' \in Loops
    <3>1. loop \in [at : {"replace", "spawn"}, peer : Clients, pgen : Generations, server : Relays,
                    sgen : Generations, ep : Endpoints]
      BY <1>1 DEF Loops
    <3> QED BY <1>4, <3>1 DEF Loops
  <2>3. existing \in SUBSET work /\ \A w \in existing : w.kind = "handshake"
    BY DEF Handshake, Handshakes
  <2>4. /\ TablesAgree' /\ work' = work \ existing
        /\ bySdv' \in [Relays \X Vnis -> Clients \cup {None}] /\ awaiting' \in [Relays \X Vnis -> Clients \cup {None}]
        /\ tasks' \subseteq Tasks /\ OneTask' /\ Live' = Live \ existing /\ Ending' = Ending \cup (Live \cap existing)
        /\ \A s \in Relays, v \in Vnis : bySdv[<<s, v>>] = None => bySdv'[<<s, v>>] = None
    BY <1>4, <2>3, CancelFacts DEF Tables
  <2>5. Turns' /\ Purged' = Purged /\ Results' = Results /\ (\A type : Asked(type)' <=> Asked(type))
    BY <1>1, <2>1, SameTurns
  <2>6. TypeOK'
    BY <1>1, <2>2, <2>4 DEF TypeOK
  <2>7. Shapes' /\ Refs'
    BY <1>1, <2>4, <2>5 DEF Shapes, Refs, OneResult
  <2>8. Works'
    BY <1>1, <2>4, <2>5 DEF Works, Cur
  <2>9. Joining'
    <3>1. Ending' \subseteq existing
      BY <1>1, <2>4
    <3>2. \A w \in Ending' : w.kind = "handshake" /\ Cur(w)' /\ w.peer \notin Purged'
      BY <1>1, <2>3, <2>5, <3>1 DEF Works, Cur
    <3> QED BY <1>1, <2>1, <2>5, <3>2 DEF Joining
  <2>10. Late'
    BY <1>1, <2>3, <2>4, <2>5, LateKept
  <2>11. Routes'
    BY <1>1, <2>5 DEF Routes
  <2>12. Tables'
    <3>1. Handshake(loop.peer, loop.server)' = {}
      BY <2>1, <2>4 DEF Handshake, Handshakes
    <3>2. bySdv'[<<loop'.server, loop'.ep.vni>>] = None
      BY <1>1, <1>2, <2>1, <2>4 DEF Tables
    <3> QED BY <2>1, <2>4, <3>1, <3>2 DEF Tables
  <2> QED BY <2>5, <2>6, <2>7, <2>8, <2>9, <2>10, <2>11, <2>12
<1> QED BY <1>3, <1>4 DEF Replace

\* handle_new_server_endpoint, third part: the handshake is spawned.
LEMMA SpawnHandshakeKeeps ==
  ASSUME IInv, SpawnHandshake
  PROVE  IInv'
<1> USE DEF IInv, commit
<1> DEFINE w == [kind |-> "handshake", peer |-> loop.peer, server |-> loop.server, pgen |-> loop.pgen,
                 sgen |-> loop.sgen, id |-> FreshId("handshake", loop.peer, loop.server),
                 vni |-> loop.ep.vni, lamport |-> loop.ep.lamport]
<1>1. /\ loop.at = "spawn" /\ Ending = {} /\ loop \in Loops /\ UNCHANGED <<relay, servers, awaiting, queue, commit>>
      /\ work' = work \cup {w} /\ tasks' = tasks \cup {NewTask(w)} /\ loop' = Idle
      /\ bySdv' = [bySdv EXCEPT ![<<w.server, w.vni>>] = w.peer]
      /\ FreeIds("handshake", loop.peer, loop.server) # {}
  BY JoinedFacts DEF SpawnHandshake, TypeOK
<1>2. /\ loop.peer \in Clients /\ loop.server \in Relays /\ loop.ep \in Endpoints
      /\ loop.pgen \in Generations /\ loop.sgen \in Generations /\ loop.ep.vni \in Vnis /\ loop.ep.lamport \in Lamports
  BY <1>1, LoopFields
<1>3. /\ FreshId("handshake", loop.peer, loop.server) \in Ids
      /\ \A x \in work \cup Live \cup Ending \cup Results :
           x.kind = "handshake" /\ x.peer = loop.peer /\ x.server = loop.server
             => x.id # FreshId("handshake", loop.peer, loop.server)
  BY <1>1, FreshIdFacts
<1>4. /\ w \in Work /\ w.kind = "handshake" /\ w.peer = loop.peer /\ w.server = loop.server /\ w.pgen = loop.pgen
      /\ w.sgen = loop.sgen /\ w.vni = loop.ep.vni /\ w.lamport = loop.ep.lamport
      /\ w.id = FreshId("handshake", loop.peer, loop.server)
  BY <1>2, <1>3 DEF Work
<1> HIDE DEF w
<1>5. w \notin work \cup Live \cup Ending \cup Results
  BY <1>3, <1>4
<1>6. tasks' \subseteq Tasks /\ OneTask' /\ Live' = Live \cup {w} /\ Ending' = Ending
  <2> DEFINE ws == {w}
  <2>1. ws \in SUBSET Work /\ ws \cap (Live \cup Ending) = {} /\ tasks' = tasks \cup {NewTask(x) : x \in ws}
    BY <1>1, <1>4, <1>5
  <2>2. Live \cup ws = Live \cup {w}
    OBVIOUS
  <2> HIDE DEF ws
  <2> QED BY <2>1, <2>2, SpawnFacts DEF TypeOK, Refs
<1>7. loop'.at = "idle" /\ loop' \in Loops
  BY <1>1 DEF Idle, Loops
<1>8. Turns' /\ Purged' = Purged /\ Results' = Results /\ (\A type : Asked(type)' <=> Asked(type))
  BY <1>1, <1>7, SameTurns
<1>9. TypeOK'
  <2>1. bySdv' \in [Relays \X Vnis -> Clients \cup {None}]
    BY <1>1, <1>2, <1>4 DEF TypeOK
  <2> QED BY <1>1, <1>4, <1>6, <1>7, <2>1 DEF TypeOK
<1>10. loop.pgen = gen[loop.peer] /\ loop.pgen # 0 /\ loop.peer \notin Purged /\ loop.sgen = servers[loop.server] /\ loop.sgen # 0
  BY <1>1 DEF Joining
<1>11. Shapes'
  BY <1>1, <1>2, <1>4, <1>6, <1>8, <1>10 DEF Shapes
<1>12. Refs'
  BY <1>1, <1>5, <1>6, <1>8 DEF Refs, OneResult
<1>13. Works'
  <2>1. Cur(w) /\ w.peer \notin Purged
    BY <1>4, <1>10 DEF Cur
  <2>2. \A x \in work' : Cur(x)' /\ x.peer \notin Purged'
    BY <1>1, <1>8, <2>1 DEF Works, Cur
  <2>3. \A u, v \in work' : u.kind = "alloc" /\ v.kind = "alloc" /\ u.peer = v.peer /\ u.server = v.server => u = v
    BY <1>1, <1>4 DEF Works
  <2> QED BY <2>2, <2>3 DEF Works
<1>14. Joining'
  BY <1>1, <1>6, <1>7 DEF Joining
<1>15. Late'
  BY <1>1, <1>8, LateKept
<1>16. Routes'
  BY <1>1, <1>8 DEF Routes
<1>17. Tables'
  <2>1. PairTables /\ bySdv[<<w.server, w.vni>>] = None /\ \A x \in work : ~(x.kind = "handshake" /\ x.peer = w.peer /\ x.server = w.server)
    BY <1>1, <1>4, PairForm DEF Tables, Handshake, Handshakes
  <2>2. \A s \in Relays, v \in Vnis :
          bySdv'[<<s, v>>] = IF s = w.server /\ v = w.vni THEN w.peer ELSE bySdv[<<s, v>>]
    BY <1>1, <1>2, <1>4 DEF TypeOK
  <2>3. w.peer \in Clients /\ w.peer # None /\ w.server \in Relays /\ w.vni \in Vnis
    BY <1>2, <1>4, RelayAssumption
  <2>4. \A s \in Relays, v \in Vnis, p \in Clients :
          bySdv'[<<s, v>>] = p <=> \E x \in work' : IsHandshake(x, p, s, v)
    <3> SUFFICES ASSUME NEW s \in Relays, NEW v \in Vnis, NEW p \in Clients
                 PROVE  bySdv'[<<s, v>>] = p <=> \E x \in work' : IsHandshake(x, p, s, v)
      OBVIOUS
    <3>1. p # None
      BY RelayAssumption
    <3>2. bySdv[<<s, v>>] = p <=> \E x \in work : IsHandshake(x, p, s, v)
      BY <2>1 DEF PairTables
    <3>3. IsHandshake(w, p, s, v) <=> p = w.peer /\ s = w.server /\ v = w.vni
      BY <1>4 DEF IsHandshake
    <3>4. (\E x \in work' : IsHandshake(x, p, s, v)) <=> IsHandshake(w, p, s, v) \/ \E x \in work : IsHandshake(x, p, s, v)
      BY <1>1
    <3>5. CASE s = w.server /\ v = w.vni
      BY <2>1, <2>2, <3>1, <3>2, <3>3, <3>4, <3>5
    <3>6. CASE ~(s = w.server /\ v = w.vni)
      BY <2>2, <3>2, <3>3, <3>4, <3>6
    <3> QED BY <3>5, <3>6
  <2>5. \A u, v \in work' : u.kind = "handshake" /\ v.kind = "handshake" /\ u.peer = v.peer /\ u.server = v.server => u = v
    BY <1>1, <2>1 DEF PairTables
  <2>6. \A s \in Relays, v \in Vnis : awaiting'[<<s, v>>] # None =>
          \E x \in work' : x.kind = "handshake" /\ x.peer = awaiting'[<<s, v>>] /\ x.vni = v
    <3> SUFFICES ASSUME NEW s \in Relays, NEW v \in Vnis, awaiting'[<<s, v>>] # None
                 PROVE  \E x \in work' : x.kind = "handshake" /\ x.peer = awaiting'[<<s, v>>] /\ x.vni = v
      OBVIOUS
    <3>1. awaiting' = awaiting
      BY <1>1
    <3>2. PICK x \in work : x.kind = "handshake" /\ x.peer = awaiting[<<s, v>>] /\ x.vni = v
      BY <2>1, <3>1 DEF PairTables
    <3>3. x \in work'
      BY <1>1
    <3> QED BY <3>1, <3>2, <3>3
  <2>7. PairTables'
    BY <2>4, <2>5, <2>6 DEF PairTables
  <2>8. TablesAgree'
    BY <2>7, PairForm, PTL
  <2> QED BY <1>7, <2>8 DEF Tables
<1> QED BY <1>8, <1>9, <1>11, <1>12, <1>13, <1>14, <1>15, <1>16, <1>17

\* handle_handshake_work_done
LEMMA HandshakeWorkDoneKeeps ==
  ASSUME IInv, HandshakeWorkDone
  PROVE  IInv'
<1> USE DEF IInv, commit
<1> DEFINE w == queue[1].work
           pong == queue[1].pong
           mine == IF w \in work THEN {w} ELSE {}
<1>1. /\ queue # <<>> /\ 1 \in DOMAIN queue /\ queue[1] \in Events /\ queue[1].type = "done" /\ loop.at = "idle" /\ Pop
      /\ w.kind = "handshake" /\ UNCHANGED <<servers, tasks, loop, commit>>
  BY EventFacts DEF HandshakeWorkDone
<1>2. w \in Work /\ pong \in Relays \cup {None} /\ w \in Results
  BY <1>1, EventFields DEF Results
<1>3. w.peer \in Clients /\ w.server \in Relays /\ w.sgen \in Generations /\ w.vni \in Vnis
  BY <1>2, WorkFields, <1>1 DEF Shapes
<1>4. CASE w \notin work
  <2>1. UNCHANGED <<work, bySdv, awaiting, relay>>
    BY <1>4 DEF HandshakeWorkDone
  <2>2. Taken({})
    BY <1>1, <1>4 DEF Taken
  <2> QED BY <1>1, <2>1, <2>2, TakenKeeps
<1>5. CASE w \in work
  <2>1. /\ work' = work \ {w} /\ bySdv' = [bySdv EXCEPT ![<<w.server, w.vni>>] = None] /\ ForgetPeer(w.peer)
        /\ relay' = IF pong # None /\ Current(w.peer, w.pgen) /\ HasServer(w.server, w.sgen)
                      THEN [relay EXCEPT ![w.peer] = [addr |-> pong, vni |-> w.vni, server |-> w.server, sgen |-> w.sgen]]
                      ELSE relay
    BY <1>5 DEF HandshakeWorkDone
  <2>2. Taken({w}) /\ {w} \in SUBSET work
    BY <1>1, <1>5 DEF Taken
  <2> HIDE DEF w, pong
  <2>3. /\ Turns' /\ Purged' = Purged /\ (Asked("servers")' <=> Asked("servers"))
        /\ queue' \in Seq(Events) /\ OneResult' /\ Results' \subseteq Results
        /\ w \notin Results' /\ w \notin Live /\ \A x \in work \ {w} : x \in Results => x \in Results'
    BY <1>1, <2>2, TakenFacts
  <2>4. Live' = Live /\ Ending' = Ending /\ OneTask'
    BY <1>1 DEF Live, Ending, OneTask, Refs
  <2>5. /\ bySdv' \in [Relays \X Vnis -> Clients \cup {None}] /\ awaiting' \in [Relays \X Vnis -> Clients \cup {None}]
        /\ relay' \in [Clients -> Paths \cup {None}]
    <3>1. bySdv' \in [Relays \X Vnis -> Clients \cup {None}]
      BY <2>1 DEF TypeOK
    <3>2. awaiting' \in [Relays \X Vnis -> Clients \cup {None}]
      BY <2>1 DEF TypeOK, ForgetPeer
    <3>3. pong # None => [addr |-> pong, vni |-> w.vni, server |-> w.server, sgen |-> w.sgen] \in Paths
      BY <1>2, <1>3 DEF Paths
    <3>4. relay' \in [Clients -> Paths \cup {None}]
      BY <2>1, <3>3 DEF TypeOK
    <3> QED BY <3>1, <3>2, <3>4
  <2>6. TypeOK'
    BY <1>1, <2>1, <2>3, <2>5 DEF TypeOK
  <2>7. Shapes' /\ Refs'
    BY <1>5, <2>1, <2>3, <2>4 DEF Shapes, Refs
  <2>8. Works' /\ Joining'
    BY <1>1, <2>1, <2>3, <2>4 DEF Works, Joining, Cur
  <2>9. Late'
    BY <1>1, <2>1, <2>3, LateKept
  <2>10. Routes'
    <3>1. ASSUME NEW p \in Clients, relay'[p] # None
          PROVE  /\ gen'[p] # 0 /\ p \notin gone'
                 /\ relay'[p].sgen # 0 /\ relay'[p].sgen = servers'[relay'[p].server]
      <4>1. CASE relay'[p] = relay[p]
        BY <1>1, <3>1, <4>1 DEF Routes
      <4>2. CASE /\ p = w.peer /\ Current(w.peer, w.pgen) /\ HasServer(w.server, w.sgen)
                 /\ relay'[p] = [addr |-> pong, vni |-> w.vni, server |-> w.server, sgen |-> w.sgen]
        <5>1. relay'[p].sgen = w.sgen /\ relay'[p].server = w.server
          BY <4>2
        <5> QED BY <1>1, <4>2, <5>1 DEF Current, HasServer, Authorized
      <4> QED BY <1>3, <2>1, <4>1, <4>2 DEF TypeOK
    <3> QED BY <1>1, <2>3, <3>1 DEF Routes
  <2>11. Tables'
    <3> DEFINE ws == {w}
    <3>1. \A s \in Relays, v \in Vnis :
            bySdv'[<<s, v>>] = IF \E x \in ws : x.kind = "handshake" /\ x.server = s /\ x.vni = v
                                 THEN None ELSE bySdv[<<s, v>>]
      BY <1>1, <1>3, <2>1 DEF TypeOK
    <3>2. /\ \A s \in Relays, v \in Vnis : awaiting'[<<s, v>>] \in {awaiting[<<s, v>>], None}
          /\ \A s \in Relays, v \in Vnis, x \in ws :
               x.kind = "handshake" /\ awaiting[<<s, v>>] = x.peer /\ x.vni = v => awaiting'[<<s, v>>] = None
      BY <2>1 DEF TypeOK, ForgetPeer
    <3>3. ws \in SUBSET work /\ work' = work \ ws
      BY <1>5, <2>1
    <3> HIDE DEF ws
    <3>4. TablesAgree'
      BY <3>1, <3>2, <3>3, TablesShrink DEF Tables
    <3> QED BY <1>1, <3>4 DEF Tables
  <2> QED BY <2>3, <2>6, <2>7, <2>8, <2>9, <2>10, <2>11
<1> QED BY <1>4, <1>5

-----------------------------------------------------------------------------
(* Messages and tasks                                                         *)

\* A task notes a message: the references to work stay.
LEMMA NotedKeeps ==
  ASSUME IInv, tasks' \subseteq Tasks, OneTask', Live' = Live, Ending' = Ending,
         UNCHANGED <<relay, servers, work, bySdv, loop, queue, commit>>,
         awaiting' \in [Relays \X Vnis -> Clients \cup {None}], TablesAgree'
  PROVE  IInv'
<1> USE DEF IInv, commit
<1>1. Turns' /\ Purged' = Purged /\ Results' = Results /\ (\A type : Asked(type)' <=> Asked(type))
  BY SameTurns
<1>2. TypeOK'
  BY DEF TypeOK
<1>3. Shapes' /\ Refs'
  BY <1>1 DEF Shapes, Refs, OneResult
<1>4. Works' /\ Joining'
  BY <1>1 DEF Works, Joining, Cur
<1>5. Late'
  BY <1>1, LateKept
<1>6. Routes'
  BY <1>1 DEF Routes
<1>7. Tables'
  BY DEF Tables, Handshake, Handshakes
<1> QED BY <1>1, <1>2, <1>3, <1>4, <1>5, <1>6, <1>7

\* The tables of the loop, when only a task has changed.
LEMMA SameTables ==
  ASSUME TablesAgree, UNCHANGED <<work, bySdv, awaiting>>
  PROVE  TablesAgree'
  BY DEF TablesAgree, Handshake, Handshakes

\* AllocateUdpRelayEndpointResponse
LEMMA AllocResponseKeeps ==
  ASSUME IInv, NEW w \in work, NEW ep \in Endpoints, AllocResponse(w, ep)
  PROVE  IInv'
<1>1. PICK t \in tasks : tasks' = (tasks \ {t}) \cup {[t EXCEPT !.reply = ep]}
  BY DEF AllocResponse
<1> DEFINE u == [t EXCEPT !.reply = ep]
<1>2. tasks \subseteq Tasks /\ OneTask
  BY DEF IInv, TypeOK, Refs
<1>3. u \in Tasks /\ u.work = t.work /\ u.cancelled = t.cancelled
  BY <1>2 DEF Tasks
<1>4. tasks' = (tasks \ {t}) \cup {u}
  BY <1>1
<1> HIDE DEF u
<1>5. tasks' \subseteq Tasks /\ OneTask' /\ Live' = Live /\ Ending' = Ending
  BY <1>2, <1>3, <1>4, NoteFacts
<1>6. UNCHANGED <<relay, servers, work, bySdv, awaiting, loop, queue, commit>>
  BY DEF AllocResponse
<1>7. awaiting' \in [Relays \X Vnis -> Clients \cup {None}] /\ TablesAgree'
  BY <1>6, SameTables DEF IInv, TypeOK, Tables
<1> QED BY <1>5, <1>6, <1>7, NotedKeeps

\* A Ping or a Pong through a server.
LEMMA RelayedKeeps ==
  ASSUME IInv, NEW a \in Relays, NEW v \in Vnis, RelayedPing(a, v) \/ RelayedPong(a, v)
  PROVE  IInv'
<1>1. tasks \subseteq Tasks /\ OneTask
  BY DEF IInv, TypeOK, Refs
<1>2. PICK t \in tasks, u \in Tasks :
        u.work = t.work /\ u.cancelled = t.cancelled /\ tasks' = (tasks \ {t}) \cup {u}
  <2>1. CASE RelayedPing(a, v)
    <3>1. PICK t \in tasks : tasks' = (tasks \ {t}) \cup {[t EXCEPT !.pinged = @ \cup {a}]}
      BY <2>1 DEF RelayedPing
    <3> DEFINE u == [t EXCEPT !.pinged = @ \cup {a}]
    <3>2. u \in Tasks /\ u.work = t.work /\ u.cancelled = t.cancelled
      BY <1>1 DEF Tasks
    <3> QED BY <3>1, <3>2
  <2>2. CASE RelayedPong(a, v)
    <3>1. PICK t \in tasks : tasks' = (tasks \ {t}) \cup {[t EXCEPT !.pong = a]}
      BY <2>2 DEF RelayedPong
    <3> DEFINE u == [t EXCEPT !.pong = a]
    <3>2. u \in Tasks /\ u.work = t.work /\ u.cancelled = t.cancelled
      BY <1>1 DEF Tasks
    <3> QED BY <3>1, <3>2
  <2> QED BY <2>1, <2>2
<1>3. tasks' \subseteq Tasks /\ OneTask' /\ Live' = Live /\ Ending' = Ending
  BY <1>1, <1>2, NoteFacts
<1>4. UNCHANGED <<relay, servers, work, bySdv, awaiting, loop, queue, commit>>
  BY DEF RelayedPing, RelayedPong
<1>5. awaiting' \in [Relays \X Vnis -> Clients \cup {None}] /\ TablesAgree'
  BY <1>4, SameTables DEF IInv, TypeOK, Tables
<1> QED BY <1>3, <1>4, <1>5, NotedKeeps

\* BindUdpRelayEndpointChallenge
LEMMA ChallengeKeeps ==
  ASSUME IInv, NEW s \in Relays, NEW v \in Vnis, Challenge(s, v)
  PROVE  IInv'
<1> DEFINE p == bySdv[<<s, v>>]
<1>1. p # None /\ awaiting' = [awaiting EXCEPT ![<<s, v>>] = p] /\ UNCHANGED <<relay, servers, work, bySdv, loop, queue, commit>>
  BY DEF Challenge
<1>2. PICK w \in Handshake(p, s) :
        tasks' = {IF t.work = w /\ t.pinged = {} THEN [t EXCEPT !.pinged = {s}] ELSE t : t \in tasks}
  BY DEF Challenge
<1>3. tasks \subseteq Tasks /\ OneTask /\ p \in Clients
  BY <1>1 DEF IInv, TypeOK, Refs
<1>4. tasks' \subseteq Tasks /\ OneTask' /\ Live' = Live /\ Ending' = Ending
  <2> DEFINE f(t) == IF t.work = w /\ t.pinged = {} THEN [t EXCEPT !.pinged = {s}] ELSE t
  <2>1. \A t \in tasks : f(t) \in Tasks /\ f(t).work = t.work /\ f(t).cancelled = t.cancelled
    BY <1>3 DEF Tasks
  <2>2. tasks' = {f(t) : t \in tasks}
    BY <1>2
  <2> HIDE DEF f
  <2>3. tasks' \subseteq Tasks /\ OneTask'
    BY <1>3, <2>1, <2>2 DEF OneTask
  <2>4. Live' = Live
    BY <2>1, <2>2 DEF Live
  <2>5. Ending' = Ending
    BY <2>1, <2>2 DEF Ending
  <2> QED BY <2>3, <2>4, <2>5
<1>5. awaiting' \in [Relays \X Vnis -> Clients \cup {None}]
  BY <1>1, <1>3 DEF IInv, TypeOK
<1>6. TablesAgree'
  <2>1. PairTables
    BY PairForm DEF IInv, Tables
  <2>2. \A r \in Relays, n \in Vnis : awaiting'[<<r, n>>] = IF r = s /\ n = v THEN p ELSE awaiting[<<r, n>>]
    BY <1>1 DEF IInv, TypeOK
  <2>3. PICK x \in work : IsHandshake(x, p, s, v)
    BY <1>3, <2>1 DEF PairTables
  <2> HIDE DEF p
  <2>4. ASSUME NEW r \in Relays, NEW n \in Vnis, awaiting'[<<r, n>>] # None
        PROVE  \E y \in work' : y.kind = "handshake" /\ y.peer = awaiting'[<<r, n>>] /\ y.vni = n
    <3>1. CASE r = s /\ n = v
      BY <1>1, <2>2, <2>3, <3>1 DEF IsHandshake
    <3>2. CASE ~(r = s /\ n = v)
      <4>1. awaiting'[<<r, n>>] = awaiting[<<r, n>>]
        BY <2>2, <3>2
      <4>2. PICK y \in work : y.kind = "handshake" /\ y.peer = awaiting[<<r, n>>] /\ y.vni = n
        BY <2>1, <2>4, <4>1 DEF PairTables
      <4> QED BY <1>1, <4>1, <4>2
    <3> QED BY <3>1, <3>2
  <2>5. PairTables'
    BY <1>1, <2>1, <2>4 DEF PairTables
  <2> QED BY <2>5, PairForm, PTL
<1> QED BY <1>1, <1>4, <1>5, <1>6, NotedKeeps

\* A task ends without a word when it sees its cancel signal.
LEMMA CancelledKeeps ==
  ASSUME IInv, NEW t \in tasks, Cancelled(t)
  PROVE  IInv'
<1> USE DEF IInv, commit
<1>1. t.cancelled /\ tasks' = tasks \ {t} /\ UNCHANGED <<relay, servers, work, bySdv, awaiting, loop, queue, commit>>
  BY DEF Cancelled
<1>2. tasks' \subseteq Tasks /\ OneTask' /\ Live' = Live /\ Ending' = Ending \ {t.work}
  BY <1>1, EndFacts DEF TypeOK, Refs
<1>3. Turns' /\ Purged' = Purged /\ Results' = Results /\ (\A type : Asked(type)' <=> Asked(type))
  BY <1>1, SameTurns
<1>4. TypeOK'
  BY <1>1, <1>2 DEF TypeOK
<1>5. Shapes' /\ Refs'
  BY <1>1, <1>2, <1>3 DEF Shapes, Refs, OneResult
<1>6. Works'
  BY <1>1, <1>3 DEF Works, Cur
<1>7. Joining'
  BY <1>1, <1>2, <1>3 DEF Joining, Cur
<1>8. Late'
  BY <1>1, <1>3, LateKept
<1>9. Routes'
  BY <1>1, <1>3 DEF Routes
<1>10. Tables'
  BY <1>1, SameTables DEF Tables, Handshake, Handshakes
<1> QED BY <1>3, <1>4, <1>5, <1>6, <1>7, <1>8, <1>9, <1>10

\* A task ends and sends what it has got, also when a cancel signal waits.
LEMMA FinishKeeps ==
  ASSUME IInv, NEW t \in tasks, Finish(t)
  PROVE  IInv'
<1> USE DEF IInv, commit
<1>1. PICK got \in BOOLEAN :
        queue' = Append(queue, [type |-> "done", work |-> t.work, reply |-> IF got THEN t.reply ELSE None,
                                pong |-> IF got THEN t.pong ELSE None])
  BY DEF Finish
<1> DEFINE x == t.work
           e == [type |-> "done", work |-> t.work, reply |-> IF got THEN t.reply ELSE None,
                 pong |-> IF got THEN t.pong ELSE None]
<1>2. tasks' = tasks \ {t} /\ UNCHANGED <<relay, servers, work, bySdv, awaiting, loop, commit>>
  BY DEF Finish
<1>3. tasks \subseteq Tasks /\ OneTask /\ t \in Tasks
  BY DEF TypeOK, Refs
<1>4. e \in Events /\ e.type = "done" /\ e.work = x /\ queue' = Append(queue, e) /\ x \in Work
  <2>1. t.work \in Work /\ t.reply \in Endpoints \cup {None} /\ t.pong \in Relays \cup {None}
    BY <1>3 DEF Tasks
  <2> QED BY <1>1, <2>1 DEF Events
<1>5. /\ tasks' \subseteq Tasks /\ OneTask'
      /\ t.cancelled => Live' = Live /\ Ending' = Ending \ {x} /\ x \in Ending
      /\ ~t.cancelled => Live' = Live \ {x} /\ Ending' = Ending /\ x \in Live
  BY <1>2, <1>3, EndFacts
<1> HIDE DEF e, x
<1>6. x \in Live \cup Ending /\ x \notin Results /\ x \notin Live' \cup Ending'
  <2>1. x \in Live \cup Ending
    BY <1>5
  <2>2. x \notin Results
    BY <2>1 DEF Refs
  <2>3. \A u \in tasks' : u.work # x
    BY <1>2, <1>3 DEF OneTask, x
  <2>4. x \notin Live' \cup Ending'
    BY <2>3 DEF Live, Ending
  <2> QED BY <2>1, <2>2, <2>4
<1>7. OneResult' /\ Results' = Results \cup {x}
  BY <1>4, <1>6, AppendResults DEF Refs
<1>8. Turns' /\ Purged' = Purged /\ (\A type \in {"cancel", "servers", "complete"} : Asked(type)' <=> Asked(type))
  BY <1>2, <1>4, ResultTurns
<1>9. TypeOK'
  BY <1>2, <1>4, <1>5, AppendFacts DEF TypeOK
<1>10. Shapes'
  BY <1>2, <1>5, <1>6, <1>7 DEF Shapes
<1>11. Refs'
  BY <1>2, <1>5, <1>6, <1>7 DEF Refs
<1>12. Works'
  BY <1>2, <1>8 DEF Works, Cur
<1>13. Joining'
  BY <1>2, <1>5, <1>8 DEF Joining, Cur
<1>14. Routes'
  BY <1>2, <1>8 DEF Routes
<1>15. Tables'
  BY <1>2, SameTables DEF Tables, Handshake, Handshakes
<1>16. Late'
  <2>1. x \in work => Cur(x)
    BY DEF Works
  <2>2. x \notin work => x \in Ending /\ loop.at # "idle"
    BY <1>5 DEF Refs, Joining
  <2>3. loop \in Loops /\ loop.at \in {"idle", "cancel", "servers", "replace", "spawn"}
    BY LoopFields DEF TypeOK
  <2>4. x \notin work => \/ Cur(x) /\ x.kind = "handshake"
                         \/ Cur(x) /\ cpc = "cancel" /\ x.peer \in Purged
                         \/ cpc = "servers" /\ ~Asked("servers") /\ ~Asked("complete") /\ x.sgen # servers[x.server]
    <3>1. CASE loop.at \in {"replace", "spawn"}
      BY <2>2, <3>1 DEF Joining
    <3>2. CASE loop.at = "cancel"
      BY <2>2, <3>2 DEF Joining, Turns
    <3>3. CASE loop.at = "servers"
      BY <2>2, <3>3 DEF Joining, Turns
    <3> QED BY <2>2, <2>3, <3>1, <3>2, <3>3
  <2>5. \A w \in Work : Cur(w)' <=> Cur(w)
    BY <1>2 DEF Cur
  <2>6. cpc' # "servers" => \A w \in Results' : Cur(w)'
    BY <1>2, <1>4, <1>7, <2>1, <2>4, <2>5, AllWork DEF Late
  <2>7. \A w \in Results' \ work' : w.kind = "alloc" =>
          IF cpc' # "servers" THEN w.peer \in Purged'
          ELSE w.pgen # gen'[w.peer] \/ (~Asked("servers")' /\ w.sgen # servers'[w.server])
    <3> SUFFICES ASSUME NEW w \in Results' \ work', w.kind = "alloc"
                 PROVE  IF cpc # "servers" THEN w.peer \in Purged
                        ELSE w.pgen # gen[w.peer] \/ (~Asked("servers") /\ w.sgen # servers[w.server])
      BY <1>2, <1>8
    <3>1. CASE w \in Results
      BY <1>2, <3>1 DEF Late
    <3>2. CASE w = x
      BY <1>2, <2>4, <3>2
    <3> QED BY <1>7, <3>1, <3>2
  <2>8. ASSUME NEW i \in DOMAIN queue', NEW j \in DOMAIN queue',
               queue'[i].type = "complete", queue'[j].type = "done", i < j
        PROVE  Cur(queue[j].work)'
    <3>1. /\ DOMAIN queue' = DOMAIN queue \cup {Len(queue) + 1} /\ queue'[Len(queue) + 1] = e
          /\ Len(queue) \in Nat
          /\ \A k \in DOMAIN queue : k \in Nat /\ k < Len(queue) + 1 /\ queue'[k] = queue[k]
      BY <1>4, AppendFacts, QueueIndex
    <3>2. i \in DOMAIN queue /\ queue[i].type = "complete"
      BY <1>4, <2>8, <3>1
    <3>3. CASE j \in DOMAIN queue
      BY <1>2, <2>8, <3>1, <3>2, <3>3 DEF Late, Cur
    <3>4. CASE j = Len(queue) + 1
      <4>1. Asked("complete")
        BY <3>2 DEF Asked
      <4>2. Cur(x)
        BY <2>1, <2>4, <4>1
      <4>3. queue'[j].work = x
        BY <1>4, <3>1, <3>4
      <4> QED BY <1>2, <4>2, <4>3 DEF Cur
    <3> QED BY <3>1, <3>3, <3>4
  <2> QED BY <2>6, <2>7, <2>8 DEF Late
<1> QED BY <1>8, <1>9, <1>10, <1>11, <1>12, <1>13, <1>14, <1>15, <1>16

-----------------------------------------------------------------------------
(* The map commit                                                             *)

\* What is asked after an event has been sent.
LEMMA AppendAsked ==
  ASSUME TypeOK, NEW e \in Events, queue' = Append(queue, e)
  PROVE  /\ \A type : Asked(type)' <=> Asked(type) \/ e.type = type
         /\ Pending' = Pending \cup {n \in Nodes : e.type = "cancel" /\ e.peer = n}
<1>1. /\ DOMAIN queue' = DOMAIN queue \cup {Len(queue) + 1} /\ queue'[Len(queue) + 1] = e
      /\ \A i \in DOMAIN queue : queue'[i] = queue[i]
  BY AppendFacts
<1>2. \A type : Asked(type)' <=> Asked(type) \/ e.type = type
  BY <1>1 DEF Asked
<1>3. Pending' = Pending \cup {n \in Nodes : e.type = "cancel" /\ e.peer = n}
  BY <1>1 DEF Pending
<1> QED BY <1>2, <1>3

\* Outside of the questions of a commit nothing is asked and the loop joins
\* nothing for it.
LEMMA NothingAsked ==
  ASSUME IInv, cpc \notin {"cancel", "servers"}
  PROVE  /\ ~Asked("cancel") /\ ~Asked("servers") /\ ~Asked("complete") /\ loop.at \notin {"cancel", "servers"}
         /\ Pending = {} /\ Purged = gone \ todo
         /\ \A i \in DOMAIN queue : queue[i].type \notin {"cancel", "servers", "complete"}
<1>1. ~Asked("cancel") /\ ~Asked("servers") /\ ~Asked("complete") /\ loop.at \notin {"cancel", "servers"}
  BY DEF IInv, Turns
<1>2. \A i \in DOMAIN queue : queue[i].type \notin {"cancel", "servers", "complete"}
  BY <1>1 DEF Asked
<1>3. Pending = {}
  BY <1>2 DEF Pending
<1> QED BY <1>1, <1>2, <1>3 DEF Purged

\* A step of the commit that leaves the manager and the generations alone.
LEMMA CommitKeeps ==
  ASSUME IInv, TypeOK', Turns', Routes', UNCHANGED <<servers, work, bySdv, awaiting, tasks, loop, gen>>,
         Purged' = Purged, Results' = Results, OneResult', cpc # "servers", cpc' # "servers", ~Asked("complete")'
  PROVE  IInv'
<1> USE DEF IInv
<1>1. Live' = Live /\ Ending' = Ending /\ OneTask'
  BY DEF Live, Ending, OneTask, Refs
<1>2. Shapes' /\ Refs'
  BY <1>1 DEF Shapes, Refs
<1>3. Works' /\ Joining'
  BY <1>1 DEF Works, Joining, Cur
<1>4. Late'
  <2>1. \A i \in DOMAIN queue' : queue'[i].type # "complete"
    BY DEF Asked
  <2>2. \A w \in Results' : Cur(w)'
    BY DEF Late, Cur
  <2>3. \A w \in Results' \ work' : w.kind = "alloc" => w.peer \in Purged'
    BY DEF Late
  <2> QED BY <2>1, <2>2, <2>3 DEF Late
<1>5. Tables'
  BY SameTables DEF Tables, Handshake, Handshakes
<1> QED BY <1>2, <1>3, <1>4, <1>5

\* set_netmap begins: endpoints of peers that left or have a new key are purged.
LEMMA BeginCommitKeeps ==
  ASSUME IInv, NEW map \in SUBSET Nodes, NEW relays \in SUBSET (map \cap Relays),
         NEW refreshed \in SUBSET {n \in map : gen[n] # 0}, BeginCommit(map, relays, refreshed)
  PROVE  IInv'
<1> USE DEF IInv
<1>1. /\ cpc = "idle" /\ commits < MaxCommits /\ commits' = commits + 1 /\ target' = map /\ offered' = relays
      /\ gone' = {n \in Nodes : gen[n] # 0 /\ n \notin map} \cup refreshed /\ todo' = gone' /\ known' = known \ gone'
      /\ relay' = [p \in Clients |-> IF p \in gone' THEN None ELSE relay[p]] /\ cpc' = "purge"
      /\ UNCHANGED <<gen, servers, work, bySdv, awaiting, tasks, loop, queue>>
  BY DEF BeginCommit
<1>2. /\ ~Asked("cancel") /\ ~Asked("servers") /\ ~Asked("complete") /\ loop.at \notin {"cancel", "servers"}
      /\ Pending = {} /\ \A i \in DOMAIN queue : queue[i].type \notin {"cancel", "servers", "complete"}
  BY <1>1, NothingAsked
<1>3. (\A type : Asked(type)' <=> Asked(type)) /\ Pending' = {} /\ Results' = Results /\ OneResult'
  BY <1>1, <1>2 DEF Asked, Pending, Results, OneResult, Refs
<1>4. Purged = {} /\ Purged' = {}
  BY <1>1, <1>2, <1>3 DEF Purged, Turns
<1>5. gone' \subseteq Nodes
  BY <1>1
<1>6. commits \in Nat /\ MaxCommits \in Nat /\ commits' \in 0..MaxCommits /\ \A n \in Nodes : gen[n] \in Nat
  BY <1>1, RelayAssumption DEF TypeOK, Generations
<1>7. TypeOK'
  <2>1. relay' \in [Clients -> Paths \cup {None}]
    BY <1>1 DEF TypeOK
  <2>2. target' \subseteq Nodes /\ offered' \subseteq target' \cap Relays /\ todo' \subseteq gone' /\ known' \subseteq Nodes
    BY <1>1 DEF TypeOK
  <2> QED BY <1>1, <1>5, <1>6, <2>1, <2>2 DEF TypeOK
<1>8. Turns'
  <2>1. \A n \in Nodes : gen[n] <= commits
    BY DEF Turns
  <2>2. \A n \in Nodes : gen'[n] < commits' /\ gen'[n] <= commits'
    BY <1>1, <1>6, <2>1
  <2>3. \A n \in Nodes : gen'[n] # 0 /\ n \notin target' => n \in gone'
    BY <1>1
  <2>4. \A i, j \in DOMAIN queue' :
          queue'[i].type \in {"cancel", "servers", "complete"} /\ queue'[j].type \in {"cancel", "servers", "complete"} => i = j
    BY <1>1, <1>2
  <2>5. \A i, j \in DOMAIN queue' : queue'[i].type = "cancel" /\ queue'[j].type = "start" => j < i
    BY <1>1, <1>2
  <2>6. \A i \in DOMAIN queue' : queue'[i].type = "cancel" => queue'[i].peer \in gone' \ todo'
    BY <1>1, <1>2
  <2> QED BY <1>1, <1>2, <1>3, <1>4, <2>2, <2>3, <2>4, <2>5, <2>6 DEF Turns
<1>9. Routes'
  <2>1. ASSUME NEW p \in Clients, relay'[p] # None
        PROVE  gen'[p] # 0 /\ p \notin gone' /\ relay'[p].sgen # 0 /\ relay'[p].sgen = servers'[relay'[p].server]
    <3>1. p \notin gone' /\ relay'[p] = relay[p]
      BY <1>1, <2>1
    <3> QED BY <1>1, <2>1, <3>1 DEF Routes
  <2>2. \A s \in Relays : servers'[s] # 0 => gen'[s] = servers'[s]
    BY <1>1, <1>2 DEF Routes
  <2> QED BY <2>1, <2>2 DEF Routes
<1> QED BY <1>1, <1>2, <1>3, <1>4, <1>7, <1>8, <1>9, CommitKeeps

\* cancel_work_and_wait
LEMMA CancelPeerKeeps ==
  ASSUME IInv, NEW n \in todo, CancelPeer(n)
  PROVE  IInv'
<1> USE DEF IInv, manager
<1> DEFINE e == [type |-> "cancel", peer |-> n]
<1>1. /\ cpc = "purge" /\ cpc' = "cancel" /\ todo' = todo \ {n} /\ queue' = Append(queue, e)
      /\ UNCHANGED <<manager, gen, gone, known, target, offered, commits>>
  BY DEF CancelPeer
<1>2. n \in gone /\ n \in Nodes
  BY <1>1 DEF TypeOK
<1>3. e \in Events /\ e.type = "cancel" /\ e.peer = n
  BY <1>2 DEF Events
<1> HIDE DEF e
<1>4. /\ ~Asked("cancel") /\ ~Asked("servers") /\ ~Asked("complete") /\ loop.at \notin {"cancel", "servers"}
      /\ Pending = {} /\ \A i \in DOMAIN queue : queue[i].type \notin {"cancel", "servers", "complete"}
  BY <1>1, NothingAsked
<1>5. (\A type : Asked(type)' <=> Asked(type) \/ "cancel" = type) /\ Pending' = {n}
  BY <1>1, <1>2, <1>3, <1>4, AppendAsked
<1>6. OneResult' /\ Results' = Results
  BY <1>1, <1>3, AppendResults DEF Refs
<1>7. Purged' = Purged
  BY <1>1, <1>4, <1>5 DEF Purged
<1>8. /\ queue' \in Seq(Events) /\ DOMAIN queue' = DOMAIN queue \cup {Len(queue) + 1}
      /\ queue'[Len(queue) + 1] = e
      /\ \A i \in DOMAIN queue : i \in Nat /\ i < Len(queue) + 1 /\ queue'[i] = queue[i]
  BY <1>1, <1>3, AppendFacts
<1>9. TypeOK'
  BY <1>1, <1>8 DEF TypeOK
<1>10. Turns'
  <2>1. \A i \in DOMAIN queue' : queue'[i].type \in {"cancel", "servers", "complete"} => i = Len(queue) + 1
    BY <1>4, <1>8
  <2>2. \A i, j \in DOMAIN queue' : queue'[i].type = "cancel" /\ queue'[j].type = "start" => j < i
    BY <1>3, <1>8, <2>1
  <2>3. \A i \in DOMAIN queue' : queue'[i].type = "cancel" => queue'[i].peer \in gone' \ todo'
    BY <1>1, <1>2, <1>3, <1>8, <2>1
  <2>4. \A i \in DOMAIN queue' : queue'[i].type = "start" => queue'[i].peer \notin Purged'
    BY <1>3, <1>7, <1>8 DEF Turns
  <2> QED BY <1>1, <1>4, <1>5, <2>1, <2>2, <2>3, <2>4 DEF Turns
<1>11. Routes'
  BY <1>1, <1>4 DEF Routes
<1> QED BY <1>1, <1>4, <1>5, <1>6, <1>7, <1>9, <1>10, <1>11, CommitKeeps

\* Endpoints and reverse maps follow the new map; and the end of a commit.
LEMMA TurnKeeps ==
  ASSUME IInv, Rebuild \/ EndCommit
  PROVE  IInv'
<1> USE DEF IInv, manager
<1>1. /\ \/ cpc = "purge" /\ cpc' = "rebuild" /\ known' = target
         \/ cpc = "start" /\ cpc' = "idle" /\ known' = known
      /\ todo = {} /\ UNCHANGED <<manager, gen, gone, target, offered, todo, commits, queue>>
  BY DEF Rebuild, EndCommit
<1>2. /\ ~Asked("cancel") /\ ~Asked("servers") /\ ~Asked("complete") /\ loop.at \notin {"cancel", "servers"}
      /\ Pending = {} /\ \A i \in DOMAIN queue : queue[i].type \notin {"cancel", "servers", "complete"}
  BY <1>1, NothingAsked
<1>3. (\A type : Asked(type)' <=> Asked(type)) /\ Purged' = Purged /\ Results' = Results /\ OneResult'
  BY <1>1 DEF Asked, Pending, Purged, Results, OneResult, Refs
<1>4. TypeOK'
  BY <1>1 DEF TypeOK
<1>5. Turns'
  BY <1>1, <1>2, <1>3 DEF Turns
<1>6. Routes'
  BY <1>1, <1>3 DEF Routes
<1> QED BY <1>1, <1>2, <1>3, <1>4, <1>5, <1>6, CommitKeeps

\* start_discovery
LEMMA StartPeerKeeps ==
  ASSUME IInv, NEW p \in todo, StartPeer(p)
  PROVE  IInv'
<1> USE DEF IInv, manager
<1> DEFINE e == [type |-> "start", peer |-> p, pgen |-> gen[p]]
<1>1. /\ cpc = "start" /\ todo' = todo \ {p} /\ queue' = Append(queue, e)
      /\ UNCHANGED <<manager, gen, gone, known, cpc, target, offered, commits>>
  BY DEF StartPeer
<1>2. p \in Clients /\ gen[p] \in Generations /\ gone = {}
  BY <1>1, RelayAssumption DEF TypeOK, Turns
<1>3. e \in Events /\ e.type = "start"
  BY <1>2 DEF Events
<1> HIDE DEF e
<1>4. /\ ~Asked("cancel") /\ ~Asked("servers") /\ ~Asked("complete") /\ loop.at \notin {"cancel", "servers"}
      /\ Pending = {} /\ \A i \in DOMAIN queue : queue[i].type \notin {"cancel", "servers", "complete"}
  BY <1>1, NothingAsked
<1>5. \A type : Asked(type)' <=> Asked(type) \/ "start" = type
  BY <1>1, <1>3, AppendAsked
<1>6. OneResult' /\ Results' = Results
  BY <1>1, <1>3, AppendResults DEF Refs
<1>7. Purged = {} /\ Purged' = {}
  BY <1>1, <1>2 DEF Purged
<1>8. /\ queue' \in Seq(Events) /\ DOMAIN queue' = DOMAIN queue \cup {Len(queue) + 1}
      /\ queue'[Len(queue) + 1] = e /\ \A i \in DOMAIN queue : queue'[i] = queue[i]
  BY <1>1, <1>3, AppendFacts
<1>9. TypeOK'
  BY <1>1, <1>8 DEF TypeOK
<1>10. \A i \in DOMAIN queue' : queue'[i].type \notin {"cancel", "servers", "complete"}
  BY <1>3, <1>4, <1>8
<1>11. Turns'
  BY <1>1, <1>2, <1>4, <1>5, <1>7, <1>10 DEF Turns
<1>12. Routes'
  BY <1>1, <1>4 DEF Routes
<1> QED BY <1>1, <1>4, <1>5, <1>6, <1>7, <1>9, <1>11, <1>12, CommitKeeps

\* PeerAuthorization::reconcile: the nodes that were not purged keep their
\* generation, the others get none or one that nothing refers to.
LEMMA ReconcileKeeps ==
  ASSUME IInv, Reconcile
  PROVE  IInv'
<1> USE DEF IInv, manager
<1> DEFINE e == [type |-> "servers", servers |-> [s \in Relays |-> IF s \in offered THEN gen'[s] ELSE 0]]
<1>1. /\ cpc = "rebuild" /\ cpc' = "servers" /\ gone' = {} /\ queue' = Append(queue, e)
      /\ gen' = [n \in Nodes |-> IF n \notin target THEN 0 ELSE IF n \in gone \/ gen[n] = 0 THEN commits ELSE gen[n]]
      /\ UNCHANGED <<manager, known, target, offered, todo, commits>>
  BY DEF Reconcile
<1>2. commits \in Generations /\ 0 \in Generations /\ gen \in [Nodes -> Generations] /\ gen' \in [Nodes -> Generations]
  BY <1>1, RelayAssumption DEF TypeOK, Generations
<1>3. e \in Events /\ e.type = "servers"
  <2>1. \A s \in Relays : (IF s \in offered THEN gen'[s] ELSE 0) \in Generations
    BY <1>2, RelayAssumption
  <2> QED BY <2>1 DEF Events
<1> HIDE DEF e
<1>4. /\ ~Asked("cancel") /\ ~Asked("servers") /\ ~Asked("complete") /\ loop.at \notin {"cancel", "servers"}
      /\ Pending = {} /\ Purged = gone \ todo
      /\ \A i \in DOMAIN queue : queue[i].type \notin {"cancel", "servers", "complete"}
  BY <1>1, NothingAsked
<1>5. \A type : Asked(type)' <=> Asked(type) \/ "servers" = type
  BY <1>1, <1>3, AppendAsked
<1>6. OneResult' /\ Results' = Results
  BY <1>1, <1>3, AppendResults DEF Refs
<1>7. Purged = gone /\ Purged' = {} /\ todo = {}
  BY <1>1, <1>4 DEF Purged, Turns
<1>8. /\ queue' \in Seq(Events) /\ DOMAIN queue' = DOMAIN queue \cup {Len(queue) + 1}
      /\ queue'[Len(queue) + 1] = e /\ \A i \in DOMAIN queue : queue'[i] = queue[i]
  BY <1>1, <1>3, AppendFacts
<1>9. \A n \in Nodes : /\ gen[n] # 0 /\ n \notin gone => gen'[n] = gen[n]
                       /\ gen[n] # 0 /\ n \in gone => gen'[n] # gen[n]
                       /\ gen'[n] <= commits
  <2> SUFFICES ASSUME NEW n \in Nodes
               PROVE  /\ gen[n] # 0 /\ n \notin gone => gen'[n] = gen[n]
                      /\ gen[n] # 0 /\ n \in gone => gen'[n] # gen[n]
                      /\ gen'[n] <= commits
    OBVIOUS
  <2>1. gen[n] < commits /\ (gen[n] # 0 /\ n \notin target => n \in gone) /\ commits \in Nat /\ gen[n] \in Nat
    BY <1>1, <1>2 DEF Turns, Generations
  <2>2. gen'[n] = IF n \notin target THEN 0 ELSE IF n \in gone \/ gen[n] = 0 THEN commits ELSE gen[n]
    BY <1>1
  <2> QED BY <2>1, <2>2
<1>10. TypeOK'
  BY <1>1, <1>2, <1>7, <1>8 DEF TypeOK
<1>11. Turns'
  <2>1. \A i \in DOMAIN queue' : queue'[i].type \in {"cancel", "servers", "complete"} =>
          i = Len(queue) + 1 /\ queue'[i].type = "servers"
    BY <1>3, <1>4, <1>8
  <2> QED BY <1>1, <1>4, <1>5, <1>7, <1>9, <2>1 DEF Turns
<1>12. Live' = Live /\ Ending' = Ending /\ OneTask'
  BY <1>1 DEF Live, Ending, OneTask, Refs
<1>13. Shapes' /\ Refs'
  BY <1>1, <1>6, <1>12 DEF Shapes, Refs
<1>14. \A w \in Work : w.pgen # 0 /\ Cur(w) /\ w.peer \notin gone => Cur(w)'
  BY <1>1, <1>9, WorkFields DEF Cur
<1>15. Works'
  <2>1. \A w \in work : w \in Work /\ w.pgen # 0 /\ Cur(w) /\ w.peer \notin gone
    BY <1>7, AllWork DEF Works, Shapes
  <2> QED BY <1>1, <1>7, <1>14, <2>1 DEF Works
<1>16. Joining'
  <2>1. loop \in Loops
    BY DEF TypeOK
  <2>2. ASSUME loop.at \in {"replace", "spawn"}
        PROVE  loop.pgen = gen'[loop.peer] /\ \A w \in Ending : w.kind = "handshake" /\ Cur(w)'
    <3>1. loop.peer \in Nodes /\ loop.pgen = gen[loop.peer] /\ loop.pgen # 0 /\ loop.peer \notin gone
      BY <1>7, <2>1, <2>2, LoopFields, RelayAssumption DEF Joining
    <3>2. \A w \in Ending : w \in Work /\ w.pgen # 0 /\ w.kind = "handshake" /\ Cur(w) /\ w.peer \notin gone
      BY <1>7, <2>2, AllWork DEF Joining, Shapes
    <3> QED BY <1>9, <1>14, <3>1, <3>2
  <2> QED BY <1>1, <1>4, <1>7, <1>12, <2>2 DEF Joining
<1>17. Late'
  <2>1. \A i \in DOMAIN queue' : queue'[i].type # "complete"
    BY <1>3, <1>4, <1>8
  <2>2. ASSUME NEW w \in Results' \ work', w.kind = "alloc" PROVE w.pgen # gen'[w.peer]
    <3>1. w \in Results /\ w \notin work /\ w \in Work /\ w.peer \in Nodes
      BY <1>1, <1>6, AllWork, WorkFields
    <3>2. Cur(w) /\ w.peer \in gone /\ w.pgen # 0
      BY <1>1, <1>7, <2>2, <3>1 DEF Late, Shapes
    <3> QED BY <1>9, <3>1, <3>2 DEF Cur
  <2> QED BY <1>1, <2>1, <2>2 DEF Late
<1>18. Routes'
  <2>1. \A p \in Clients : relay[p] # None => p \in Nodes /\ gen[p] # 0 /\ p \notin gone
    BY RelayAssumption DEF Routes
  <2>2. \A p \in Clients : relay[p] # None => gen'[p] # 0
    BY <1>9, <2>1
  <2> QED BY <1>1, <1>5, <2>2 DEF Routes
<1>19. Tables'
  BY <1>1, SameTables DEF Tables, Handshake, Handshakes
<1> QED BY <1>10, <1>11, <1>13, <1>15, <1>16, <1>17, <1>18, <1>19

-----------------------------------------------------------------------------
(* The invariant and what follows from it                                     *)

\* At the start there is no work and no commit.
LEMMA IInvInit == Init => IInv
<1> SUFFICES ASSUME Init PROVE IInv
  OBVIOUS
<1> USE DEF Init
<1>1. TypeOK
  <2>1. 0 \in Generations /\ loop \in Loops /\ queue \in Seq(Events)
    BY RelayAssumption DEF Generations, Loops, Idle
  <2> QED BY <2>1, RelayAssumption DEF TypeOK, Generations
<1>2. Live = {} /\ Ending = {} /\ Results = {} /\ DOMAIN queue = {} /\ loop.at = "idle"
  BY DEF Live, Ending, Results, Idle
<1>3. Turns
  BY <1>2 DEF Turns, Asked
<1>4. Shapes /\ Refs /\ Works
  BY <1>2 DEF Shapes, Refs, Works, OneTask, OneResult
<1>5. Joining /\ Late
  BY <1>2 DEF Joining, Late
<1>6. Routes
  BY <1>2 DEF Routes
<1>7. Tables
  <2>1. \A s \in Relays, v \in Vnis : bySdv[<<s, v>>] = None /\ awaiting[<<s, v>>] = None
    OBVIOUS
  <2>2. PairTables
    BY <2>1, RelayAssumption DEF PairTables
  <2> QED BY <1>2, <2>2, PairForm DEF Tables
<1> QED BY <1>1, <1>3, <1>4, <1>5, <1>6, <1>7 DEF IInv

\* Nothing changes.
LEMMA StutterKeeps ==
  ASSUME IInv, UNCHANGED vars
  PROVE  IInv'
<1>1. UNCHANGED <<relay, servers, work, bySdv, awaiting, tasks, loop, queue, commit>>
  BY DEF vars, manager
<1>2. tasks' \subseteq Tasks /\ OneTask' /\ Live' = Live /\ Ending' = Ending
  BY <1>1 DEF IInv, TypeOK, Refs, OneTask, Live, Ending
<1>3. awaiting' \in [Relays \X Vnis -> Clients \cup {None}] /\ TablesAgree'
  BY <1>1, SameTables DEF IInv, TypeOK, Tables
<1> QED BY <1>1, <1>2, <1>3, NotedKeeps

\* Every step of the loop, the network, the tasks and the commit keeps it.
LEMMA IInvKept == IInv /\ [Next]_vars => IInv'
<1> SUFFICES ASSUME IInv, [Next]_vars PROVE IInv'
  OBVIOUS
<1>1. CASE LoopStep
  BY <1>1, StartDiscoveryKeeps, CancelWorkKeeps, CancelDoneKeeps, ServersUpdateKeeps, ServersJoinedKeeps,
     ServersUpdateCompleteKeeps, ReplaceKeeps, SpawnHandshakeKeeps, AllocWorkDoneKeeps, HandshakeWorkDoneKeeps
     DEF LoopStep
<1>2. CASE Message
  BY <1>2, AllocResponseKeeps, CallMeMaybeViaKeeps, ChallengeKeeps, RelayedKeeps DEF Message
<1>3. CASE \E t \in tasks : Finish(t) \/ Cancelled(t)
  BY <1>3, FinishKeeps, CancelledKeeps
<1>4. CASE \E map \in SUBSET Nodes :
             \E relays \in SUBSET (map \cap Relays), refreshed \in SUBSET {n \in map : gen[n] # 0} :
               BeginCommit(map, relays, refreshed)
  BY <1>4, BeginCommitKeeps
<1>5. CASE CommitStep
  BY <1>5, TurnKeeps, ReconcileKeeps, CancelPeerKeeps, StartPeerKeeps DEF CommitStep
<1>6. CASE UNCHANGED vars
  BY <1>6, StutterKeeps
<1> QED BY <1>1, <1>2, <1>3, <1>4, <1>5, <1>6 DEF Next

\* The loop, its tasks, the network and map commits keep the invariant.
THEOREM Invariance == Spec => []IInv
  BY IInvInit, IInvKept, PTL DEF Spec

\* Work, tasks, events and paths have their types in every reachable state.
THEOREM TypeCorrect == Spec => []TypeOK
<1>1. IInv => TypeOK
  BY DEF IInv
<1> QED BY <1>1, Invariance, PTL

\* handshake_work, handshake_by_sdv and handshake_awaiting_pong never disagree.
THEOREM TablesConsistent == Spec => []TablesAgree
<1>1. IInv => TablesAgree
  BY DEF IInv, Tables
<1> QED BY <1>1, Invariance, PTL

\* No entry of the work tables is left without a task or a result to come, so
\* no peer is skipped for good by StartDiscovery.
THEOREM WorkIsDriven == Spec => []NoStuckWork
<1>1. IInv => NoStuckWork
  BY DEF IInv, Refs, Live, Results, NoStuckWork
<1> QED BY <1>1, Invariance, PTL

\* handle_alloc_work_done takes a result for the allocation that produced it,
\* although it does not compare the allocation's generation.
THEOREM CompletionsAreOwn == Spec => []OwnCompletion
<1>1. ASSUME IInv PROVE OwnCompletion
  <2> SUFFICES ASSUME NEW i \in DOMAIN queue, queue[i].type = "done", queue[i].work.kind = "alloc",
                      NEW w \in work, w = [queue[i].work EXCEPT !.id = w.id]
               PROVE  w = queue[i].work
    BY DEF OwnCompletion
  <2> DEFINE x == queue[i].work
  <2>1. x \in Results /\ x \in Work
    BY <1>1, AllWork DEF Results, IInv
  <2>2. w.kind = x.kind /\ w.peer = x.peer /\ w.server = x.server /\ w.sgen = x.sgen /\ w.pgen = x.pgen
    <3>1. w = [x EXCEPT !.id = w.id]
      OBVIOUS
    <3> HIDE DEF x
    <3> QED BY <2>1, <3>1 DEF Work
  <2> QED BY <1>1, <2>1, <2>2, OwnResult
<1> QED BY <1>1, Invariance, PTL

\* Once set_netmap has heard the loop's acknowledgement, all work, relay paths
\* and completions to come are of the map it committed.
THEOREM CommitIsCurrent == Spec => []CommittedWorkIsCurrent
<1>1. ASSUME IInv PROVE CommittedWorkIsCurrent
  <2> SUFFICES ASSUME Committed PROVE CommittedWorkIsCurrent
    BY DEF CommittedWorkIsCurrent
  <2>1. cpc \in {"start", "idle"} /\ ~Asked("servers")
    BY <1>1, NothingAsked DEF Committed
  <2>2. \A s \in Relays : servers[s] # 0 => gen[s] = servers[s]
    BY <1>1, <2>1 DEF IInv, Routes
  <2>3. \A w \in work : Authorized(w.peer, w.pgen) /\ servers[w.server] = w.sgen /\ Authorized(w.server, w.sgen)
    <3> SUFFICES ASSUME NEW w \in work
                 PROVE  Authorized(w.peer, w.pgen) /\ servers[w.server] = w.sgen /\ Authorized(w.server, w.sgen)
      OBVIOUS
    <3>1. w.server \in Relays
      BY <1>1, AllWork, WorkFields DEF IInv
    <3>2. w.pgen # 0 /\ w.sgen # 0 /\ gen[w.peer] = w.pgen /\ servers[w.server] = w.sgen
      BY <1>1 DEF IInv, Shapes, Works, Cur
    <3> QED BY <2>2, <3>1, <3>2 DEF Authorized
  <2>4. ASSUME NEW p \in Clients, relay[p] # None
        PROVE  gen[p] # 0 /\ servers[relay[p].server] = relay[p].sgen /\ Authorized(relay[p].server, relay[p].sgen)
    <3>1. relay[p].server \in Relays
      BY <1>1, <2>4 DEF IInv, TypeOK, Paths
    <3>2. gen[p] # 0 /\ relay[p].sgen # 0 /\ relay[p].sgen = servers[relay[p].server]
      BY <1>1, <2>4 DEF IInv, Routes
    <3> QED BY <2>2, <3>1, <3>2 DEF Authorized
  <2>5. \A i \in DOMAIN queue : queue[i].type = "done" =>
          gen[queue[i].work.peer] = queue[i].work.pgen /\ servers[queue[i].work.server] = queue[i].work.sgen
    BY <1>1, <2>1 DEF IInv, Late, Results, Cur
  <2> QED BY <2>3, <2>4, <2>5 DEF CommittedWorkIsCurrent
<1> QED BY <1>1, Invariance, PTL
=============================================================================
