-------------------------- MODULE PortMapperProofs --------------------------
(***************************************************************************)
(* Proofs about PortMapper, for any gateways, protocols, services, ports   *)
(* and bounds.                                                             *)
(***************************************************************************)
EXTENDS PortMapper, FiniteSetTheorems, TLAPS

\* The steps of a flight: it holds an entry of the ledger, it is past the gate
\* of release_incompatible_mapping, it has waited for the releases, it has a
\* snapshot, it has the local port.
Owning == {"send", "sent", "commit", "compensate"}
Passed == Owning \cup {"push", "retry", "add", "add_permanent"}
AfterSettle == Passed \cup {"gate", "taken", "services", "next_service"}
Observed == AfterSettle \cup {"p_reset", "p_see", "fast", "settle"}
Ported == \/ flight.pc \in AfterSettle \cup {"settle"}
          \/ flight.pc \in {"p_reset", "p_see"} /\ flight.back = "settle"
SameGen == flight.snap.gen = st.gen

\* Who waits for a lookup has one.
Looking ==
  /\ reader.pc = "lookup" => lookups["reader"] # None
  /\ prober.pc = "lookup" => lookups["prober"] # None
  /\ flight.pc = "lookup" => lookups["flight"] # None

\* An ownership number names one entry; the entry a flight holds, and the cached
\* one, are of no release task.
Owns ==
  /\ \A e \in Entries : e.own < nextOwn
  /\ \A t \in releases : t.e.own < nextOwn
  /\ \A e, f \in st.ledger : e.own = f.own => e = f
  /\ st.mapping # None => /\ \A e \in st.ledger : e.own # st.mapping.e.own
                          /\ \A t \in releases : t.e.own # st.mapping.e.own
  /\ \A t \in releases : \A e \in st.ledger : e.own = t.e.own => e = t.e
  /\ flight.pc \in Owning => /\ flight.cand \in st.ledger
                             /\ \A t \in releases : t.e.own # flight.cand.own
  /\ sh.pc = "ledger" => \A f \in sh.left : \A e \in st.ledger : e.own = f.own => e = f

\* A mapping at a gateway is covered by the entry that made it.
Covered ==
  \A g \in Gateways : \A r \in nat[g] : \E e \in Entries : e.own = r.by /\ e.gw = g /\ Hits(e, r)
Unsent ==
  flight.pc \in {"send", "sent"} => \A g \in Gateways : \A r \in nat[g] : r.by # flight.cand.own

\* What a flight knows is the state of its generation.
Context ==
  /\ flight.pc \in Observed =>
       /\ flight.snap.gw \in Gateways /\ flight.snap.gen <= st.gen
       /\ SameGen => flight.snap.gw = st.gateway
  /\ Ported => flight.iport \in LocalPorts /\ (SameGen => flight.iport = st.port)
  /\ flight.pc \in Owning => /\ flight.cand.kind = flight.kind /\ flight.cand.gw = flight.snap.gw
                             /\ flight.cand.iport = flight.iport /\ flight.cand.gen = flight.snap.gen
  /\ flight.pc = "push" => flight.kind # "upnp"
  /\ flight.pc \in {"sent", "add_permanent"} =>
       /\ flight.cand \in Ownerships
       /\ flight.prev # 0 => flight.cand.port = flight.prev
       /\ flight.cand.kind = "upnp" \/ flight.cand.lease = "finite" => flight.cand.port \in Ports
  /\ flight.pc \in {"commit", "add_permanent"} => flight.cand.port \in Ports
  /\ flight.pc = "send" => /\ flight.prev # 0 => flight.cand.port = flight.prev
                           /\ flight.cand.kind # "upnp" /\ flight.cand.lease = "unknown"
  /\ flight.pc \in {"p_reset", "p_see"} => flight.back # "idle"

\* Past the settling, what is left in the ledger is of the flight's generation
\* when there is a mapping to renew, and past the gate in any case; the mapping
\* that will be replaced has no record of its own left when the new one commits.
Settled ==
  flight.pc \in AfterSettle /\ SameGen =>
    /\ \A t \in releases : t.e.gen = st.gen
    /\ st.mapping # None => st.mapping.e.port = flight.prev
    /\ flight.prev # 0 \/ flight.pc \in Passed => \A e \in st.ledger : e.gen = st.gen
    /\ flight.pc \in Passed /\ st.mapping # None => st.mapping.e.kind = flight.kind
    /\ flight.pc = "commit" /\ st.mapping # None =>
         \A g \in Gateways : \A r \in nat[g] : r.by # st.mapping.e.own

\* The cached mapping is of this generation, and so is all that is retained
\* while there is one.
MapGen ==
  st.mapping # None =>
    /\ st.mapping.e.gen = st.gen /\ st.mapping.e.gw = st.gateway /\ st.mapping.e.iport = st.port
    /\ st.mapping.e.port \in Ports
    /\ \A e \in st.ledger : e.gen = st.gen
    /\ \A t \in releases : t.e.gen = st.gen

\* What shutdown has reached, step by step.
Stopping ==
  /\ sh.pc # "idle" => closing
  /\ closing /\ sh.pc \notin {"closed", "invalidate"} => st.mapping = None
  /\ sh.pc \in {"join_releases", "pending", "ledger", "gate", "done"} => WorkDone /\ permits = {}
  /\ sh.pc \in {"pending", "ledger", "gate", "done"} => releases = {}
  /\ sh.pc \in {"ledger", "gate"} => pending = 0
  /\ sh.pc = "done" /\ sh.result \in {"ok", "unconfirmed"} => pending = 0 /\ terminal
  /\ sh.pc = "done" /\ sh.result = "ok" => st.ledger = {}

Books == Owns /\ Covered /\ MapGen
Journey == Unsent /\ Context /\ Settled

IInv == TypeOK /\ Looking /\ Books /\ Journey /\ Stopping

-----------------------------------------------------------------------------
(* Types                                                                      *)

LEMMA ForgetFacts ==
  ASSUME NEW s \in States, NEW own
  PROVE  /\ Forget(s, own) \in States
         /\ Forget(s, own).ledger = {e \in s.ledger : e.own # own}
         /\ Forget(s, own).mapping = s.mapping /\ Forget(s, own).gen = s.gen
         /\ Forget(s, own).gateway = s.gateway /\ Forget(s, own).port = s.port
BY DEF Forget, States

\* A reservation hands the old mapping over to the ledger and to a task.
LEMMA ReserveFacts ==
  ASSUME ReleasesCounted, NEW s \in States, NEW old \in Mappings \cup {None}, Reserve(s, old)
  PROVE  /\ st' \in States /\ ReleasesCounted'
         /\ st'.mapping = s.mapping /\ st'.gen = s.gen /\ st'.gateway = s.gateway /\ st'.port = s.port
         /\ st'.ledger = IF old = None \/ Owned(s, old.e.own) THEN s.ledger ELSE s.ledger \cup {old.e}
         /\ releases' = IF old = None THEN releases ELSE releases \cup {[e |-> old.e, pc |-> "new"]}
         /\ old = None => pending' = pending
<1>1. CASE old = None
  BY <1>1 DEF Reserve, ReleasesCounted
<1>2. CASE old # None
  <2> DEFINE x == [e |-> old.e, pc |-> "new"]
  <2>1. old \in Mappings /\ old.e \in Ownerships
    BY <1>2 DEF Mappings
  <2>2. releases' = releases \cup {x} /\ pending' = pending + 1
    BY <1>2 DEF Reserve
  <2>3. ReleasesCounted'
    <3>1. x \in [e : Ownerships, pc : {"new", "polled", "over"}]
      BY <2>1
    <3> HIDE DEF x
    <3>2. /\ IsFiniteSet(releases \cup {x}) /\ Cardinality(releases \cup {x}) <= Cardinality(releases) + 1
          /\ Cardinality(releases) \in Nat /\ Cardinality(releases \cup {x}) \in Nat
      <4>1. IsFiniteSet(releases)
        BY DEF ReleasesCounted
      <4>2. /\ IsFiniteSet(releases \cup {x})
            /\ Cardinality(releases \cup {x}) = IF x \in releases THEN Cardinality(releases) ELSE Cardinality(releases) + 1
        BY <4>1, FS_AddElement
      <4>3. Cardinality(releases) \in Nat
        BY <4>1, FS_CardinalityType
      <4> QED BY <4>2, <4>3
    <3> QED BY <2>2, <3>1, <3>2 DEF ReleasesCounted
  <2>4. CASE Owned(s, old.e.own)
    BY <1>2, <2>2, <2>3, <2>4 DEF Reserve
  <2>5. CASE ~Owned(s, old.e.own)
    <3>1. st' = [s EXCEPT !.ledger = @ \cup {old.e}]
      BY <1>2, <2>5 DEF Reserve
    <3>2. /\ st' \in States /\ st'.ledger = s.ledger \cup {old.e} /\ st'.mapping = s.mapping
          /\ st'.gen = s.gen /\ st'.gateway = s.gateway /\ st'.port = s.port
      BY <2>1, <3>1 DEF States
    <3> QED BY <1>2, <2>2, <2>3, <2>5, <3>2
  <2> QED BY <2>4, <2>5
<1> QED BY <1>1, <1>2

\* The cached mapping has become an entry and a release task; in a new
\* generation, it may be.
HandedOver ==
  /\ st' \in States /\ ReleasesCounted'
  /\ st'.mapping = None /\ st'.ledger = Entries
  /\ releases' = IF st.mapping = None THEN releases ELSE releases \cup {[e |-> st.mapping.e, pc |-> "new"]}
  /\ st.mapping = None => pending' = pending
NewGeneration == HandedOver /\ st'.gen = st.gen + 1

LEMMA InvalidateFacts ==
  ASSUME TypeOK, Owns, NEW s \in States, Invalidate(s),
         s.mapping = st.mapping, s.gen = st.gen, s.ledger = st.ledger
  PROVE  NewGeneration /\ st'.gateway = s.gateway /\ st'.port = s.port
<1> DEFINE z == [Reset(s) EXCEPT !.gen = @ + 1, !.needsProbe = (s.gateway # None)]
<1>1. /\ z \in States /\ z.mapping = None /\ z.gen = st.gen + 1 /\ z.ledger = st.ledger
      /\ z.gateway = s.gateway /\ z.port = s.port
  <2> DEFINE r == Reset(s)
  <2>1. /\ r \in States /\ r.mapping = None /\ r.gen = st.gen /\ r.ledger = st.ledger
        /\ r.gateway = s.gateway /\ r.port = s.port
    BY DEF Reset, States
  <2>2. z = [r EXCEPT !.gen = r.gen + 1, !.needsProbe = (s.gateway # None)]
    BY DEF Reset, States
  <2> HIDE DEF r, z
  <2>3. PICK b \in BOOLEAN : z = [r EXCEPT !.gen = r.gen + 1, !.needsProbe = b]
    BY <2>2
  <2>4. r.gen + 1 \in Nat
    BY <2>1 DEF TypeOK, StateOK, States
  <2> QED BY <2>1, <2>3, <2>4 DEF States
<1>2. Reserve(z, s.mapping)
  BY DEF Invalidate
<1>3. s.mapping \in Mappings \cup {None}
  BY DEF States
<1> HIDE DEF z
<1>4. /\ st' \in States /\ ReleasesCounted'
      /\ st'.mapping = None /\ st'.gen = st.gen + 1 /\ st'.gateway = s.gateway /\ st'.port = s.port
      /\ st'.ledger = IF st.mapping = None \/ Owned(z, st.mapping.e.own) THEN st.ledger ELSE st.ledger \cup {st.mapping.e}
      /\ releases' = IF st.mapping = None THEN releases ELSE releases \cup {[e |-> st.mapping.e, pc |-> "new"]}
      /\ st.mapping = None => pending' = pending
  BY <1>1, <1>2, <1>3, ReserveFacts DEF TypeOK
<1>5. st.mapping # None => ~Owned(z, st.mapping.e.own)
  BY <1>1 DEF Owned, Owns
<1> QED BY <1>4, <1>5 DEF NewGeneration, HandedOver, Entries

LEMMA LookupsEndTypes ==
  ASSUME TypeOK, NEW ws \in SUBSET Lookers, NEW passed, LookupsEnd(ws, passed)
  PROVE  /\ lookups' \in [Lookers -> Observations \cup {None}]
         /\ \A w \in Lookers \ ws : lookups[w] # None => lookups'[w] # None
<1> SUFFICES ASSUME NEW w \in Lookers \ ws, lookups[w] # None
             PROVE  lookups'[w] \in Observations
  <2>1. /\ lookups' = [w \in Lookers |-> lookups'[w]]
        /\ \A w \in Lookers : w \in ws \/ lookups[w] = None => lookups'[w] = None
    BY DEF LookupsEnd
  <2> QED BY <2>1, PortMapperAssumption
<1>1. lookups[w] \in Observations
  BY DEF TypeOK, StateOK
<1>2. lookups'[w] = [lookups[w] EXCEPT !.stale = @ \/ w \in passed, !.older = @ \ ws]
  BY DEF LookupsEnd
<1> QED BY <1>1, <1>2 DEF Observations

\* observe_gateway leaves all as it is, or starts a generation at the gateway.
LEMMA ObserveFacts ==
  ASSUME TypeOK, Owns, NEW who \in Lookers, lookups[who] # None, Observe(who)
  PROVE  /\ lookups' \in [Lookers -> Observations \cup {None}]
         /\ \A w \in Lookers \ {who} : lookups[w] # None => lookups'[w] # None
         /\ \/ UNCHANGED <<st, pending, releases>>
            \/ NewGeneration /\ st'.port = st.port
<1>1. lookups[who] \in Observations
  BY DEF TypeOK, StateOK
<1>2. /\ lookups' \in [Lookers -> Observations \cup {None}]
      /\ \A w \in Lookers \ {who} : lookups[w] # None => lookups'[w] # None
  BY LookupsEndTypes DEF Observe
<1>3. CASE UNCHANGED <<st, pending, releases>>
  BY <1>2, <1>3
<1>4. CASE Invalidate([st EXCEPT !.gateway = lookups[who].gw])
  <2> DEFINE s == [st EXCEPT !.gateway = lookups[who].gw]
  <2>1. s \in States /\ s.mapping = st.mapping /\ s.gen = st.gen /\ s.ledger = st.ledger /\ s.port = st.port
    BY <1>1 DEF Observations, States, TypeOK, StateOK
  <2>2. Invalidate(s)
    BY <1>4
  <2> HIDE DEF s
  <2> QED BY <1>2, <2>1, <2>2, InvalidateFacts
<1> QED BY <1>3, <1>4 DEF Observe

-----------------------------------------------------------------------------
(* Steps that leave the ledger, the cached entry and the gateways alone       *)

SameBooks ==
  /\ nat' = nat /\ releases' = releases /\ nextOwn' = nextOwn
  /\ st'.ledger = st.ledger /\ st'.gen = st.gen /\ st'.gateway = st.gateway /\ st'.port = st.port
  /\ st.mapping = None => st'.mapping = None
  /\ st.mapping # None => st'.mapping # None /\ st'.mapping.e = st.mapping.e

\* Shutdown works off a list that only shrinks.
LeftShrinks == sh'.pc = "ledger" => sh.pc = "ledger" /\ sh'.left \subseteq sh.left

LEMMA SameEntries == ASSUME SameBooks PROVE Entries' = Entries
BY DEF SameBooks, Entries

LEMMA SameBooksKeep ==
  ASSUME Books, SameBooks, LeftShrinks, flight'.pc \in Owning => flight.pc \in Owning /\ flight'.cand = flight.cand
  PROVE  Books'
<1>1. Owns'
  BY SameEntries DEF Books, Owns, SameBooks, LeftShrinks
<1>2. Covered'
  BY SameEntries DEF Books, Covered, SameBooks, Hits
<1>3. MapGen'
  BY DEF Books, MapGen, SameBooks
<1> QED BY <1>1, <1>2, <1>3 DEF Books

LEMMA SameJourney ==
  ASSUME Journey, SameBooks, flight' = flight
  PROVE  Journey'
<1>1. Unsent'
  BY DEF Journey, Unsent, SameBooks
<1>2. Context'
  BY DEF Journey, Context, SameBooks, SameGen, Ported
<1>3. Settled'
  BY DEF Journey, Settled, SameBooks, SameGen
<1> QED BY <1>1, <1>2, <1>3 DEF Journey

LEMMA NoJourney ==
  ASSUME flight'.pc \in {"idle", "lookup"}
  PROVE  Journey'
BY DEF Journey, Unsent, Context, Settled, Ported, Owning, Passed, AfterSettle, Observed

LEMMA HandedOverBooks ==
  ASSUME Books, TypeOK, HandedOver, UNCHANGED <<nat, nextOwn>>, LeftShrinks,
         sh.pc = "ledger" => st.mapping = None,
         flight'.pc \in Owning => flight.pc \in Owning /\ flight'.cand = flight.cand
  PROVE  Books' /\ Entries' = Entries
<1>1. Entries' = Entries
  BY DEF HandedOver, Entries
<1>2. Covered'
  BY <1>1 DEF Books, Covered, Hits
<1>3. MapGen'
  BY DEF MapGen, HandedOver
<1>4. CASE st.mapping = None
  <2>1. st'.ledger = st.ledger /\ releases' = releases /\ st'.mapping = None
    BY <1>4 DEF HandedOver, Entries
  <2>2. Owns'
    BY <1>1, <1>4, <2>1 DEF Books, Owns, LeftShrinks
  <2> QED BY <1>1, <1>2, <1>3, <2>2 DEF Books
<1>5. CASE st.mapping # None
  <2> DEFINE m == st.mapping.e
  <2>1. st'.ledger = st.ledger \cup {m} /\ releases' = releases \cup {[e |-> m, pc |-> "new"]} /\ st'.mapping = None
    BY <1>5 DEF HandedOver, Entries
  <2>2. m \in Entries /\ st.ledger \subseteq Entries
    BY <1>5 DEF Entries
  <2>3. \A t \in releases' : t \in releases \/ t.e = m
    BY <2>1
  <2> HIDE DEF m
  <2>4. \A e \in st.ledger : e.own # m.own
    BY <1>5 DEF Books, Owns, m
  <2>5. \A t \in releases : t.e.own # m.own
    BY <1>5 DEF Books, Owns, m
  <2>6. Owns'
    <3>1. sh'.pc # "ledger"
      BY <1>5 DEF LeftShrinks
    <3>2. flight'.pc \in Owning => /\ flight'.cand \in st'.ledger
                                   /\ \A t \in releases' : t.e.own # flight'.cand.own
      BY <2>1, <2>3, <2>4 DEF Books, Owns
    <3>3. \A e, f \in st'.ledger : e.own = f.own => e = f
      BY <2>1, <2>4 DEF Books, Owns
    <3>4. \A t \in releases' : \A e \in st'.ledger : e.own = t.e.own => e = t.e
      BY <2>1, <2>3, <2>4, <2>5 DEF Books, Owns
    <3>5. \A t \in releases' : t.e.own < nextOwn'
      BY <2>2, <2>3 DEF Books, Owns
    <3> QED BY <1>1, <2>1, <3>1, <3>2, <3>3, <3>4, <3>5 DEF Books, Owns
  <2> QED BY <1>1, <1>2, <1>3, <2>6 DEF Books
<1> QED BY <1>4, <1>5

\* A new generation leaves a flight behind that will find its snapshot stale.
LEMMA NewGenerationJourney ==
  ASSUME Journey, TypeOK, NewGeneration, UNCHANGED <<nat, flight>>
  PROVE  Journey'
<1>1. Unsent'
  BY DEF Journey, Unsent
<1>2. st.gen \in Nat /\ flight.snap.gen \in Nat
  BY DEF TypeOK, StateOK, States, Flights, Snaps
<1>3. flight.pc \in Observed => st'.gen # flight.snap.gen /\ flight.snap.gen <= st'.gen
  BY <1>2 DEF NewGeneration, Journey, Context
<1>4. AfterSettle \cup {"settle", "p_reset", "p_see"} \subseteq Observed
  BY DEF Observed
<1>5. Settled'
  BY <1>3, <1>4 DEF Settled, SameGen
<1>6. Context'
  BY <1>3, <1>4 DEF Journey, Context, SameGen, Ported
<1> QED BY <1>1, <1>5, <1>6 DEF Journey

-----------------------------------------------------------------------------
(* The environment and the callers                                            *)

LEMMA GatewayChangesKeeps ==
  ASSUME IInv, NEW g \in Gateways \cup {None}, GatewayChanges(g)
  PROVE  IInv'
<1> USE DEF IInv, GatewayChanges, Event, gate, tasks
<1>1. TypeOK'
  BY DEF TypeOK, StateOK, ReleasesCounted
<1>2. Looking' /\ Stopping'
  BY DEF Looking, Stopping, WorkDone
<1>3. SameBooks /\ LeftShrinks
  BY DEF SameBooks, LeftShrinks
<1> QED BY <1>1, <1>2, <1>3, SameBooksKeep, SameJourney

LEMMA LeaseEndsKeeps ==
  ASSUME IInv, NEW g \in Gateways, NEW r \in nat[g], LeaseEnds(g, r)
  PROVE  IInv'
<1> USE DEF IInv, LeaseEnds, Event, gate, tasks
<1>1. nat' \in [Gateways -> SUBSET Records] /\ \A h \in Gateways : nat'[h] \subseteq nat[h]
  BY DEF TypeOK, StateOK
<1>2. TypeOK'
  BY <1>1 DEF TypeOK, StateOK, ReleasesCounted
<1>3. Looking' /\ Stopping'
  BY DEF Looking, Stopping, WorkDone
<1>4. Books'
  BY <1>1 DEF Books, Owns, Covered, MapGen, Entries, Hits
<1>5. Journey'
  BY <1>1 DEF Journey, Unsent, Context, Settled, Ported, SameGen
<1> QED BY <1>2, <1>3, <1>4, <1>5

LEMMA MappingAgesKeeps ==
  ASSUME IInv, MappingAges
  PROVE  IInv'
<1> USE DEF IInv, MappingAges, Event, gate, tasks, world
<1>1. PICK a \in {"renew", "over"} : st' = [st EXCEPT !.mapping.age = a]
  OBVIOUS
<1>2. st.mapping # None /\ st.mapping \in Mappings /\ st \in States
  BY DEF TypeOK, StateOK, States
<1>3. /\ st'.ledger = st.ledger /\ st'.gen = st.gen /\ st'.gateway = st.gateway /\ st'.port = st.port
      /\ st'.mapping = [st.mapping EXCEPT !.age = a] /\ st' = [st EXCEPT !.mapping = st'.mapping]
  BY <1>1, <1>2 DEF States
<1>4. st'.mapping \in Mappings /\ st'.mapping.e = st.mapping.e
  BY <1>2, <1>3 DEF Mappings
<1>5. st' \in States
  BY <1>2, <1>3, <1>4 DEF States
<1>6. TypeOK'
  BY <1>5 DEF TypeOK, StateOK, ReleasesCounted
<1>7. Looking' /\ Stopping'
  BY <1>2, <1>3 DEF Looking, Stopping, WorkDone
<1>8. SameBooks /\ LeftShrinks
  BY <1>2, <1>3, <1>4, PortMapperAssumption DEF SameBooks, LeftShrinks
<1> QED BY <1>6, <1>7, <1>8, SameBooksKeep, SameJourney

LEMMA TrustExpiresKeeps ==
  ASSUME IInv, TrustExpires
  PROVE  IInv'
<1> USE DEF IInv, TrustExpires, Event, gate, tasks, world
<1>1. /\ st' \in States
      /\ st'.ledger = st.ledger /\ st'.gen = st.gen /\ st'.gateway = st.gateway /\ st'.port = st.port
      /\ st'.mapping = st.mapping
  BY DEF TypeOK, StateOK, States
<1>2. TypeOK'
  BY <1>1 DEF TypeOK, StateOK, ReleasesCounted
<1>3. Looking' /\ Stopping'
  BY <1>1 DEF Looking, Stopping, WorkDone
<1>4. SameBooks /\ LeftShrinks
  BY <1>1 DEF SameBooks, LeftShrinks
<1> QED BY <1>2, <1>3, <1>4, SameBooksKeep, SameJourney

\* A new generation disturbs none of the steps that shutdown has reached.
LEMMA NewGenerationStopping ==
  ASSUME Stopping, NewGeneration,
         UNCHANGED <<closing, terminal, flight, permits>>,
         prober'.pc = prober.pc \/ prober'.pc = "idle" \/ ~closing \/ prober.pc # "idle",
         launcher'.pc = launcher.pc \/ ~closing,
         sh' = sh
  PROVE  Stopping'
<1>1. closing /\ sh.pc \notin {"closed", "invalidate"} =>
        /\ st.mapping = None /\ st'.mapping = None /\ pending' = pending
        /\ releases' = releases /\ st'.ledger = st.ledger
  BY DEF Stopping, NewGeneration, HandedOver, Entries
<1> QED BY <1>1 DEF Stopping, WorkDone, NewGeneration, HandedOver

LEMMA SetLocalPortKeeps ==
  ASSUME IInv, NEW p \in LocalPorts, SetLocalPort(p)
  PROVE  IInv'
<1> USE DEF IInv, SetLocalPort, Event, world
<1> DEFINE s == [st EXCEPT !.port = p]
<1>1. s \in States /\ s.mapping = st.mapping /\ s.gen = st.gen /\ s.ledger = st.ledger
  BY DEF TypeOK, StateOK, States
<1>2. Invalidate(s)
  OBVIOUS
<1> HIDE DEF s
<1>3. NewGeneration
  BY <1>1, <1>2, InvalidateFacts DEF Books
<1>4. TypeOK'
  BY <1>3 DEF TypeOK, StateOK, NewGeneration, HandedOver
<1>5. Looking'
  BY DEF Looking
<1>6. LeftShrinks /\ (sh.pc = "ledger" => st.mapping = None)
  BY DEF LeftShrinks, Stopping
<1>7. Books' /\ Journey'
  BY <1>3, <1>6, HandedOverBooks, NewGenerationJourney DEF NewGeneration
<1>8. Stopping'
  BY <1>3, NewGenerationStopping
<1> QED BY <1>4, <1>5, <1>7, <1>8

\* A lookup for `who` that has just begun.
LEMMA LookupFacts ==
  ASSUME TypeOK, NEW who \in Lookers, Lookup(who)
  PROVE  /\ lookups' \in [Lookers -> Observations \cup {None}]
         /\ lookups'[who] # None /\ \A w \in Lookers \ {who} : lookups'[w] = lookups[w]
<1> DEFINE o == [gw |-> gwNow, stale |-> FALSE, older |-> {w \in Lookers : lookups[w] # None}]
<1>1. o \in Observations
  BY DEF Observations, TypeOK, StateOK
<1>2. lookups' = [lookups EXCEPT ![who] = o]
  BY DEF Lookup
<1> HIDE DEF o
<1> QED BY <1>1, <1>2, PortMapperAssumption DEF TypeOK, StateOK

LEMMA ReadStartKeeps ==
  ASSUME IInv, ReadStart
  PROVE  IInv'
<1> USE DEF IInv, ReadStart, Event, gate, world
<1>1. /\ lookups' \in [Lookers -> Observations \cup {None}]
      /\ lookups'["reader"] # None /\ \A w \in Lookers \ {"reader"} : lookups'[w] = lookups[w]
  BY LookupFacts DEF Lookers
<1>2. TypeOK'
  BY <1>1 DEF TypeOK, StateOK, ReleasesCounted
<1>3. Looking' /\ Stopping'
  BY <1>1 DEF Looking, Stopping, WorkDone, Lookers
<1>4. SameBooks /\ LeftShrinks
  BY DEF SameBooks, LeftShrinks
<1> QED BY <1>2, <1>3, <1>4, SameBooksKeep, SameJourney

LEMMA ProbeStartKeeps ==
  ASSUME IInv, ProbeStart
  PROVE  IInv'
<1> USE DEF IInv, ProbeStart, Event, gate, world
<1>1. /\ lookups' \in [Lookers -> Observations \cup {None}]
      /\ lookups'["prober"] # None /\ \A w \in Lookers \ {"prober"} : lookups'[w] = lookups[w]
  BY LookupFacts DEF Lookers
<1>2. TypeOK'
  BY <1>1 DEF TypeOK, StateOK, ReleasesCounted
<1>3. Looking'
  BY <1>1 DEF Looking, Lookers
<1>4. Stopping'
  BY DEF Stopping, WorkDone
<1>5. SameBooks /\ LeftShrinks
  BY DEF SameBooks, LeftShrinks
<1> QED BY <1>2, <1>3, <1>4, <1>5, SameBooksKeep, SameJourney

LEMMA ReadObservesKeeps ==
  ASSUME IInv, ReadObserves
  PROVE  IInv'
<1> USE DEF IInv, ReadObserves, world
<1>1. /\ lookups' \in [Lookers -> Observations \cup {None}]
      /\ \A w \in Lookers \ {"reader"} : lookups[w] # None => lookups'[w] # None
      /\ UNCHANGED <<st, pending, releases>> \/ (NewGeneration /\ st'.port = st.port)
  BY ObserveFacts DEF Lookers, Looking, Books
<1>2. /\ launcher' \in [pc : {"idle", "create", "wait", "tail"}, gen : Nat]
      /\ closing => launcher' = launcher
  BY DEF StartCreate, TypeOK, StateOK
<1>3. st' \in States /\ ReleasesCounted'
  BY <1>1 DEF TypeOK, StateOK, ReleasesCounted, NewGeneration, HandedOver
<1>4. TypeOK'
  BY <1>1, <1>2, <1>3 DEF TypeOK, StateOK, Idle, NoSnap, Snaps
<1>5. Looking'
  BY <1>1 DEF Looking, Lookers, Idle
<1>6. LeftShrinks /\ (sh.pc = "ledger" => st.mapping = None)
  BY DEF LeftShrinks, Stopping
<1>7. CASE UNCHANGED <<st, pending, releases>>
  <2>1. SameBooks
    BY <1>7 DEF SameBooks
  <2>2. Stopping'
    BY <1>2, <1>7 DEF Stopping, WorkDone
  <2> QED BY <1>4, <1>5, <1>6, <2>1, <2>2, SameBooksKeep, SameJourney
<1>8. CASE NewGeneration
  BY <1>2, <1>4, <1>5, <1>6, <1>8, HandedOverBooks, NewGenerationJourney, NewGenerationStopping DEF NewGeneration
<1> QED BY <1>1, <1>7, <1>8

LEMMA ProbeObservesKeeps ==
  ASSUME IInv, ProbeObserves
  PROVE  IInv'
<1> USE DEF IInv, ProbeObserves, world
<1>1. /\ lookups' \in [Lookers -> Observations \cup {None}]
      /\ \A w \in Lookers \ {"prober"} : lookups[w] # None => lookups'[w] # None
      /\ UNCHANGED <<st, pending, releases>> \/ (NewGeneration /\ st'.port = st.port)
  BY ObserveFacts DEF Lookers, Looking, Books
<1>2. st' \in States /\ ReleasesCounted'
  BY <1>1 DEF TypeOK, StateOK, ReleasesCounted, NewGeneration, HandedOver
<1>3. prober' \in [pc : {"idle", "lookup", "p_reset", "p_see"}, snap : Snaps] /\ prober'.pc # "lookup"
  BY <1>2 DEF Snapshot, Snaps, States
<1>4. TypeOK'
  BY <1>1, <1>2, <1>3 DEF TypeOK, StateOK
<1>5. Looking'
  BY <1>1, <1>3 DEF Looking, Lookers
<1>6. LeftShrinks /\ (sh.pc = "ledger" => st.mapping = None)
  BY DEF LeftShrinks, Stopping
<1>7. CASE UNCHANGED <<st, pending, releases>>
  <2>1. SameBooks
    BY <1>7 DEF SameBooks
  <2>2. Stopping'
    BY <1>7 DEF Stopping, WorkDone
  <2> QED BY <1>4, <1>5, <1>6, <2>1, <2>2, SameBooksKeep, SameJourney
<1>8. CASE NewGeneration
  BY <1>4, <1>5, <1>6, <1>8, HandedOverBooks, NewGenerationJourney, NewGenerationStopping DEF NewGeneration
<1> QED BY <1>1, <1>7, <1>8

\* A probe changes what was seen and nothing that the ledger is about.
LEMMA ProbeFacts ==
  ASSUME TypeOK, ProbeReset \/ ProbeEnds
  PROVE  /\ st' \in States
         /\ st'.ledger = st.ledger /\ st'.gen = st.gen /\ st'.gateway = st.gateway /\ st'.port = st.port
         /\ st'.mapping = st.mapping
<1>1. CASE ProbeReset
  BY <1>1 DEF ProbeReset, TypeOK, StateOK, States
<1>2. CASE ProbeEnds
  <2>1. PICK seen \in SUBSET Protocols, s \in Services :
          st' = [st EXCEPT !.seen = seen, !.services = IF "upnp" \in seen THEN {s} ELSE {},
                           !.probed = TRUE, !.needsProbe = FALSE]
    BY <1>2 DEF ProbeEnds
  <2>2. PICK ss \in SUBSET Services :
          st' = [st EXCEPT !.seen = seen, !.services = ss, !.probed = TRUE, !.needsProbe = FALSE]
    BY <2>1
  <2>3. seen \in SUBSET Kinds
    BY PortMapperAssumption
  <2> QED BY <2>2, <2>3 DEF TypeOK, StateOK, States
<1> QED BY <1>1, <1>2

LEMMA ProbeTaskKeeps ==
  ASSUME IInv, ProbeTask
  PROVE  IInv'
<1> USE DEF IInv, ProbeTask, gate, world
<1>1. /\ st' \in States
      /\ st'.ledger = st.ledger /\ st'.gen = st.gen /\ st'.gateway = st.gateway /\ st'.port = st.port
      /\ st'.mapping = st.mapping
  BY ProbeFacts DEF TypeOK, StateOK
<1>2. prober' \in [pc : {"idle", "lookup", "p_reset", "p_see"}, snap : Snaps] /\ prober'.pc # "lookup" /\ prober.pc # "idle"
  BY DEF Idle, NoSnap, Snaps, TypeOK, StateOK
<1>3. TypeOK'
  BY <1>1, <1>2 DEF TypeOK, StateOK, ReleasesCounted
<1>4. Looking'
  BY <1>2 DEF Looking
<1>5. Stopping'
  BY <1>1, <1>2 DEF Stopping, WorkDone
<1>6. SameBooks /\ LeftShrinks
  BY <1>1 DEF SameBooks, LeftShrinks
<1> QED BY <1>3, <1>4, <1>5, <1>6, SameBooksKeep, SameJourney

LEMMA LaunchEndsKeeps ==
  ASSUME IInv, LaunchEnds
  PROVE  IInv'
<1> USE DEF IInv, LaunchEnds, flightOnly, gate, world
<1>1. launcher' \in [pc : {"idle", "create", "wait", "tail"}, gen : Nat] /\ launcher.pc # "idle"
  BY DEF TypeOK, StateOK
<1>2. TypeOK'
  BY <1>1 DEF TypeOK, StateOK, ReleasesCounted
<1>3. Looking' /\ Stopping'
  BY <1>1 DEF Looking, Stopping, WorkDone
<1>4. SameBooks /\ LeftShrinks
  BY DEF SameBooks, LeftShrinks
<1> QED BY <1>2, <1>3, <1>4, SameBooksKeep, SameJourney

-----------------------------------------------------------------------------
(* The flight: steps that move it, and leave the ledger and the gateways      *)

Launchers == [pc : {"idle", "create", "wait", "tail"}, gen : Nat]

LEMMA IdleFlightFacts == IdleFlight \in Flights /\ IdleFlight.pc = "idle"
BY DEF IdleFlight, Flights, FlightPcs, NoSnap, Snaps, Kinds

LEMMA FEndFacts ==
  ASSUME TypeOK, FEnd
  PROVE  flight' \in Flights /\ flight'.pc = "idle" /\ launcher' \in Launchers
BY IdleFlightFacts DEF FEnd, WakeLauncher, Launchers, TypeOK, StateOK

LEMMA FlightMoves ==
  ASSUME IInv, flight.pc # "idle", st' \in States, SameBooks, UNCHANGED flightOnly,
         flight' \in Flights, launcher' \in Launchers, flight'.pc \notin Owning \cup {"lookup"},
         Journey'
  PROVE  IInv'
<1> USE DEF IInv, flightOnly, gate, world
<1>1. TypeOK'
  BY DEF TypeOK, StateOK, ReleasesCounted, Launchers
<1>2. Looking'
  BY DEF Looking
<1>3. LeftShrinks
  BY DEF LeftShrinks
<1>4. Books'
  BY <1>3, SameBooksKeep
<1>5. Stopping'
  BY DEF Stopping, WorkDone, SameBooks
<1> QED BY <1>1, <1>2, <1>4, <1>5

LEMMA FlightEnds ==
  ASSUME IInv, flight.pc # "idle", UNCHANGED st, UNCHANGED flightOnly, FEnd
  PROVE  IInv'
<1>1. flight' \in Flights /\ flight'.pc = "idle" /\ launcher' \in Launchers
  BY FEndFacts DEF IInv
<1>2. st' \in States /\ SameBooks
  BY DEF IInv, TypeOK, StateOK, SameBooks, flightOnly, gate, world
<1>3. Journey'
  BY <1>1, NoJourney
<1> QED BY <1>1, <1>2, <1>3, FlightMoves DEF Owning

LEMMA StartFlightKeeps ==
  ASSUME IInv, flight.pc = "idle", ~closing, StartFlight, launcher' \in Launchers,
         UNCHANGED <<world, st, gate, prober, reader, releases, sh, permits>>, events' \in Nat
  PROVE  IInv'
<1> USE DEF IInv, StartFlight, gate, world
<1>1. flight' \in Flights /\ flight'.pc = "lookup"
  BY IdleFlightFacts DEF Flights, FlightPcs
<1>2. /\ lookups' \in [Lookers -> Observations \cup {None}]
      /\ lookups'["flight"] # None /\ \A w \in Lookers \ {"flight"} : lookups'[w] = lookups[w]
  BY LookupFacts DEF Lookers
<1>3. TypeOK'
  BY <1>1, <1>2 DEF TypeOK, StateOK, ReleasesCounted, Launchers
<1>4. Looking'
  BY <1>2 DEF Looking, Lookers
<1>5. Stopping'
  BY DEF Stopping, WorkDone
<1>6. SameBooks /\ LeftShrinks
  BY DEF SameBooks, LeftShrinks
<1>7. Books'
  BY <1>1, <1>6, SameBooksKeep DEF Owning
<1>8. Journey'
  BY <1>1, NoJourney
<1> QED BY <1>3, <1>4, <1>5, <1>7, <1>8

LEMMA CallCreateKeeps ==
  ASSUME IInv, CallCreate
  PROVE  IInv'
BY StartFlightKeeps DEF CallCreate, Event, IInv, TypeOK, StateOK, Launchers

LEMMA LaunchKeeps ==
  ASSUME IInv, Launch
  PROVE  IInv'
<1> USE DEF IInv, Launch, gate, world
<1>1. launcher' \in Launchers /\ launcher.pc # "idle" /\ events' \in Nat
  BY DEF TypeOK, StateOK, Launchers, States
<1>2. CASE flight.pc = "idle" /\ ~closing
  BY <1>1, <1>2, StartFlightKeeps
<1>3. CASE ~(flight.pc = "idle" /\ ~closing)
  <2>1. UNCHANGED <<flight, lookups>>
    BY <1>3
  <2>2. TypeOK'
    BY <1>1, <2>1 DEF TypeOK, StateOK, ReleasesCounted, Launchers
  <2>3. Looking' /\ Stopping'
    BY <1>1, <2>1 DEF Looking, Stopping, WorkDone
  <2>4. SameBooks /\ LeftShrinks
    BY DEF SameBooks, LeftShrinks
  <2> QED BY <2>1, <2>2, <2>3, <2>4, SameBooksKeep, SameJourney
<1> QED BY <1>2, <1>3

LEMMA FlightObservesKeeps ==
  ASSUME IInv, FlightObserves
  PROVE  IInv'
<1> USE DEF IInv, FlightObserves, world
<1>1. /\ lookups' \in [Lookers -> Observations \cup {None}]
      /\ \A w \in Lookers \ {"flight"} : lookups[w] # None => lookups'[w] # None
      /\ UNCHANGED <<st, pending, releases>> \/ (NewGeneration /\ st'.port = st.port)
  BY ObserveFacts DEF Lookers, Looking, Books
<1>2. st' \in States /\ ReleasesCounted'
  BY <1>1 DEF TypeOK, StateOK, ReleasesCounted, NewGeneration, HandedOver
<1>3. /\ flight' \in Flights /\ launcher' \in Launchers
      /\ flight'.pc \in {"idle", "p_reset", "fast"}
      /\ flight'.pc # "idle" => /\ flight'.snap.gw = st'.gateway /\ flight'.snap.gen = st'.gen
                                /\ st'.gateway # None /\ flight'.back = "fast"
  <2>1. CASE st'.gateway = None
    BY <2>1, FEndFacts
  <2>2. CASE st'.gateway # None
    <3>1. Snapshot \in Snaps /\ Snapshot.gw = st'.gateway /\ Snapshot.gen = st'.gen
      BY <1>2 DEF Snapshot, Snaps, States
    <3>2. PICK pc \in {"p_reset", "fast"} : flight' = [flight EXCEPT !.pc = pc, !.snap = Snapshot, !.back = "fast"]
      BY <2>2
    <3>3. flight \in Flights /\ launcher' = launcher /\ launcher \in Launchers
      BY <2>2 DEF TypeOK, StateOK, Launchers
    <3> HIDE DEF FlightObserves
    <3> QED BY <2>2, <3>1, <3>2, <3>3 DEF Flights, FlightPcs
  <2> QED BY <2>1, <2>2
<1>4. TypeOK'
  BY <1>1, <1>2, <1>3 DEF TypeOK, StateOK, Launchers
<1>5. Looking'
  BY <1>1, <1>3 DEF Looking, Lookers
<1>6. LeftShrinks /\ (sh.pc = "ledger" => st.mapping = None)
  BY DEF LeftShrinks, Stopping
<1>7. Journey'
  <2>1. Unsent' /\ Settled'
    BY <1>3 DEF Unsent, Settled, Owning, Passed, AfterSettle
  <2>2. flight'.pc # "idle" => flight'.snap.gw \in Gateways /\ flight'.snap.gen <= st'.gen
    BY <1>2, <1>3 DEF States
  <2>3. Context'
    BY <1>3, <2>2 DEF Context, Ported, SameGen, Owning, Passed, AfterSettle, Observed
  <2> QED BY <2>1, <2>3 DEF Journey
<1>8. flight'.pc \notin Owning
  BY <1>3 DEF Owning
<1>9. Books'
  <2>1. UNCHANGED <<st, pending, releases>> => SameBooks
    BY DEF SameBooks
  <2> QED BY <1>1, <1>6, <1>8, <2>1, SameBooksKeep, HandedOverBooks DEF NewGeneration
<1>10. Stopping'
  BY <1>1 DEF Stopping, WorkDone, NewGeneration, HandedOver
<1> QED BY <1>4, <1>5, <1>7, <1>9, <1>10

LEMMA FlightStaleKeeps ==
  ASSUME IInv, FlightStale
  PROVE  IInv'
BY FlightEnds DEF FlightStale

\* A move within the flight that changes its step only.
LEMMA StepFacts ==
  ASSUME TypeOK, NEW pc \in FlightPcs, FGoto(pc)
  PROVE  /\ flight' \in Flights /\ flight'.pc = pc
         /\ flight'.snap = flight.snap /\ flight'.iport = flight.iport /\ flight'.prev = flight.prev
         /\ flight'.kind = flight.kind /\ flight'.cand = flight.cand /\ flight'.back = flight.back
         /\ flight'.svc = flight.svc
BY DEF FGoto, TypeOK, StateOK, Flights

LEMMA FlightProbesKeeps ==
  ASSUME IInv, FlightProbes
  PROVE  IInv'
<1> USE DEF FlightProbes, Checked
<1>1. /\ st' \in States
      /\ st'.ledger = st.ledger /\ st'.gen = st.gen /\ st'.gateway = st.gateway /\ st'.port = st.port
      /\ st'.mapping = st.mapping
  BY ProbeFacts DEF IInv
<1>2. flight.pc \in {"p_reset", "p_see"} /\ flight.back \in {"fast", "settle"}
  BY DEF IInv, Journey, Context, TypeOK, StateOK, Flights
<1>3. \/ flight.pc = "p_reset" /\ FGoto("p_see")
      \/ flight.pc = "p_see" /\ FGoto(flight.back)
  OBVIOUS
<1>4. PICK pc \in {"p_see", "fast", "settle"} : FGoto(pc) /\ (pc = "settle" => flight.back = "settle")
  BY <1>2, <1>3
<1>5. /\ flight' \in Flights /\ flight'.pc = pc
      /\ flight'.snap = flight.snap /\ flight'.iport = flight.iport /\ flight'.back = flight.back
  BY <1>4, StepFacts DEF IInv, FlightPcs
<1>6. SameBooks /\ launcher' \in Launchers
  BY <1>1 DEF SameBooks, IInv, TypeOK, StateOK, Launchers, flightOnly, gate, world
<1>7. Journey'
  BY <1>1, <1>2, <1>4, <1>5 DEF IInv, Journey, Unsent, Settled, Context, Ported, SameGen, Owning, Passed, AfterSettle, Observed
<1> QED BY <1>1, <1>2, <1>5, <1>6, <1>7, FlightMoves DEF Owning

LEMMA FastPathKeeps ==
  ASSUME IInv, FastPath
  PROVE  IInv'
<1> USE DEF FastPath, Checked
<1>1. CASE FEnd
  BY <1>1, FlightEnds
<1>2. CASE ~FEnd
  <2>1. /\ st.port # None /\ UNCHANGED launcher
        /\ \E pc \in {"p_reset", "settle"} :
             flight' = [flight EXCEPT !.iport = st.port, !.back = "settle", !.pc = pc]
    BY <1>2
  <2>2. PICK pc \in {"p_reset", "settle"} :
          flight' = [flight EXCEPT !.iport = st.port, !.back = "settle", !.pc = pc]
    BY <2>1
  <2>3. flight \in Flights /\ st.port \in LocalPorts
    BY <2>1 DEF IInv, TypeOK, StateOK, States
  <2>4. /\ flight' \in Flights /\ flight'.pc = pc /\ flight'.iport = st.port /\ flight'.back = "settle"
        /\ flight'.snap = flight.snap
    BY <2>2, <2>3 DEF Flights, FlightPcs
  <2>5. SameBooks /\ launcher' \in Launchers /\ st' \in States
    BY <2>1 DEF SameBooks, IInv, TypeOK, StateOK, Launchers, flightOnly, gate, world
  <2>6. Journey'
    BY <2>3, <2>4 DEF IInv, Journey, Unsent, Settled, Context, Ported, SameGen, Owning, Passed, AfterSettle, Observed
  <2> QED BY <2>1, <2>4, <2>5, <2>6, FlightMoves DEF Owning
<1> QED BY <1>1, <1>2

\* Once the pending releases are over there is no release task.
LEMMA NothingPending == ASSUME ReleasesCounted, pending = 0 PROVE releases = {}
<1>1. IsFiniteSet(releases) /\ Cardinality(releases) <= 0
  BY DEF ReleasesCounted
<1>2. Cardinality(releases) \in Nat
  BY <1>1, FS_CardinalityType
<1> QED BY <1>1, <1>2, FS_EmptySet

LEMMA SettleKeeps ==
  ASSUME IInv, Settle
  PROVE  IInv'
<1> USE DEF Settle
<1>1. CASE ~Current(flight.snap)
  BY <1>1, FlightEnds
<1>2. CASE Current(flight.snap)
  <2>1. \E pc \in {"gate", "services"}, k \in {"pmp", "pcp"} :
          flight' = [flight EXCEPT !.recent = st.seen,
                                   !.prev = IF st.mapping = None THEN 0 ELSE st.mapping.e.port,
                                   !.kind = k, !.pc = pc]
    BY <1>2
  <2>2. PICK pc \in {"gate", "services"}, k \in {"pmp", "pcp"} :
          flight' = [flight EXCEPT !.recent = st.seen,
                                   !.prev = IF st.mapping = None THEN 0 ELSE st.mapping.e.port,
                                   !.kind = k, !.pc = pc]
    BY <2>1
  <2> DEFINE p == IF st.mapping = None THEN 0 ELSE st.mapping.e.port
  <2>3. /\ p \in Ports \cup {0} /\ (p # 0 => st.mapping # None)
        /\ st.mapping # None => p = st.mapping.e.port
    BY DEF IInv, Books, MapGen
  <2>4. flight' = [flight EXCEPT !.recent = st.seen, !.prev = p, !.kind = k, !.pc = pc]
    BY <2>2
  <2> HIDE DEF p
  <2>5. flight \in Flights /\ st.seen \in SUBSET Kinds
    BY DEF IInv, TypeOK, StateOK, States
  <2>6. /\ flight' \in Flights /\ flight'.pc = pc /\ flight'.iport = flight.iport /\ flight'.snap = flight.snap
        /\ flight'.prev = p
    BY <2>3, <2>4, <2>5 DEF Flights, FlightPcs, Kinds
  <2>7. SameBooks /\ launcher' \in Launchers /\ st' \in States
    BY <1>2 DEF SameBooks, IInv, TypeOK, StateOK, Launchers, flightOnly, gate, world
  <2>8. Unsent' /\ Context'
    BY <2>6 DEF IInv, Journey, Unsent, Context, Ported, SameGen, Owning, Passed, AfterSettle, Observed
  <2>9. releases' = {} /\ st' = st
    BY NothingPending DEF IInv, TypeOK, flightOnly
  <2>10. Settled'
    BY <2>3, <2>6, <2>9 DEF IInv, Books, MapGen, Settled, Owning, Passed
  <2> QED BY <2>6, <2>7, <2>8, <2>10, FlightMoves DEF Owning, Journey
<1> QED BY <1>1, <1>2

LEMMA TakenReleasedKeeps ==
  ASSUME IInv, TakenReleased
  PROVE  IInv'
<1> USE DEF TakenReleased
<1>1. /\ flight' \in Flights /\ flight'.pc = "gate"
      /\ flight'.snap = flight.snap /\ flight'.iport = flight.iport /\ flight'.prev = flight.prev
  BY StepFacts DEF IInv, FlightPcs
<1>2. SameBooks /\ launcher' \in Launchers /\ st' \in States
  BY DEF SameBooks, IInv, TypeOK, StateOK, Launchers, flightOnly, gate, world
<1>3. Journey'
  BY <1>1, <1>2 DEF IInv, Journey, Unsent, Context, Settled, Ported, SameGen, Owning, Passed, AfterSettle, Observed, SameBooks
<1> QED BY <1>1, <1>2, <1>3, FlightMoves DEF Owning

LEMMA TryServicesKeeps ==
  ASSUME IInv, TryServices
  PROVE  IInv'
<1> USE DEF TryServices, Checked
<1>1. flight \in Flights /\ st.services \in SUBSET Services
  BY DEF IInv, TypeOK, StateOK, States
<1>2. /\ flight' \in Flights /\ flight'.pc = "next_service"
      /\ flight'.snap = flight.snap /\ flight'.iport = flight.iport /\ flight'.prev = flight.prev
  BY <1>1 DEF Flights, FlightPcs, Kinds
<1>3. SameBooks /\ launcher' \in Launchers /\ st' \in States
  BY DEF SameBooks, IInv, TypeOK, StateOK, Launchers, flightOnly, gate, world
<1>4. Journey'
  BY <1>2, <1>3 DEF IInv, Journey, Unsent, Context, Settled, Ported, SameGen, Owning, Passed, AfterSettle, Observed, SameBooks
<1> QED BY <1>2, <1>3, <1>4, FlightMoves DEF Owning

LEMMA NextServiceKeeps ==
  ASSUME IInv, NextService
  PROVE  IInv'
<1> USE DEF NextService
<1>1. CASE FEnd
  BY <1>1, FlightEnds
<1>2. CASE \E s \in flight.left :
             /\ flight' = [flight EXCEPT !.svc = s, !.left = @ \ {s}, !.pc = "gate"]
             /\ UNCHANGED launcher
  <2>1. PICK s \in flight.left : /\ flight' = [flight EXCEPT !.svc = s, !.left = @ \ {s}, !.pc = "gate"]
                                 /\ UNCHANGED launcher
    BY <1>2
  <2>2. flight \in Flights /\ s \in Services
    BY DEF IInv, TypeOK, StateOK, Flights
  <2>3. /\ flight' \in Flights /\ flight'.pc = "gate"
        /\ flight'.snap = flight.snap /\ flight'.iport = flight.iport /\ flight'.prev = flight.prev
    BY <2>1, <2>2 DEF Flights, FlightPcs
  <2>4. SameBooks /\ launcher' \in Launchers /\ st' \in States
    BY <2>1 DEF SameBooks, IInv, TypeOK, StateOK, Launchers, flightOnly, gate, world
  <2>5. Journey'
    BY <2>3, <2>4 DEF IInv, Journey, Unsent, Context, Settled, Ported, SameGen, Owning, Passed, AfterSettle, Observed, SameBooks
  <2> QED BY <2>3, <2>4, <2>5, FlightMoves DEF Owning
<1> QED BY <1>1, <1>2

-----------------------------------------------------------------------------
(* The flight: steps that change the ledger or a gateway                      *)

\* While a flight is under way, shutdown has not joined it.
LEMMA BusyKeeps ==
  ASSUME TypeOK, Looking, Stopping, flight.pc # "idle",
         UNCHANGED <<gwNow, closing, terminal, lookups, prober, reader, sh, events>>,
         nat' \in [Gateways -> SUBSET Records], st' \in States, nextOwn' \in Nat, ReleasesCounted',
         flight' \in Flights, flight'.pc # "lookup", launcher' \in Launchers, permits' \subseteq {"flight"},
         closing /\ st.mapping = None => st'.mapping = None
  PROVE  TypeOK' /\ Looking' /\ Stopping' /\ LeftShrinks
<1>1. TypeOK'
  BY DEF TypeOK, StateOK, Launchers
<1>2. Looking'
  BY DEF Looking
<1>3. sh.pc \in {"idle", "closed", "invalidate", "join"}
  BY DEF Stopping, WorkDone, TypeOK, StateOK, ShutdownPcs
<1>4. Stopping' /\ LeftShrinks
  BY <1>3 DEF Stopping, LeftShrinks
<1> QED BY <1>1, <1>2, <1>4

\* Entries leave the ledger, and tasks the set of releases.
Shrink ==
  /\ st'.ledger \subseteq st.ledger /\ st'.mapping = st.mapping
  /\ st'.gen = st.gen /\ st'.gateway = st.gateway /\ st'.port = st.port
  /\ \A t \in releases' : \E u \in releases : t.e = u.e
  /\ nextOwn' = nextOwn

LEMMA ShrinkBooks ==
  ASSUME Books, Shrink, LeftShrinks,
         flight'.pc \in Owning => flight.pc \in Owning /\ flight'.cand = flight.cand /\ flight.cand \in st'.ledger
  PROVE  Owns' /\ MapGen'
<1>1. Entries' \subseteq Entries
  BY DEF Shrink, Entries
<1>2. Owns'
  BY <1>1 DEF Books, Owns, Shrink, LeftShrinks
<1>3. MapGen'
  BY DEF Books, MapGen, Shrink
<1> QED BY <1>2, <1>3

LEMMA ShrinkJourney ==
  ASSUME Journey, Shrink, flight' = flight, \A g \in Gateways : nat'[g] \subseteq nat[g]
  PROVE  Journey'
<1>1. Unsent'
  BY DEF Journey, Unsent
<1>2. Context'
  BY DEF Journey, Context, Shrink, SameGen, Ported
<1>3. Settled'
  BY DEF Journey, Settled, Shrink, SameGen
<1> QED BY <1>1, <1>2, <1>3 DEF Journey

\* A flight that goes back to the choice of a service, or ends.
GoesBack ==
  /\ flight.pc \in AfterSettle
  /\ flight'.pc \in {"idle", "services", "next_service"}
  /\ flight'.pc # "idle" =>
       flight'.snap = flight.snap /\ flight'.iport = flight.iport /\ flight'.prev = flight.prev

LEMMA GoesBackJourney ==
  ASSUME Journey, Shrink, GoesBack
  PROVE  Journey'
<1>1. CASE flight'.pc = "idle"
  BY <1>1, NoJourney
<1>2. CASE flight'.pc # "idle"
  <2>1. Unsent' /\ Context'
    BY <1>2 DEF Journey, Unsent, Context, GoesBack, Shrink, SameGen, Ported, Owning, Passed, AfterSettle, Observed
  <2>2. Settled'
    BY <1>2 DEF Journey, Settled, GoesBack, Shrink, SameGen, Owning, Passed, AfterSettle
  <2> QED BY <2>1, <2>2 DEF Journey
<1> QED BY <1>1, <1>2

LEMMA GiveUpFacts ==
  ASSUME TypeOK, flight.pc \in AfterSettle, AfterPxp \/ GiveUp
  PROVE  GoesBack /\ flight' \in Flights /\ launcher' \in Launchers
<1>1. CASE FEnd
  BY <1>1, FEndFacts DEF GoesBack
<1>2. CASE FGoto("services") /\ UNCHANGED launcher
  BY <1>2, StepFacts DEF GoesBack, FlightPcs, TypeOK, StateOK, Launchers
<1>3. CASE FGoto("next_service") /\ UNCHANGED launcher
  BY <1>3, StepFacts DEF GoesBack, FlightPcs, TypeOK, StateOK, Launchers
<1> QED BY <1>1, <1>2, <1>3 DEF AfterPxp, GiveUp

LEMMA GoesBackFacts ==
  ASSUME GoesBack PROVE flight.pc # "idle" /\ flight'.pc # "lookup" /\ flight'.pc \notin Owning
BY DEF GoesBack, Owning, Passed, AfterSettle

LEMMA TakeIncompatibleKeeps ==
  ASSUME IInv, TakeIncompatible
  PROVE  IInv'
<1> USE DEF IInv, TakeIncompatible, Checked, world
<1> DEFINE s == [st EXCEPT !.mapping = None]
<1>1. /\ s \in States /\ s.mapping = None /\ s.gen = st.gen /\ s.ledger = st.ledger
      /\ s.gateway = st.gateway /\ s.port = st.port /\ st.mapping \in Mappings /\ st.mapping # None
  BY DEF TypeOK, StateOK, States, Incompatible
<1>2. Reserve(s, st.mapping)
  OBVIOUS
<1> HIDE DEF s
<1>3. /\ st' \in States /\ ReleasesCounted'
      /\ st'.mapping = None /\ st'.gen = st.gen /\ st'.gateway = st.gateway /\ st'.port = st.port
      /\ st'.ledger = IF Owned(s, st.mapping.e.own) THEN st.ledger ELSE st.ledger \cup {st.mapping.e}
      /\ releases' = releases \cup {[e |-> st.mapping.e, pc |-> "new"]}
  <2> DEFINE m == st.mapping
  <2>1. m \in Mappings \cup {None} /\ m # None /\ Reserve(s, m) /\ ReleasesCounted
    BY <1>1, <1>2 DEF TypeOK
  <2> HIDE DEF m, TakeIncompatible, IInv
  <2>2. /\ st' \in States /\ ReleasesCounted'
        /\ st'.mapping = s.mapping /\ st'.gen = s.gen /\ st'.gateway = s.gateway /\ st'.port = s.port
        /\ st'.ledger = IF m = None \/ Owned(s, m.e.own) THEN s.ledger ELSE s.ledger \cup {m.e}
        /\ releases' = IF m = None THEN releases ELSE releases \cup {[e |-> m.e, pc |-> "new"]}
    BY <1>1, <2>1, ReserveFacts
  <2> QED BY <1>1, <2>1, <2>2 DEF m
<1>4. ~Owned(s, st.mapping.e.own)
  BY <1>1 DEF Owned, Books, Owns
<1>5. st'.ledger = st.ledger \cup {st.mapping.e} /\ HandedOver
  BY <1>1, <1>3, <1>4 DEF HandedOver, Entries
<1>6. /\ flight' \in Flights /\ flight'.pc = "taken"
      /\ flight'.snap = flight.snap /\ flight'.iport = flight.iport /\ flight'.prev = flight.prev
  BY StepFacts DEF FlightPcs
<1>7. launcher' \in Launchers
  BY DEF TypeOK, StateOK, Launchers
<1>8. TypeOK' /\ Looking' /\ Stopping' /\ LeftShrinks
  BY <1>3, <1>6, <1>7, BusyKeeps DEF TypeOK, StateOK
<1>9. Books'
  BY <1>1, <1>5, <1>6, <1>8, HandedOverBooks DEF Owning, Stopping, WorkDone
<1>10. Unsent' /\ Context'
  BY <1>3, <1>6 DEF Journey, Unsent, Context, SameGen, Ported, Owning, Passed, AfterSettle, Observed
<1>11. Settled'
  BY <1>1, <1>3, <1>5, <1>6 DEF Journey, Settled, Books, MapGen, SameGen, Owning, Passed, AfterSettle
<1> QED BY <1>8, <1>9, <1>10, <1>11 DEF Journey

LEMMA PassGateKeeps ==
  ASSUME IInv, PassGate
  PROVE  IInv'
<1> USE DEF IInv, PassGate, Checked, flightOnly, gate, world
<1>1. PICK over \in SUBSET {e \in st.ledger : ~Live(e)} :
        /\ st' = [st EXCEPT !.ledger = @ \ over]
        /\ IF \E e \in st'.ledger : Blocks(e) THEN FEnd
           ELSE FGoto(IF flight.kind = "upnp" THEN "retry" ELSE "push") /\ UNCHANGED launcher
  OBVIOUS
<1>2. /\ st' \in States /\ st'.ledger = st.ledger \ over /\ st'.mapping = st.mapping
      /\ st'.gen = st.gen /\ st'.gateway = st.gateway /\ st'.port = st.port
  BY <1>1 DEF TypeOK, StateOK, States
<1>3. /\ flight' \in Flights /\ launcher' \in Launchers
      /\ flight'.pc \in {"idle", "push", "retry"}
      /\ flight'.pc # "idle" => /\ \A e \in st'.ledger : ~Blocks(e)
                                /\ flight'.snap = flight.snap /\ flight'.iport = flight.iport
                                /\ flight'.prev = flight.prev /\ flight'.kind = flight.kind
                                /\ flight'.pc = "push" => flight.kind # "upnp"
  <2>1. CASE FEnd
    BY <2>1, FEndFacts
  <2>2. CASE ~FEnd
    <3>1. PICK pc \in {"push", "retry"} : FGoto(pc) /\ UNCHANGED launcher /\ (pc = "push" => flight.kind # "upnp")
      BY <1>1, <2>2
    <3>2. \A e \in st'.ledger : ~Blocks(e)
      BY <1>1, <2>2
    <3> QED BY <3>1, <3>2, StepFacts DEF FlightPcs, TypeOK, StateOK, Launchers
  <2> QED BY <2>1, <2>2
<1>4. TypeOK' /\ Looking' /\ Stopping' /\ LeftShrinks
  BY <1>2, <1>3, BusyKeeps DEF TypeOK, StateOK, ReleasesCounted
<1>5. Shrink
  BY <1>2 DEF Shrink
<1>6. Owns' /\ MapGen'
  BY <1>3, <1>4, <1>5, ShrinkBooks DEF Owning
<1>7. Covered'
  <2> SUFFICES ASSUME NEW g \in Gateways, NEW r \in nat[g]
               PROVE  \E e \in Entries' : e.own = r.by /\ e.gw = g /\ Hits(e, r)
    BY DEF Covered, Hits
  <2>1. PICK e \in Entries : e.own = r.by /\ e.gw = g /\ Hits(e, r)
    BY DEF Books, Covered
  <2>2. e \notin over
    BY <2>1 DEF Live, GoneAt
  <2>3. e \in Entries'
    BY <1>2, <2>2 DEF Entries
  <2> QED BY <2>1, <2>3
<1>8. Unsent' /\ Context'
  BY <1>2, <1>3 DEF Journey, Unsent, Context, SameGen, Ported, Owning, Passed, AfterSettle, Observed
<1>9. Settled'
  <2>1. flight'.pc # "idle" /\ st.mapping # None => st.mapping.e.kind = flight.kind
    BY DEF Incompatible, Compatible
  <2>2. flight'.pc # "idle" /\ flight.prev = 0 => st'.ledger = {}
    BY <1>3 DEF Blocks
  <2> QED BY <1>2, <1>3, <2>1, <2>2 DEF Journey, Settled, SameGen, Owning, Passed, AfterSettle
<1> QED BY <1>4, <1>6, <1>7, <1>8, <1>9 DEF Books, Journey

-----------------------------------------------------------------------------
(* A new entry                                                                *)

LEMMA EntryFacts ==
  ASSUME IInv, flight.pc \in {"push", "add", "add_permanent"}, NEW p \in Ports \cup {0},
         NEW lease \in {"unknown", "finite", "permanent"}
  PROVE  LET e == Entry(p, lease) IN
         /\ e \in Ownerships /\ e.own = nextOwn /\ e.kind = flight.kind /\ e.gw = flight.snap.gw
         /\ e.iport = flight.iport /\ e.gen = flight.snap.gen /\ e.port = p /\ e.lease = lease
<1>1. flight.snap.gw \in Gateways /\ flight.iport \in LocalPorts
  BY DEF IInv, Journey, Context, Ported, Observed, AfterSettle, Passed
<1>2. flight.snap.gen \in Nat /\ flight.kind \in Kinds /\ flight.svc \in Services \cup {0} /\ nextOwn \in Nat
  BY DEF IInv, TypeOK, StateOK, Flights, Snaps
<1> QED BY <1>1, <1>2 DEF Entry, Ownerships

\* Ownership is recorded before the request is sent.
LEMMA PushKeeps ==
  ASSUME IInv, flight.pc \in {"push", "add", "add_permanent"}, flight.snap.gen = st.gen,
         NEW p \in Ports \cup {0}, NEW lease \in {"unknown", "finite", "permanent"},
         Push(Entry(p, lease)),
         NEW pc \in {"send", "sent"},
         flight' = [flight EXCEPT !.pc = pc, !.cand = Entry(p, lease)],
         flight.prev # 0 => p = flight.prev,
         pc = "send" => flight.kind # "upnp" /\ lease = "unknown",
         pc = "sent" => p \in Ports,
         UNCHANGED <<world, closing, terminal, pending, lookups, prober, reader, launcher, releases, sh, events>>,
         permits' \subseteq {"flight"}
  PROVE  IInv'
<1> USE DEF IInv, world
<1> DEFINE c == Entry(p, lease)
<1>1. /\ c \in Ownerships /\ c.own = nextOwn /\ c.kind = flight.kind /\ c.gw = flight.snap.gw
      /\ c.iport = flight.iport /\ c.gen = flight.snap.gen /\ c.port = p /\ c.lease = lease
  BY EntryFacts
<1>2. st' = [st EXCEPT !.ledger = @ \cup {c}] /\ nextOwn' = nextOwn + 1
  BY DEF Push
<1>3. flight' = [flight EXCEPT !.pc = pc, !.cand = c]
  OBVIOUS
<1> HIDE DEF c
<1>4. /\ st' \in States /\ st'.ledger = st.ledger \cup {c} /\ st'.mapping = st.mapping
      /\ st'.gen = st.gen /\ st'.gateway = st.gateway /\ st'.port = st.port
  BY <1>1, <1>2 DEF TypeOK, StateOK, States
<1>5. /\ flight' \in Flights /\ flight'.pc = pc /\ flight'.cand = c /\ flight'.snap = flight.snap
      /\ flight'.iport = flight.iport /\ flight'.prev = flight.prev /\ flight'.kind = flight.kind
  BY <1>1, <1>3, ZenonT(40) DEF TypeOK, StateOK, Flights, FlightPcs
<1>6. nextOwn \in Nat
  BY DEF TypeOK, StateOK
<1>7. TypeOK' /\ Looking' /\ Stopping' /\ LeftShrinks
  BY <1>2, <1>4, <1>5, <1>6, BusyKeeps DEF TypeOK, StateOK, ReleasesCounted, Launchers
<1>8. Entries' = Entries \cup {c}
  BY <1>4 DEF Entries
<1>9. \A e \in Entries : e.own < nextOwn /\ e.own \in Nat
  <2>1. Entries \subseteq Ownerships
    BY DEF Entries, TypeOK, StateOK, States, Mappings
  <2> QED BY <2>1 DEF Books, Owns, Ownerships
<1>10. \A t \in releases : t.e.own < nextOwn /\ t.e.own \in Nat
  BY DEF Books, Owns, TypeOK, ReleasesCounted, Ownerships
<1>11. st.ledger \subseteq Entries /\ (st.mapping # None => st.mapping.e \in Entries)
  BY DEF Entries
<1>12. Owns'
  <2>1. sh'.pc # "ledger"
    BY DEF Stopping, WorkDone
  <2>2. \A e \in Entries' : e.own < nextOwn'
    BY <1>1, <1>2, <1>6, <1>8, <1>9
  <2>3. \A t \in releases' : t.e.own < nextOwn'
    BY <1>2, <1>6, <1>10
  <2>4. \A e \in st.ledger : e.own # c.own
    BY <1>1, <1>6, <1>9, <1>11
  <2>5. \A t \in releases : t.e.own # c.own
    BY <1>1, <1>6, <1>10
  <2>6. st.mapping # None => c.own # st.mapping.e.own
    BY <1>1, <1>6, <1>9, <1>11
  <2>7. /\ \A e, f \in st'.ledger : e.own = f.own => e = f
        /\ \A t \in releases' : \A e \in st'.ledger : e.own = t.e.own => e = t.e
    BY <1>4, <2>4, <2>5 DEF Books, Owns
  <2>8. st'.mapping # None => /\ \A e \in st'.ledger : e.own # st'.mapping.e.own
                              /\ \A t \in releases' : t.e.own # st'.mapping.e.own
    BY <1>4, <2>6 DEF Books, Owns
  <2> QED BY <1>4, <1>5, <2>1, <2>2, <2>3, <2>5, <2>7, <2>8 DEF Owns
<1>13. Covered'
  BY <1>8 DEF Books, Covered, Hits
<1>14. MapGen'
  BY <1>1, <1>4 DEF Books, MapGen
<1>15. Unsent'
  BY <1>1, <1>5, <1>6, <1>9 DEF Books, Covered, Unsent
<1>16. Context'
  BY <1>1, <1>4, <1>5 DEF Journey, Context, SameGen, Ported, Owning, Passed, AfterSettle, Observed
<1>17. Settled'
  BY <1>1, <1>4, <1>5 DEF Journey, Settled, SameGen, Owning, Passed, AfterSettle
<1> QED BY <1>7, <1>12, <1>13, <1>14, <1>15, <1>16, <1>17 DEF Books, Journey

LEMMA PushPxpKeeps ==
  ASSUME IInv, PushPxp
  PROVE  IInv'
<1> USE DEF PushPxp
<1>1. flight.pc # "idle" /\ flight.pc \in AfterSettle
  BY DEF AfterSettle, Passed
<1>2. CASE AfterPxp /\ UNCHANGED <<st, nextOwn>>
  <2>1. GoesBack /\ flight' \in Flights /\ launcher' \in Launchers
    BY <1>1, <1>2, GiveUpFacts DEF IInv
  <2>2. SameBooks /\ Shrink /\ st' \in States
    BY <1>2 DEF SameBooks, Shrink, IInv, TypeOK, StateOK, world
  <2>3. Journey'
    BY <2>1, <2>2, GoesBackJourney DEF IInv
  <2> QED BY <1>1, <1>2, <2>1, <2>2, <2>3, GoesBackFacts, FlightMoves DEF flightOnly, gate
<1>3. CASE FEnd /\ UNCHANGED <<st, nextOwn>>
  BY <1>1, <1>3, FlightEnds DEF flightOnly, gate
<1>4. CASE /\ Current(flight.snap)
           /\ Push(Entry(flight.prev, "unknown"))
           /\ flight' = [flight EXCEPT !.pc = "send", !.cand = Entry(flight.prev, "unknown")]
           /\ UNCHANGED launcher
  <2>1. flight.snap.gen = st.gen /\ flight.prev \in Ports \cup {0} /\ permits' \subseteq {"flight"}
    BY <1>4 DEF Current, IInv, TypeOK, StateOK, Flights
  <2>2. flight.kind # "upnp"
    BY DEF IInv, Journey, Context
  <2> QED BY <1>4, <2>1, <2>2, PushKeeps DEF world
<1> QED BY <1>2, <1>3, <1>4

LEMMA AddUpnpKeeps ==
  ASSUME IInv, AddUpnp
  PROVE  IInv'
<1> USE DEF AddUpnp
<1>1. flight.pc # "idle" /\ flight.pc \in AfterSettle
  BY DEF AfterSettle, Passed
<1>2. CASE FGoto("next_service") /\ UNCHANGED <<st, nextOwn, permits>>
  <2>1. /\ flight' \in Flights /\ flight'.pc = "next_service"
        /\ flight'.snap = flight.snap /\ flight'.iport = flight.iport /\ flight'.prev = flight.prev
    BY <1>2, StepFacts DEF IInv, FlightPcs
  <2>2. SameBooks /\ Shrink /\ st' \in States /\ launcher' \in Launchers
    BY <1>2 DEF SameBooks, Shrink, IInv, TypeOK, StateOK, world, Launchers
  <2>3. GoesBack
    BY <1>1, <2>1 DEF GoesBack
  <2>4. Journey'
    BY <2>2, <2>3, GoesBackJourney DEF IInv
  <2> QED BY <1>1, <1>2, <2>1, <2>2, <2>3, <2>4, GoesBackFacts, FlightMoves DEF flightOnly, gate
<1>3. CASE \E p \in IF flight.pc = "add_permanent" THEN {flight.cand.port}
                    ELSE IF flight.prev = 0 THEN Ports ELSE {flight.prev} :
             LET e == Entry(p, IF flight.pc = "add" THEN "finite" ELSE "permanent") IN
             /\ MaySend(flight.snap)
             /\ Push(e)
             /\ flight' = [flight EXCEPT !.pc = "sent", !.cand = e]
             /\ permits' = permits \cup {"flight"}
  <2> DEFINE lease == IF flight.pc = "add" THEN "finite" ELSE "permanent"
  <2>1. PICK p \in IF flight.pc = "add_permanent" THEN {flight.cand.port}
                   ELSE IF flight.prev = 0 THEN Ports ELSE {flight.prev} :
          /\ MaySend(flight.snap) /\ Push(Entry(p, lease))
          /\ flight' = [flight EXCEPT !.pc = "sent", !.cand = Entry(p, lease)]
          /\ permits' = permits \cup {"flight"}
    BY <1>3
  <2>2. flight.prev \in Ports \cup {0} /\ permits \subseteq {"flight"}
    BY DEF IInv, TypeOK, StateOK, Flights
  <2>3. p \in Ports /\ (flight.prev # 0 => p = flight.prev)
    BY <2>1, <2>2 DEF IInv, Journey, Context
  <2>4. lease \in {"unknown", "finite", "permanent"} /\ flight.snap.gen = st.gen
    BY <2>1 DEF MaySend
  <2> HIDE DEF lease
  <2> QED BY <2>1, <2>2, <2>3, <2>4, PushKeeps
<1> QED BY <1>2, <1>3

-----------------------------------------------------------------------------
(* What becomes of the new entry                                              *)

\* An entry whose request made nothing may be forgotten.
LEMMA ForgetUnsent ==
  ASSUME IInv, flight.pc \in {"send", "sent"}, st' = Forget(st, flight.cand.own),
         UNCHANGED <<nat, releases, nextOwn>>, LeftShrinks, flight'.pc \notin Owning
  PROVE  st' \in States /\ Shrink /\ Books'
<1> USE DEF IInv
<1>1. /\ st' \in States /\ st'.ledger = {e \in st.ledger : e.own # flight.cand.own}
      /\ st'.mapping = st.mapping /\ st'.gen = st.gen /\ st'.gateway = st.gateway /\ st'.port = st.port
  BY ForgetFacts DEF TypeOK, StateOK
<1>2. Shrink
  BY <1>1 DEF Shrink
<1>3. Owns' /\ MapGen'
  BY <1>2, ShrinkBooks
<1>4. Covered'
  <2> SUFFICES ASSUME NEW g \in Gateways, NEW r \in nat[g]
               PROVE  \E e \in Entries' : e.own = r.by /\ e.gw = g /\ Hits(e, r)
    BY DEF Covered, Hits
  <2>1. PICK e \in Entries : e.own = r.by /\ e.gw = g /\ Hits(e, r)
    BY DEF Books, Covered
  <2>2. e.own # flight.cand.own
    BY <2>1 DEF Journey, Unsent
  <2>3. e \in Entries'
    BY <1>1, <2>2 DEF Entries
  <2> QED BY <2>1, <2>3
<1> QED BY <1>1, <1>2, <1>3, <1>4 DEF Books

LEMMA SendPxpKeeps ==
  ASSUME IInv, SendPxp
  PROVE  IInv'
<1> USE DEF SendPxp, flightOnly, gate, world
<1>1. CASE MaySend(flight.snap) /\ FGoto("sent") /\ UNCHANGED <<st, launcher>>
  <2>1. /\ flight' \in Flights /\ flight'.pc = "sent" /\ flight'.svc = flight.svc
        /\ flight'.snap = flight.snap /\ flight'.iport = flight.iport /\ flight'.prev = flight.prev
        /\ flight'.kind = flight.kind /\ flight'.cand = flight.cand /\ flight'.back = flight.back
    BY <1>1, StepFacts DEF IInv, FlightPcs
  <2>2. SameBooks /\ launcher' \in Launchers
    BY <1>1 DEF SameBooks, IInv, TypeOK, StateOK, Launchers
  <2>3. TypeOK' /\ Looking' /\ Stopping' /\ LeftShrinks
    BY <1>1, <2>1, <2>2, BusyKeeps DEF IInv, TypeOK, StateOK, ReleasesCounted
  <2>4. Books'
    BY <2>1, <2>2, <2>3, SameBooksKeep DEF IInv, Owning
  <2>5. flight.cand \in Ownerships
    BY DEF IInv, Books, Owns, Owning, TypeOK, StateOK, States
  <2>6. Unsent' /\ Context'
    BY <1>1, <2>1, <2>5 DEF IInv, Journey, Unsent, Context, SameGen, Ported, Owning, Passed, AfterSettle, Observed
  <2>7. Settled'
    BY <1>1, <2>1 DEF IInv, Journey, Settled, SameGen, Owning, Passed, AfterSettle
  <2> QED BY <2>3, <2>4, <2>6, <2>7 DEF IInv, Journey
<1>2. CASE st' = Forget(st, flight.cand.own) /\ FEnd
  <2>1. flight' \in Flights /\ flight'.pc = "idle" /\ launcher' \in Launchers
    BY <1>2, FEndFacts DEF IInv
  <2>2. st' \in States /\ st'.mapping = st.mapping
    BY <1>2, ForgetFacts DEF IInv, TypeOK, StateOK
  <2>3. TypeOK' /\ Looking' /\ Stopping' /\ LeftShrinks
    BY <2>1, <2>2, BusyKeeps DEF IInv, TypeOK, StateOK, ReleasesCounted
  <2>4. Books'
    BY <1>2, <2>1, <2>3, ForgetUnsent DEF Owning
  <2> QED BY <2>1, <2>3, <2>4, NoJourney DEF IInv
<1> QED BY <1>1, <1>2

LEMMA RejectedKeeps ==
  ASSUME IInv, Rejected
  PROVE  IInv'
<1> USE DEF Rejected, gate, world
<1>1. flight.pc \in AfterSettle /\ flight.pc # "idle"
  BY DEF AfterSettle, Passed, Owning
<1>2. /\ flight' \in Flights /\ launcher' \in Launchers
      /\ \/ GoesBack
         \/ /\ flight'.pc = "add_permanent" /\ flight.cand.lease = "finite"
            /\ flight'.snap = flight.snap /\ flight'.iport = flight.iport /\ flight'.prev = flight.prev
            /\ flight'.kind = flight.kind /\ flight'.cand = flight.cand
  <2>1. CASE GiveUp
    BY <1>1, <2>1, GiveUpFacts DEF IInv
  <2>2. CASE flight.cand.lease = "finite" /\ FGoto("add_permanent") /\ UNCHANGED launcher
    BY <2>2, StepFacts DEF IInv, FlightPcs, TypeOK, StateOK, Launchers
  <2> QED BY <2>1, <2>2
<1>3. flight'.pc # "lookup" /\ flight'.pc \notin Owning
  BY <1>2 DEF GoesBack, Owning
<1>4. /\ st' \in States /\ st'.mapping = st.mapping
  BY ForgetFacts DEF IInv, TypeOK, StateOK
<1>5. TypeOK' /\ Looking' /\ Stopping' /\ LeftShrinks
  BY <1>1, <1>2, <1>3, <1>4, BusyKeeps DEF IInv, TypeOK, StateOK, ReleasesCounted
<1>6. Shrink /\ Books'
  BY <1>3, <1>5, ForgetUnsent
<1>7. CASE GoesBack
  BY <1>5, <1>6, <1>7, GoesBackJourney DEF IInv
<1>8. CASE ~GoesBack
  <2>1. Unsent' /\ Context'
    BY <1>2, <1>6, <1>8 DEF IInv, Journey, Unsent, Context, Shrink, SameGen, Ported, Owning, Passed, AfterSettle, Observed
  <2>2. Settled'
    BY <1>2, <1>6, <1>8 DEF IInv, Journey, Settled, Shrink, SameGen, Owning, Passed, AfterSettle
  <2> QED BY <1>5, <1>6, <2>1, <2>2 DEF IInv, Journey
<1> QED BY <1>7, <1>8

\* What a gateway does with a request for the entry e.
LEMMA AddedFacts ==
  ASSUME TypeOK, NEW e \in Ownerships, NEW p \in Grants(e), e.kind = "upnp" => e.port \in Ports
  PROVE  /\ p \in Ports /\ (e.kind = "upnp" => p = e.port)
         /\ Added(e, p) \in [Gateways -> SUBSET Records]
         /\ Record(e, p).by = e.own /\ Hits(e, Record(e, p))
         /\ \A g \in Gateways : \A r \in Added(e, p)[g] :
              \/ r \in nat[g] /\ ~(g = e.gw /\ Hits(e, r))
              \/ g = e.gw /\ r = Record(e, p)
<1>1. nat \in [Gateways -> SUBSET Records] /\ e.gw \in Gateways
  BY DEF TypeOK, StateOK, Ownerships
<1>2. \A r \in nat[e.gw] : r.port \in Ports
  BY <1>1 DEF Records
<1>3. p \in Ports /\ (e.kind = "upnp" => p = e.port)
  <2>1. CASE e.kind = "upnp"
    BY <2>1 DEF Grants
  <2>2. CASE e.kind # "upnp"
    BY <1>2, <2>2 DEF Grants
  <2> QED BY <2>1, <2>2
<1>4. Record(e, p) \in Records /\ Record(e, p).by = e.own
  BY <1>3 DEF Record, Records, Ownerships
<1>5. Hits(e, Record(e, p))
  BY <1>3 DEF Hits, Record, Ownerships, Kinds, Pxp
<1>6. Deleted(e) \in [Gateways -> SUBSET Records]
  BY <1>1 DEF Deleted
<1>7. Added(e, p) \in [Gateways -> SUBSET Records]
  BY <1>1, <1>4, <1>6 DEF Added
<1>8. \A g \in Gateways : \A r \in Added(e, p)[g] :
         \/ r \in nat[g] /\ ~(g = e.gw /\ Hits(e, r))
         \/ g = e.gw /\ r = Record(e, p)
  <2> SUFFICES ASSUME NEW g \in Gateways, NEW r \in Added(e, p)[g]
               PROVE  \/ r \in nat[g] /\ ~(g = e.gw /\ Hits(e, r))
                      \/ g = e.gw /\ r = Record(e, p)
    OBVIOUS
  <2>1. CASE g = e.gw
    BY <1>1, <1>6, <2>1 DEF Added, Deleted
  <2>2. CASE g # e.gw
    BY <1>1, <1>6, <2>2 DEF Added, Deleted
  <2> QED BY <2>1, <2>2
<1> QED BY <1>3, <1>4, <1>5, <1>7, <1>8

\* The entry of a request, as sent.
LEMMA CandFacts ==
  ASSUME IInv, flight.pc = "sent"
  PROVE  /\ flight.cand \in Ownerships /\ flight.cand \in st.ledger /\ flight.cand \in Entries
         /\ flight.cand.kind = "upnp" => flight.cand.port \in Ports
BY DEF IInv, Books, Owns, Owning, Journey, Context, Entries

LEMMA LostKeeps ==
  ASSUME IInv, Lost
  PROVE  IInv'
<1> USE DEF Lost, gate, world
<1> DEFINE c == flight.cand
<1>1. c \in Ownerships /\ c \in st.ledger /\ c \in Entries /\ (c.kind = "upnp" => c.port \in Ports)
  BY CandFacts
<1>2. flight.pc \in AfterSettle /\ flight.pc # "idle"
  BY DEF AfterSettle, Passed, Owning
<1>3. /\ nat' \in [Gateways -> SUBSET Records]
      /\ \A g \in Gateways : \A r \in nat'[g] : r \in nat[g] \/ (g = c.gw /\ r.by = c.own /\ Hits(c, r))
  <2>1. CASE nat' = nat
    BY <2>1 DEF IInv, TypeOK, StateOK
  <2>2. CASE nat' # nat
    <3>1. PICK p \in Grants(c) : nat' = Added(c, p)
      BY <2>2
    <3> HIDE DEF c, Lost
    <3>2. /\ Added(c, p) \in [Gateways -> SUBSET Records]
          /\ Record(c, p).by = c.own /\ Hits(c, Record(c, p))
          /\ \A g \in Gateways : \A r \in Added(c, p)[g] : r \in nat[g] \/ (g = c.gw /\ r = Record(c, p))
      BY <1>1, AddedFacts DEF IInv
    <3> QED BY <3>1, <3>2
  <2> QED BY <2>1, <2>2
<1>4. /\ flight' \in Flights /\ launcher' \in Launchers
      /\ \/ GoesBack
         \/ /\ flight'.pc = "compensate"
            /\ flight'.snap = flight.snap /\ flight'.iport = flight.iport /\ flight'.prev = flight.prev
            /\ flight'.kind = flight.kind /\ flight'.cand = flight.cand
  <2>1. CASE AfterPxp
    BY <1>2, <2>1, GiveUpFacts DEF IInv
  <2>2. CASE FGoto("compensate") /\ UNCHANGED launcher
    BY <2>2, StepFacts DEF IInv, FlightPcs, TypeOK, StateOK, Launchers
  <2> QED BY <2>1, <2>2
<1>5. flight'.pc # "lookup" /\ (flight'.pc \in Owning => flight'.cand = flight.cand)
  BY <1>4 DEF GoesBack, Owning
<1>6. TypeOK' /\ Looking' /\ Stopping' /\ LeftShrinks
  BY <1>2, <1>3, <1>4, <1>5, BusyKeeps DEF IInv, TypeOK, StateOK, ReleasesCounted
<1>7. Shrink
  BY DEF Shrink
<1>8. Owns' /\ MapGen'
  BY <1>1, <1>5, <1>6, <1>7, ShrinkBooks DEF IInv, Owning
<1>9. Entries' = Entries
  BY DEF Entries
<1>10. Covered'
  <2> HIDE DEF c
  <2> QED BY <1>1, <1>3, <1>9 DEF IInv, Books, Covered, Hits
<1>11. Journey'
  <2>1. CASE GoesBack
    BY <1>7, <2>1, GoesBackJourney DEF IInv
  <2>2. CASE ~GoesBack
    <3>1. Unsent' /\ Context'
      BY <1>4, <2>2 DEF IInv, Journey, Unsent, Context, SameGen, Ported, Owning, Passed, AfterSettle, Observed
    <3>2. Settled'
      BY <1>4, <2>2 DEF IInv, Journey, Settled, SameGen, Owning, Passed, AfterSettle
    <3> QED BY <3>1, <3>2 DEF Journey
  <2> QED BY <2>1, <2>2
<1> QED BY <1>6, <1>8, <1>10, <1>11 DEF IInv, Books

LEMMA GrantedKeeps ==
  ASSUME IInv, Granted
  PROVE  IInv'
<1> USE DEF gate, world
<1> DEFINE d == flight.cand
<1>1. d \in Ownerships /\ d \in st.ledger /\ d \in Entries /\ (d.kind = "upnp" => d.port \in Ports)
  BY CandFacts DEF Granted
<1>2. flight.pc = "sent" /\ flight.pc # "idle"
  BY DEF Granted
<1>3. PICK p \in Grants(d), pc \in {"commit", "compensate"} :
        LET c == [d EXCEPT !.port = p, !.lease = IF @ = "unknown" THEN "finite" ELSE @] IN
        /\ nat' = Added(d, p)
        /\ st' = IF Owned(st, c.own) THEN [Forget(st, c.own) EXCEPT !.ledger = @ \cup {c}] ELSE st
        /\ flight' = [flight EXCEPT !.pc = pc, !.cand = c]
  BY DEF Granted
<1> DEFINE c == [d EXCEPT !.port = p, !.lease = IF @ = "unknown" THEN "finite" ELSE @]
<1>4. /\ nat' = Added(d, p) /\ flight' = [flight EXCEPT !.pc = pc, !.cand = c]
      /\ st' = IF Owned(st, c.own) THEN [Forget(st, c.own) EXCEPT !.ledger = @ \cup {c}] ELSE st
  BY <1>3
<1>5. UNCHANGED <<gwNow, closing, terminal, pending, nextOwn, lookups, prober, reader, launcher, releases, sh, events>> /\ permits' \subseteq permits
  BY DEF Granted
<1>6. c = [d EXCEPT !.port = p, !.lease = IF d.lease = "unknown" THEN "finite" ELSE d.lease]
  BY <1>1 DEF Ownerships
<1> HIDE DEF c
<1>7. /\ p \in Ports /\ (d.kind = "upnp" => p = d.port)
      /\ nat' \in [Gateways -> SUBSET Records]
      /\ Record(d, p).by = d.own /\ Hits(d, Record(d, p))
      /\ \A g \in Gateways : \A r \in nat'[g] :
           \/ r \in nat[g] /\ ~(g = d.gw /\ Hits(d, r))
           \/ g = d.gw /\ r = Record(d, p)
  <2> HIDE DEF d
  <2> QED BY <1>1, <1>4, AddedFacts DEF IInv
<1>8. /\ c \in Ownerships /\ c.own = d.own /\ c.kind = d.kind /\ c.gw = d.gw /\ c.iport = d.iport
      /\ c.gen = d.gen /\ c.port = p
  <2>1. PICK lease \in {"unknown", "finite", "permanent"} : c = [d EXCEPT !.port = p, !.lease = lease]
    BY <1>1, <1>6 DEF Ownerships
  <2> HIDE DEF d
  <2> QED BY <1>1, <1>7, <2>1 DEF Ownerships
<1>9. Hits(c, Record(d, p))
  <2> HIDE DEF d
  <2> QED BY <1>1, <1>7, <1>8 DEF Hits, Pxp, Record, Ownerships, Kinds
<1>10. /\ st' \in States /\ st'.ledger = {e \in st.ledger : e.own # d.own} \cup {c}
       /\ st'.mapping = st.mapping /\ st'.gen = st.gen /\ st'.gateway = st.gateway /\ st'.port = st.port
  <2> DEFINE f == Forget(st, c.own)
  <2>1. /\ f \in States /\ f.ledger = {e \in st.ledger : e.own # d.own}
        /\ f.mapping = st.mapping /\ f.gen = st.gen /\ f.gateway = st.gateway /\ f.port = st.port
    BY <1>8, ForgetFacts DEF IInv, TypeOK, StateOK
  <2>2. Owned(st, c.own)
    BY <1>1, <1>8 DEF Owned
  <2>3. st' = [f EXCEPT !.ledger = f.ledger \cup {c}]
    BY <1>4, <2>1, <2>2 DEF States
  <2> HIDE DEF f
  <2> QED BY <1>8, <2>1, <2>3 DEF States
<1>11. /\ flight' \in Flights /\ flight'.pc = pc /\ flight'.cand = c /\ flight'.snap = flight.snap
       /\ flight'.iport = flight.iport /\ flight'.prev = flight.prev /\ flight'.kind = flight.kind
  BY <1>4, <1>8 DEF IInv, TypeOK, StateOK, Flights, FlightPcs
<1>12. TypeOK' /\ Looking' /\ Stopping' /\ LeftShrinks
  BY <1>2, <1>5, <1>7, <1>10, <1>11, BusyKeeps DEF IInv, TypeOK, StateOK, ReleasesCounted, Launchers
<1>13. \A e \in Entries' : e = c \/ (e \in Entries /\ e.own # d.own)
  <2>1. st.mapping # None => st.mapping.e.own # d.own
    BY <1>1 DEF IInv, Books, Owns
  <2> QED BY <1>10, <2>1 DEF Entries
<1>14. /\ \A e \in Entries : e.own # d.own => e \in Entries'
       /\ c \in Entries'
  BY <1>10 DEF Entries
<1>15. Owns'
  <2>1. sh'.pc # "ledger"
    BY <1>2, <1>5 DEF IInv, Stopping, WorkDone
  <2>2. \A t \in releases : t.e.own # d.own
    BY <1>2 DEF IInv, Books, Owns, Owning
  <2>3. \A e \in Entries' : e.own < nextOwn'
    BY <1>1, <1>5, <1>8, <1>13 DEF IInv, Books, Owns
  <2>4. \A t \in releases' : t.e.own < nextOwn'
    BY <1>5 DEF IInv, Books, Owns
  <2>5. /\ \A e, f \in st'.ledger : e.own = f.own => e = f
        /\ \A t \in releases' : \A e \in st'.ledger : e.own = t.e.own => e = t.e
    BY <1>5, <1>8, <1>10, <2>2 DEF IInv, Books, Owns
  <2>6. st'.mapping # None => /\ \A e \in st'.ledger : e.own # st'.mapping.e.own
                              /\ \A t \in releases' : t.e.own # st'.mapping.e.own
    BY <1>1, <1>5, <1>8, <1>10 DEF IInv, Books, Owns
  <2> QED BY <1>5, <1>8, <1>10, <1>11, <2>1, <2>2, <2>3, <2>4, <2>5, <2>6 DEF Owns
<1>16. Covered'
  <2> SUFFICES ASSUME NEW g \in Gateways, NEW r \in nat'[g]
               PROVE  \E e \in Entries' : e.own = r.by /\ e.gw = g /\ Hits(e, r)
    BY DEF Covered, Hits
  <2>1. CASE g = d.gw /\ r = Record(d, p)
    BY <1>7, <1>8, <1>9, <1>14, <2>1
  <2>2. CASE r \in nat[g]
    BY <1>2, <1>14, <2>2 DEF IInv, Books, Covered, Journey, Unsent
  <2> QED BY <1>7, <2>1, <2>2
<1>17. MapGen'
  BY <1>1, <1>5, <1>8, <1>10 DEF IInv, Books, MapGen
<1>18. Unsent' /\ Context'
  BY <1>2, <1>7, <1>8, <1>10, <1>11 DEF IInv, Journey, Unsent, Context, SameGen, Ported, Owning, Passed, AfterSettle, Observed
<1>19. Settled'
  <2> SUFFICES ASSUME SameGen
               PROVE  Settled'
    BY <1>10, <1>11 DEF Settled, SameGen
  <2>1. /\ \A t \in releases : t.e.gen = st.gen
        /\ st.mapping # None => st.mapping.e.port = flight.prev /\ st.mapping.e.kind = flight.kind
        /\ \A e \in st.ledger : e.gen = st.gen
    BY <1>2 DEF IInv, Journey, Settled, AfterSettle, Passed, Owning
  <2>2. \A e \in st'.ledger : e.gen = st'.gen
    BY <1>1, <1>8, <1>10, <2>1
  <2>3. ASSUME st.mapping # None, NEW g \in Gateways, NEW r \in nat'[g], r.by = st.mapping.e.own
        PROVE  FALSE
    <3> DEFINE m == st.mapping.e
    <3>1. m.own # d.own /\ \A e \in st.ledger : e.own # m.own
      BY <1>1, <2>3 DEF IInv, Books, Owns
    <3>2. r \in nat[g] /\ ~(g = d.gw /\ Hits(d, r))
      BY <1>7, <2>3, <3>1
    <3>3. g = m.gw /\ Hits(m, r)
      BY <2>3, <3>1, <3>2 DEF IInv, Books, Covered, Entries
    <3>4. m.gw = st.gateway /\ m.iport = st.port /\ m.port \in Ports
      BY <2>3 DEF IInv, Books, MapGen
    <3>5. d.gw = st.gateway /\ d.iport = st.port /\ d.kind = flight.kind /\ (flight.prev # 0 => d.port = flight.prev)
      BY <1>2 DEF IInv, Journey, Context, Ported, Observed, AfterSettle, Passed, Owning, SameGen
    <3>6. m.port # 0 /\ m.port = flight.prev /\ m.kind = flight.kind
      BY <2>1, <2>3, <3>4, PortMapperAssumption
    <3> HIDE DEF m, d
    <3>7. d.kind = m.kind /\ d.iport = m.iport /\ d.port = m.port /\ d.gw = m.gw
      BY <3>4, <3>5, <3>6
    <3> QED BY <3>2, <3>3, <3>7 DEF Hits
  <2>4. \A t \in releases' : t.e.gen = st'.gen
    BY <1>5, <1>10, <2>1
  <2> QED BY <1>10, <1>11, <2>1, <2>2, <2>3, <2>4 DEF Settled
<1> QED BY <1>12, <1>15, <1>16, <1>17, <1>18, <1>19 DEF IInv, Books, Journey

LEMMA CommitKeeps ==
  ASSUME IInv, Commit
  PROVE  IInv'
<1> USE DEF flightOnly, gate, world
<1> DEFINE c == flight.cand
<1>1. flight.pc = "commit" /\ flight.pc # "idle"
  BY DEF Commit
<1>2. CASE ~Current(flight.snap)
  <2>1. UNCHANGED <<st, launcher>> /\ UNCHANGED flightOnly /\ FGoto("compensate")
    BY <1>2 DEF Commit
  <2>2. /\ flight' \in Flights /\ flight'.pc = "compensate"
        /\ flight'.snap = flight.snap /\ flight'.iport = flight.iport /\ flight'.prev = flight.prev
        /\ flight'.kind = flight.kind /\ flight'.cand = flight.cand
    BY <2>1, StepFacts DEF IInv, FlightPcs
  <2>3. SameBooks /\ launcher' \in Launchers
    BY <2>1 DEF SameBooks, IInv, TypeOK, StateOK, Launchers
  <2>4. TypeOK' /\ Looking' /\ Stopping' /\ LeftShrinks
    BY <1>1, <2>1, <2>2, <2>3, BusyKeeps DEF IInv, TypeOK, StateOK, ReleasesCounted
  <2>5. Books'
    BY <1>1, <2>2, <2>3, <2>4, SameBooksKeep DEF IInv, Owning
  <2>6. Unsent' /\ Context'
    BY <1>1, <2>1, <2>2 DEF IInv, Journey, Unsent, Context, SameGen, Ported, Owning, Passed, AfterSettle, Observed
  <2>7. Settled'
    BY <1>1, <2>1, <2>2 DEF IInv, Journey, Settled, SameGen, Owning, Passed, AfterSettle
  <2> QED BY <2>4, <2>5, <2>6, <2>7 DEF IInv, Journey
<1>3. CASE Current(flight.snap)
  <2> DEFINE f == Forget(st, c.own)
             m == [e |-> c, age |-> "fresh"]
  <2>1. /\ \E seen \in SUBSET Kinds : st' = [f EXCEPT !.mapping = m, !.seen = seen]
        /\ FEnd /\ UNCHANGED flightOnly
    <3>1. f \in States
      BY ForgetFacts DEF IInv, TypeOK, StateOK
    <3>2. f.seen \in SUBSET Kinds /\ f.seen \cup {"pmp"} \in SUBSET Kinds
      BY <3>1 DEF States, Kinds
    <3>3. st' = [f EXCEPT !.mapping = m, !.seen = IF c.kind = "pmp" THEN f.seen \cup {"pmp"} ELSE f.seen]
      BY <1>3, <3>1 DEF Commit, States
    <3> QED BY <1>3, <3>2, <3>3 DEF Commit
  <2>2. PICK seen \in SUBSET Kinds : st' = [f EXCEPT !.mapping = m, !.seen = seen]
    BY <2>1
  <2>3. c \in Ownerships /\ c \in st.ledger
    BY <1>1 DEF IInv, Books, Owns, Owning, TypeOK, StateOK, States
  <2>4. m \in Mappings /\ m.e = c /\ m # None
    BY <2>3, PortMapperAssumption DEF Mappings
  <2>5. /\ f \in States /\ f.ledger = {e \in st.ledger : e.own # c.own}
        /\ f.gen = st.gen /\ f.gateway = st.gateway /\ f.port = st.port
    BY ForgetFacts DEF IInv, TypeOK, StateOK
  <2>6. /\ st' \in States /\ st'.mapping = m /\ st'.ledger = {e \in st.ledger : e.own # c.own}
        /\ st'.gen = st.gen /\ st'.gateway = st.gateway /\ st'.port = st.port
    <3> HIDE DEF f, m
    <3> QED BY <2>2, <2>4, <2>5 DEF States
  <2> HIDE DEF f, m, c
  <2>7. flight' \in Flights /\ flight'.pc = "idle" /\ launcher' \in Launchers
    BY <2>1, FEndFacts DEF IInv
  <2>8. ~closing
    BY <1>3 DEF Current
  <2>9. TypeOK' /\ Looking' /\ Stopping' /\ LeftShrinks
    BY <1>1, <2>1, <2>6, <2>7, <2>8, BusyKeeps DEF IInv, TypeOK, StateOK, ReleasesCounted
  <2>10. Entries' = {e \in st.ledger : e.own # c.own} \cup {c}
    BY <2>4, <2>6 DEF Entries
  <2>11. Entries' = st.ledger /\ st.ledger \subseteq Entries
    BY <2>3, <2>10 DEF IInv, Books, Owns, Entries
  <2>12. Owns'
    <3>1. sh'.pc # "ledger"
      BY <1>1, <2>1 DEF IInv, Stopping, WorkDone
    <3>2. \A t \in releases : t.e.own # c.own
      BY <1>1 DEF IInv, Books, Owns, Owning, c
    <3>3. /\ \A e \in Entries' : e.own < nextOwn'
          /\ \A t \in releases' : t.e.own < nextOwn'
      BY <2>1, <2>11 DEF IInv, Books, Owns
    <3> QED BY <2>1, <2>4, <2>6, <2>7, <3>1, <3>2, <3>3 DEF IInv, Books, Owns, Owning
  <2>13. flight.snap.gen = st.gen /\ flight.snap.gw = st.gateway
    BY <1>3 DEF Current
  <2>14. Covered'
    <3> SUFFICES ASSUME NEW g \in Gateways, NEW r \in nat[g]
                 PROVE  \E e \in st.ledger : e.own = r.by /\ e.gw = g /\ Hits(e, r)
      BY <2>1, <2>11 DEF Covered, Hits
    <3>1. PICK e \in Entries : e.own = r.by /\ e.gw = g /\ Hits(e, r)
      BY DEF IInv, Books, Covered
    <3>2. st.mapping # None => r.by # st.mapping.e.own
      BY <1>1, <2>13 DEF IInv, Journey, Settled, SameGen, AfterSettle, Passed, Owning
    <3> QED BY <3>1, <3>2 DEF Entries
  <2>15. MapGen'
    <3>1. /\ c.gen = flight.snap.gen /\ c.gw = flight.snap.gw /\ c.iport = st.port /\ c.port \in Ports
      BY <1>1, <2>13 DEF IInv, Journey, Context, SameGen, Ported, AfterSettle, Passed, Owning, c
    <3>2. /\ \A t \in releases : t.e.gen = st.gen
          /\ \A e \in st.ledger : e.gen = st.gen
      BY <1>1, <2>13 DEF IInv, Journey, Settled, SameGen, AfterSettle, Passed, Owning
    <3> QED BY <2>1, <2>4, <2>6, <2>13, <3>1, <3>2 DEF MapGen
  <2> QED BY <2>7, <2>9, <2>12, <2>14, <2>15, NoJourney DEF IInv, Books
<1> QED BY <1>2, <1>3

-----------------------------------------------------------------------------
(* Deletions                                                                  *)

\* A deletion that was confirmed takes its entry and all that the entry covers.
LEMMA DoReleaseFacts ==
  ASSUME TypeOK, Books, NEW c \in Ownerships, DoRelease(c),
         \A e \in st.ledger : e.own = c.own => e = c,
         st.mapping # None => st.mapping.e.own # c.own
  PROVE  /\ nat' \in [Gateways -> SUBSET Records] /\ (\A g \in Gateways : nat'[g] \subseteq nat[g])
         /\ st' \in States /\ st'.ledger \subseteq st.ledger /\ st'.mapping = st.mapping
         /\ st'.gen = st.gen /\ st'.gateway = st.gateway /\ st'.port = st.port
         /\ \A e \in st.ledger : e.own # c.own => e \in st'.ledger
         /\ Covered'
<1>1. nat \in [Gateways -> SUBSET Records] /\ c.gw \in Gateways /\ st \in States
  BY DEF TypeOK, StateOK, Ownerships
<1>2. /\ Deleted(c) \in [Gateways -> SUBSET Records]
      /\ \A g \in Gateways : \A r \in Deleted(c)[g] : r \in nat[g] /\ ~(g = c.gw /\ Hits(c, r))
  BY <1>1 DEF Deleted
<1>3. \/ nat' = nat /\ st' = st
      \/ nat' = Deleted(c) /\ (st' = st \/ st' = Forget(st, c.own))
  BY DEF DoRelease
<1>4. /\ nat' \in [Gateways -> SUBSET Records] /\ (\A g \in Gateways : nat'[g] \subseteq nat[g])
  BY <1>1, <1>2, <1>3
<1>5. /\ st' \in States /\ st'.ledger \subseteq st.ledger /\ st'.mapping = st.mapping
      /\ st'.gen = st.gen /\ st'.gateway = st.gateway /\ st'.port = st.port
      /\ \A e \in st.ledger : e.own # c.own => e \in st'.ledger
  BY <1>1, <1>3, ForgetFacts
<1>6. Covered'
  <2> SUFFICES ASSUME NEW g \in Gateways, NEW r \in nat'[g]
               PROVE  \E e \in Entries' : e.own = r.by /\ e.gw = g /\ Hits(e, r)
    BY DEF Covered, Hits
  <2>1. PICK e \in Entries : e.own = r.by /\ e.gw = g /\ Hits(e, r)
    BY <1>4 DEF Books, Covered
  <2>2. CASE e \in Entries'
    BY <2>1, <2>2
  <2>3. CASE e \notin Entries'
    <3>1. e \in st.ledger /\ e \notin st'.ledger
      BY <1>5, <2>3 DEF Entries
    <3>2. nat' = Deleted(c) /\ e = c
      BY <1>3, <1>5, <3>1
    <3> QED BY <1>2, <2>1, <3>2
  <2> QED BY <2>2, <2>3
<1> QED BY <1>4, <1>5, <1>6

LEMMA CompensateKeeps ==
  ASSUME IInv, Compensate
  PROVE  IInv'
<1> USE DEF Compensate, gate
<1> DEFINE c == flight.cand
<1>1. /\ c \in Ownerships /\ \A e \in st.ledger : e.own = c.own => e = c
      /\ st.mapping # None => st.mapping.e.own # c.own
  BY DEF IInv, Books, Owns, Owning, TypeOK, StateOK, States
<1>2. /\ nat' \in [Gateways -> SUBSET Records] /\ (\A g \in Gateways : nat'[g] \subseteq nat[g])
      /\ st' \in States /\ st'.ledger \subseteq st.ledger /\ st'.mapping = st.mapping
      /\ st'.gen = st.gen /\ st'.gateway = st.gateway /\ st'.port = st.port
      /\ Covered'
  <2>1. DoRelease(c)
    OBVIOUS
  <2> HIDE DEF c, Compensate
  <2> QED BY <1>1, <2>1, DoReleaseFacts DEF IInv
<1>3. flight.pc \in AfterSettle
  BY DEF AfterSettle, Passed, Owning
<1>4. GoesBack /\ flight' \in Flights /\ launcher' \in Launchers
  BY <1>3, GiveUpFacts DEF IInv
<1>5. TypeOK' /\ Looking' /\ Stopping' /\ LeftShrinks
  BY <1>2, <1>4, GoesBackFacts, BusyKeeps DEF IInv, TypeOK, StateOK, ReleasesCounted
<1>6. Shrink
  BY <1>2 DEF Shrink
<1> QED BY <1>2, <1>4, <1>5, <1>6, GoesBackFacts, ShrinkBooks, GoesBackJourney DEF IInv, Books

LEMMA RetryUncertainKeeps ==
  ASSUME IInv, RetryUncertain
  PROVE  IInv'
<1> USE DEF gate
<1>1. PICK tried \in SUBSET {e \in st.ledger : SameService(e) /\ MayCleanUp} :
      \E over \in SUBSET (tried \cup {e \in st.ledger : SameService(e) /\ ~Live(e)}),
         pc \in {"add", "next_service"} :
        /\ st' = IF Current(flight.snap) THEN [st EXCEPT !.ledger = @ \ over] ELSE st
        /\ nat' = [g \in Gateways |-> {r \in nat[g] : \A e \in tried : e.gw = g => ~Hits(e, r)}]
        /\ FGoto(pc)
  BY DEF RetryUncertain
<1>2. PICK over \in SUBSET (tried \cup {e \in st.ledger : SameService(e) /\ ~Live(e)}),
           pc \in {"add", "next_service"} :
        /\ st' = IF Current(flight.snap) THEN [st EXCEPT !.ledger = @ \ over] ELSE st
        /\ nat' = [g \in Gateways |-> {r \in nat[g] : \A e \in tried : e.gw = g => ~Hits(e, r)}]
        /\ FGoto(pc)
  BY <1>1
<1>3. /\ flight.pc = "retry" /\ flight.pc # "idle"
      /\ UNCHANGED <<gwNow, gate, lookups, prober, reader, launcher, releases, sh, permits, events>>
  BY DEF RetryUncertain
<1>4. /\ st' \in States /\ st'.mapping = st.mapping /\ st'.ledger \subseteq st.ledger /\ st.ledger \ over \subseteq st'.ledger
      /\ st'.gen = st.gen /\ st'.gateway = st.gateway /\ st'.port = st.port
  BY <1>2 DEF IInv, TypeOK, StateOK, States
<1>5. /\ nat' \in [Gateways -> SUBSET Records]
      /\ \A g \in Gateways : \A r \in nat'[g] : r \in nat[g] /\ \A e \in tried : e.gw = g => ~Hits(e, r)
  BY <1>2 DEF IInv, TypeOK, StateOK
<1>6. /\ flight' \in Flights /\ flight'.pc = pc
      /\ flight'.snap = flight.snap /\ flight'.iport = flight.iport /\ flight'.prev = flight.prev
      /\ flight'.kind = flight.kind
  BY <1>2, StepFacts DEF IInv, FlightPcs
<1>7. TypeOK' /\ Looking' /\ Stopping' /\ LeftShrinks
  BY <1>3, <1>4, <1>5, <1>6, BusyKeeps DEF IInv, TypeOK, StateOK, ReleasesCounted, Launchers
<1>8. Shrink
  BY <1>3, <1>4 DEF Shrink
<1>9. Owns' /\ MapGen'
  BY <1>6, <1>7, <1>8, ShrinkBooks DEF IInv, Owning
<1>10. Covered'
  <2> SUFFICES ASSUME NEW g \in Gateways, NEW r \in nat'[g]
               PROVE  \E e \in Entries' : e.own = r.by /\ e.gw = g /\ Hits(e, r)
    BY DEF Covered, Hits
  <2>1. PICK e \in Entries : e.own = r.by /\ e.gw = g /\ Hits(e, r)
    BY <1>5 DEF IInv, Books, Covered
  <2>2. e \notin over
    <3>1. e \notin tried
      BY <1>5, <2>1
    <3>2. e \in st.ledger => Live(e) \/ \A x \in nat[g] : x.by # e.own
      BY <2>1 DEF Live, GoneAt
    <3> QED BY <1>2, <1>5, <2>1, <3>1, <3>2
  <2>3. e \in Entries'
    BY <1>4, <2>2 DEF Entries
  <2> QED BY <2>1, <2>3
<1>11. Unsent' /\ Context'
  BY <1>3, <1>4, <1>6 DEF IInv, Journey, Unsent, Context, SameGen, Ported, Owning, Passed, AfterSettle, Observed
<1>12. Settled'
  BY <1>3, <1>4, <1>6 DEF IInv, Journey, Settled, SameGen, Owning, Passed, AfterSettle
<1> QED BY <1>7, <1>9, <1>10, <1>11, <1>12 DEF IInv, Books, Journey

\* Fewer tasks are no less counted.
LEMMA BecomesCounted ==
  ASSUME ReleasesCounted, NEW t \in releases, NEW pc \in {"polled", "over"}, Becomes(t, pc), pending' = pending
  PROVE  ReleasesCounted' /\ \A u \in releases' : \E v \in releases : u.e = v.e
<1> DEFINE x == [t EXCEPT !.pc = pc]
           S == releases \ {t}
<1>1. t \in [e : Ownerships, pc : {"new", "polled", "over"}]
  BY DEF ReleasesCounted
<1>2. x \in [e : Ownerships, pc : {"new", "polled", "over"}] /\ x.e = t.e
  BY <1>1
<1>3. releases' = S \cup {x}
  BY DEF Becomes
<1> HIDE DEF x
<1>4. /\ IsFiniteSet(releases) /\ Cardinality(releases) \in Nat
  BY FS_CardinalityType DEF ReleasesCounted
<1>5. IsFiniteSet(S) /\ Cardinality(S) = Cardinality(releases) - 1
  BY <1>4, FS_RemoveElement
<1> HIDE DEF S
<1>6. IsFiniteSet(S \cup {x}) /\ Cardinality(S \cup {x}) = IF x \in S THEN Cardinality(S) ELSE Cardinality(S) + 1
  BY <1>5, FS_AddElement
<1>7. Cardinality(S \cup {x}) <= Cardinality(releases)
  BY <1>4, <1>5, <1>6
<1>8. Cardinality(S \cup {x}) \in Nat
  BY <1>6, FS_CardinalityType
<1>9. IsFiniteSet(releases') /\ Cardinality(releases') <= Cardinality(releases) /\ Cardinality(releases') \in Nat
  BY <1>3, <1>6, <1>7, <1>8
<1>10. releases' \subseteq [e : Ownerships, pc : {"new", "polled", "over"}] /\ \A u \in releases' : \E v \in releases : u.e = v.e
  BY <1>2, <1>3 DEF ReleasesCounted, S
<1>11. pending' \in Nat /\ pending' >= Cardinality(releases')
  BY <1>4, <1>9 DEF ReleasesCounted
<1> QED BY <1>9, <1>10, <1>11 DEF ReleasesCounted

LEMMA ReleasePolledKeeps ==
  ASSUME IInv, NEW t \in releases, ReleasePolled(t)
  PROVE  IInv'
<1> USE DEF ReleasePolled, gate, world
<1>1. ReleasesCounted' /\ \A u \in releases' : \E v \in releases : u.e = v.e
  BY BecomesCounted DEF IInv, TypeOK
<1>2. TypeOK' /\ Looking'
  BY <1>1 DEF IInv, TypeOK, StateOK, Looking
<1>3. Stopping' /\ LeftShrinks
  BY DEF IInv, Stopping, WorkDone, LeftShrinks
<1>4. Shrink
  BY <1>1 DEF Shrink
<1>5. Owns' /\ MapGen'
  BY <1>3, <1>4, ShrinkBooks DEF IInv, Books, Owns
<1>6. Covered'
  BY DEF IInv, Books, Covered, Entries, Hits
<1>7. Journey'
  BY <1>4, ShrinkJourney DEF IInv
<1> QED BY <1>2, <1>3, <1>5, <1>6, <1>7 DEF IInv, Books

LEMMA ReleaseDeletesKeeps ==
  ASSUME IInv, NEW t \in releases, ReleaseDeletes(t)
  PROVE  IInv'
<1> USE DEF ReleaseDeletes, gate
<1>1. ReleasesCounted' /\ \A u \in releases' : \E v \in releases : u.e = v.e
  BY BecomesCounted DEF IInv, TypeOK
<1> DEFINE c == t.e
<1>2. /\ c \in Ownerships /\ \A e \in st.ledger : e.own = c.own => e = c
      /\ st.mapping # None => st.mapping.e.own # c.own
      /\ flight.pc \in Owning => flight.cand \in st.ledger /\ flight.cand.own # c.own
  BY DEF IInv, Books, Owns, TypeOK, ReleasesCounted
<1>3. /\ nat' \in [Gateways -> SUBSET Records] /\ (\A g \in Gateways : nat'[g] \subseteq nat[g])
      /\ st' \in States /\ st'.ledger \subseteq st.ledger /\ st'.mapping = st.mapping
      /\ st'.gen = st.gen /\ st'.gateway = st.gateway /\ st'.port = st.port
      /\ \A e \in st.ledger : e.own # c.own => e \in st'.ledger
      /\ Covered'
  <2>1. DoRelease(c)
    OBVIOUS
  <2> HIDE DEF c, ReleaseDeletes
  <2> QED BY <1>2, <2>1, DoReleaseFacts DEF IInv
<1>4. TypeOK' /\ Looking'
  BY <1>1, <1>3 DEF IInv, TypeOK, StateOK, Looking
<1>5. Stopping' /\ LeftShrinks
  BY <1>3 DEF IInv, Stopping, WorkDone, LeftShrinks
<1>6. Shrink
  BY <1>1, <1>3 DEF Shrink
<1>7. Owns' /\ MapGen'
  BY <1>2, <1>3, <1>5, <1>6, ShrinkBooks DEF IInv
<1>8. Journey'
  BY <1>3, <1>6, ShrinkJourney DEF IInv
<1> QED BY <1>3, <1>4, <1>5, <1>7, <1>8 DEF IInv, Books

LEMMA ReleaseCompletesKeeps ==
  ASSUME IInv, NEW t \in releases, ReleaseCompletes(t)
  PROVE  IInv'
<1> USE DEF ReleaseCompletes, world
<1>1. ReleasesCounted'
  <2> DEFINE S == releases \ {t}
  <2>1. IsFiniteSet(releases) /\ Cardinality(releases) \in Nat
    BY FS_CardinalityType DEF IInv, TypeOK, ReleasesCounted
  <2>2. IsFiniteSet(S) /\ Cardinality(S) = Cardinality(releases) - 1 /\ Cardinality(S) \in Nat
    BY <2>1, FS_RemoveElement, FS_CardinalityType
  <2>3. releases' = S /\ S \subseteq releases
    OBVIOUS
  <2> HIDE DEF S
  <2>4. pending' = pending - 1 /\ pending \in Nat /\ pending >= Cardinality(releases)
    BY DEF IInv, TypeOK, ReleasesCounted
  <2>5. IsFiniteSet(releases') /\ pending' \in Nat /\ pending' >= Cardinality(releases')
    BY <2>1, <2>2, <2>3, <2>4
  <2> QED BY <2>3, <2>5 DEF IInv, TypeOK, ReleasesCounted
<1>2. TypeOK' /\ Looking'
  BY <1>1 DEF IInv, TypeOK, StateOK, Looking
<1>3. Stopping' /\ LeftShrinks
  BY DEF IInv, Stopping, WorkDone, LeftShrinks
<1>4. Shrink
  BY DEF Shrink
<1>5. Owns' /\ MapGen'
  BY <1>3, <1>4, ShrinkBooks DEF IInv, Books, Owns
<1>6. Covered'
  BY DEF IInv, Books, Covered, Entries, Hits
<1>7. Journey'
  BY <1>4, ShrinkJourney DEF IInv
<1> QED BY <1>2, <1>3, <1>5, <1>6, <1>7 DEF IInv, Books

-----------------------------------------------------------------------------
(* close and shutdown                                                         *)

ShutdownStates == [pc : ShutdownPcs, calls : Nat, late : BOOLEAN, left : SUBSET Ownerships,
                   result : {None, "ok", "unconfirmed", "deadline"}]

\* A step of the supervisor that touches the gate and itself only.
LEMMA SupervisorMoves ==
  ASSUME IInv, UNCHANGED <<world, st, pending, nextOwn, lookups, flight, prober, reader, launcher, releases, permits, events>>,
         sh' \in ShutdownStates, closing' \in BOOLEAN, terminal' \in BOOLEAN, Stopping',
         LeftShrinks \/ sh'.left \subseteq st.ledger
  PROVE  IInv'
<1> USE DEF IInv, world
<1>1. TypeOK' /\ Looking'
  BY DEF TypeOK, StateOK, ReleasesCounted, Looking, ShutdownStates
<1>2. SameBooks
  BY DEF SameBooks
<1>3. Journey'
  BY <1>2, SameJourney
<1>4. Books'
  <2>1. Entries' = Entries
    BY DEF Entries
  <2>2. Covered' /\ MapGen'
    BY <2>1 DEF Books, Covered, MapGen, Hits
  <2>3. Owns'
    BY <2>1 DEF Books, Owns, LeftShrinks
  <2> QED BY <2>2, <2>3 DEF Books
<1> QED BY <1>1, <1>3, <1>4

LEMMA CloseKeeps ==
  ASSUME IInv, Close
  PROVE  IInv'
<1>1. sh' \in ShutdownStates /\ sh'.pc = "closed" /\ closing' = TRUE
  BY DEF Close, IInv, TypeOK, StateOK, ShutdownStates, ShutdownPcs
<1>2. Stopping' /\ LeftShrinks
  BY <1>1 DEF Stopping, LeftShrinks
<1> QED BY <1>1, <1>2, SupervisorMoves DEF Close, IInv, TypeOK, StateOK

LEMMA ShutdownKeeps ==
  ASSUME IInv, Shutdown
  PROVE  IInv'
<1>1. sh' \in ShutdownStates /\ sh'.pc = "invalidate" /\ closing' = TRUE
  BY DEF Shutdown, IInv, TypeOK, StateOK, ShutdownStates, ShutdownPcs
<1>2. Stopping' /\ LeftShrinks
  BY <1>1 DEF Stopping, LeftShrinks
<1> QED BY <1>1, <1>2, SupervisorMoves DEF Shutdown, IInv, TypeOK, StateOK

LEMMA InvalidatedKeeps ==
  ASSUME IInv, sh.pc \in {"closed", "invalidate"}, Invalidate(st), NEW pc \in {"idle", "join"},
         sh' = [sh EXCEPT !.pc = pc],
         UNCHANGED <<world, closing, terminal, nextOwn, lookups, flight, prober, reader, launcher, permits, events>>
  PROVE  IInv'
<1> USE DEF IInv, world
<1>1. NewGeneration
  BY InvalidateFacts DEF Books, TypeOK, StateOK
<1>2. sh' \in ShutdownStates /\ sh'.pc = pc
  BY DEF TypeOK, StateOK, ShutdownStates, ShutdownPcs
<1>3. TypeOK' /\ Looking'
  BY <1>1, <1>2 DEF TypeOK, StateOK, Looking, NewGeneration, HandedOver, ShutdownStates
<1>4. Stopping' /\ LeftShrinks
  BY <1>1, <1>2 DEF Stopping, LeftShrinks, NewGeneration, HandedOver
<1>5. Books' /\ Journey'
  BY <1>1, <1>4, HandedOverBooks, NewGenerationJourney DEF NewGeneration
<1> QED BY <1>3, <1>4, <1>5

LEMMA ClosedKeeps ==
  ASSUME IInv, Closed PROVE IInv'
BY InvalidatedKeeps DEF Closed

LEMMA ShutdownInvalidatesKeeps ==
  ASSUME IInv, ShutdownInvalidates PROVE IInv'
BY InvalidatedKeeps DEF ShutdownInvalidates

LEMMA DeadlineKeeps ==
  ASSUME IInv, Deadline
  PROVE  IInv'
<1> USE DEF Deadline, gate
<1>1. sh' \in ShutdownStates /\ sh'.pc = sh.pc /\ sh'.left = sh.left /\ sh'.result = sh.result
  BY DEF IInv, TypeOK, StateOK, ShutdownStates
<1>2. Stopping' /\ LeftShrinks
  BY <1>1 DEF IInv, Stopping, WorkDone, LeftShrinks
<1> QED BY <1>1, <1>2, SupervisorMoves DEF IInv, TypeOK, StateOK

LEMMA JoinedKeeps ==
  ASSUME IInv, Joined
  PROVE  IInv'
<1> USE DEF IInv, Joined, gate, world
<1>1. sh' \in ShutdownStates /\ sh'.pc = "join_releases"
  <2>1. PICK r \in {None, "ok", "unconfirmed", "deadline"} : sh' = [sh EXCEPT !.pc = "join_releases", !.result = r]
    BY DEF TypeOK, StateOK
  <2> QED BY <2>1 DEF TypeOK, StateOK, ShutdownStates, ShutdownPcs
<1>2. /\ lookups' \in [Lookers -> Observations \cup {None}]
      /\ lookups["reader"] # None => lookups'["reader"] # None
  BY LookupsEndTypes DEF Lookers
<1>3. flight' \in Flights /\ flight'.pc = "idle" /\ prober'.pc = "idle" /\ launcher'.pc = "idle"
  BY IdleFlightFacts DEF Idle, TypeOK, StateOK
<1>4. TypeOK'
  BY <1>1, <1>2, <1>3 DEF TypeOK, StateOK, ReleasesCounted, ShutdownStates, Idle, NoSnap, Snaps
<1>5. Looking'
  BY <1>2, <1>3 DEF Looking
<1>6. permits' = {}
  BY DEF TypeOK, StateOK
<1>7. Stopping' /\ LeftShrinks
  BY <1>1, <1>3, <1>6 DEF Stopping, WorkDone, LeftShrinks
<1>8. SameBooks
  BY DEF SameBooks
<1>9. Books'
  BY <1>3, <1>7, <1>8, SameBooksKeep DEF Owning
<1>10. Journey'
  BY <1>3, NoJourney
<1> QED BY <1>4, <1>5, <1>7, <1>9, <1>10

LEMMA ReleasesJoinedKeeps ==
  ASSUME IInv, ReleasesJoined
  PROVE  IInv'
<1> USE DEF IInv, ReleasesJoined, world
<1>1. sh' \in ShutdownStates /\ sh'.pc = "pending"
  <2>1. PICK r \in {None, "ok", "unconfirmed", "deadline"} : sh' = [sh EXCEPT !.pc = "pending", !.result = r]
    BY DEF TypeOK, StateOK
  <2> QED BY <2>1 DEF TypeOK, StateOK, ShutdownStates, ShutdownPcs
<1>2. ReleasesCounted'
  <2> DEFINE S == {t \in releases : t.pc # "new"}
  <2>1. S \in SUBSET releases /\ IsFiniteSet(releases)
    BY DEF TypeOK, ReleasesCounted
  <2> HIDE DEF S
  <2>2. Cardinality(S) <= Cardinality(releases) /\ Cardinality(S) \in Nat /\ Cardinality(releases) \in Nat
    BY <2>1, FS_Subset, FS_CardinalityType
  <2>3. pending' = pending - Cardinality(S) /\ pending \in Nat /\ pending >= Cardinality(releases)
    BY DEF TypeOK, ReleasesCounted, S
  <2>4. pending' \in Nat
    BY <2>2, <2>3
  <2> QED BY <2>4, FS_EmptySet DEF ReleasesCounted
<1>3. TypeOK' /\ Looking'
  BY <1>1, <1>2 DEF TypeOK, StateOK, Looking, ShutdownStates
<1>4. Stopping' /\ LeftShrinks
  BY <1>1 DEF Stopping, WorkDone, LeftShrinks
<1>5. Shrink
  BY DEF Shrink
<1>6. Owns' /\ MapGen'
  BY <1>4, <1>5, ShrinkBooks DEF Books, Owns
<1>7. Covered'
  BY DEF Books, Covered, Entries, Hits
<1>8. Journey'
  BY <1>5, ShrinkJourney
<1> QED BY <1>3, <1>4, <1>6, <1>7, <1>8 DEF Books

LEMMA PendingSettledKeeps ==
  ASSUME IInv, PendingSettled
  PROVE  IInv'
<1> USE DEF gate
<1>1. \/ sh' = [sh EXCEPT !.pc = "done", !.result = "deadline", !.left = st.ledger]
      \/ pending = 0 /\ sh' = [sh EXCEPT !.pc = "ledger", !.result = None, !.left = st.ledger]
  BY DEF PendingSettled
<1>2. sh.pc = "pending" /\ UNCHANGED <<world, st, gate, lookups, flight, prober, reader, launcher, releases, permits, events>>
  BY DEF PendingSettled
<1>3. st.ledger \in SUBSET Ownerships /\ sh \in ShutdownStates
  BY DEF IInv, TypeOK, StateOK, States, ShutdownStates
<1>4. /\ sh' \in ShutdownStates /\ sh'.left = st.ledger
      /\ \/ sh'.pc = "done" /\ sh'.result = "deadline"
         \/ sh'.pc = "ledger" /\ pending = 0
  BY <1>1, <1>3 DEF ShutdownStates, ShutdownPcs
<1>5. Stopping'
  BY <1>2, <1>4 DEF IInv, Stopping, WorkDone
<1> QED BY <1>2, <1>4, <1>5, SupervisorMoves DEF IInv, TypeOK, StateOK

LEMMA ShutdownReleasesKeeps ==
  ASSUME IInv, ShutdownReleases
  PROVE  IInv'
<1> USE DEF gate
<1>1. sh.pc = "ledger" /\ UNCHANGED <<gwNow, gate, lookups, flight, prober, reader, launcher, releases, permits, events>>
  BY DEF ShutdownReleases
<1>2. sh \in ShutdownStates
  BY DEF IInv, TypeOK, StateOK, ShutdownStates
<1>3. CASE /\ UNCHANGED <<nat, st>>
           /\ \/ sh' = [sh EXCEPT !.pc = "gate"]
              \/ sh' = [sh EXCEPT !.pc = "done", !.result = "deadline"]
  <2>1. /\ sh' \in ShutdownStates /\ (sh'.pc = "gate" \/ (sh'.pc = "done" /\ sh'.result = "deadline"))
    BY <1>2, <1>3 DEF ShutdownStates, ShutdownPcs
  <2>2. Stopping' /\ LeftShrinks
    BY <1>1, <1>3, <2>1 DEF IInv, Stopping, WorkDone, LeftShrinks
  <2> QED BY <1>1, <1>3, <2>1, <2>2, SupervisorMoves DEF IInv, TypeOK, StateOK, world
<1>4. CASE \E e \in sh.left : sh' = [sh EXCEPT !.left = @ \ {e}] /\ DoRelease(e)
  <2>1. PICK c \in sh.left : sh' = [sh EXCEPT !.left = @ \ {c}] /\ DoRelease(c)
    BY <1>4
  <2>2. /\ sh' \in ShutdownStates /\ sh'.pc = "ledger" /\ sh'.left \subseteq sh.left /\ c \in Ownerships
    BY <1>1, <1>2, <2>1 DEF ShutdownStates
  <2>3. closing /\ st.mapping = None /\ flight.pc = "idle"
    BY <1>1 DEF IInv, Stopping, WorkDone
  <2>4. \A e \in st.ledger : e.own = c.own => e = c
    BY <1>1 DEF IInv, Books, Owns
  <2>5. /\ nat' \in [Gateways -> SUBSET Records] /\ (\A g \in Gateways : nat'[g] \subseteq nat[g])
        /\ st' \in States /\ st'.ledger \subseteq st.ledger /\ st'.mapping = st.mapping
        /\ st'.gen = st.gen /\ st'.gateway = st.gateway /\ st'.port = st.port
        /\ Covered'
    BY <2>1, <2>2, <2>3, <2>4, DoReleaseFacts DEF IInv
  <2>6. TypeOK' /\ Looking'
    BY <1>1, <2>2, <2>5 DEF IInv, TypeOK, StateOK, ReleasesCounted, Looking, ShutdownStates
  <2>7. Stopping' /\ LeftShrinks
    BY <1>1, <2>2, <2>5 DEF IInv, Stopping, WorkDone, LeftShrinks
  <2>8. Shrink
    BY <1>1, <2>5 DEF Shrink
  <2>9. Owns' /\ MapGen'
    BY <1>1, <2>3, <2>7, <2>8, ShrinkBooks DEF IInv, Owning
  <2>10. Journey'
    BY <1>1, <2>3, NoJourney
  <2> QED BY <2>5, <2>6, <2>7, <2>9, <2>10 DEF IInv, Books
<1> QED BY <1>3, <1>4 DEF ShutdownReleases

LEMMA FinishSendGateKeeps ==
  ASSUME IInv, FinishSendGate
  PROVE  IInv'
<1>1. /\ sh.pc = "gate"
      /\ UNCHANGED <<world, st, closing, pending, nextOwn, lookups, flight, prober, reader, launcher, releases, permits, events>>
  BY DEF FinishSendGate
<1>2. permits = {} /\ sh \in ShutdownStates
  BY <1>1 DEF IInv, Stopping, TypeOK, StateOK, ShutdownStates
<1>3. /\ terminal' = TRUE
      /\ sh' = [sh EXCEPT !.pc = "done", !.result = IF st.ledger = {} THEN "ok" ELSE "unconfirmed"]
  BY <1>2 DEF FinishSendGate, IInv, TypeOK, StateOK
<1>4. sh' \in ShutdownStates /\ sh'.pc = "done" /\ (sh'.result = "ok" => st.ledger = {})
  BY <1>2, <1>3 DEF ShutdownStates, ShutdownPcs
<1>5. Stopping' /\ LeftShrinks
  BY <1>1, <1>3, <1>4 DEF IInv, Stopping, WorkDone, LeftShrinks
<1> QED BY <1>1, <1>3, <1>4, <1>5, SupervisorMoves DEF IInv, TypeOK, StateOK

-----------------------------------------------------------------------------
(* The invariant of the specification                                         *)

LEMMA IInvInit == Init => IInv
<1> SUFFICES ASSUME Init PROVE IInv
  OBVIOUS
<1> USE DEF Init
<1>1. PICK p \in LocalPorts \cup {None} :
        st = [mapping |-> None, ledger |-> {}, seen |-> {}, probed |-> FALSE, services |-> {},
              needsProbe |-> FALSE, gateway |-> None, gen |-> 0, port |-> p]
  OBVIOUS
<1>2. st \in States /\ st.mapping = None /\ st.ledger = {}
  BY <1>1 DEF States
<1>3. ReleasesCounted
  BY FS_EmptySet DEF ReleasesCounted
<1>4. flight \in Flights /\ flight.pc = "idle"
  BY IdleFlightFacts
<1>5. TypeOK
  BY <1>2, <1>3, <1>4 DEF TypeOK, StateOK, Idle, NoSnap, Snaps, ShutdownPcs
<1>6. Looking /\ Stopping
  BY <1>4 DEF Looking, Stopping, Idle
<1>7. Books
  BY <1>2, <1>4 DEF Books, Owns, Covered, MapGen, Entries, Owning
<1>8. Journey
  BY <1>4 DEF Journey, Unsent, Context, Settled, Ported, Owning, Passed, AfterSettle, Observed
<1> QED BY <1>5, <1>6, <1>7, <1>8 DEF IInv

LEMMA StutterKeeps ==
  ASSUME IInv, UNCHANGED vars PROVE IInv'
<1> USE DEF vars, world, gate, tasks
<1>1. TypeOK' /\ Looking'
  BY DEF IInv, TypeOK, StateOK, ReleasesCounted, Looking
<1>2. Stopping' /\ LeftShrinks
  BY DEF IInv, Stopping, WorkDone, LeftShrinks
<1>3. SameBooks
  BY DEF SameBooks
<1> QED BY <1>1, <1>2, <1>3, SameBooksKeep, SameJourney DEF IInv

LEMMA IInvKept == IInv /\ [Next]_vars => IInv'
<1> SUFFICES ASSUME IInv, [Next]_vars PROVE IInv'
  OBVIOUS
<1>1. CASE Environment
  BY <1>1, GatewayChangesKeeps, LeaseEndsKeeps, MappingAgesKeeps, TrustExpiresKeeps DEF Environment
<1>2. CASE Callers
  BY <1>2, SetLocalPortKeeps, ReadStartKeeps, ReadObservesKeeps, ProbeStartKeeps, ProbeObservesKeeps,
     ProbeTaskKeeps, CallCreateKeeps, LaunchKeeps, LaunchEndsKeeps DEF Callers
<1>3. CASE FlightStep
  BY <1>3, FlightObservesKeeps, FlightStaleKeeps, FlightProbesKeeps, FastPathKeeps, SettleKeeps,
     TakeIncompatibleKeeps, TakenReleasedKeeps, PassGateKeeps, PushPxpKeeps, SendPxpKeeps,
     GrantedKeeps, LostKeeps, RejectedKeeps, CommitKeeps, CompensateKeeps, TryServicesKeeps,
     NextServiceKeeps, RetryUncertainKeeps, AddUpnpKeeps DEF FlightStep
<1>4. CASE ReleaseStep
  BY <1>4, ReleasePolledKeeps, ReleaseDeletesKeeps, ReleaseCompletesKeeps DEF ReleaseStep
<1>5. CASE ShutdownStep
  BY <1>5, CloseKeeps, ClosedKeeps, ShutdownKeeps, ShutdownInvalidatesKeeps, DeadlineKeeps, JoinedKeeps,
     ReleasesJoinedKeeps, PendingSettledKeeps, ShutdownReleasesKeeps, FinishSendGateKeeps DEF ShutdownStep
<1>6. CASE UNCHANGED vars
  BY <1>6, StutterKeeps
<1> QED BY <1>1, <1>2, <1>3, <1>4, <1>5, <1>6 DEF Next

\* The inductive invariant holds throughout.
THEOREM Invariance == Spec => []IInv
BY IInvInit, IInvKept, PTL DEF Spec

\* The state keeps its type; no release task is left out of the count that
\* wait_for_pending_releases watches.
THEOREM TypeCorrect == Spec => []TypeOK
<1>1. IInv => TypeOK
  BY DEF IInv
<1> QED BY <1>1, Invariance, PTL

\* Whatever a gateway holds for the client, whichever requests and answers were
\* lost, is covered by the cached mapping or by an entry of the ledger.
THEOREM NothingForgotten == Spec => []LedgerCovers
<1>1. IInv => LedgerCovers
  BY DEF IInv, Books, Covered, LedgerCovers
<1> QED BY <1>1, Invariance, PTL

\* Work of an older generation never commits, and no deletion of an older
\* generation is outstanding that could hit the cached mapping.
THEOREM MappingIsCurrent == Spec => []CachedIsCurrent
<1>1. IInv => CachedIsCurrent
  BY DEF IInv, Books, MapGen, CachedIsCurrent
<1> QED BY <1>1, Invariance, PTL

\* What shutdown reports is true: nothing left at a gateway after a success,
\* nothing left running after a success or an unconfirmed deletion.
THEOREM ShutdownReportIsTrue == Spec => []CleanShutdown
<1>1. ASSUME IInv PROVE CleanShutdown
  <2> SUFFICES ASSUME sh.pc = "done" PROVE CleanShutdown
    BY DEF CleanShutdown
  <2>1. st.mapping = None /\ WorkDone /\ permits = {} /\ releases = {}
    BY <1>1 DEF IInv, Stopping
  <2>2. sh.result \in {"ok", "unconfirmed"} => pending = 0 /\ terminal
    BY <1>1 DEF IInv, Stopping
  <2>3. sh.result = "ok" => \A g \in Gateways : nat[g] = {}
    <3>1. sh.result = "ok" => Entries = {}
      BY <1>1, <2>1 DEF IInv, Stopping, Entries
    <3> QED BY <1>1, <3>1 DEF IInv, Books, Covered
  <2> QED BY <2>1, <2>2, <2>3 DEF CleanShutdown
<1> QED BY <1>1, Invariance, PTL
=============================================================================
