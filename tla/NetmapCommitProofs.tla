------------------------- MODULE NetmapCommitProofs -------------------------
(***************************************************************************)
(* Proofs about NetmapCommit, for any numbers of peers, keys, addresses,   *)
(* receive tasks, credits and map updates.                                 *)
(***************************************************************************)
EXTENDS NetmapCommit, FiniteSetTheorems, TLAPS

-----------------------------------------------------------------------------
(* Types *)

\* TypeOK without the bound on credits, which the accounting below gives; only
\* the TUN pumps read the epoch.
Typed ==
  /\ endpoints \in Maps
  /\ discoToPeer \in [Discos -> Peers \cup {NoPeer}]
  /\ addrToPeer \in [Addrs -> Peers \cup {NoPeer}]
  /\ generations \in [Peers -> Nat] /\ nextGeneration \in Nat
  /\ era \in [Peers -> Nat] /\ evidence \in [Peers -> Nat \cup {-1}]
  /\ upd \in UpdPC /\ target \in Maps /\ withdraw \in BOOLEAN
  /\ refreshed \subseteq Peers /\ commits \in 0 .. MaxCommits
  /\ rpc \in [Receivers -> RecvPC] /\ pkt \in [Receivers -> Packets \cup {NoPeer}]
  /\ \A r \in Receivers : rpc[r] # "idle" => pkt[r] \in Packets
  /\ channel \in Seq(Packets)
  /\ credits \in Nat
  /\ cpc \in PumpPC /\ (cpc # "idle" => batch \in Packets)
  /\ tun \in BOOLEAN /\ sameEpoch \in BOOLEAN
  /\ cpc = "observe" => tun
  /\ tunnels \subseteq Peers /\ closed \in BOOLEAN

\* A new generation per fresh peer: there are finitely many.
LEMMA FreshCount == Fresh \subseteq Peers /\ Cardinality(Fresh) \in Nat
<1>1. Fresh \subseteq Peers BY DEF Fresh, Desired
<1>2. IsFiniteSet(Fresh) BY <1>1, NetmapAssumption, FS_Subset DEF NetmapAssumption
<1> QED BY <1>1, <1>2, FS_CardinalityType

LEMMA InitTyped == Init => Typed
<1> SUFFICES ASSUME Init PROVE Typed OBVIOUS
<1> USE NetmapAssumption DEF Init, NetmapAssumption
<1>1. endpoints \in Maps /\ target \in Maps BY DEF Maps, Keys
<1>2. /\ discoToPeer \in [Discos -> Peers \cup {NoPeer}]
      /\ addrToPeer \in [Addrs -> Peers \cup {NoPeer}]
      /\ generations \in [Peers -> Nat] /\ nextGeneration \in Nat
      /\ era \in [Peers -> Nat] /\ evidence \in [Peers -> Nat \cup {-1}]
  OBVIOUS
<1>3. rpc \in [Receivers -> RecvPC] /\ pkt \in [Receivers -> Packets \cup {NoPeer}]
  BY DEF RecvPC
<1>4. upd \in UpdPC /\ refreshed \subseteq Peers /\ commits \in 0 .. MaxCommits
  BY DEF UpdPC
<1>5. channel \in Seq(Packets) /\ credits \in Nat /\ cpc \in PumpPC /\ cpc = "idle"
  BY DEF PumpPC
<1>6. withdraw \in BOOLEAN /\ tun \in BOOLEAN /\ sameEpoch \in BOOLEAN /\ tunnels \subseteq Peers /\ closed \in BOOLEAN
  OBVIOUS
<1>7. \A r \in Receivers : rpc[r] = "idle" OBVIOUS
<1> QED BY <1>1, <1>2, <1>3, <1>4, <1>5, <1>6, <1>7 DEF Typed

\* A receive task moves: its packet stays one.
LEMMA AtTyped ==
  ASSUME Typed, NEW r \in Receivers, NEW there \in RecvPC, NEW p \in Packets,
         At(r, there, p)
  PROVE  /\ rpc' \in [Receivers -> RecvPC] /\ pkt' \in [Receivers -> Packets \cup {NoPeer}]
         /\ \A s \in Receivers : rpc'[s] # "idle" => pkt'[s] \in Packets
BY DEF Typed, At

LEMMA DropTyped ==
  ASSUME Typed, NEW r \in Receivers, Drop(r)
  PROVE  /\ rpc' \in [Receivers -> RecvPC] /\ pkt' \in [Receivers -> Packets \cup {NoPeer}]
         /\ \A s \in Receivers : rpc'[s] # "idle" => pkt'[s] \in Packets
BY DEF Typed, Drop, At, RecvPC

LEMMA NextTyped == Typed /\ [Next]_vars => Typed'
<1> SUFFICES ASSUME Typed, [Next]_vars PROVE Typed' OBVIOUS
<1> USE NetmapAssumption DEF NetmapAssumption, authVars, updVars, recvVars, pumpVars
<1>1. ASSUME NEW m \in Maps, NEW w \in BOOLEAN, MapResponse(m, w) PROVE Typed'
  BY <1>1 DEF MapResponse, Typed, UpdPC
<1>2. CASE GateWrite \/ ClearTunnels \/ SetNetmap \/ BarrierWrite
  BY <1>2 DEF GateWrite, ClearTunnels, SetNetmap, BarrierWrite, Step, Typed, UpdPC
<1>3. CASE PurgeEndpoints
  BY <1>3 DEF PurgeEndpoints, Step, Typed, UpdPC, Maps, Keys, Desired
<1>4. CASE PurgeMaps
  BY <1>4 DEF PurgeMaps, Step, Typed, UpdPC, Desired
<1>5. CASE Rebuild
  BY <1>5 DEF Rebuild, Step, Typed, UpdPC, Maps, Keys, Desired
<1>6. CASE Reconcile
  <2>1. nextGeneration' \in Nat BY <1>6, FreshCount DEF Reconcile, Typed
  <2> QED BY <1>6, <2>1 DEF Reconcile, Step, Typed, UpdPC
<1>7. ASSUME NEW addrs \in SUBSET Addrs, NEW keys \in SUBSET Discos, RelayServersSet(addrs, keys)
      PROVE Typed'
  BY <1>7 DEF RelayServersSet, Step, Typed, UpdPC
<1>8. CASE InstallPeers
  BY <1>8 DEF InstallPeers, Typed, UpdPC, Maps, Desired
<1>9. CASE PolicyChange
  <2>1. commits' \in 0 .. MaxCommits BY <1>9 DEF PolicyChange, Typed
  <2>2. sameEpoch' \in BOOLEAN BY <1>9 DEF PolicyChange
  <2> QED BY <1>9, <2>1, <2>2 DEF PolicyChange, Typed
<1>10. ASSUME NEW p \in Peers, NEW a \in Addrs, NEW replaced \in SUBSET Addrs, SetRelay(p, a, replaced)
       PROVE Typed'
  BY <1>10 DEF SetRelay, Typed
<1>11. ASSUME NEW r \in Receivers, NEW a \in Addrs, NEW there \in {"order", "stamp"}, LookupUdp(r, a, there)
       PROVE Typed'
  <2>1. Found(addrToPeer[a], a) \in Packets BY <1>11 DEF LookupUdp, Found, Packets, Typed
  <2> QED BY <1>11, <2>1, AtTyped DEF LookupUdp, Typed, RecvPC
<1>12. ASSUME NEW p \in Peers, NEW a \in Addrs \cup {NoAddr} PROVE Stamped(p, a) \in Packets
  BY DEF Stamped, Packets, Typed
<1>13. ASSUME NEW r \in Receivers, StampUdp(r) \/ StampLinux(r) PROVE Typed'
  <2>1. pkt[r] \in Packets BY <1>13 DEF StampUdp, StampLinux, Typed
  <2>2. Stamped(pkt[r].peer, pkt[r].addr) \in Packets BY <2>1, <1>12 DEF Packets
  <2>3. Drop(r) \/ At(r, "credit", Stamped(pkt[r].peer, pkt[r].addr)) BY <1>13 DEF StampUdp, StampLinux
  <2>4. "credit" \in RecvPC BY DEF RecvPC
  <2>5. /\ rpc' \in [Receivers -> RecvPC] /\ pkt' \in [Receivers -> Packets \cup {NoPeer}]
        /\ \A s \in Receivers : rpc'[s] # "idle" => pkt'[s] \in Packets
    BY <2>2, <2>3, <2>4, AtTyped, DropTyped
  <2> QED BY <1>13, <2>5 DEF StampUdp, StampLinux, Typed
<1>14. ASSUME NEW r \in Receivers, NEW p \in Peers, StampDerp(r, p) PROVE Typed'
  BY <1>14, <1>12, AtTyped DEF StampDerp, Typed, RecvPC
<1>15. ASSUME NEW r \in Receivers, TakeCredit(r) PROVE Typed'
  <2>1. pkt[r] \in Packets BY <1>15 DEF TakeCredit, Typed
  <2> QED BY <1>15, <2>1, AtTyped DEF TakeCredit, Typed, RecvPC
<1>16. ASSUME NEW r \in Receivers, Revalidate(r) PROVE Typed'
  <2>1. pkt[r] \in Packets BY <1>16 DEF Revalidate, Typed
  <2>2. /\ rpc' \in [Receivers -> RecvPC] /\ pkt' \in [Receivers -> Packets \cup {NoPeer}]
        /\ \A s \in Receivers : rpc'[s] # "idle" => pkt'[s] \in Packets
    BY <1>16, <2>1, AtTyped, DropTyped DEF Revalidate, RecvPC
  <2> QED BY <1>16, <2>2 DEF Revalidate, Typed
<1>17. ASSUME NEW r \in Receivers, Send(r) PROVE Typed'
  <2>1. pkt[r] \in Packets BY <1>17 DEF Send, Typed
  <2> QED BY <1>17, <2>1, DropTyped DEF Send, Typed
<1>18. ASSUME NEW r \in Receivers, NEW d \in Discos, NEW n \in Peers, NEW a \in Addrs, DiscoPing(r, d, n, a)
       PROVE Typed'
  <2> DEFINE p == IF AuthorizedDisco(discoToPeer[d], d) THEN discoToPeer[d] ELSE n
  <2>1. p \in Peers BY DEF AuthorizedDisco
  <2>2. Stamped(p, a) \in Packets BY <2>1, <1>12
  <2>3. /\ rpc' \in [Receivers -> RecvPC] /\ pkt' \in [Receivers -> Packets \cup {NoPeer}]
        /\ \A s \in Receivers : rpc'[s] # "idle" => pkt'[s] \in Packets
    BY <1>18, <2>2, AtTyped DEF DiscoPing, RecvPC, Typed
  <2>4. discoToPeer' \in [Discos -> Peers \cup {NoPeer}] /\ evidence' \in [Peers -> Nat \cup {-1}]
    BY <1>18, <2>1 DEF DiscoPing, Note, Typed
  <2> QED BY <1>18, <2>3, <2>4 DEF DiscoPing, Typed
<1>19. ASSUME NEW r \in Receivers, PongSent(r) PROVE Typed'
  <2>1. pkt[r].peer \in Peers BY <1>19 DEF PongSent, Typed, Packets
  <2> QED BY <1>19, <2>1, DropTyped DEF PongSent, Typed
<1>20. ASSUME NEW r \in Receivers, NEW d \in Discos, NEW p \in Peers, NEW a \in Addrs, DiscoPong(r, d, p, a)
       PROVE Typed'
  BY <1>20 DEF DiscoPong, Note, Typed
<1>21. ASSUME NEW r \in Receivers, NEW p \in Peers, NEW d \in Keys, NEW b \in BOOLEAN, DiscoDerp(r, p, d, b)
       PROVE Typed'
  <2>1. /\ rpc' \in [Receivers -> RecvPC] /\ pkt' \in [Receivers -> Packets \cup {NoPeer}]
        /\ \A s \in Receivers : rpc'[s] # "idle" => pkt'[s] \in Packets
    BY <1>21, <1>12, AtTyped DEF DiscoDerp, RecvPC, Typed
  <2> QED BY <1>21, <2>1 DEF DiscoDerp, Note, Typed
<1>22. ASSUME NEW r \in Receivers, ReplySent(r) \/ AbortReceiver(r) PROVE Typed'
  BY <1>22, DropTyped DEF ReplySent, AbortReceiver, Typed
<1>23. CASE Receive
  BY <1>23 DEF Receive, Typed, PumpPC
<1>24. CASE ObserveEpoch \/ EnterGate \/ DeliveryGuard \/ Deliver
  <2>1. CASE ObserveEpoch
    <3>1. sameEpoch' \in BOOLEAN /\ cpc' = "gate" /\ batch' = batch /\ tun' = tun /\ cpc # "idle"
      BY <2>1 DEF ObserveEpoch, Pump
    <3>2. credits' \in Nat BY <2>1 DEF ObserveEpoch, Typed
    <3> QED BY <2>1, <3>1, <3>2 DEF ObserveEpoch, Typed, PumpPC
  <2>2. CASE EnterGate \/ DeliveryGuard \/ Deliver
    BY <2>2 DEF EnterGate, DeliveryGuard, Deliver, Pump, Typed, PumpPC
  <2> QED BY <1>24, <2>1, <2>2
<1>25. CASE NoteTransport
  BY <1>25 DEF NoteTransport, Pump, Typed, PumpPC, Packets
<1>26. CASE Close BY <1>26 DEF Close, Typed
<1>27. CASE UNCHANGED vars BY <1>27 DEF vars, Typed
<1> QED
  BY <1>1, <1>2, <1>3, <1>4, <1>5, <1>6, <1>7, <1>8, <1>9, <1>10, <1>11, <1>13, <1>14, <1>15, <1>16,
     <1>17, <1>18, <1>19, <1>20, <1>21, <1>22, <1>23, <1>24, <1>25, <1>26, <1>27
     DEF Next, Update, Handle, Consume

-----------------------------------------------------------------------------
(* Credits *)

PumpCredit == IF PumpHoldsCredit THEN 1 ELSE 0

\* Every credit is free, held by a receive task, in the channel or with the pump.
Accounted == Len(channel) + Cardinality(HoldsCredit) + PumpCredit + credits = Credits

LEMMA HoldersCount ==
  /\ IsFiniteSet(HoldsCredit) /\ Cardinality(HoldsCredit) \in Nat
  /\ \A r \in HoldsCredit : Cardinality(HoldsCredit \ {r}) = Cardinality(HoldsCredit) - 1
                             /\ Cardinality(HoldsCredit) > 0
  /\ \A r \in Receivers \ HoldsCredit :
       Cardinality(HoldsCredit \cup {r}) = Cardinality(HoldsCredit) + 1
<1>1. IsFiniteSet(HoldsCredit)
  BY NetmapAssumption, FS_Subset DEF NetmapAssumption, HoldsCredit
<1>2. Cardinality(HoldsCredit) \in Nat BY <1>1, FS_CardinalityType
<1>3. ASSUME NEW r \in HoldsCredit
      PROVE Cardinality(HoldsCredit \ {r}) = Cardinality(HoldsCredit) - 1
            /\ Cardinality(HoldsCredit) > 0
  <2>1. Cardinality(HoldsCredit \ {r}) = Cardinality(HoldsCredit) - 1 BY <1>1, FS_RemoveElement
  <2>2. HoldsCredit # {} OBVIOUS
  <2>3. Cardinality(HoldsCredit) # 0 BY <1>1, <2>2, FS_EmptySet
  <2> QED BY <1>2, <2>1, <2>3
<1>4. ASSUME NEW r \in Receivers \ HoldsCredit
      PROVE Cardinality(HoldsCredit \cup {r}) = Cardinality(HoldsCredit) + 1
  BY <1>1, FS_AddElement
<1> QED BY <1>1, <1>2, <1>3, <1>4

LEMMA SummandTypes ==
  Typed => /\ Len(channel) \in Nat /\ Cardinality(HoldsCredit) \in Nat
           /\ PumpCredit \in Nat /\ credits \in Nat
BY HoldersCount DEF Typed, PumpCredit

LEMMA InitAccounted == Init => Accounted
<1> SUFFICES ASSUME Init PROVE Accounted OBVIOUS
<1>1. HoldsCredit = {} BY DEF Init, HoldsCredit
<1>2. Cardinality(HoldsCredit) = 0 BY <1>1, FS_EmptySet
<1>3. Len(channel) = 0 /\ PumpCredit = 0 BY DEF Init, PumpCredit, PumpHoldsCredit
<1>4. credits = Credits /\ Credits \in Nat BY NetmapAssumption DEF Init, NetmapAssumption
<1> QED BY <1>2, <1>3, <1>4 DEF Accounted

\* A receive task that neither gets nor loses a credit leaves the holders alone.
LEMMA SameHolders ==
  ASSUME Typed, NEW r \in Receivers, NEW there \in RecvPC, NEW p,
         At(r, there, p),
         r \in HoldsCredit <=> there \in {"enqueue", "send"}
  PROVE  HoldsCredit' = HoldsCredit
BY DEF Typed, At, HoldsCredit

LEMMA LosesCredit ==
  ASSUME Typed, NEW r \in HoldsCredit, Drop(r)
  PROVE  HoldsCredit' = HoldsCredit \ {r}
BY DEF Typed, Drop, At, HoldsCredit

LEMMA NextAccounted == Typed /\ Accounted /\ [Next]_vars => Accounted'
<1> SUFFICES ASSUME Typed, Accounted, [Next]_vars PROVE Accounted' OBVIOUS
<1> USE DEF authVars, updVars, recvVars, pumpVars
<1>1. CASE Update \/ Close \/ UNCHANGED vars
  <2>1. UNCHANGED <<recvVars, channel, credits, pumpVars>>
    BY <1>1 DEF Update, Close, vars, MapResponse, GateWrite, ClearTunnels, SetNetmap, BarrierWrite,
       PurgeEndpoints, PurgeMaps, Rebuild, Reconcile, RelayServersSet, InstallPeers, PolicyChange,
       SetRelay, Step
  <2> QED BY <2>1 DEF Accounted, HoldsCredit, PumpCredit, PumpHoldsCredit
<1>2. ASSUME NEW r \in Receivers, Handle(r),
             ~Revalidate(r), ~AbortReceiver(r), ~TakeCredit(r), ~Send(r)
      PROVE Accounted'
  <2>1. HoldsCredit' = HoldsCredit
    BY <1>2 DEF Handle, LookupUdp, StampUdp, StampLinux, StampDerp, DiscoPing, DiscoPong, PongSent,
       DiscoDerp, ReplySent, Drop, At, HoldsCredit, Typed, RecvPC
  <2>2. UNCHANGED <<channel, credits, pumpVars>>
    BY <1>2 DEF Handle, LookupUdp, StampUdp, StampLinux, StampDerp, DiscoPing, DiscoPong, PongSent,
       DiscoDerp, ReplySent
  <2> QED BY <2>1, <2>2 DEF Accounted, PumpCredit, PumpHoldsCredit
<1>3. ASSUME NEW r \in Receivers, TakeCredit(r) PROVE Accounted'
  <2>1. r \notin HoldsCredit /\ HoldsCredit' = HoldsCredit \cup {r}
    BY <1>3 DEF TakeCredit, At, HoldsCredit, Typed
  <2>2. Cardinality(HoldsCredit') = Cardinality(HoldsCredit) + 1 BY <2>1, HoldersCount
  <2>3. credits' = credits - 1 /\ Len(channel') = Len(channel) /\ PumpCredit' = PumpCredit
    BY <1>3 DEF TakeCredit, PumpCredit, PumpHoldsCredit
  <2> QED BY <2>2, <2>3, SummandTypes DEF Accounted
<1>4. ASSUME NEW r \in Receivers, Revalidate(r) PROVE Accounted'
  <2>1. r \in HoldsCredit BY <1>4 DEF Revalidate, HoldsCredit
  <2>2. Len(channel') = Len(channel) /\ PumpCredit' = PumpCredit
    BY <1>4 DEF Revalidate, PumpCredit, PumpHoldsCredit
  <2>3. CASE At(r, "send", pkt[r]) /\ UNCHANGED credits
    BY <2>1, <2>2, <2>3, SameHolders DEF Accounted, RecvPC
  <2>4. CASE Drop(r) /\ credits' = credits + 1
    <3>1. Cardinality(HoldsCredit') = Cardinality(HoldsCredit) - 1
      BY <2>1, <2>4, LosesCredit, HoldersCount
    <3> QED BY <2>2, <2>4, <3>1, SummandTypes DEF Accounted
  <2> QED BY <1>4, <2>3, <2>4 DEF Revalidate
<1>5. ASSUME NEW r \in Receivers, Send(r) PROVE Accounted'
  <2>1. r \in HoldsCredit /\ Drop(r) BY <1>5 DEF Send, HoldsCredit
  <2>2. pkt[r] \in Packets BY <1>5 DEF Send, Typed
  <2>3. Len(channel') = Len(channel) + 1 /\ PumpCredit' = PumpCredit /\ credits' = credits
    BY <1>5, <2>2 DEF Send, Typed, PumpCredit, PumpHoldsCredit
  <2>4. Cardinality(HoldsCredit') = Cardinality(HoldsCredit) - 1
    BY <2>1, LosesCredit, HoldersCount
  <2> QED BY <2>3, <2>4, SummandTypes DEF Accounted
<1>6. ASSUME NEW r \in Receivers, AbortReceiver(r) PROVE Accounted'
  <2>1. Len(channel') = Len(channel) /\ PumpCredit' = PumpCredit /\ Drop(r)
    BY <1>6 DEF AbortReceiver, PumpCredit, PumpHoldsCredit
  <2>2. CASE r \in HoldsCredit
    <3>1. Cardinality(HoldsCredit') = Cardinality(HoldsCredit) - 1
      BY <2>1, <2>2, LosesCredit, HoldersCount
    <3>2. credits' = credits + 1 BY <1>6, <2>2 DEF AbortReceiver
    <3> QED BY <2>1, <3>1, <3>2, SummandTypes DEF Accounted
  <2>3. CASE r \notin HoldsCredit
    <3>1. HoldsCredit' = HoldsCredit BY <2>1, <2>3, SameHolders DEF Drop, RecvPC
    <3> QED BY <1>6, <2>1, <2>3, <3>1 DEF AbortReceiver, Accounted
  <2> QED BY <2>2, <2>3
<1>7. CASE Consume
  <2>1. HoldsCredit' = HoldsCredit
    BY <1>7 DEF Consume, Receive, ObserveEpoch, EnterGate, DeliveryGuard, Deliver, NoteTransport, HoldsCredit
  <2>2. CASE Receive
    <3>1. Len(channel') = Len(channel) - 1 /\ Len(channel) \in Nat BY <2>2 DEF Receive, Typed
    <3>2. PumpCredit = 0 /\ PumpCredit' = 1 /\ credits' = credits
      BY <2>2 DEF Receive, PumpCredit, PumpHoldsCredit
    <3> QED BY <2>1, <3>1, <3>2, HoldersCount DEF Accounted, Typed
  <2>3. CASE ObserveEpoch \/ EnterGate
    <3>1. Len(channel') = Len(channel) BY <2>3 DEF ObserveEpoch, EnterGate
    <3>2. CASE PumpHoldsCredit
      <4>1. PumpCredit = 1 /\ PumpCredit' = 0
        BY <2>3, <3>2 DEF ObserveEpoch, EnterGate, Pump, PumpCredit, PumpHoldsCredit, Typed
      <4>2. credits' = credits + 1
        BY <2>3, <3>2 DEF ObserveEpoch, EnterGate, PumpHoldsCredit
      <4> QED BY <2>1, <3>1, <4>1, <4>2, SummandTypes DEF Accounted
    <3>3. CASE ~PumpHoldsCredit
      <4>1. PumpCredit = 0 /\ PumpCredit' = 0
        BY <2>3, <3>3 DEF ObserveEpoch, EnterGate, Pump, PumpCredit, PumpHoldsCredit, Typed
      <4>2. credits' = credits
        BY <2>3, <3>3 DEF ObserveEpoch, EnterGate, PumpHoldsCredit
      <4> QED BY <2>1, <3>1, <4>1, <4>2 DEF Accounted
    <3> QED BY <3>2, <3>3
  <2>4. CASE DeliveryGuard \/ Deliver \/ NoteTransport
    <3>1. UNCHANGED <<channel, credits>> /\ PumpCredit = 0 /\ PumpCredit' = 0
      BY <2>4 DEF DeliveryGuard, Deliver, NoteTransport, Pump, PumpCredit, PumpHoldsCredit
    <3> QED BY <2>1, <3>1 DEF Accounted
  <2> QED BY <1>7, <2>2, <2>3, <2>4 DEF Consume
<1> QED BY <1>1, <1>2, <1>3, <1>4, <1>5, <1>6, <1>7 DEF Next

\* Every variable of NetmapCommit stays in its domain in every reachable state;
\* in particular no path of publish_wg_batch or of the pumps returns a credit
\* twice.
THEOREM TypeCorrect == Spec => []TypeOK
<1>1. Typed /\ Accounted => TypeOK
  BY HoldersCount, NetmapAssumption DEF Typed, Accounted, TypeOK, PumpCredit, NetmapAssumption
<1> QED BY InitTyped, InitAccounted, NextTyped, NextAccounted, <1>1, PTL DEF Spec

\* The publisher that holds the barrier always finds room in the channel, for
\* any number of receive tasks and credits: the deadlock of publisher, map
\* update and pump cannot start.
THEOREM NoPublisherBlocks == Spec => []PublisherNeverBlocks
<1>1. Typed /\ Accounted => PublisherNeverBlocks
  <2> SUFFICES ASSUME Typed, Accounted, NEW r \in Receivers, rpc[r] = "send"
               PROVE Len(channel) < Credits
    BY DEF PublisherNeverBlocks, ChannelCapacity
  <2>1. r \in HoldsCredit BY DEF HoldsCredit
  <2>2. Cardinality(HoldsCredit) > 0 /\ Cardinality(HoldsCredit) \in Nat BY <2>1, HoldersCount
  <2>3. Len(channel) \in Nat /\ PumpCredit \in Nat /\ credits \in Nat BY DEF Typed, PumpCredit
  <2> QED BY <2>2, <2>3 DEF Accounted
<1> QED BY InitTyped, InitAccounted, NextTyped, NextAccounted, <1>1, PTL DEF Spec

-----------------------------------------------------------------------------
(* The locks, and what they protect *)

\* The writer of a lock excludes its readers.
Exclusion ==
  /\ upd \in {"purge", "maps", "rebuild", "reconcile", "servers"} =>
       BarrierReaders = {} /\ cpc # "deliver"
  /\ upd \notin {"idle", "gate"} => ~GateRead

LEMMA InitExclusion == Init => Exclusion
BY DEF Init, Exclusion, GateRead

LEMMA NextExclusion == Typed /\ Exclusion /\ [Next]_vars => Exclusion'
<1> SUFFICES ASSUME Typed, Exclusion, [Next]_vars PROVE Exclusion' OBVIOUS
<1> USE DEF authVars, updVars, recvVars, pumpVars, Exclusion
<1>1. CASE Update
  <2>1. UNCHANGED <<rpc, cpc>>
    BY <1>1 DEF Update, MapResponse, GateWrite, ClearTunnels, SetNetmap, BarrierWrite,
       PurgeEndpoints, PurgeMaps, Rebuild, Reconcile, RelayServersSet, InstallPeers, PolicyChange,
       SetRelay, Step
  <2>2. BarrierReaders' = BarrierReaders /\ GateRead' = GateRead
    BY <2>1 DEF BarrierReaders, GateRead
  <2> QED
    BY <1>1, <2>1, <2>2 DEF Update, MapResponse, GateWrite, ClearTunnels, SetNetmap, BarrierWrite,
       PurgeEndpoints, PurgeMaps, Rebuild, Reconcile, RelayServersSet, InstallPeers, PolicyChange,
       SetRelay, Step
<1>2. ASSUME NEW r \in Receivers, Handle(r) PROVE Exclusion'
  <2>1. UNCHANGED <<upd, cpc>>
    BY <1>2 DEF Handle, LookupUdp, StampUdp, StampLinux, StampDerp, TakeCredit, Revalidate, Send,
       DiscoPing, DiscoPong, PongSent, DiscoDerp, ReplySent, AbortReceiver
  <2>2. BarrierReadable \/ BarrierReaders' \subseteq BarrierReaders
    BY <1>2 DEF Handle, LookupUdp, StampUdp, StampLinux, StampDerp, TakeCredit, Revalidate, Send,
       DiscoPing, DiscoPong, PongSent, DiscoDerp, ReplySent, AbortReceiver, At, Drop, BarrierReaders, Typed
  <2> QED BY <2>1, <2>2 DEF BarrierReadable, GateRead
<1>3. CASE Consume
  BY <1>3 DEF Consume, Receive, ObserveEpoch, EnterGate, DeliveryGuard, Deliver, NoteTransport, Pump,
     BarrierReaders, BarrierReadable, GateRead, GateReadable
<1>4. CASE Close \/ UNCHANGED vars
  BY <1>4 DEF Close, vars, BarrierReaders, GateRead
<1> QED BY <1>1, <1>2, <1>3, <1>4 DEF Next

\* What is true of endpoints, reverse maps and generations at each step of
\* set_netmap.  In the middle of it endpoints run ahead of the generations.
EndpointsOK ==
  /\ upd \notin {"maps", "rebuild", "reconcile"} =>
       \A p \in Peers : generations[p] # 0 <=> endpoints[p] # Absent
  /\ upd \in {"maps", "rebuild"} =>
       \A p \in Peers : endpoints[p] # Absent =>
         generations[p] # 0 /\ endpoints[p] = target[p] /\ p \notin refreshed
  /\ upd = "reconcile" => endpoints = target

ReverseOK ==
  /\ upd # "maps" =>
       /\ \A a \in Addrs : addrToPeer[a] # NoPeer => endpoints[addrToPeer[a]] # Absent
       /\ \A d \in Discos : discoToPeer[d] # NoPeer => endpoints[discoToPeer[d]] = d
  /\ upd = "maps" =>
       /\ \A a \in Addrs : addrToPeer[a] \in Desired \ refreshed => endpoints[addrToPeer[a]] # Absent
       /\ \A d \in Discos : discoToPeer[d] \in Desired \ refreshed => endpoints[discoToPeer[d]] = d
  /\ \A r \in Receivers : rpc[r] = "pong" => endpoints[pkt[r].peer] # Absent

AuthInv == Typed /\ Exclusion /\ EndpointsOK /\ ReverseOK

LEMMA InitAuth == Init => EndpointsOK /\ ReverseOK
BY DEF Init, EndpointsOK, ReverseOK

\* Receive tasks, the pump and shutdown leave endpoints, generations and the
\* map update alone.
LEMMA OthersKeepMap ==
  ASSUME (\E r \in Receivers : Handle(r)) \/ Consume \/ Close \/ UNCHANGED vars
  PROVE  UNCHANGED <<endpoints, generations, nextGeneration, era, updVars, tunnels>>
BY DEF vars, authVars, Close, Handle, LookupUdp, StampUdp, StampLinux, StampDerp, TakeCredit, Revalidate,
   Send, DiscoPing, DiscoPong, PongSent, DiscoDerp, ReplySent, AbortReceiver,
   Consume, Receive, ObserveEpoch, EnterGate, DeliveryGuard, Deliver, NoteTransport

LEMMA EndpointsStep == Typed /\ EndpointsOK /\ [Next]_vars => EndpointsOK'
<1> SUFFICES ASSUME Typed, EndpointsOK, [Next]_vars PROVE EndpointsOK' OBVIOUS
<1> USE NetmapAssumption DEF NetmapAssumption, authVars, updVars, EndpointsOK
<1>1. CASE (\E r \in Receivers : Handle(r)) \/ Consume \/ Close \/ UNCHANGED vars
  BY <1>1, OthersKeepMap
<1>2. ASSUME NEW m \in Maps, NEW w \in BOOLEAN, MapResponse(m, w) PROVE EndpointsOK'
  BY <1>2 DEF MapResponse
<1>3. CASE GateWrite \/ ClearTunnels \/ SetNetmap \/ BarrierWrite
  BY <1>3 DEF GateWrite, ClearTunnels, SetNetmap, BarrierWrite, Step
<1>4. CASE PurgeEndpoints
  BY <1>4 DEF PurgeEndpoints, Step, Desired, Typed, Maps
<1>5. CASE PurgeMaps
  BY <1>5 DEF PurgeMaps, Step
<1>6. CASE Rebuild
  <2>1. target = [p \in Peers |-> IF p \in Desired THEN target[p] ELSE Absent]
    BY DEF Typed, Maps, Desired
  <2> QED BY <1>6, <2>1 DEF Rebuild, Step
<1>7. CASE Reconcile
  <2>1. \A p \in Peers : generations'[p] # 0 <=> p \in Desired
    BY <1>7 DEF Reconcile, Fresh, Typed
  <2> QED BY <1>7, <2>1 DEF Reconcile, Step, Desired, Typed, Maps
<1>8. ASSUME NEW addrs \in SUBSET Addrs, NEW keys \in SUBSET Discos, RelayServersSet(addrs, keys)
      PROVE EndpointsOK'
  BY <1>8 DEF RelayServersSet, Step
<1>9. CASE InstallPeers \/ PolicyChange
  BY <1>9 DEF InstallPeers, PolicyChange
<1>10. ASSUME NEW p \in Peers, NEW a \in Addrs, NEW replaced \in SUBSET Addrs, SetRelay(p, a, replaced)
       PROVE EndpointsOK'
  BY <1>10 DEF SetRelay
<1> QED BY <1>1, <1>2, <1>3, <1>4, <1>5, <1>6, <1>7, <1>8, <1>9, <1>10 DEF Next, Update

\* A disco handler whose sender checks out names a peer with an endpoint.
LEMMA ReverseStep == AuthInv /\ [Next]_vars => ReverseOK'
<1> SUFFICES ASSUME AuthInv, [Next]_vars PROVE ReverseOK' OBVIOUS
<1> USE NetmapAssumption
    DEF NetmapAssumption, authVars, updVars, recvVars, pumpVars, AuthInv, ReverseOK, Desired
<1>1. ASSUME NEW m \in Maps, NEW w \in BOOLEAN, MapResponse(m, w) PROVE ReverseOK'
  BY <1>1 DEF MapResponse
<1>2. CASE GateWrite \/ ClearTunnels \/ SetNetmap \/ BarrierWrite
  BY <1>2 DEF GateWrite, ClearTunnels, SetNetmap, BarrierWrite, Step
<1>3. CASE PurgeEndpoints
  <2>1. \A r \in Receivers : rpc[r] # "pong"
    BY <1>3 DEF PurgeEndpoints, Exclusion, BarrierReaders
  <2>2. UNCHANGED <<rpc, discoToPeer, addrToPeer, target>> /\ upd' = "maps"
    BY <1>3 DEF PurgeEndpoints, Step
  <2>3. \A p \in Peers : p \in Desired \ refreshed' => endpoints'[p] = endpoints[p]
    BY <1>3 DEF PurgeEndpoints
  <2> QED BY <1>3, <2>1, <2>2, <2>3 DEF PurgeEndpoints, Typed
<1>4. CASE PurgeMaps
  BY <1>4 DEF PurgeMaps, Step, Typed
<1>5. CASE Rebuild
  <2>1. \A r \in Receivers : rpc[r] # "pong"
    BY <1>5 DEF Rebuild, Exclusion, BarrierReaders
  <2>2. upd' = "reconcile" /\ rpc' = rpc BY <1>5 DEF Rebuild, Step
  <2>3. \A p \in Peers : endpoints'[p] = IF p \in Desired THEN target[p] ELSE Absent
    BY <1>5 DEF Rebuild
  <2>4. ASSUME NEW a \in Addrs, addrToPeer'[a] # NoPeer PROVE endpoints'[addrToPeer'[a]] # Absent
    BY <1>5, <2>3, <2>4 DEF Rebuild
  <2>5. ASSUME NEW d \in Discos, discoToPeer'[d] # NoPeer PROVE endpoints'[discoToPeer'[d]] = d
    <3>1. CASE {p \in Desired : target[p] = d} # {}
      BY <1>5, <2>3, <3>1 DEF Rebuild
    <3>2. CASE {p \in Desired : target[p] = d} = {}
      <4>1. discoToPeer'[d] = discoToPeer[d] /\ discoToPeer[d] \in Desired
        BY <1>5, <2>5, <3>2 DEF Rebuild
      <4>2. endpoints[discoToPeer[d]] = d BY <1>5, <4>1 DEF Rebuild
      <4>3. target[discoToPeer[d]] = d BY <1>5, <4>1, <4>2 DEF Rebuild, EndpointsOK
      <4> QED BY <3>2, <4>1, <4>3
    <3> QED BY <3>1, <3>2
  <2> QED BY <2>1, <2>2, <2>4, <2>5
<1>6. CASE Reconcile
  BY <1>6 DEF Reconcile, Step
<1>7. ASSUME NEW addrs \in SUBSET Addrs, NEW keys \in SUBSET Discos, RelayServersSet(addrs, keys)
      PROVE ReverseOK'
  BY <1>7 DEF RelayServersSet, Step, Typed
<1>8. CASE InstallPeers \/ PolicyChange
  BY <1>8 DEF InstallPeers, PolicyChange
<1>9. ASSUME NEW p \in Peers, NEW a \in Addrs, NEW replaced \in SUBSET Addrs, SetRelay(p, a, replaced)
      PROVE ReverseOK'
  BY <1>9 DEF SetRelay, Typed
<1>10. ASSUME NEW r \in Receivers,
              (\E a \in Addrs : LookupUdp(r, a, "order") \/ LookupUdp(r, a, "stamp"))
              \/ StampUdp(r) \/ StampLinux(r) \/ TakeCredit(r) \/ Revalidate(r) \/ Send(r)
              \/ ReplySent(r) \/ AbortReceiver(r) \/ (\E p \in Peers : StampDerp(r, p))
              \/ (\E d \in Keys, p \in Peers, b \in BOOLEAN : DiscoDerp(r, p, d, b))
       PROVE ReverseOK'
  <2>1. UNCHANGED <<endpoints, discoToPeer, addrToPeer, updVars>>
    BY <1>10 DEF LookupUdp, StampUdp, StampLinux, TakeCredit, Revalidate, Send, ReplySent, AbortReceiver,
       StampDerp, DiscoDerp
  <2>2. \A s \in Receivers : rpc'[s] = "pong" => rpc[s] = "pong" /\ pkt'[s] = pkt[s]
    BY <1>10 DEF LookupUdp, StampUdp, StampLinux, TakeCredit, Revalidate, Send, ReplySent, AbortReceiver,
       StampDerp, DiscoDerp, At, Drop, Typed
  <2> QED BY <2>1, <2>2
<1>11. ASSUME NEW r \in Receivers, NEW d \in Discos, NEW n \in Peers, NEW a \in Addrs, DiscoPing(r, d, n, a)
       PROVE ReverseOK'
  <2> DEFINE p == IF AuthorizedDisco(discoToPeer[d], d) THEN discoToPeer[d] ELSE n
  <2>1. p \in Peers /\ endpoints[p] = d BY <1>11 DEF DiscoPing, AuthorizedDisco
  <2>2. upd # "maps" /\ UNCHANGED <<endpoints, addrToPeer, updVars>>
    BY <1>11 DEF DiscoPing, BarrierReadable
  <2>3. discoToPeer' = [discoToPeer EXCEPT ![d] = p] BY <1>11 DEF DiscoPing
  <2>4. \A s \in Receivers : rpc'[s] = "pong" =>
          (rpc[s] = "pong" /\ pkt'[s] = pkt[s]) \/ pkt'[s].peer = p
    BY <1>11 DEF DiscoPing, At, Stamped, Typed
  <2> HIDE DEF p
  <2> QED BY <2>1, <2>2, <2>3, <2>4 DEF Typed
<1>12. ASSUME NEW r \in Receivers, PongSent(r) PROVE ReverseOK'
  <2>1. upd # "maps" BY <1>12 DEF PongSent, Exclusion, BarrierReaders
  <2>2. endpoints[pkt[r].peer] # Absent /\ pkt[r].peer \in Peers
    BY <1>12 DEF PongSent, Typed, Packets
  <2>3. \A s \in Receivers : rpc'[s] = "pong" => rpc[s] = "pong" /\ pkt'[s] = pkt[s]
    BY <1>12 DEF PongSent, Drop, At, Typed
  <2> QED BY <1>12, <2>1, <2>2, <2>3 DEF PongSent, Typed
<1>13. ASSUME NEW r \in Receivers, NEW d \in Discos, NEW p \in Peers, NEW a \in Addrs, DiscoPong(r, d, p, a)
       PROVE ReverseOK'
  <2>1. upd # "maps" /\ endpoints[p] # Absent BY <1>13 DEF DiscoPong, BarrierReadable, AuthorizedDisco
  <2> QED BY <1>13, <2>1 DEF DiscoPong, Typed
<1>14. CASE Consume \/ Close \/ UNCHANGED vars
  <2>1. UNCHANGED <<endpoints, discoToPeer, addrToPeer, updVars, recvVars>>
    BY <1>14 DEF Consume, Receive, ObserveEpoch, EnterGate, DeliveryGuard, Deliver, NoteTransport, Close, vars
  <2> QED BY <2>1
<1> QED
  BY <1>1, <1>2, <1>3, <1>4, <1>5, <1>6, <1>7, <1>8, <1>9, <1>10, <1>11, <1>12, <1>13, <1>14
     DEF Next, Update, Handle

\* AuthInv is an invariant.
LEMMA AuthInvariant == Spec => []AuthInv
BY InitTyped, InitExclusion, InitAuth, NextTyped, NextExclusion, EndpointsStep, ReverseStep, PTL
   DEF Spec, AuthInv

\* Whenever the barrier can be read the reverse maps name only peers of the
\* committed map, a disco key only a peer that has it, although handlers insert
\* into the maps after an await and set_relay does so without the barrier.
THEOREM ReverseMapsStayAuthorized == Spec => []ReverseMapsAuthorized
<1>1. AuthInv => ReverseMapsAuthorized
  BY DEF AuthInv, EndpointsOK, ReverseOK, ReverseMapsAuthorized, BarrierReadable
<1> QED BY AuthInvariant, <1>1, PTL

-----------------------------------------------------------------------------
(* Stamps *)

\* A stamp that is current was made in the current era of its peer.
GenuineIn(x, gens, next, eras) ==
  /\ x.gen <= next
  /\ gens[x.peer] = x.gen /\ x.gen # 0 => x.era = eras[x.peer]

Genuine(x) == GenuineIn(x, generations, nextGeneration, era)

Stamps ==
  /\ \A p \in Peers : generations[p] <= nextGeneration
  /\ \A r \in Receivers : rpc[r] # "idle" => Genuine(pkt[r])
  /\ \A i \in 1 .. Len(channel) : Genuine(channel[i])
  /\ cpc # "idle" => Genuine(batch)

LEMMA InitStamps == Init => Stamps
BY DEF Init, Stamps

\* A packet just looked up, or stamped now, is genuine.
LEMMA StampedGenuine ==
  ASSUME Typed, Stamps, NEW p \in Peers, NEW a
  PROVE  Genuine(Stamped(p, a)) /\ Genuine(Found(p, a))
BY DEF Typed, Stamps, Genuine, GenuineIn, Stamped, Found

LEMMA StampsStep == Typed /\ Stamps /\ [Next]_vars => Stamps'
<1> SUFFICES ASSUME Typed, Stamps, [Next]_vars PROVE Stamps' OBVIOUS
<1> USE DEF authVars, updVars, recvVars, pumpVars
<1>1. CASE Reconcile
  <2>1. UNCHANGED <<rpc, pkt, channel, cpc, batch>> BY <1>1 DEF Reconcile, Step
  <2>2. nextGeneration' \in Nat /\ nextGeneration' >= nextGeneration
    BY <1>1, FreshCount DEF Reconcile, Typed
  <2>3. ASSUME NEW x \in Packets, Genuine(x) PROVE Genuine(x)'
    <3>1. x.gen \in Nat /\ x.peer \in Peers BY DEF Packets
    <3>2. x.gen <= nextGeneration' BY <2>2, <2>3, <3>1 DEF Genuine, GenuineIn, Typed
    <3>3. ASSUME generations'[x.peer] = x.gen, x.gen # 0 PROVE x.era = era'[x.peer]
      <4>2. x.peer \notin Fresh BY <1>1, <2>3, <3>1, <3>3 DEF Reconcile, Genuine, GenuineIn, Typed
      <4>3. x.peer \in Desired /\ generations[x.peer] = x.gen
        BY <1>1, <3>1, <3>3, <4>2 DEF Reconcile
      <4>4. x.peer \notin refreshed BY <4>2, <4>3 DEF Fresh
      <4>5. era'[x.peer] = era[x.peer] BY <1>1, <3>1, <4>3, <4>4 DEF Reconcile
      <4> QED BY <2>3, <3>3, <4>3, <4>5 DEF Genuine, GenuineIn
    <3> QED BY <3>2, <3>3 DEF Genuine, GenuineIn
  <2>4. \A p \in Peers : generations'[p] <= nextGeneration'
    BY <1>1, <2>2 DEF Reconcile
  <2>5. \A i \in 1 .. Len(channel) : channel[i] \in Packets BY DEF Typed
  <2> QED BY <2>1, <2>3, <2>4, <2>5 DEF Stamps, Typed
<1>2. CASE ~Reconcile /\ (Update \/ Close \/ UNCHANGED vars)
  <2>1. UNCHANGED <<rpc, pkt, channel, cpc, batch, generations, nextGeneration, era>>
    BY <1>2 DEF Update, MapResponse, GateWrite, ClearTunnels, SetNetmap, BarrierWrite,
       PurgeEndpoints, PurgeMaps, Rebuild, RelayServersSet, InstallPeers, PolicyChange,
       SetRelay, Step, Close, vars
  <2> QED BY <2>1 DEF Stamps, Genuine
<1>3. ASSUME NEW r \in Receivers, Handle(r) PROVE Stamps'
  <2>1. UNCHANGED <<generations, nextGeneration, era, cpc, batch>> BY <1>3, OthersKeepMap
    DEF Handle, LookupUdp, StampUdp, StampLinux, StampDerp, TakeCredit, Revalidate, Send,
       DiscoPing, DiscoPong, PongSent, DiscoDerp, ReplySent, AbortReceiver
  <2>2. \/ UNCHANGED <<rpc, pkt>> \/ Drop(r)
        \/ \E there \in RecvPC \ {"idle"}, p \in Peers, a \in Addrs \cup {NoAddr} :
             At(r, there, Stamped(p, a)) \/ At(r, there, Found(p, a))
        \/ \E there \in RecvPC : rpc[r] # "idle" /\ At(r, there, pkt[r])
    <3>1. CASE \E d \in Discos, n \in Peers, a \in Addrs : DiscoPing(r, d, n, a)
      <4>1. PICK d \in Discos, n \in Peers, a \in Addrs : DiscoPing(r, d, n, a) BY <3>1
      <4> DEFINE p == IF AuthorizedDisco(discoToPeer[d], d) THEN discoToPeer[d] ELSE n
      <4>2. p \in Peers BY DEF AuthorizedDisco
      <4>3. UNCHANGED <<rpc, pkt>> \/ At(r, "pong", Stamped(p, a)) BY <4>1 DEF DiscoPing
      <4>4. "pong" \in RecvPC \ {"idle"} BY DEF RecvPC
      <4> QED BY <4>2, <4>3, <4>4
    <3>2. CASE StampUdp(r) \/ StampLinux(r)
      <4>1. pkt[r].peer \in Peers /\ pkt[r].addr \in Addrs \cup {NoAddr}
        BY <3>2 DEF StampUdp, StampLinux, Typed, Packets
      <4>2. "credit" \in RecvPC \ {"idle"} BY DEF RecvPC
      <4> QED BY <3>2, <4>1, <4>2 DEF StampUdp, StampLinux
    <3>3. CASE \E a \in Addrs : LookupUdp(r, a, "order") \/ LookupUdp(r, a, "stamp")
      BY <3>3 DEF LookupUdp, Typed, RecvPC
    <3>4. CASE (\E p \in Peers : StampDerp(r, p))
               \/ (\E d \in Keys, p \in Peers, b \in BOOLEAN : DiscoDerp(r, p, d, b))
      BY <3>4 DEF StampDerp, DiscoDerp, RecvPC
    <3>5. CASE TakeCredit(r) \/ Revalidate(r)
      BY <3>5 DEF TakeCredit, Revalidate, RecvPC
    <3>6. CASE \/ Send(r) \/ PongSent(r) \/ ReplySent(r) \/ AbortReceiver(r)
               \/ \E d \in Discos, p \in Peers, a \in Addrs : DiscoPong(r, d, p, a)
      BY <3>6 DEF Send, PongSent, ReplySent, AbortReceiver, DiscoPong
    <3> QED BY <1>3, <3>1, <3>2, <3>3, <3>4, <3>5, <3>6 DEF Handle
  <2>3. ASSUME NEW s \in Receivers, rpc'[s] # "idle" PROVE Genuine(pkt'[s])
    <3>1. CASE s # r \/ UNCHANGED <<rpc, pkt>>
      <4>1. rpc'[s] = rpc[s] /\ pkt'[s] = pkt[s] BY <2>2, <3>1 DEF Typed, At, Drop
      <4> QED BY <2>3, <4>1 DEF Stamps
    <3>2. CASE s = r /\ \E there \in RecvPC : rpc[r] # "idle" /\ At(r, there, pkt[r])
      BY <3>2 DEF Stamps, At, Typed
    <3>3. CASE s = r /\ Drop(r)
      BY <2>3, <3>3 DEF Drop, At, Typed
    <3>4. ASSUME s = r, NEW there \in RecvPC \ {"idle"}, NEW p \in Peers, NEW a \in Addrs \cup {NoAddr},
                 At(r, there, Stamped(p, a)) \/ At(r, there, Found(p, a))
          PROVE Genuine(pkt'[s])
      <4>1. pkt'[s] = Stamped(p, a) \/ pkt'[s] = Found(p, a) BY <3>4 DEF At, Typed
      <4> QED BY <4>1, StampedGenuine
    <3> QED BY <2>2, <3>1, <3>2, <3>3, <3>4
  <2>5. \A i \in 1 .. Len(channel') : Genuine(channel'[i])
    <3>1. CASE Send(r)
      <4>1. pkt[r] \in Packets /\ Genuine(pkt[r]) BY <3>1 DEF Send, Typed, Stamps
      <4>2. channel' = Append(channel, pkt[r]) /\ channel \in Seq(Packets) BY <3>1 DEF Send, Typed
      <4>3. /\ Len(channel) \in Nat /\ Len(channel') = Len(channel) + 1
            /\ channel'[Len(channel) + 1] = pkt[r]
            /\ \A i \in 1 .. Len(channel) : channel'[i] = channel[i]
        BY <4>1, <4>2
      <4>4. \A i \in 1 .. Len(channel') : i \in 1 .. Len(channel) \/ i = Len(channel) + 1
        BY <4>3
      <4> QED BY <4>1, <4>3, <4>4 DEF Stamps
    <3>2. CASE ~Send(r)
      <4>1. channel' = channel BY <1>3, <3>2
        DEF Handle, LookupUdp, StampUdp, StampLinux, StampDerp, TakeCredit, Revalidate,
            DiscoPing, DiscoPong, PongSent, DiscoDerp, ReplySent, AbortReceiver
      <4> QED BY <4>1 DEF Stamps
    <3> QED BY <3>1, <3>2
  <2> QED BY <2>1, <2>3, <2>5 DEF Stamps, Genuine
<1>4. CASE Consume
  <2>1. UNCHANGED <<generations, nextGeneration, era, rpc, pkt>> BY <1>4, OthersKeepMap
    DEF Consume, Receive, ObserveEpoch, EnterGate, DeliveryGuard, Deliver, NoteTransport
  <2>2. \A i \in 1 .. Len(channel') : Genuine(channel'[i])
    <3>1. CASE Receive
      <4>1. /\ Len(channel') = Len(channel) - 1 /\ Len(channel) \in Nat
            /\ \A i \in 1 .. Len(channel') : channel'[i] = channel[i + 1]
        BY <3>1 DEF Receive, Typed
      <4> QED BY <4>1 DEF Stamps
    <3> QED BY <1>4, <3>1 DEF Consume, ObserveEpoch, EnterGate, DeliveryGuard, Deliver, NoteTransport, Stamps
  <2>3. cpc' # "idle" => Genuine(batch')
    <3>1. CASE Receive
      <4>1. batch' = channel[1] /\ 1 \in 1 .. Len(channel) BY <3>1 DEF Receive, Typed
      <4> QED BY <4>1 DEF Stamps
    <3>2. CASE ~Receive
      <4>1. cpc # "idle" /\ (cpc' # "idle" => batch' = batch)
        BY <1>4, <3>2 DEF Consume, ObserveEpoch, EnterGate, DeliveryGuard, Deliver, NoteTransport, Pump
      <4> QED BY <4>1 DEF Stamps
    <3> QED BY <3>1, <3>2
  <2> QED BY <2>1, <2>2, <2>3 DEF Stamps, Genuine
<1> QED BY <1>1, <1>2, <1>3, <1>4 DEF Next

-----------------------------------------------------------------------------
(* Delivery *)

\* The pump's batch has a tunnel while the gate is read, and is current while
\* the barrier is read.
BatchOK ==
  /\ GateRead => batch.peer \in tunnels
  /\ cpc = "deliver" => Current(batch.peer, batch.gen)

LEMMA InitBatch == Init => BatchOK
BY DEF Init, BatchOK, GateRead

LEMMA BatchStep == Typed /\ Exclusion /\ BatchOK /\ [Next]_vars => BatchOK'
<1> SUFFICES ASSUME Typed, Exclusion, BatchOK, [Next]_vars PROVE BatchOK' OBVIOUS
<1> USE DEF authVars, updVars, recvVars, pumpVars, BatchOK, GateRead
<1>1. CASE Update
  <2>1. UNCHANGED <<cpc, batch>>
    BY <1>1 DEF Update, MapResponse, GateWrite, ClearTunnels, SetNetmap, BarrierWrite,
       PurgeEndpoints, PurgeMaps, Rebuild, Reconcile, RelayServersSet, InstallPeers, PolicyChange,
       SetRelay, Step
  <2>2. tunnels' = tunnels \/ ~GateRead
    BY <1>1 DEF Update, MapResponse, GateWrite, ClearTunnels, SetNetmap, BarrierWrite,
       PurgeEndpoints, PurgeMaps, Rebuild, Reconcile, RelayServersSet, InstallPeers, PolicyChange,
       SetRelay, Step, Exclusion
  <2>3. generations' = generations \/ cpc # "deliver"
    BY <1>1 DEF Update, MapResponse, GateWrite, ClearTunnels, SetNetmap, BarrierWrite,
       PurgeEndpoints, PurgeMaps, Rebuild, Reconcile, RelayServersSet, InstallPeers, PolicyChange,
       SetRelay, Step, Exclusion
  <2> QED BY <2>1, <2>2, <2>3 DEF Current
<1>2. ASSUME NEW r \in Receivers, Handle(r) PROVE BatchOK'
  <2>1. UNCHANGED <<cpc, batch>>
    BY <1>2 DEF Handle, LookupUdp, StampUdp, StampLinux, StampDerp, TakeCredit, Revalidate, Send,
       DiscoPing, DiscoPong, PongSent, DiscoDerp, ReplySent, AbortReceiver
  <2> QED BY <1>2, <2>1, OthersKeepMap DEF Current
<1>3. CASE Consume
  <2>1. UNCHANGED <<generations, tunnels>> BY <1>3, OthersKeepMap
  <2> QED
    BY <1>3, <2>1 DEF Consume, Receive, ObserveEpoch, EnterGate, DeliveryGuard, Deliver, NoteTransport,
       Pump, Current
<1>4. CASE Close \/ UNCHANGED vars
  BY <1>4 DEF Close, vars, Current
<1> QED BY <1>1, <1>2, <1>3, <1>4 DEF Next

\* No ciphertext accepted before its peer was revoked is delivered after that,
\* however receive tasks, pump and any number of commits interleave: a stamp
\* that is current is of the current era (Genuine), and the two locks keep it
\* current from the last check to the delivery.
THEOREM StaleNeverDelivered == Spec => []NoStaleDelivery
<1>1. Typed /\ Exclusion /\ EndpointsOK /\ Stamps /\ BatchOK => NoStaleDelivery
  <2> SUFFICES ASSUME Typed, Exclusion, EndpointsOK, Stamps, BatchOK, cpc = "deliver"
               PROVE /\ batch.era = era[batch.peer]
                     /\ batch.peer \in tunnels
                     /\ endpoints[batch.peer] # Absent
    BY DEF NoStaleDelivery
  <2>1. batch.peer \in tunnels /\ Current(batch.peer, batch.gen) BY DEF BatchOK, GateRead
  <2>2. batch.era = era[batch.peer] BY <2>1 DEF Stamps, Genuine, GenuineIn, Current
  <2>3. upd \notin {"maps", "rebuild", "reconcile"} BY DEF Exclusion
  <2>4. endpoints[batch.peer] # Absent BY <2>1, <2>3 DEF EndpointsOK, Current, Typed
  <2> QED BY <2>1, <2>2, <2>4
<1> QED
  BY InitTyped, InitExclusion, InitAuth, InitStamps, InitBatch, NextTyped, NextExclusion, EndpointsStep,
     StampsStep, BatchStep, <1>1, PTL DEF Spec

-----------------------------------------------------------------------------
(* Path evidence *)

\* Revoked peers have no evidence when their era ends.
EvidenceInv ==
  /\ EvidenceFresh
  /\ upd \in {"maps", "rebuild", "reconcile"} =>
       \A p \in Peers : p \notin Desired \ refreshed => evidence[p] = -1

LEMMA InitEvidence == Init => EvidenceInv
BY DEF Init, EvidenceInv, EvidenceFresh

LEMMA EvidenceStep == Typed /\ Exclusion /\ Stamps /\ EvidenceInv /\ [Next]_vars => EvidenceInv'
<1> SUFFICES ASSUME Typed, Exclusion, Stamps, EvidenceInv, [Next]_vars PROVE EvidenceInv' OBVIOUS
<1> USE DEF authVars, updVars, recvVars, pumpVars, EvidenceInv, EvidenceFresh, Desired
<1>1. CASE Reconcile
  BY <1>1 DEF Reconcile, Step, Typed
<1>2. CASE PurgeEndpoints
  <2>1. upd' = "maps" /\ era' = era /\ target' = target BY <1>2 DEF PurgeEndpoints, Step
  <2>2. \A p \in Peers : evidence'[p] = IF p \in Desired \ refreshed' THEN evidence[p] ELSE -1
    BY <1>2 DEF PurgeEndpoints
  <2> QED BY <2>1, <2>2
<1>3. CASE Update /\ ~Reconcile /\ ~PurgeEndpoints
  <2>1. UNCHANGED <<era, evidence>>
    BY <1>3 DEF Update, MapResponse, GateWrite, ClearTunnels, SetNetmap, BarrierWrite,
       PurgeMaps, Rebuild, RelayServersSet, InstallPeers, PolicyChange, SetRelay, Step
  <2>2. upd' \in {"maps", "rebuild", "reconcile"} =>
          upd \in {"maps", "rebuild", "reconcile"} /\ UNCHANGED <<target, refreshed>>
    BY <1>3 DEF Update, MapResponse, GateWrite, ClearTunnels, SetNetmap, BarrierWrite,
       PurgeMaps, Rebuild, RelayServersSet, InstallPeers, PolicyChange, SetRelay, Step
  <2> QED BY <2>1, <2>2
<1>4. ASSUME NEW r \in Receivers, Handle(r) PROVE EvidenceInv'
  <2>1. UNCHANGED <<era, updVars>> BY <1>4, OthersKeepMap
  <2>2. \/ evidence' = evidence
        \/ BarrierReadable /\ \E p \in Peers : Note(p)
    <3>1. CASE \E d \in Discos, n \in Peers, a \in Addrs : DiscoPing(r, d, n, a)
      BY <3>1 DEF DiscoPing, AuthorizedDisco
    <3>2. CASE ~\E d \in Discos, n \in Peers, a \in Addrs : DiscoPing(r, d, n, a)
      BY <1>4, <3>2 DEF Handle, LookupUdp, StampUdp, StampLinux, StampDerp, TakeCredit, Revalidate, Send,
         DiscoPong, PongSent, DiscoDerp, ReplySent, AbortReceiver
    <3> QED BY <3>1, <3>2
  <2>3. CASE evidence' = evidence BY <2>1, <2>3
  <2>4. ASSUME BarrierReadable, NEW p \in Peers, Note(p) PROVE EvidenceInv'
    BY <2>1, <2>4 DEF Note, BarrierReadable, Typed
  <2> QED BY <2>2, <2>3, <2>4
<1>5. CASE Consume
  <2>1. UNCHANGED <<era, updVars>> BY <1>5, OthersKeepMap
  <2>2. CASE NoteTransport
    <3>1. upd \notin {"maps", "rebuild", "reconcile"} BY <2>2 DEF NoteTransport, Exclusion, GateRead
    <3>2. batch \in Packets /\ Genuine(batch) BY <2>2 DEF NoteTransport, Typed, Stamps
    <3>3. evidence' = evidence \/ (evidence' = [evidence EXCEPT ![batch.peer] = era[batch.peer]])
      BY <2>2, <3>2 DEF NoteTransport, Genuine, GenuineIn, Current
    <3>4. \A p \in Peers : evidence'[p] \in {-1, era[p]} BY <3>3 DEF Typed
    <3> QED BY <2>1, <3>1, <3>4
  <2>3. CASE ~NoteTransport
    BY <1>5, <2>1, <2>3 DEF Consume, Receive, ObserveEpoch, EnterGate, DeliveryGuard, Deliver
  <2> QED BY <2>2, <2>3
<1>6. CASE Close \/ UNCHANGED vars
  BY <1>6 DEF Close, vars
<1> QED BY <1>1, <1>2, <1>3, <1>4, <1>5, <1>6 DEF Next

\* Path evidence is never older than its endpoint's authorization, although
\* note_authenticated_wg_transport runs outside the barrier: the gate it runs
\* under keeps it out of the time between the new endpoint and its generation.
THEOREM EvidenceStaysFresh == Spec => []EvidenceFresh
<1>1. EvidenceInv => EvidenceFresh BY DEF EvidenceInv
<1> QED
  BY InitTyped, InitExclusion, InitStamps, InitEvidence, NextTyped, NextExclusion, StampsStep,
     EvidenceStep, <1>1, PTL DEF Spec

-----------------------------------------------------------------------------
(* One map *)

Authorized == {p \in Peers : generations[p] # 0}

\* How far the tunnels have followed the generations.
Followed ==
  /\ ~closed /\ upd \in {"idle", "gate"} => tunnels = Authorized
  /\ withdraw => Desired = {}
  /\ withdraw /\ upd \notin {"idle", "gate", "clear"} => tunnels = {}
  /\ upd = "servers" => Authorized = Desired
  /\ ~closed /\ upd = "install" => Authorized = Desired

LEMMA InitFollowed == Init => Followed
BY DEF Init, Followed, Authorized

LEMMA FollowedStep == Typed /\ Followed /\ [Next]_vars => Followed'
<1> SUFFICES ASSUME Typed, Followed, [Next]_vars PROVE Followed' OBVIOUS
<1> USE DEF authVars, updVars, Followed
<1>1. CASE (\E r \in Receivers : Handle(r)) \/ Consume \/ Close \/ UNCHANGED vars
  <2>1. UNCHANGED <<generations, updVars, tunnels>> BY <1>1, OthersKeepMap
  <2>2. closed => closed'
    <3>1. CASE Close \/ UNCHANGED vars BY <3>1 DEF vars, Close
    <3>2. ASSUME NEW r \in Receivers, Handle(r) PROVE closed' = closed
      BY <3>2 DEF Handle, LookupUdp, StampUdp, StampLinux, StampDerp, TakeCredit, Revalidate,
         Send, DiscoPing, DiscoPong, PongSent, DiscoDerp, ReplySent, AbortReceiver
    <3>3. CASE Consume
      BY <3>3 DEF Consume, Receive, ObserveEpoch, EnterGate, DeliveryGuard, Deliver, NoteTransport
    <3> QED BY <1>1, <3>1, <3>2, <3>3
  <2> QED BY <2>1, <2>2 DEF Authorized, Desired
<1>2. ASSUME NEW m \in Maps, NEW w \in BOOLEAN, MapResponse(m, w) PROVE Followed'
  BY <1>2 DEF MapResponse, Authorized, Desired
<1>3. CASE GateWrite \/ ClearTunnels \/ SetNetmap \/ BarrierWrite
  BY <1>3 DEF GateWrite, ClearTunnels, SetNetmap, BarrierWrite, Step, Authorized, Desired
<1>4. CASE PurgeEndpoints \/ PurgeMaps \/ Rebuild
  BY <1>4 DEF PurgeEndpoints, PurgeMaps, Rebuild, Step, Authorized, Desired
<1>5. CASE Reconcile
  <2>1. \A p \in Peers : generations'[p] # 0 <=> p \in Desired
    BY <1>5 DEF Reconcile, Fresh, Typed
  <2>2. Authorized' = Desired BY <2>1 DEF Authorized, Desired
  <2> QED BY <1>5, <2>2 DEF Reconcile, Step, Desired
<1>6. ASSUME NEW addrs \in SUBSET Addrs, NEW keys \in SUBSET Discos, RelayServersSet(addrs, keys)
      PROVE Followed'
  BY <1>6 DEF RelayServersSet, Step, Authorized, Desired
<1>7. CASE InstallPeers
  <2>1. Authorized' = Authorized BY <1>7 DEF InstallPeers, Authorized
  <2>2. ~withdraw' /\ upd' = "idle" /\ closed' = closed BY <1>7 DEF InstallPeers
  <2>3. ASSUME ~closed PROVE tunnels' = Authorized
    <3>1. upd = "install" BY <1>7 DEF InstallPeers
    <3>2. Authorized = Desired BY <2>3, <3>1
    <3>3. CASE withdraw
      <4>1. Desired = {} /\ tunnels = {} BY <3>1, <3>3
      <4>2. tunnels' = tunnels BY <1>7, <3>3 DEF InstallPeers
      <4> QED BY <3>2, <4>1, <4>2
    <3>4. CASE ~withdraw
      <4>1. tunnels' = Desired BY <1>7, <3>4 DEF InstallPeers
      <4> QED BY <3>2, <4>1
    <3> QED BY <3>3, <3>4
  <2> QED BY <2>1, <2>2, <2>3
<1>8. CASE PolicyChange
  BY <1>8 DEF PolicyChange, Authorized, Desired
<1>9. ASSUME NEW p \in Peers, NEW a \in Addrs, NEW replaced \in SUBSET Addrs, SetRelay(p, a, replaced)
      PROVE Followed'
  BY <1>9 DEF SetRelay, Authorized, Desired
<1> QED BY <1>1, <1>2, <1>3, <1>4, <1>5, <1>6, <1>7, <1>8, <1>9 DEF Next, Update

\* While the pump handles a batch the tunnels are those of the authorized peers:
\* a commit or a withdrawal replaces both under one hold of the gate.
THEOREM PumpSeesOneMap == Spec => []OneMap
<1>1. Exclusion /\ Followed => OneMap
  BY DEF Exclusion, Followed, OneMap, Authorized
<1> QED
  BY InitTyped, InitExclusion, InitFollowed, NextTyped, NextExclusion, FollowedStep, <1>1, PTL DEF Spec
=============================================================================
