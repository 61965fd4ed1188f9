-------------------------- MODULE MagicsockProofs --------------------------
(***************************************************************************)
(* Proofs about three components of the magicsock: PeerPath, for any       *)
(* durations and any number of addresses, senders and tasks; DerpManager,  *)
(* for every choice of regions, connection names, senders and reconnect    *)
(* tasks; and SocketShutdown, for any number of background tasks and       *)
(* callers.                                                                *)
(***************************************************************************)
EXTENDS PeerPath, DerpManager, SocketShutdown, SequenceTheorems, TLAPS

-----------------------------------------------------------------------------
(* PeerPath: the type invariant, one background task per peer, heartbeats  *)
(* while there is traffic, and a direct address that is never older than   *)
(* the last reset.                                                         *)


Numbers == Never \in Nat /\ HeartbeatInterval \in 1..Never /\ PingTimeout \in 1..Never /\ Trust \in 1..Never
           /\ SessionTimeout \in 1..Never

\* The durations are positive and no greater than the cap of ages.
LEMMA Durations == Numbers
BY PathAssumption DEF PathAssumption, Numbers

\* Every cliff is one of the durations an age can reach.
LEMMA CliffRange ==
  /\ 1 \in DOMAIN Cliffs
  /\ \A i \in DOMAIN Cliffs : Cliffs[i] \in 1..Never
  /\ \A i \in DOMAIN Cliffs : i < Len(Cliffs) => i + 1 \in DOMAIN Cliffs
<1>1. Cliffs \in Seq(1..Never) /\ Cliffs # <<>>
  BY PathAssumption DEF PathAssumption
<1>2. Len(Cliffs) \in Nat /\ DOMAIN Cliffs = 1..Len(Cliffs)
  BY <1>1
<1>3. \A i \in DOMAIN Cliffs : Cliffs[i] \in 1..Never
  BY <1>1, <1>2, ElementOfSeq
<1>4. Len(Cliffs) # 0
  BY <1>1
<1> QED BY <1>2, <1>3, <1>4

LEMMA NoCycleType == NoCycle \in CycleStates
BY CliffRange DEF NoCycle, CycleStates

LEMMA EndedType == Ended \in TaskStates
BY Durations DEF Ended, TaskStates, Numbers, Awaits

\* Aborting a task keeps every task a task.
LEMMA AbortType ==
  ASSUME NEW tk \in [PathTasks -> TaskStates], NEW h \in PathTasks \cup {None}
  PROVE  AbortOf(tk, h) \in [PathTasks -> TaskStates]
BY EndedType, PathAssumption DEF AbortOf, TaskStates, PathAssumption

\* So does a step of a task.
LEMMA GotoType ==
  ASSUME pathTask \in [PathTasks -> TaskStates], NEW t \in PathTasks, NEW there \in TaskStates, GoOn(t, there)
  PROVE  pathTask' \in [PathTasks -> TaskStates]
BY EndedType DEF GoOn

LEMMA SleepType ==
  ASSUME pathTask \in [PathTasks -> TaskStates], NEW t \in PathTasks, NEW n \in 0..Never, NEW at \in Awaits, Sleep(t, n, at)
  PROVE  pathTask' \in [PathTasks -> TaskStates]
<1> DEFINE there == [pathTask[t] EXCEPT !.at = at, !.timer = n]
<1>1. there \in TaskStates
  BY DEF TaskStates
<1> QED BY <1>1, GotoType DEF Sleep

LEMMA ReturnType ==
  ASSUME pathTask \in [PathTasks -> TaskStates], NEW t \in PathTasks, Return(t)
  PROVE  pathTask' \in [PathTasks -> TaskStates]
BY EndedType DEF Return

\* A ping takes a transaction that is not in use.
LEMMA PingType ==
  ASSUME PathTypeOK, NEW lifetime \in BOOLEAN, SendPing(lifetime)
  PROVE  /\ pending' \in [Txs -> (0..PingTimeout) \cup {None}]
         /\ wire' \subseteq Txs /\ stale' \subseteq wire'
         /\ cycle' \in CycleStates
<1>1. PICK x \in FreeTxs :
        /\ pending' = IF present THEN [Expired EXCEPT ![x] = 0] ELSE pending
        /\ wire' = wire \cup {x}
        /\ stale' = IF present THEN stale ELSE stale \cup {x}
        /\ cycle' = IF present THEN [Normal(cycle, pending') EXCEPT !.tx = IF lifetime THEN x ELSE @] ELSE cycle
  BY DEF SendPing
<1>2. x \in Txs
  BY DEF FreeTxs
<1>3. Expired \in [Txs -> (0..PingTimeout) \cup {None}]
  BY DEF Expired, PathTypeOK
<1>4. pending' \in [Txs -> (0..PingTimeout) \cup {None}]
  BY <1>1, <1>2, <1>3, Durations DEF PathTypeOK, Numbers
<1>5. Normal(cycle, pending') \in CycleStates
  BY DEF Normal, CycleStates, PathTypeOK
<1>6. cycle' \in CycleStates
  BY <1>1, <1>2, <1>5 DEF CycleStates, PathTypeOK
<1> QED BY <1>1, <1>2, <1>4, <1>6 DEF PathTypeOK

\* What a reset and a new endpoint set.
LEMMA ResetType ==
  ASSUME PathTypeOK, Reset \/ NewEndpoint
  PROVE  /\ best' \in Addrs \cup {None} /\ trust' \in 0..Trust
         /\ pending' \in [Txs -> (0..PingTimeout) \cup {None}]
         /\ {sendAge', recvAge'} \subseteq 0..Never
         /\ cycle' \in CycleStates
         /\ stale' = wire /\ proof' = "none"
         /\ NewEndpoint => inbox' \subseteq Stamps
<1>1. ResetCycle \in CycleStates
  BY CliffRange DEF ResetCycle, CycleStates, PathTypeOK
<1>2. NoPending \in [Txs -> (0..PingTimeout) \cup {None}]
  BY DEF NoPending
<1> QED BY <1>1, <1>2, NoCycleType, Durations DEF Reset, NewEndpoint, Numbers, Stamps

LEMMA TypeTask ==
  ASSUME PathTypeOK, NEW t \in PathTasks, TaskStep(t)
  PROVE  PathTypeOK'
<1>a. pathTask \in [PathTasks -> TaskStates] /\ pathTask[t] \in TaskStates /\ cycle \in CycleStates
  BY DEF PathTypeOK
<1>1. CASE TimerFires(t)
  <2> DEFINE there == [pathTask[t] EXCEPT !.at = IF ~SessionActive THEN "phase2"
                                             ELSE IF TrustedAddr = None THEN "retrigger" ELSE "beat"]
  <2>1. there \in TaskStates
    BY <1>a DEF TaskStates
  <2>2. Return(t) \/ GoOn(t, there)
    BY <1>1 DEF TimerFires
  <2>3. pathTask' \in [PathTasks -> TaskStates]
    BY <1>a, <2>1, <2>2, GotoType, ReturnType
  <2> QED BY <1>1, <2>3 DEF TimerFires, PathTypeOK, endpoint, network
<1>2. CASE Beat(t)
  <2>1. pathTask' \in [PathTasks -> TaskStates]
    BY <1>2, <1>a, SleepType, Durations DEF Beat, Numbers, Awaits
  <2> QED BY <1>2, <2>1, PingType DEF Beat, PathTypeOK
<1>3. CASE Retrigger(t)
  <2>1. pathTask' \in [PathTasks -> TaskStates]
    BY <1>3, <1>a, SleepType, Durations DEF Retrigger, Numbers, Awaits
  <2> QED BY <1>3, <2>1 DEF Retrigger, PathTypeOK, endpoint, network
<1>4. CASE ProbePhase(t)
  <2>1. Inactivity \in 0..Never
    BY Durations DEF Inactivity, LeastOf, PathTypeOK, Numbers
  <2>2. Cliffs[cycle.cliff] \in 1..Never
    BY <1>a, CliffRange DEF CycleStates
  <2>3. CASE Inactivity < Cliffs[cycle.cliff] /\ Sleep(t, Cliffs[cycle.cliff] - Inactivity, "cliff")
    <3>1. Cliffs[cycle.cliff] - Inactivity \in 0..Never
      BY <2>1, <2>2, <2>3, Durations DEF Numbers
    <3> QED BY <3>1, <2>3, <1>a, <1>4, SleepType DEF ProbePhase, PathTypeOK, endpoint, network, Awaits
  <2>4. CASE Return(t)
    BY <2>4, <1>a, <1>4, ReturnType DEF ProbePhase, PathTypeOK, endpoint, network
  <2> QED BY <1>4, <2>3, <2>4 DEF ProbePhase
<1>5. CASE CliffReached(t)
  <2> DEFINE start == [pathTask[t] EXCEPT !.at = "start", !.trusted = TrustedAddr # None]
             probe == [pathTask[t] EXCEPT !.at = "probe"]
  <2>1. start \in TaskStates /\ probe \in TaskStates
    BY <1>a DEF TaskStates
  <2>2. Return(t) \/ GoOn(t, start) \/ GoOn(t, probe)
    BY <1>5 DEF CliffReached
  <2>3. pathTask' \in [PathTasks -> TaskStates]
    BY <1>a, <2>1, <2>2, GotoType, ReturnType
  <2> QED BY <1>5, <2>3 DEF CliffReached, PathTypeOK, endpoint, network
<1>6. CASE StartCycle(t)
  <2> DEFINE probe == [pathTask[t] EXCEPT !.at = "probe", !.trusted = FALSE]
  <2>1. probe \in TaskStates
    BY <1>a DEF TaskStates
  <2>2. Return(t) \/ GoOn(t, probe)
    BY <1>6 DEF StartCycle
  <2>3. pathTask' \in [PathTasks -> TaskStates]
    BY <1>a, <2>1, <2>2, GotoType, ReturnType
  <2>4. cycle' \in CycleStates
    BY <1>a, <1>6, CliffRange DEF StartCycle, CycleStates, PathTypeOK
  <2> QED BY <1>6, <2>3, <2>4 DEF StartCycle, PathTypeOK, network
<1>7. CASE LifetimePing(t)
  <2>1. pathTask' \in [PathTasks -> TaskStates]
    BY <1>7, <1>a, SleepType, Durations DEF LifetimePing, Numbers, Awaits
  <2> QED BY <1>7, <2>1, PingType DEF LifetimePing, PathTypeOK
<1>8. CASE ProbeDone(t)
  <2> DEFINE next == [pathTask[t] EXCEPT !.at = "phase2"]
  <2>1. next \in TaskStates
    BY <1>a DEF TaskStates
  <2>2. Return(t) \/ GoOn(t, next)
    BY <1>8 DEF ProbeDone
  <2>3. pathTask' \in [PathTasks -> TaskStates]
    BY <1>a, <2>1, <2>2, GotoType, ReturnType
  <2>4. cycle' \in CycleStates
    <3>1. CASE present /\ cycle.tx = None /\ cycle.cliff < Len(Cliffs)
      BY <1>a, <1>8, <3>1, CliffRange DEF ProbeDone, CycleStates
    <3>2. CASE ~(present /\ cycle.tx = None /\ cycle.cliff < Len(Cliffs))
      BY <1>a, <1>8, <3>2, CliffRange DEF ProbeDone, CycleStates
    <3> QED BY <3>1, <3>2
  <2>5. best' \in Addrs \cup {None} /\ trust' \in 0..Trust /\ proof' \in {"none", "new", "old"}
    BY <1>8, Durations DEF ProbeDone, PathTypeOK, Numbers
  <2> QED BY <1>8, <2>3, <2>4, <2>5 DEF ProbeDone, PathTypeOK, network
<1> QED BY <1>1, <1>2, <1>3, <1>4, <1>5, <1>6, <1>7, <1>8 DEF TaskStep

LEMMA TypeInit == PathInit => PathTypeOK
<1> SUFFICES ASSUME PathInit PROVE PathTypeOK
  OBVIOUS
<1>1. pathTask \in [PathTasks -> TaskStates]
  BY EndedType DEF PathInit
<1>2. cycle \in CycleStates
  BY NoCycleType DEF PathInit
<1>3. pending \in [Txs -> (0..PingTimeout) \cup {None}] /\ sender \in [PathSenders -> {"idle", "arm"}]
  BY DEF PathInit, NoPending
<1>4. trust \in 0..Trust /\ {sendAge, recvAge} \subseteq 0..Never
  BY Durations DEF PathInit, Numbers
<1> QED BY <1>1, <1>2, <1>3, <1>4 DEF PathInit, PathTypeOK

LEMMA TypeNext ==
  ASSUME PathTypeOK, [PathNext]_pathVars
  PROVE  PathTypeOK'
<1>1. CASE DiscoveryPing
  BY <1>1, PingType DEF DiscoveryPing, PathTypeOK
<1>2. CASE Received
  <2>1. inbox' \subseteq Stamps
    BY <1>2 DEF Received, PathTypeOK, Stamps
  <2>2. recvAge' \in 0..Never
    BY <1>2, Durations DEF Received, Numbers
  <2> QED BY <1>2, <2>1, <2>2 DEF Received, PathTypeOK
<1>3. ASSUME NEW x \in Txs, NEW a \in Addrs, Pong(x, a)
      PROVE  PathTypeOK'
  <2>1. pending' \in [Txs -> (0..PingTimeout) \cup {None}]
    BY <1>3 DEF Pong, PathTypeOK
  <2>2. cycle' \in CycleStates
    BY <1>3 DEF Pong, Normal, CycleStates, PathTypeOK
  <2>3. best' \in Addrs /\ trust' \in 0..Trust /\ recvAge' \in 0..Never /\ proof' \in {"none", "new", "old"}
    BY <1>3, Durations DEF Pong, Numbers
  <2> QED BY <1>3, <2>1, <2>2, <2>3 DEF Pong, PathTypeOK, network
<1>4. ASSUME NEW x \in Txs, Lose(x)
      PROVE  PathTypeOK'
  BY <1>4 DEF Lose, PathTypeOK, endpoint
<1>5. ASSUME NEW s \in PathSenders, Send(s)
      PROVE  PathTypeOK'
  BY <1>5, Durations DEF Send, PathTypeOK, Numbers, network
<1>6. ASSUME NEW s \in PathSenders, ArmHeartbeat(s)
      PROVE  PathTypeOK'
  <2>1. PICK t \in PathTasks :
          /\ pathTask' = [AbortOf(pathTask, handle) EXCEPT ![t] = [Ended EXCEPT !.at = "sleep", !.timer = HeartbeatInterval]]
          /\ handle' = t
    BY <1>6 DEF ArmHeartbeat
  <2>2. AbortOf(pathTask, handle) \in [PathTasks -> TaskStates]
    BY AbortType DEF PathTypeOK
  <2>3. [Ended EXCEPT !.at = "sleep", !.timer = HeartbeatInterval] \in TaskStates
    <3>1. HeartbeatInterval \in 0..Never /\ "sleep" \in Awaits
      BY Durations DEF Numbers, Awaits
    <3> HIDE DEF Ended
    <3> QED BY <3>1, EndedType DEF TaskStates
  <2>4. pathTask' \in [PathTasks -> TaskStates] /\ handle' \in PathTasks
    BY <2>1, <2>2, <2>3
  <2> QED BY <1>6, <2>4 DEF ArmHeartbeat, PathTypeOK, endpoint, network
<1>7. ASSUME NEW t \in PathTasks, TaskStep(t)
      PROVE  PathTypeOK'
  BY <1>7, TypeTask
<1>8. CASE DropEndpoint
  BY <1>8, ResetType DEF DropEndpoint, PathTypeOK
<1>9. CASE AbortDropped \/ LinkAbort
  <2>1. pathTask' \in [PathTasks -> TaskStates]
    BY <1>9, AbortType DEF AbortDropped, LinkAbort, PathTypeOK
  <2> QED BY <1>9, <2>1 DEF AbortDropped, LinkAbort, PathTypeOK, endpoint, network
<1>10. CASE Rebuild
  BY <1>10 DEF Rebuild, PathTypeOK, network
<1>11. CASE LinkReset
  BY <1>11, ResetType DEF LinkReset, PathTypeOK
<1>12. CASE LinkPmtud
  <2>1. CASE Reset
    BY <1>12, <2>1, ResetType DEF LinkPmtud, PathTypeOK
  <2>2. CASE UNCHANGED <<best, trust, proof, pending, stale, sendAge, recvAge, cycle>>
    BY <1>12, <2>2 DEF LinkPmtud, PathTypeOK
  <2> QED BY <1>12, <2>1, <2>2 DEF LinkPmtud
<1>13. CASE Tick
  <2>1. pathTask' \in [PathTasks -> TaskStates]
    <3> SUFFICES ASSUME NEW t \in PathTasks
                 PROVE  [pathTask[t] EXCEPT !.timer = IF @ > 0 THEN @ - 1 ELSE 0] \in TaskStates
      BY <1>13 DEF Tick
    <3>1. pathTask[t] \in TaskStates
      BY DEF PathTypeOK
    <3>2. (IF pathTask[t].timer > 0 THEN pathTask[t].timer - 1 ELSE 0) \in 0..Never
      BY <3>1, Durations DEF TaskStates, Numbers
    <3> QED BY <3>1, <3>2 DEF TaskStates
  <2>2. pending' \in [Txs -> (0..PingTimeout) \cup {None}]
    <3> SUFFICES ASSUME NEW x \in Txs, pending[x] # None
                 PROVE  LeastOf(pending[x] + 1, PingTimeout) \in 0..PingTimeout
      BY <1>13 DEF Tick
    <3> QED BY Durations DEF LeastOf, PathTypeOK, Numbers
  <2>3. trust' \in 0..Trust /\ {sendAge', recvAge'} \subseteq 0..Never
    BY <1>13, Durations DEF Tick, Older, LeastOf, PathTypeOK, Numbers
  <2> QED BY <1>13, <2>1, <2>2, <2>3 DEF Tick, PathTypeOK, network
<1>14. CASE DayPassed
  <2>1. cycle' \in CycleStates
    BY <1>14 DEF DayPassed, CycleStates, PathTypeOK
  <2> QED BY <1>14, <2>1 DEF DayPassed, PathTypeOK, network
<1>15. CASE UNCHANGED pathVars
  BY <1>15 DEF pathVars, PathTypeOK, endpoint, network
<1>16. ASSUME NEW d \in Stamps, NEW a \in Addrs, Authenticated(d, a)
       PROVE  PathTypeOK'
  BY <1>16, Durations DEF Authenticated, Take, PathTypeOK, Numbers
<1>17. ASSUME NEW d \in Stamps, Refused(d)
       PROVE  PathTypeOK'
  BY <1>17 DEF Refused, Take, PathTypeOK, endpoint
<1> QED BY <1>16, <1>17, <1>1, <1>2, <1>3, <1>4, <1>5, <1>6, <1>7, <1>8, <1>9, <1>10, <1>11, <1>12, <1>13, <1>14, <1>15 DEF PathNext

\* Ages, timers and trust keep within their bounds and the probed cliff exists,
\* for any durations, addresses, senders and tasks.
THEOREM PathTypeCorrect == PathSpec => []PathTypeOK
<1>1. PathInit => PathTypeOK
  BY TypeInit
<1>2. PathTypeOK /\ [PathNext]_pathVars => PathTypeOK'
  BY TypeNext
<1> QED BY <1>1, <1>2, PTL DEF PathSpec

-----------------------------------------------------------------------------
(* A direct address is current *)

\* An endpoint that is gone left nothing behind, and a ping that was sent before
\* the last reset is not pending any more.
Fresh ==
  /\ cpc # "idle" => ~present
  /\ ~present => pending = NoPending /\ best = None /\ sendAge = Never
  /\ \A x \in stale : pending[x] = None
  /\ DirectIsCurrent

LEMMA FreshPing ==
  ASSUME PathTypeOK, Fresh, NEW lifetime \in BOOLEAN, SendPing(lifetime),
         UNCHANGED <<present, best, sendAge, proof, cpc>>
  PROVE  Fresh'
<1>1. PICK x \in FreeTxs :
        /\ pending' = IF present THEN [Expired EXCEPT ![x] = 0] ELSE pending
        /\ wire' = wire \cup {x}
        /\ stale' = IF present THEN stale ELSE stale \cup {x}
  BY DEF SendPing
<1>2. x \in Txs /\ x \notin wire /\ x \notin stale
  BY DEF FreeTxs, PathTypeOK
<1>3. \A y \in stale' : pending'[y] = None
  <2>1. CASE present
    BY <1>1, <1>2, <2>1 DEF Fresh, Expired, PathTypeOK
  <2>2. CASE ~present
    BY <1>1, <1>2, <2>2 DEF Fresh, NoPending, PathTypeOK
  <2> QED BY <2>1, <2>2
<1> QED BY <1>1, <1>3 DEF Fresh, DirectIsCurrent

LEMMA FreshReset ==
  ASSUME PathTypeOK, Reset \/ NewEndpoint, cpc' # "idle" => ~present'
  PROVE  Fresh'
BY DEF Reset, NewEndpoint, Fresh, DirectIsCurrent, NoPending, PathTypeOK

LEMMA FreshNext ==
  ASSUME PathTypeOK, Fresh, [PathNext]_pathVars
  PROVE  Fresh'
<1>1. CASE DiscoveryPing
  BY <1>1, FreshPing DEF DiscoveryPing
<1>2. ASSUME NEW x \in Txs, NEW a \in Addrs, Pong(x, a)
      PROVE  Fresh'
  <2>1. x \notin stale
    BY <1>2 DEF Pong, Fresh
  <2> QED BY <1>2, <2>1 DEF Pong, Fresh, DirectIsCurrent, network, PathTypeOK
<1>3. ASSUME NEW t \in PathTasks, TaskStep(t)
      PROVE  Fresh'
  <2>1. CASE Beat(t)
    BY <2>1, FreshPing DEF Beat
  <2>2. CASE LifetimePing(t)
    BY <2>2, FreshPing DEF LifetimePing
  <2>3. CASE ProbeDone(t)
    BY <2>3 DEF ProbeDone, Fresh, DirectIsCurrent, network
  <2>4. CASE StartCycle(t)
    BY <2>4 DEF StartCycle, Fresh, DirectIsCurrent, network
  <2>5. CASE TimerFires(t) \/ Retrigger(t) \/ ProbePhase(t) \/ CliffReached(t)
    BY <2>5 DEF TimerFires, Retrigger, ProbePhase, CliffReached, Fresh, DirectIsCurrent, endpoint, network
  <2> QED BY <1>3, <2>1, <2>2, <2>3, <2>4, <2>5 DEF TaskStep
<1>4. CASE DropEndpoint
  BY <1>4, FreshReset DEF DropEndpoint
<1>5. CASE LinkReset
  BY <1>5, FreshReset DEF LinkReset, Fresh
<1>6. CASE LinkPmtud
  <2>1. CASE Reset
    BY <1>6, <2>1, FreshReset DEF LinkPmtud, Fresh
  <2>2. CASE UNCHANGED <<best, trust, proof, pending, stale, sendAge, recvAge, cycle>>
    BY <1>6, <2>2 DEF LinkPmtud, Fresh, DirectIsCurrent
  <2> QED BY <1>6, <2>1, <2>2 DEF LinkPmtud
<1>7. CASE Tick
  <2>1. \A x \in stale' : pending'[x] = None
    BY <1>7 DEF Tick, Fresh, network, PathTypeOK
  <2>2. ~present' => pending' = NoPending
    BY <1>7 DEF Tick, Fresh, NoPending
  <2>3. ~present' => sendAge' = Never
    BY <1>7, Durations DEF Tick, Fresh, Older, LeastOf, Numbers
  <2> QED BY <1>7, <2>1, <2>2, <2>3 DEF Tick, Fresh, DirectIsCurrent
<1>8. CASE Rebuild \/ Received \/ DayPassed
  BY <1>8 DEF Rebuild, Received, DayPassed, Fresh, DirectIsCurrent, network
<1>9. ASSUME NEW x \in Txs, Lose(x)
      PROVE  Fresh'
  BY <1>9 DEF Lose, Fresh, DirectIsCurrent, endpoint
<1>10. ASSUME NEW s \in PathSenders, Send(s) \/ ArmHeartbeat(s)
       PROVE  Fresh'
  BY <1>10 DEF Send, ArmHeartbeat, Fresh, DirectIsCurrent, endpoint, network
<1>11. CASE AbortDropped \/ LinkAbort
  BY <1>11 DEF AbortDropped, LinkAbort, Fresh, DirectIsCurrent, endpoint, network
<1>12. CASE UNCHANGED pathVars
  BY <1>12 DEF pathVars, Fresh, DirectIsCurrent, endpoint, network
<1>13. ASSUME NEW d \in Stamps, NEW a \in Addrs, Authenticated(d, a)
       PROVE  Fresh'
  BY <1>13 DEF Authenticated, Fresh, DirectIsCurrent
<1>14. ASSUME NEW d \in Stamps, Refused(d)
       PROVE  Fresh'
  BY <1>14 DEF Refused, Fresh, DirectIsCurrent, endpoint
<1> QED BY <1>13, <1>14, <1>1, <1>2, <1>3, <1>4, <1>5, <1>6, <1>7, <1>8, <1>9, <1>10, <1>11, <1>12 DEF PathNext

\* The direct address of a peer was confirmed by the present endpoint: by the
\* pong of a ping sent after the last link change, or by an authenticated
\* datagram of the present authorization (reset_for_link_change, set_netmap,
\* note_authenticated_wg_transport), however late and often either arrives.
THEOREM DirectStaysCurrent == PathSpec => []DirectIsCurrent
<1>1. PathInit => PathTypeOK /\ Fresh
  BY TypeInit DEF PathInit, Fresh, DirectIsCurrent
<1>2. PathTypeOK /\ Fresh /\ [PathNext]_pathVars => PathTypeOK' /\ Fresh'
  BY TypeNext, FreshNext
<1>3. Fresh => DirectIsCurrent
  BY DEF Fresh
<1> QED BY <1>1, <1>2, <1>3, PTL DEF PathSpec

-----------------------------------------------------------------------------
(* One task, and a heartbeat while there is traffic *)

\* A task of the table that is aborted has ended or will end.
LEMMA AbortStops ==
  ASSUME PathTypeOK, OneTask, NEW u \in PathTasks
  PROVE  LET tk == AbortOf(pathTask, handle) IN tk[u].at = "none" \/ tk[u].aborted
<1>1. pathTask \in [PathTasks -> TaskStates] /\ pathTask[u] \in TaskStates
  BY DEF PathTypeOK
<1>2. CASE handle = None \/ pathTask[handle].at = "none"
  BY <1>1, <1>2, PathAssumption DEF AbortOf, OneTask, PathAssumption, TaskStates
<1>3. CASE handle # None /\ pathTask[handle].at # "none" /\ u # handle
  BY <1>1, <1>3 DEF AbortOf, OneTask, TaskStates, PathTypeOK
<1>4. CASE handle # None /\ pathTask[handle].at # "none" /\ u = handle
  BY <1>1, <1>4 DEF AbortOf, TaskStates, Ended
<1> QED BY <1>2, <1>3, <1>4

\* Where a task goes: on, or to its end.
LEMMA GotoFlow ==
  ASSUME pathTask \in [PathTasks -> TaskStates], NEW t \in PathTasks, NEW there, there.aborted = pathTask[t].aborted,
         GoOn(t, there) \/ Return(t)
  PROVE  /\ \A u \in PathTasks : u # t => pathTask'[u] = pathTask[u]
         /\ pathTask'[t].at = "none" \/ pathTask'[t].aborted = pathTask[t].aborted
BY DEF GoOn, Return, Ended

\* A step of a task changes that task only; what it was told to stop it stays
\* told, and a heartbeat goes on while the session is active.
LEMMA TaskFlow ==
  ASSUME PathTypeOK, NEW t \in PathTasks, TaskStep(t)
  PROVE  /\ pathTask[t].at # "none"
         /\ \A u \in PathTasks : u # t => pathTask'[u] = pathTask[u]
         /\ pathTask'[t].at = "none" \/ pathTask'[t].aborted = pathTask[t].aborted
         /\ ~pathTask[t].aborted /\ SessionActive /\ pathTask[t].at \in {"sleep", "beat", "retrigger"}
              => pathTask'[t].at \in {"sleep", "beat", "retrigger"}
         /\ UNCHANGED <<present, sendAge, handle, sender, link, cpc>>
<1>a. pathTask \in [PathTasks -> TaskStates] /\ pathTask[t] \in TaskStates
  BY DEF PathTypeOK
<1>1. CASE TimerFires(t)
  BY <1>1, <1>a DEF TimerFires, GoOn, Return, TaskStates, endpoint, Ended, SessionActive, Awaits
<1>2. CASE Beat(t)
  BY <1>2, <1>a DEF Beat, Sleep, GoOn, TaskStates, Ended, Awaits
<1>3. CASE Retrigger(t)
  BY <1>3, <1>a DEF Retrigger, Sleep, GoOn, TaskStates, endpoint, Ended, Awaits
<1>4. CASE ProbePhase(t) \/ CliffReached(t) \/ StartCycle(t) \/ LifetimePing(t) \/ ProbeDone(t)
  <2>1. /\ pathTask[t].at \in {"phase2", "cliff", "start", "probe", "pong"}
        /\ UNCHANGED <<present, sendAge, handle, sender, link, cpc>>
    BY <1>4 DEF ProbePhase, CliffReached, StartCycle, LifetimePing, ProbeDone, endpoint
  <2>2. PICK there : there.aborted = pathTask[t].aborted /\ (GoOn(t, there) \/ Return(t))
    <3> DEFINE sleep(n, at) == [pathTask[t] EXCEPT !.at = at, !.timer = n]
               go(at) == [pathTask[t] EXCEPT !.at = at]
               start == [pathTask[t] EXCEPT !.at = "start", !.trusted = TrustedAddr # None]
               probe == [pathTask[t] EXCEPT !.at = "probe", !.trusted = FALSE]
    <3>1. \/ Return(t) \/ GoOn(t, sleep(Cliffs[cycle.cliff] - Inactivity, "cliff"))
          \/ GoOn(t, sleep(PingTimeout, "pong")) \/ GoOn(t, go("probe")) \/ GoOn(t, go("phase2"))
          \/ GoOn(t, start) \/ GoOn(t, probe)
      BY <1>4 DEF ProbePhase, CliffReached, StartCycle, LifetimePing, ProbeDone, Sleep
    <3>2. /\ \A n, at : sleep(n, at).aborted = pathTask[t].aborted
          /\ \A at : go(at).aborted = pathTask[t].aborted
          /\ start.aborted = pathTask[t].aborted /\ probe.aborted = pathTask[t].aborted
      BY <1>a DEF TaskStates
    <3> HIDE DEF sleep, go, start, probe
    <3> QED BY <3>1, <3>2
  <2> QED BY <1>a, <2>1, <2>2, GotoFlow
<1> QED BY <1>1, <1>2, <1>3, <1>4 DEF TaskStep

\* The task that replaces another one is the only one that goes on, and it beats.
LEMMA ArmFlow ==
  ASSUME PathTypeOK, OneTask, NEW s \in PathSenders, ArmHeartbeat(s)
  PROVE  /\ OneTask'
         /\ handle' # None /\ pathTask'[handle'].at = "sleep" /\ ~pathTask'[handle'].aborted
<1>1. PICK t \in PathTasks :
        /\ pathTask' = [AbortOf(pathTask, handle) EXCEPT ![t] = [Ended EXCEPT !.at = "sleep", !.timer = HeartbeatInterval]]
        /\ handle' = t
  BY DEF ArmHeartbeat
<1>2. AbortOf(pathTask, handle) \in [PathTasks -> TaskStates]
  BY AbortType DEF PathTypeOK
<1>3. pathTask'[t].at = "sleep" /\ pathTask'[t].aborted = FALSE
  BY <1>1, <1>2 DEF Ended
<1>4. \A u \in PathTasks : u # t => pathTask'[u].at = "none" \/ pathTask'[u].aborted
  BY <1>1, <1>2, AbortStops
<1> QED BY <1>1, <1>3, <1>4, PathAssumption DEF OneTask, PathAssumption

LEMMA OneTaskNext ==
  ASSUME PathTypeOK, OneTask, [PathNext]_pathVars
  PROVE  OneTask'
<1>1. ASSUME NEW t \in PathTasks, TaskStep(t)
      PROVE  OneTask'
  BY <1>1, TaskFlow DEF OneTask
<1>2. ASSUME NEW s \in PathSenders, ArmHeartbeat(s)
      PROVE  OneTask'
  BY <1>2, ArmFlow
<1>3. CASE AbortDropped \/ LinkAbort
  BY <1>3, AbortStops DEF AbortDropped, LinkAbort, OneTask
<1>4. CASE Tick
  <2>1. \A t \in PathTasks : pathTask'[t].at = pathTask[t].at /\ pathTask'[t].aborted = pathTask[t].aborted
    BY <1>4 DEF Tick, PathTypeOK, TaskStates
  <2> QED BY <1>4, <2>1 DEF Tick, OneTask
<1>5. CASE UNCHANGED <<pathTask, handle>>
  BY <1>5 DEF OneTask
<1> QED BY <1>1, <1>2, <1>3, <1>4, <1>5
       DEF PathNext, DiscoveryPing, Received, Authenticated, Refused, Pong, Lose, Send, DropEndpoint, Rebuild,
           LinkReset, LinkPmtud, DayPassed, pathVars

\* Of a peer's background tasks all but the one in the table have ended or are
\* aborted (arm_heartbeat, "at most one task at a time").
THEOREM OneTaskAtATime == PathSpec => []OneTask
<1>1. PathInit => PathTypeOK /\ OneTask
  BY TypeInit DEF PathInit, OneTask, Ended
<1>2. PathTypeOK /\ OneTask /\ [PathNext]_pathVars => PathTypeOK' /\ OneTask'
  BY TypeNext, OneTaskNext
<1> QED BY <1>1, <1>2, PTL DEF PathSpec

LEMMA BeatsNext ==
  ASSUME PathTypeOK, Fresh, OneTask, SessionBeats, [PathNext]_pathVars
  PROVE  SessionBeats'
<1>1. ASSUME NEW t \in PathTasks, TaskStep(t)
      PROVE  SessionBeats'
  BY <1>1, TaskFlow DEF SessionBeats, SessionActive, PathTypeOK
<1>2. ASSUME NEW s \in PathSenders, ArmHeartbeat(s)
      PROVE  SessionBeats'
  BY <1>2, ArmFlow DEF SessionBeats
<1>3. ASSUME NEW s \in PathSenders, Send(s)
      PROVE  SessionBeats'
  <2>1. CASE SessionActive
    BY <1>3, <2>1 DEF Send, SessionBeats, PathTypeOK
  <2>2. CASE ~SessionActive
    BY <1>3, <2>2 DEF Send, SessionBeats, PathTypeOK
  <2> QED BY <2>1, <2>2
<1>4. CASE DropEndpoint
  BY <1>4 DEF DropEndpoint, SessionBeats, SessionActive
<1>5. CASE AbortDropped
  BY <1>5 DEF AbortDropped, Fresh, SessionBeats, SessionActive, endpoint
<1>6. CASE Rebuild
  BY <1>6, Durations DEF Rebuild, Fresh, SessionBeats, SessionActive, Numbers
<1>7. CASE LinkAbort
  BY <1>7 DEF LinkAbort, SessionBeats
<1>8. CASE LinkReset
  BY <1>8, Durations DEF LinkReset, Reset, SessionBeats, SessionActive, Numbers
<1>9. CASE LinkPmtud
  BY <1>9, Durations DEF LinkPmtud, Reset, SessionBeats, SessionActive, Numbers
<1>10. CASE Tick
  <2>1. \A t \in PathTasks : pathTask'[t].at = pathTask[t].at /\ pathTask'[t].aborted = pathTask[t].aborted
    BY <1>10 DEF Tick, PathTypeOK, TaskStates
  <2>2. SessionActive' => SessionActive
    BY <1>10, Durations DEF Tick, SessionActive, Older, LeastOf, PathTypeOK, Numbers
  <2> QED BY <1>10, <2>1, <2>2 DEF Tick, SessionBeats, PathTypeOK
<1>11. CASE UNCHANGED <<present, sendAge, pathTask, handle, sender, link>>
  BY <1>11 DEF SessionBeats, SessionActive
<1> QED BY <1>1, <1>2, <1>3, <1>4, <1>5, <1>6, <1>7, <1>8, <1>9, <1>10, <1>11
       DEF PathNext, DiscoveryPing, Received, Authenticated, Refused, Pong, Lose, DayPassed, pathVars, endpoint

\* While there is traffic a heartbeat task is at work or about to be started,
\* for any number of senders and tasks and whatever link changes and map commits
\* abort (note_tx_activity_transition, arm_heartbeat, link_changed, set_netmap).
THEOREM ActiveSessionBeats == PathSpec => []SessionBeats
<1> DEFINE Inv == PathTypeOK /\ Fresh /\ OneTask /\ SessionBeats
<1>1. PathInit => Inv
  BY TypeInit DEF PathInit, Fresh, DirectIsCurrent, OneTask, Ended, SessionBeats, SessionActive
<1>2. Inv /\ [PathNext]_pathVars => Inv'
  BY TypeNext, FreshNext, OneTaskNext, BeatsNext
<1>3. Inv => SessionBeats
  OBVIOUS
<1> QED BY <1>1, <1>2, <1>3, PTL DEF PathSpec

-----------------------------------------------------------------------------
(* DerpManager *)

USE DEF Procs

\* The DerpIo a process holds: it holds one exactly from DerpIo::spawn to the
\* end of get_or_connect, and that one is for the region it asked for.
HeldOK ==
  \A p \in Procs :
    /\ (held[p] # NoConn) <=> (pc[p] \in {"gate", "insert", "spawn"})
    /\ held[p] # NoConn => RegionOf[held[p]] = RegionOf[p]

\* TypeOK is not inductive alone: Insert puts held[p] in the slot of
\* RegionOf[p], so it must be a connection of that region.
IndInv == TypeOK /\ HeldOK

\* The initial states of new() satisfy the invariant.
LEMMA InitIndInv == Init => IndInv
<1> SUFFICES ASSUME Init PROVE IndInv
  OBVIOUS
<1> USE ConstAssumption DEF ConstAssumption, Init
<1>1. /\ connections \in [Regions -> Conns \cup {NoConn}]
      /\ \A r \in Regions : connections[r] # NoConn => RegionOf[connections[r]] = r
      /\ live \subseteq Conns
      /\ closing \in [Closers -> SUBSET Conns]
      /\ consumers \subseteq Conns
  OBVIOUS
<1>2. /\ signals \in [Regions -> 0 .. MaxSignals]
      /\ pc \in [Procs -> PC]
      /\ held \in [Procs -> Conns \cup {NoConn}]
  BY DEF PC
<1>3. derpMap \subseteq Regions
  OBVIOUS
<1>4. HeldOK
  BY DEF HeldOK
<1> QED
  BY <1>1, <1>2, <1>3, <1>4 DEF IndInv, TypeOK

\* close_all leaves every slot empty and keeps the drained connections.
LEMMA CloseAllType ==
  ASSUME TypeOK, NEW w \in Closers, CloseAll(w)
  PROVE  /\ closing' \in [Closers -> SUBSET Conns]
         /\ connections' \in [Regions -> Conns \cup {NoConn}]
         /\ \A r \in Regions : connections'[r] = NoConn
<1>1. Mapped \subseteq Conns
  BY DEF Mapped
<1> QED
  BY <1>1 DEF TypeOK, CloseAll

\* Every step of the manager preserves the invariant.
LEMMA NextIndInv == IndInv /\ [Next]_vars => IndInv'
<1> SUFFICES ASSUME IndInv, [Next]_vars PROVE IndInv'
  OBVIOUS
<1> USE ConstAssumption DEF IndInv, TypeOK, HeldOK, PC, Closers
<1>1. CASE UNCHANGED vars
  BY <1>1 DEF vars
<1>2. ASSUME NEW s \in Senders, SendPacket(s) PROVE IndInv'
  BY <1>2 DEF SendPacket
<1>3. ASSUME NEW p \in Procs, DialFail(p) PROVE IndInv'
  BY <1>3 DEF DialFail, ReturnNone
<1>4. ASSUME NEW p \in Procs, Gate(p) PROVE IndInv'
  BY <1>4 DEF Gate, ReturnNone, RegistryClosed
<1>5. ASSUME NEW p \in Procs, Insert(p) PROVE IndInv'
  BY <1>5 DEF Insert, ReturnSome
<1>6. ASSUME NEW p \in Procs, SpawnConsumer(p) PROVE IndInv'
  BY <1>6 DEF SpawnConsumer, ReturnSome, RegistryClosed
<1>7. ASSUME NEW p \in Procs, NEW c \in Conns, DialOk(p, c) PROVE IndInv'
  BY <1>7 DEF DialOk, RegistryClosed, Retired
<1>8. ASSUME NEW c \in Conns, ConnDies(c) PROVE IndInv'
  BY <1>8 DEF ConnDies
<1>9. ASSUME NEW c \in Conns, ConsumerExit(c) PROVE IndInv'
  BY <1>9 DEF ConsumerExit
<1>10. ASSUME NEW t \in Tasks, Supervise(t) PROVE IndInv'
  BY <1>10 DEF Supervise, RegistryClosed
<1>11. ASSUME NEW t \in Tasks, ReconnectStart(t) PROVE IndInv'
  BY <1>11 DEF ReconnectStart
<1>12. ASSUME NEW t \in Tasks, ReconnectWake(t) PROVE IndInv'
  BY <1>12 DEF ReconnectWake, RegistryClosed, MustDial
<1>13. CASE LinkChanged
  <2>1. CloseAll("link") /\ "link" \in Closers
    BY <1>13 DEF LinkChanged
  <2> QED
    BY <1>13, <2>1, CloseAllType DEF LinkChanged
<1>14. ASSUME NEW m \in SUBSET Regions, SetDerpMap(m) PROVE IndInv'
  BY <1>14 DEF SetDerpMap
<1>15. CASE BeginShutdown
  BY <1>15 DEF BeginShutdown
<1>16. CASE DrainConnections
  <2>1. CloseAll("shutdown") /\ "shutdown" \in Closers
    BY <1>16 DEF DrainConnections
  <2> QED
    BY <1>16, <2>1, CloseAllType DEF DrainConnections
<1>17. CASE AbortTasks
  BY <1>17 DEF AbortTasks
<1>18. ASSUME NEW w \in Closers, NEW c \in Conns, CloseDrained(w, c) PROVE IndInv'
  BY <1>18 DEF CloseDrained
<1> QED
  BY <1>1, <1>2, <1>3, <1>4, <1>5, <1>6, <1>7, <1>8, <1>9, <1>10,
     <1>11, <1>12, <1>13, <1>14, <1>15, <1>16, <1>17, <1>18 DEF Next

\* While the socket runs, a connection in the map has its consumer, or is
\* about to; or it is dead and a reconnect of its region is on the way.
Watched ==
  phase = "running" =>
    \A c \in Mapped :
      \/ c \in consumers
      \/ \E p \in Procs : pc[p] = "spawn" /\ held[p] = c
      \/ /\ c \notin live
         /\ \/ signals[RegionOf[c]] > 0
            \/ \E t \in Tasks : RegionOf[t] = RegionOf[c] /\ pc[t] = "start"

\* SingleFeed with the connections whose consumer is about to be spawned: one
\* that is open is still mapped, or a close_all holds it and will close it.
FeedInv ==
  /\ SingleFeed
  /\ \A p \in Procs : pc[p] = "spawn" /\ held[p] \in live => held[p] \in Mapped \cup Drained

\* No step leaves a mapped connection unwatched: in particular ConsumerExit
\* trades the consumer for a signal, and Supervise the signal for a task.
LEMMA WatchedStep == IndInv /\ Watched /\ [Next]_vars => Watched'
<1> SUFFICES ASSUME IndInv, Watched, [Next]_vars PROVE Watched'
  OBVIOUS
<1> USE ConstAssumption DEF ConstAssumption, IndInv, TypeOK, HeldOK, PC, Watched, Mapped
<1>1. CASE UNCHANGED vars
  BY <1>1 DEF vars
<1>2. ASSUME NEW s \in Senders, SendPacket(s) PROVE Watched'
  BY <1>2 DEF SendPacket
<1>3. ASSUME NEW p \in Procs, DialFail(p) PROVE Watched'
  BY <1>3 DEF DialFail, ReturnNone
<1>4. ASSUME NEW p \in Procs, Gate(p) PROVE Watched'
  BY <1>4 DEF Gate, ReturnNone, RegistryClosed
<1>5. ASSUME NEW p \in Procs, Insert(p) PROVE Watched'
  BY <1>5 DEF Insert, ReturnSome
<1>6. ASSUME NEW p \in Procs, SpawnConsumer(p) PROVE Watched'
  BY <1>6 DEF SpawnConsumer, ReturnSome, RegistryClosed
<1>7. ASSUME NEW p \in Procs, NEW c \in Conns, DialOk(p, c) PROVE Watched'
  BY <1>7 DEF DialOk, RegistryClosed, Retired
<1>8. ASSUME NEW c \in Conns, ConnDies(c) PROVE Watched'
  BY <1>8 DEF ConnDies
<1>9. ASSUME NEW c \in Conns, ConsumerExit(c) PROVE Watched'
  BY <1>9 DEF ConsumerExit
<1>10. ASSUME NEW t \in Tasks, Supervise(t) PROVE Watched'
  BY <1>10 DEF Supervise, RegistryClosed
<1>11. ASSUME NEW t \in Tasks, ReconnectStart(t) PROVE Watched'
  BY <1>11 DEF ReconnectStart
<1>12. ASSUME NEW t \in Tasks, ReconnectWake(t) PROVE Watched'
  BY <1>12 DEF ReconnectWake, RegistryClosed, MustDial
<1>13. CASE LinkChanged
  BY <1>13 DEF LinkChanged, CloseAll
<1>14. ASSUME NEW m \in SUBSET Regions, SetDerpMap(m) PROVE Watched'
  BY <1>14 DEF SetDerpMap
<1>15. CASE BeginShutdown
  BY <1>15 DEF BeginShutdown
<1>16. CASE DrainConnections
  BY <1>16 DEF DrainConnections, CloseAll
<1>17. CASE AbortTasks
  BY <1>17 DEF AbortTasks
<1>18. ASSUME NEW w \in Closers, NEW c \in Conns, CloseDrained(w, c) PROVE Watched'
  BY <1>18 DEF CloseDrained
<1> QED
  BY <1>1, <1>2, <1>3, <1>4, <1>5, <1>6, <1>7, <1>8, <1>9, <1>10,
     <1>11, <1>12, <1>13, <1>14, <1>15, <1>16, <1>17, <1>18 DEF Next

\* Whatever takes a connection out of the map closes it or holds it until it
\* does, and a connection gets its consumer only after it entered the map.
LEMMA FeedStep == IndInv /\ FeedInv /\ [Next]_vars => FeedInv'
<1> SUFFICES ASSUME IndInv, FeedInv, [Next]_vars PROVE FeedInv'
  OBVIOUS
<1> USE ConstAssumption DEF ConstAssumption, IndInv, TypeOK, HeldOK, PC, Closers, FeedInv, SingleFeed, Mapped, Drained
<1>1. CASE UNCHANGED vars
  BY <1>1 DEF vars
<1>2. ASSUME NEW s \in Senders, SendPacket(s) PROVE FeedInv'
  BY <1>2 DEF SendPacket
<1>3. ASSUME NEW p \in Procs, DialFail(p) PROVE FeedInv'
  BY <1>3 DEF DialFail, ReturnNone
<1>4. ASSUME NEW p \in Procs, Gate(p) PROVE FeedInv'
  BY <1>4 DEF Gate, ReturnNone, RegistryClosed
<1>5. ASSUME NEW p \in Procs, Insert(p) PROVE FeedInv'
  BY <1>5 DEF Insert, ReturnSome
<1>6. ASSUME NEW p \in Procs, SpawnConsumer(p) PROVE FeedInv'
  BY <1>6 DEF SpawnConsumer, ReturnSome, RegistryClosed
<1>7. ASSUME NEW p \in Procs, NEW c \in Conns, DialOk(p, c) PROVE FeedInv'
  BY <1>7 DEF DialOk, RegistryClosed, Retired
<1>8. ASSUME NEW c \in Conns, ConnDies(c) PROVE FeedInv'
  BY <1>8 DEF ConnDies
<1>9. ASSUME NEW c \in Conns, ConsumerExit(c) PROVE FeedInv'
  BY <1>9 DEF ConsumerExit
<1>10. ASSUME NEW t \in Tasks, Supervise(t) PROVE FeedInv'
  BY <1>10 DEF Supervise, RegistryClosed
<1>11. ASSUME NEW t \in Tasks, ReconnectStart(t) PROVE FeedInv'
  BY <1>11 DEF ReconnectStart
<1>12. ASSUME NEW t \in Tasks, ReconnectWake(t) PROVE FeedInv'
  BY <1>12 DEF ReconnectWake, RegistryClosed, MustDial
<1>13. CASE LinkChanged
  BY <1>13 DEF LinkChanged, CloseAll
<1>14. ASSUME NEW m \in SUBSET Regions, SetDerpMap(m) PROVE FeedInv'
  BY <1>14 DEF SetDerpMap
<1>15. CASE BeginShutdown
  BY <1>15 DEF BeginShutdown
<1>16. CASE DrainConnections
  BY <1>16 DEF DrainConnections, CloseAll
<1>17. CASE AbortTasks
  BY <1>17 DEF AbortTasks
<1>18. ASSUME NEW w \in Closers, NEW c \in Conns, CloseDrained(w, c) PROVE FeedInv'
  BY <1>18 DEF CloseDrained
<1> QED
  BY <1>1, <1>2, <1>3, <1>4, <1>5, <1>6, <1>7, <1>8, <1>9, <1>10,
     <1>11, <1>12, <1>13, <1>14, <1>15, <1>16, <1>17, <1>18 DEF Next

\* After the abort nothing is spawned: the registry stays closed.
LEMMA ShutdownStep == IndInv /\ ShutdownClosesAll /\ [Next]_vars => ShutdownClosesAll'
<1> SUFFICES ASSUME IndInv, ShutdownClosesAll, [Next]_vars PROVE ShutdownClosesAll'
  OBVIOUS
<1> USE ConstAssumption DEF ConstAssumption, IndInv, TypeOK, HeldOK, PC, ShutdownClosesAll
<1>1. CASE UNCHANGED vars
  BY <1>1 DEF vars
<1>2. ASSUME NEW s \in Senders, SendPacket(s) PROVE ShutdownClosesAll'
  BY <1>2 DEF SendPacket
<1>3. ASSUME NEW p \in Procs, DialFail(p) PROVE ShutdownClosesAll'
  BY <1>3 DEF DialFail, ReturnNone
<1>4. ASSUME NEW p \in Procs, Gate(p) PROVE ShutdownClosesAll'
  BY <1>4 DEF Gate, ReturnNone, RegistryClosed
<1>5. ASSUME NEW p \in Procs, Insert(p) PROVE ShutdownClosesAll'
  BY <1>5 DEF Insert, ReturnSome
<1>6. ASSUME NEW p \in Procs, SpawnConsumer(p) PROVE ShutdownClosesAll'
  BY <1>6 DEF SpawnConsumer, ReturnSome, RegistryClosed
<1>7. ASSUME NEW p \in Procs, NEW c \in Conns, DialOk(p, c) PROVE ShutdownClosesAll'
  BY <1>7 DEF DialOk, RegistryClosed, Retired
<1>8. ASSUME NEW c \in Conns, ConnDies(c) PROVE ShutdownClosesAll'
  BY <1>8 DEF ConnDies
<1>9. ASSUME NEW c \in Conns, ConsumerExit(c) PROVE ShutdownClosesAll'
  BY <1>9 DEF ConsumerExit
<1>10. ASSUME NEW t \in Tasks, Supervise(t) PROVE ShutdownClosesAll'
  BY <1>10 DEF Supervise, RegistryClosed
<1>11. ASSUME NEW t \in Tasks, ReconnectStart(t) PROVE ShutdownClosesAll'
  BY <1>11 DEF ReconnectStart
<1>12. ASSUME NEW t \in Tasks, ReconnectWake(t) PROVE ShutdownClosesAll'
  BY <1>12 DEF ReconnectWake, RegistryClosed, MustDial
<1>13. CASE LinkChanged
  BY <1>13 DEF LinkChanged, CloseAll
<1>14. ASSUME NEW m \in SUBSET Regions, SetDerpMap(m) PROVE ShutdownClosesAll'
  BY <1>14 DEF SetDerpMap
<1>15. CASE BeginShutdown
  BY <1>15 DEF BeginShutdown
<1>16. CASE DrainConnections
  BY <1>16 DEF DrainConnections, CloseAll
<1>17. CASE AbortTasks
  BY <1>17 DEF AbortTasks
<1>18. ASSUME NEW w \in Closers, NEW c \in Conns, CloseDrained(w, c) PROVE ShutdownClosesAll'
  BY <1>18 DEF CloseDrained
<1> QED
  BY <1>1, <1>2, <1>3, <1>4, <1>5, <1>6, <1>7, <1>8, <1>9, <1>10,
     <1>11, <1>12, <1>13, <1>14, <1>15, <1>16, <1>17, <1>18 DEF Next

\* Type correctness of the connection manager, for every instance: every
\* region's slot holds a connection of that region or none, whatever order
\* connects, reconnects, link changes and shutdown interleave in.
THEOREM TypeCorrect == Spec => []TypeOK
<1>1. IndInv => TypeOK
  BY DEF IndInv
<1> QED
  BY InitIndInv, NextIndInv, <1>1, PTL DEF Spec

\* No death of a mapped connection is ever forgotten (get_or_connect,
\* spawn_derp_recv_consumer, reconnect_region), for every instance.
THEOREM ReconnectNeverLost == Spec => []NoLostReconnect
<1>1. Init => Watched
  BY ConstAssumption DEF ConstAssumption, Init, Watched, Mapped
<1>2. Watched => NoLostReconnect
  BY DEF Watched, NoLostReconnect
<1> QED
  BY InitIndInv, NextIndInv, WatchedStep, <1>1, <1>2, PTL DEF Spec

\* At most one open connection per region feeds the receive channel and it is
\* the mapped one, but for those a close_all has drained and is about to close
\* (get_or_connect, close_all, reconnect_region), for every instance.
THEOREM FeedIsMapped == Spec => []SingleFeed
<1>1. Init => FeedInv
  BY ConstAssumption DEF ConstAssumption, Init, FeedInv, SingleFeed, Mapped, Drained
<1>2. FeedInv => SingleFeed
  BY DEF FeedInv
<1> QED
  BY InitIndInv, NextIndInv, FeedStep, <1>1, <1>2, PTL DEF Spec

\* A completed shutdown leaves no socket, consumer or reconnect task behind
\* (Magicsock::shutdown), for every instance.
THEOREM ShutdownComplete == Spec => []ShutdownClosesAll
<1>1. Init => ShutdownClosesAll
  BY DEF Init, ShutdownClosesAll
<1> QED
  BY InitIndInv, NextIndInv, ShutdownStep, <1>1, PTL DEF Spec

-----------------------------------------------------------------------------
(* SocketShutdown: types and the ownership of handles *)


ShutdownTyped ==
  /\ task \in [BackgroundTasks -> {"none", "running", "aborted", "ended"}]
  /\ handles \subseteq BackgroundTasks /\ owned \subseteq BackgroundTasks
  /\ regClosed \in BOOLEAN /\ closed \in BOOLEAN /\ transports \in BOOLEAN
  /\ shutdownPhase \in {"running", "shutting", "complete"}
  /\ flight \in {"none", "relay", "take", "join", "notify", "done"}
  /\ callPc \in [Threads -> {"idle", "begin", "gates", "transports", "spawn", "register", "check", "poll",
                         "wait", "ok", "timeout"}]
  /\ woken \subseteq Callers

\* A handle is one of a spawned task and has one owner.
Owners ==
  /\ handles \cap owned = {}
  /\ \A t \in BackgroundTasks : task[t] = "none" => t \notin handles \cup owned

LEMMA InitTyped == ShutdownInit => ShutdownTyped /\ Owners
BY DEF ShutdownInit, ShutdownTyped, Owners

LEMMA NextTyped == ShutdownTyped /\ Owners /\ [ShutdownNext]_shutdownVars => ShutdownTyped' /\ Owners'
<1> SUFFICES ASSUME ShutdownTyped, Owners, [ShutdownNext]_shutdownVars PROVE ShutdownTyped' /\ Owners' OBVIOUS
<1> USE DEF ShutdownTyped, Owners, Goto, Abort, Threads
<1>1. ASSUME NEW t \in BackgroundTasks, Spawn(t) PROVE ShutdownTyped' /\ Owners' BY <1>1 DEF Spawn
<1>2. ASSUME NEW t \in BackgroundTasks, End(t) PROVE ShutdownTyped' /\ Owners' BY <1>2 DEF End
<1>3. ASSUME NEW c \in Threads, Start(c) \/ Request(c) PROVE ShutdownTyped' /\ Owners'
  BY <1>3 DEF Start, Request
<1>4. ASSUME NEW c \in Threads, MarkClosed(c) \/ CloseRegistration(c) \/ ReleaseTransports(c)
      PROVE ShutdownTyped' /\ Owners'
  BY <1>4 DEF MarkClosed, CloseRegistration, ReleaseTransports
<1>5. ASSUME NEW c \in Threads, SpawnFlight(c) PROVE ShutdownTyped' /\ Owners' BY <1>5 DEF SpawnFlight
<1>6. ASSUME NEW c \in Threads, AbortNow(c) PROVE ShutdownTyped' /\ Owners' BY <1>6 DEF AbortNow
<1>7. ASSUME NEW c \in Threads, Register(c) \/ Check(c) \/ Poll(c) \/ Wake(c) PROVE ShutdownTyped' /\ Owners'
  BY <1>7 DEF Register, Check, Poll, Wake
<1>8. ASSUME NEW c \in Callers, Timeout(c) PROVE ShutdownTyped' /\ Owners' BY <1>8 DEF Timeout
<1>9. CASE RelayStopped \/ JoinAll BY <1>9 DEF RelayStopped, JoinAll
<1>10. CASE TakeAll BY <1>10 DEF TakeAll
<1>11. CASE NotifyWaiters BY <1>11 DEF NotifyWaiters
<1>12. CASE UNCHANGED shutdownVars BY <1>12 DEF shutdownVars
<1> QED
  BY <1>1, <1>2, <1>3, <1>4, <1>5, <1>6, <1>7, <1>8, <1>9, <1>10, <1>11, <1>12 DEF ShutdownNext, Step, Flight

\* Every JoinHandle has one owner, the registry or the flight, also when calls
\* of shutdown and request_shutdown interleave (TaskRegistry::close_and_take).
THEOREM ShutdownTypeCorrect == ShutdownSpec => []ShutdownTypeOK
<1>1. ShutdownTyped /\ Owners => ShutdownTypeOK BY DEF ShutdownTyped, Owners, ShutdownTypeOK
<1> QED BY InitTyped, NextTyped, <1>1, PTL DEF ShutdownSpec

-----------------------------------------------------------------------------
(* Completion *)

Leading == {"begin", "gates", "transports", "spawn"}

\* One caller leads; the gates are closed behind it, in order, before the
\* flight starts.
Leader ==
  /\ \A c, d \in Threads : callPc[c] \in Leading /\ callPc[d] \in Leading => c = d
  /\ shutdownPhase = "running" => ~closed /\ flight = "none" /\ \A c \in Threads : callPc[c] \notin Leading
  /\ \A c \in Threads : callPc[c] \in Leading => flight = "none"
  /\ \A c \in Threads : callPc[c] = "begin" => ~closed
  /\ \A c \in Threads : callPc[c] \in {"transports", "spawn"} => regClosed
  /\ \A c \in Threads : callPc[c] = "spawn" => ~transports
  /\ flight # "none" => regClosed /\ ~transports

\* A task that is not over has its handle in the registry, until the flight
\* takes it; a complete flight has awaited all it took.
Accounted ==
  /\ \A t \in BackgroundTasks : task[t] \in {"running", "aborted"} => t \in handles \cup owned
  /\ flight \in {"none", "relay", "take"} => owned = {}
  /\ flight \in {"join", "notify", "done"} => handles = {}
  /\ flight \in {"notify", "done"} => \A t \in owned : task[t] = "ended"
  /\ shutdownPhase = "complete" => flight \in {"notify", "done"}

LEMMA InitLeader == ShutdownInit => Leader /\ Accounted
BY DEF ShutdownInit, Leader, Accounted, Leading

\* A call of request_shutdown is never undone.
LEMMA NoRequestBefore ==
  ASSUME ShutdownTyped, [ShutdownNext]_shutdownVars, NoRequest'
  PROVE  NoRequest
<1> USE DEF ShutdownTyped, NoRequest, Goto, Threads
<1>1. ASSUME NEW t \in BackgroundTasks, Spawn(t) \/ End(t) PROVE NoRequest BY <1>1 DEF Spawn, End
<1>2. ASSUME NEW c \in Threads, Start(c) \/ Request(c) \/ AbortNow(c) PROVE NoRequest
  BY <1>2 DEF Start, Request, AbortNow
<1>3. ASSUME NEW c \in Threads, MarkClosed(c) \/ CloseRegistration(c) \/ ReleaseTransports(c)
      PROVE NoRequest
  BY <1>3 DEF MarkClosed, CloseRegistration, ReleaseTransports
<1>4. ASSUME NEW c \in Threads, SpawnFlight(c) \/ Register(c) \/ Check(c) \/ Poll(c) \/ Wake(c)
      PROVE NoRequest
  BY <1>4 DEF SpawnFlight, Register, Check, Poll, Wake
<1>5. ASSUME NEW c \in Callers, Timeout(c) PROVE NoRequest BY <1>5 DEF Timeout
<1>6. CASE Flight BY <1>6 DEF Flight, RelayStopped, TakeAll, JoinAll, NotifyWaiters
<1>7. CASE UNCHANGED shutdownVars BY <1>7 DEF shutdownVars
<1> QED BY <1>1, <1>2, <1>3, <1>4, <1>5, <1>6, <1>7 DEF ShutdownNext, Step

LEMMA LeaderStep ==
  ASSUME NoRequest, NoRequest', ShutdownTyped, Leader, [ShutdownNext]_shutdownVars
  PROVE  Leader'
<1> USE DEF ShutdownTyped, Leader, Leading, Goto, Threads, NoRequest
<1>1. ASSUME NEW t \in BackgroundTasks, Spawn(t) \/ End(t) PROVE Leader' BY <1>1 DEF Spawn, End
<1>2. ASSUME NEW c \in Threads, Start(c) PROVE Leader' BY <1>2 DEF Start
<1>3. ASSUME NEW c \in Threads, Request(c) \/ AbortNow(c) PROVE Leader' BY <1>3 DEF Request, AbortNow
<1>4. ASSUME NEW c \in Threads, MarkClosed(c) PROVE Leader' BY <1>4 DEF MarkClosed
<1>5. ASSUME NEW c \in Threads, CloseRegistration(c) PROVE Leader' BY <1>5 DEF CloseRegistration
<1>6. ASSUME NEW c \in Threads, ReleaseTransports(c) PROVE Leader' BY <1>6 DEF ReleaseTransports
<1>7. ASSUME NEW c \in Threads, SpawnFlight(c) PROVE Leader' BY <1>7 DEF SpawnFlight
<1>8. ASSUME NEW c \in Threads, Register(c) \/ Check(c) \/ Poll(c) \/ Wake(c) PROVE Leader'
  BY <1>8 DEF Register, Check, Poll, Wake
<1>9. ASSUME NEW c \in Callers, Timeout(c) PROVE Leader' BY <1>9 DEF Timeout
<1>10. CASE RelayStopped \/ TakeAll BY <1>10 DEF RelayStopped, TakeAll
<1>11. CASE JoinAll \/ NotifyWaiters BY <1>11 DEF JoinAll, NotifyWaiters
<1>12. CASE UNCHANGED shutdownVars BY <1>12 DEF shutdownVars
<1> QED
  BY <1>1, <1>2, <1>3, <1>4, <1>5, <1>6, <1>7, <1>8, <1>9, <1>10, <1>11, <1>12 DEF ShutdownNext, Step, Flight

LEMMA AccountedStep ==
  ASSUME NoRequest, ShutdownTyped, Owners, Leader, Accounted, [ShutdownNext]_shutdownVars
  PROVE  Accounted'
<1> USE DEF ShutdownTyped, Owners, Accounted, Goto, Abort, Threads, NoRequest
<1>1. ASSUME NEW t \in BackgroundTasks, Spawn(t) PROVE Accounted' BY <1>1 DEF Spawn, Leader
<1>2. ASSUME NEW t \in BackgroundTasks, End(t) PROVE Accounted' BY <1>2 DEF End
<1>3. ASSUME NEW c \in Threads, Start(c) \/ Request(c) \/ AbortNow(c) PROVE Accounted'
  BY <1>3 DEF Start, Request, AbortNow
<1>4. ASSUME NEW c \in Threads, MarkClosed(c) \/ CloseRegistration(c) \/ ReleaseTransports(c)
      PROVE Accounted'
  BY <1>4 DEF MarkClosed, CloseRegistration, ReleaseTransports
<1>5. ASSUME NEW c \in Threads, SpawnFlight(c) PROVE Accounted'
  BY <1>5 DEF SpawnFlight, Leader, Leading
<1>6. ASSUME NEW c \in Threads, Register(c) \/ Check(c) \/ Poll(c) \/ Wake(c) PROVE Accounted'
  BY <1>6 DEF Register, Check, Poll, Wake
<1>7. ASSUME NEW c \in Callers, Timeout(c) PROVE Accounted' BY <1>7 DEF Timeout
<1>8. CASE RelayStopped \/ NotifyWaiters BY <1>8 DEF RelayStopped, NotifyWaiters
<1>9. CASE TakeAll BY <1>9 DEF TakeAll
<1>10. CASE JoinAll BY <1>10 DEF JoinAll
<1>11. CASE UNCHANGED shutdownVars BY <1>11 DEF shutdownVars
<1> QED
  BY <1>1, <1>2, <1>3, <1>4, <1>5, <1>6, <1>7, <1>8, <1>9, <1>10, <1>11 DEF ShutdownNext, Step, Flight

\* Unless request_shutdown has been called, completion means that nothing of
\* the socket runs any more: any number of concurrent shutdown calls, of which
\* all may be cancelled, and of tasks that are spawned up to the last moment.
THEOREM CompleteMeansStopped == ShutdownSpec => []ShutdownStopsAll
<1> DEFINE Quiet == NoRequest => Leader /\ Accounted
<1>1. ShutdownInit => Quiet BY InitLeader
<1>2. ShutdownTyped /\ Owners /\ Quiet /\ [ShutdownNext]_shutdownVars => Quiet'
  BY NoRequestBefore, LeaderStep, AccountedStep
<1>3. ShutdownTyped /\ Quiet => ShutdownStopsAll
  BY DEF ShutdownTyped, Leader, Accounted, ShutdownStopsAll
<1> HIDE DEF Quiet
<1> QED BY InitTyped, NextTyped, <1>1, <1>2, <1>3, PTL DEF ShutdownSpec
=============================================================================
