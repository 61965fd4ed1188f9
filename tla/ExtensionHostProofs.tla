------------------------ MODULE ExtensionHostProofs ------------------------
(***************************************************************************)
(* Proofs about ExtensionHost, for any number of extensions, workers and   *)
(* queue slots.                                                            *)
(***************************************************************************)
EXTENDS ExtensionHost, TLAPS

Starting == {"next", "init", "cleanup", "cleaning", "accept", "run"}

\* The lifecycle state tells which of the two tasks runs.
Phases ==
  /\ life = "starting" <=> starter.at \in Starting
  /\ life \in {"created", "seeding"} => starter.at = "none"
  /\ starter.at = "none" => life \in {"created", "seeding", "stopped"}
  /\ sweep # "none" <=> life = "shuttingdown"
  /\ sweep = "wait" => failed # <<>> \/ active # <<>>
  /\ life = "stopped" => failed = <<>> /\ active = <<>>

\* How far the start has come.
Position ==
  /\ starter.at = "none" => starter.i = 1
  /\ starter.at \in {"init", "cleanup", "cleaning"} => starter.i \in Ext
  /\ starter.at \in {"accept", "run", "report"} => starter.i = N + 1

\* What an extension holds tells who owns it.
Holdings ==
  /\ \A e \in Ext : res[e] = "no" <=> e > starter.i \/ (e = starter.i /\ starter.at \in {"none", "next"})
  /\ \A e \in Ext : res[e] = "initing" <=> e = starter.i /\ starter.at = "init"
  /\ starter.at = "cleanup" => att[starter.i] = "idle"
  /\ starter.at \in {"cleanup", "cleaning"} => res[starter.i] \in {"partial", "gone"}
  /\ \A e \in Ext : res[e] = "up" => e \in Range(active)
  /\ \A e \in Ext : res[e] = "partial" =>
       e \in Range(failed) \/ (e = starter.i /\ starter.at \in {"cleanup", "cleaning"})
  /\ \A e \in Range(active) : res[e] \in {"up", "down"}
  /\ \A e \in Range(failed) : res[e] \in {"partial", "gone"}

Increasing(s) == \A j, k \in DOMAIN s : j < k => s[j] < s[k]

\* Owners are listed in registration order.
Ordered ==
  /\ Increasing(active) /\ Increasing(failed)
  /\ starter.at \in Starting => \A e \in Range(active) \cup Range(failed) : e < starter.i

\* An attempt under way, ended or failed belongs to an extension that holds something.
Attempts ==
  /\ \A e \in Ext : att[e] = "done" <=> res[e] \in {"down", "gone"}
  /\ \A e \in Ext : att[e] # "idle" => res[e] \in {"up", "partial", "down", "gone"}
  /\ \A e \in Working : att[e] = "running"
  /\ IsInjective(jobs) /\ Range(jobs) \cap busy = {}

\* The shutdown of an extension that was up has begun.
Touched(e) == res[e] = "down" \/ (res[e] = "up" /\ att[e] # "idle")

\* No extension that is up is touched while the host runs or a publication drains.
Quiet ==
  /\ pub.calling => pub.draining
  /\ pub.draining => life = "running" \/ sweep = "quiet"
  /\ life \in {"created", "seeding", "starting", "running"} \/ pub.draining =>
       \A e \in Ext : ~Touched(e)

\* DependentsFirst, from the moment an attempt is asked for.
LaterFirst ==
  \A e, f \in Ext : e < f /\ Touched(e) => res[f] \notin {"initing", "up", "partial"}

Counted == pub.queue <= pubs

IInv == TypeOK /\ Phases /\ Position /\ Holdings /\ Ordered /\ Attempts /\ Quiet /\ LaterFirst /\ Counted

-----------------------------------------------------------------------------
(* Sequences of owners and of jobs                                            *)

\* Appending an owner or a job adds it to the listed ones, behind all of them.
LEMMA AppendFacts ==
  ASSUME NEW s \in Seq(Ext), NEW x \in Ext
  PROVE  /\ Append(s, x) \in Seq(Ext)
         /\ Range(Append(s, x)) = Range(s) \cup {x}
         /\ IsInjective(s) /\ x \notin Range(s) => IsInjective(Append(s, x))
         /\ Increasing(s) /\ (\A e \in Range(s) : e < x) => Increasing(Append(s, x))
<1> DEFINE t == Append(s, x)
<1>1. t \in Seq(Ext) /\ Len(t) = Len(s) + 1 /\ t[Len(s) + 1] = x /\ \A j \in 1..Len(s) : t[j] = s[j]
  OBVIOUS
<1>2. DOMAIN t = 1..(Len(s) + 1) /\ DOMAIN s = 1..Len(s) /\ Len(s) \in Nat
  BY <1>1
<1> HIDE DEF t
<1>3. Range(t) = Range(s) \cup {x}
  BY <1>1, <1>2 DEF Range
<1>4. IsInjective(s) /\ x \notin Range(s) => IsInjective(t)
  BY <1>1, <1>2 DEF Range, IsInjective
<1>5. Increasing(s) /\ (\A e \in Range(s) : e < x) => Increasing(t)
  BY <1>1, <1>2 DEF Range, Increasing
<1> QED BY <1>1, <1>3, <1>4, <1>5 DEF t

\* pop() takes the last owner and leaves the others in their order.
LEMMA FrontFacts ==
  ASSUME NEW s \in Seq(Ext), s # <<>>
  PROVE  /\ Front(s) \in Seq(Ext) /\ Last(s) \in Ext
         /\ Range(s) = Range(Front(s)) \cup {Last(s)}
         /\ Increasing(s) => Increasing(Front(s))
         /\ Increasing(s) => \A e \in Range(s) : e <= Last(s)
<1> DEFINE t == Front(s)
<1>1. Len(s) \in Nat \ {0} /\ Last(s) = s[Len(s)] /\ DOMAIN s = 1..Len(s) /\ Last(s) \in Ext
  BY DEF Last
<1>2. t \in Seq(Ext) /\ DOMAIN t = 1..(Len(s) - 1) /\ \A j \in 1..(Len(s) - 1) : t[j] = s[j]
  BY <1>1 DEF Front
<1> HIDE DEF t
<1>3. Range(s) = Range(t) \cup {Last(s)}
  BY <1>1, <1>2 DEF Range
<1>4. Increasing(s) => Increasing(t)
  BY <1>1, <1>2 DEF Increasing
<1>5. Increasing(s) => \A e \in Range(s) : e <= Last(s)
  <2>1. \A j \in DOMAIN s : s[j] \in Ext
    OBVIOUS
  <2>2. \A j \in DOMAIN s : s[j] \in Nat
    BY <2>1, HostAssumption DEF Ext
  <2> QED BY <1>1, <2>2 DEF Increasing, Range
<1> QED BY <1>1, <1>2, <1>3, <1>4, <1>5 DEF t

\* A worker takes the first job and leaves the others.
LEMMA TailFacts ==
  ASSUME NEW s \in Seq(Ext), s # <<>>
  PROVE  /\ Tail(s) \in Seq(Ext) /\ Head(s) \in Ext /\ Len(Tail(s)) = Len(s) - 1
         /\ Range(s) = Range(Tail(s)) \cup {Head(s)}
         /\ IsInjective(s) => IsInjective(Tail(s)) /\ Head(s) \notin Range(Tail(s))
<1> DEFINE t == Tail(s)
<1>1. Len(s) \in Nat \ {0} /\ Head(s) = s[1] /\ DOMAIN s = 1..Len(s) /\ Head(s) \in Ext
  OBVIOUS
<1>2. t \in Seq(Ext) /\ Len(t) = Len(s) - 1 /\ DOMAIN t = 1..(Len(s) - 1) /\ \A j \in 1..(Len(s) - 1) : t[j] = s[j + 1]
  BY <1>1
<1> HIDE DEF t
<1>3. Range(s) = Range(t) \cup {Head(s)}
  <2>1. ASSUME NEW j \in 1..Len(s) PROVE s[j] \in Range(t) \cup {Head(s)}
    <3>1. CASE j = 1 BY <3>1, <1>1
    <3>2. CASE j # 1
      <4>1. j - 1 \in 1..(Len(s) - 1) /\ t[j - 1] = s[j]
        BY <3>2, <1>1, <1>2
      <4> QED BY <4>1, <1>2 DEF Range
    <3> QED BY <3>1, <3>2
  <2>2. ASSUME NEW j \in 1..(Len(s) - 1) PROVE t[j] \in Range(s)
    <3>1. j + 1 \in DOMAIN s /\ t[j] = s[j + 1]
      BY <1>1, <1>2
    <3> QED BY <3>1 DEF Range
  <2>3. Head(s) \in Range(s)
    BY <1>1 DEF Range
  <2>4. Range(s) \subseteq Range(t) \cup {Head(s)}
    BY <2>1, <1>1 DEF Range
  <2>5. Range(t) \subseteq Range(s)
    BY <2>2, <1>2 DEF Range
  <2> QED BY <2>3, <2>4, <2>5
<1>4. ASSUME IsInjective(s) PROVE IsInjective(t) /\ Head(s) \notin Range(t)
  <2>1. \A j \in DOMAIN t : j + 1 \in DOMAIN s /\ j + 1 # 1 /\ 1 \in DOMAIN s /\ t[j] = s[j + 1] /\ j \in Int
    BY <1>1, <1>2
  <2>2. \A j, k \in DOMAIN t : t[j] = t[k] => j + 1 = k + 1
    BY <2>1, <1>4 DEF IsInjective
  <2>3. IsInjective(t)
    BY <2>1, <2>2 DEF IsInjective
  <2>4. \A j \in DOMAIN t : t[j] # s[1]
    BY <2>1, <1>4 DEF IsInjective
  <2> QED BY <2>3, <2>4, <1>1 DEF Range
<1> QED BY <1>1, <1>2, <1>3, <1>4 DEF t

\* Owners in registration order are listed once.
LEMMA IncreasingIsInjective ==
  ASSUME NEW s \in Seq(Ext), Increasing(s)
  PROVE  IsInjective(s)
<1>0. DOMAIN s = 1..Len(s) /\ Len(s) \in Nat /\ \A j \in DOMAIN s : s[j] \in Ext
  OBVIOUS
<1> SUFFICES ASSUME NEW j \in DOMAIN s, NEW k \in DOMAIN s, s[j] = s[k] PROVE j = k
  BY DEF IsInjective
<1>1. j \in Nat /\ k \in Nat /\ s[j] \in Nat /\ s[k] \in Nat
  BY <1>0, HostAssumption DEF Ext
<1> QED BY <1>1 DEF Increasing

-----------------------------------------------------------------------------
(* The inductive invariant                                                    *)

\* Registration numbers are numbers.
LEMMA ExtNat == N \in Nat /\ \A e \in Ext : e \in Nat /\ e >= 1 /\ e <= N
  BY HostAssumption DEF Ext

\* A list that lists nobody is empty.
LEMMA NobodyListed ==
  ASSUME NEW s \in Seq(Ext), Range(s) = {}
  PROVE  s = <<>>
<1>1. DOMAIN s = 1..Len(s) /\ Len(s) \in Nat
  OBVIOUS
<1>2. 1 \notin DOMAIN s
  BY DEF Range
<1> QED BY <1>1, <1>2

PubType == [accepting : BOOLEAN, draining : BOOLEAN, queue : 0..MaxPubs, calling : BOOLEAN]

\* A step that leaves the owners and the pool alone, and of the start only what
\* follows the last init, keeps the parts that speak of them.
LEMMA OwnersKept ==
  ASSUME IInv, UNCHANGED <<res, owners, pool>>, starter'.i = starter.i,
         starter'.at = starter.at
           \/ (starter.i = N + 1 /\ starter'.at \in {"accept", "run", "report", "done"})
  PROVE  Position' /\ Holdings' /\ Ordered' /\ Attempts' /\ LaterFirst'
<1> USE DEF IInv, owners, pool
<1>1. \A e \in Ext : e # N + 1 /\ e < N + 1
  BY ExtNat
<1>2. Range(active) \subseteq Ext /\ Range(failed) \subseteq Ext
  BY DEF TypeOK, Range
<1>3. Position'
  BY DEF Position
<1>4. Holdings'
  BY <1>1, ExtNat DEF Holdings, Position
<1>5. Ordered'
  BY <1>1, <1>2 DEF Ordered
<1>6. Attempts'
  BY DEF Attempts, Working
<1>7. LaterFirst'
  BY DEF LaterFirst, Touched
<1> QED BY <1>3, <1>4, <1>5, <1>6, <1>7

\* seed_profile_state only moves the lifecycle state.
LEMMA SeedKeeps ==
  ASSUME IInv, SeedBegins \/ SeedEnds
  PROVE  IInv'
<1> USE DEF IInv, SeedBegins, SeedEnds, owners, pool, counts
<1>1. Position' /\ Holdings' /\ Ordered' /\ Attempts' /\ LaterFirst'
  BY OwnersKept
<1>2. TypeOK' /\ Counted'
  BY DEF TypeOK, Counted
<1>3. Phases'
  BY DEF Phases, Starting
<1>4. Quiet'
  BY DEF Quiet, Touched, Phases
<1> QED BY <1>1, <1>2, <1>3, <1>4

\* start and start_strict.
LEMMA CallStartKeeps ==
  ASSUME IInv, NEW strict \in BOOLEAN, CallStart(strict)
  PROVE  IInv'
<1> USE DEF IInv, CallStart, owners, pool, counts
<1>1. starter.at = "none" /\ starter.i = 1 /\ starter'.at = "next" /\ starter'.i = 1
  BY DEF TypeOK, Phases, Position
<1>2. TypeOK' /\ Counted'
  BY DEF TypeOK, Counted
<1>3. Phases'
  BY <1>1 DEF Phases, Starting
<1>4. Position'
  BY <1>1 DEF Position
<1>5. Holdings'
  BY <1>1 DEF Holdings
<1>6. Ordered'
  <2>1. \A e \in Ext : res[e] = "no"
    BY <1>1, ExtNat DEF Holdings
  <2>2. Range(active) \subseteq Ext /\ Range(failed) \subseteq Ext
    BY DEF TypeOK, Range
  <2>3. Range(active) = {} /\ Range(failed) = {}
    BY <2>1, <2>2 DEF Holdings
  <2> QED BY <2>3 DEF Ordered
<1>7. Attempts' /\ LaterFirst'
  BY DEF Attempts, Working, LaterFirst, Touched
<1>8. Quiet'
  BY DEF Quiet, Touched, Phases
<1> QED BY <1>2, <1>3, <1>4, <1>5, <1>6, <1>7, <1>8

\* The future of the caller is dropped.
LEMMA CallerGoneKeeps ==
  ASSUME IInv, CallerGone
  PROVE  IInv'
<1> USE DEF IInv, CallerGone, owners, pool, counts
<1>0. starter'.at = starter.at /\ starter'.i = starter.i
  BY DEF TypeOK
<1>1. Position' /\ Holdings' /\ Ordered' /\ Attempts' /\ LaterFirst'
  BY <1>0, OwnersKept
<1>2. TypeOK' /\ Counted'
  BY DEF TypeOK, Counted
<1>3. Phases'
  BY <1>0 DEF Phases
<1>4. Quiet'
  BY DEF Quiet, Touched
<1> QED BY <1>1, <1>2, <1>3, <1>4

\* The end of run_start: the last look at the caller, publications, RUNNING, the report.
LEMMA StartEndsKeep ==
  ASSUME IInv, StartChecks \/ StartAccepts \/ StartRuns \/ StartReports
  PROVE  IInv'
<1> USE DEF IInv, owners, pool, counts
<1>0. /\ starter.i = N + 1 /\ starter'.i = starter.i
      /\ starter'.at \in {"accept", "run", "report", "done"}
      /\ UNCHANGED <<res, owners, pool, revoked, counts>>
  <2>1. CASE StartChecks
    <3>1. starter.i \in 1..(N + 1) /\ starter.i > N
      BY <2>1 DEF StartChecks, TypeOK
    <3>2. starter.i = N + 1
      BY <3>1, ExtNat
    <3>3. starter' = [starter EXCEPT !.at = "accept"] \/ starter' = [starter EXCEPT !.at = "done"]
      BY <2>1 DEF StartChecks
    <3> QED BY <3>2, <3>3, <2>1 DEF StartChecks, TypeOK
  <2>2. CASE StartAccepts \/ StartRuns \/ StartReports
    BY <2>2 DEF TypeOK, Position, StartAccepts, StartRuns, StartReports
  <2> QED BY <2>1, <2>2
<1>1. Position' /\ Holdings' /\ Ordered' /\ Attempts' /\ LaterFirst'
  BY <1>0, OwnersKept
<1>2. TypeOK' /\ Counted'
  <2>1. CASE StartChecks
    BY <2>1 DEF TypeOK, Counted, StartChecks
  <2>2. CASE StartAccepts
    BY <2>2 DEF TypeOK, Counted, StartAccepts
  <2>3. CASE StartRuns
    BY <2>3 DEF TypeOK, Counted, StartRuns
  <2>4. CASE StartReports
    BY <2>4 DEF TypeOK, Counted, StartReports
  <2> QED BY <2>1, <2>2, <2>3, <2>4
<1>3. Phases'
  BY <1>0 DEF TypeOK, Phases, Starting, StartChecks, StartAccepts, StartRuns, StartReports
<1>4. Quiet'
  <2>1. CASE StartChecks
    BY <2>1 DEF Quiet, Touched, Phases, Starting, StartChecks
  <2>2. CASE StartAccepts
    BY <2>2 DEF TypeOK, Quiet, Touched, StartAccepts
  <2>3. CASE StartRuns
    BY <2>3 DEF Quiet, Touched, Phases, Starting, StartRuns
  <2>4. CASE StartReports
    BY <2>4 DEF Quiet, Touched, Phases, StartReports
  <2> QED BY <2>1, <2>2, <2>3, <2>4
<1> QED BY <1>1, <1>2, <1>3, <1>4

\* An init is about to run.
LEMMA InitBeginsKeeps ==
  ASSUME IInv, InitBegins
  PROVE  IInv'
<1> USE DEF IInv, InitBegins, owners, pool, counts
<1> DEFINE i == starter.i
<1>1. /\ i \in Ext /\ starter.at = "next" /\ life = "starting"
      /\ starter'.at = "init" /\ starter'.i = i /\ res[i] = "no"
  BY ExtNat DEF TypeOK, Ext, Holdings, Phases, Starting
<1>2. \A f \in Ext : res'[f] = IF f = i THEN "initing" ELSE res[f]
  BY DEF TypeOK
<1>3. TypeOK' /\ Counted'
  BY DEF TypeOK, Counted
<1>4. Phases' /\ Position'
  BY <1>1 DEF Phases, Starting, Position
<1> HIDE DEF InitBegins
<1>5. UNCHANGED <<life, sweep, owners, pool, pub, revoked, counts>>
  BY DEF InitBegins
<1>6. Range(active) \subseteq Ext /\ Range(failed) \subseteq Ext
  BY DEF TypeOK, Range
<1>7. Holdings'
  <2>1. \A e \in Ext : res'[e] = "no" <=> e > starter'.i \/ (e = starter'.i /\ starter'.at \in {"none", "next"})
    BY <1>1, <1>2, ExtNat DEF Holdings
  <2>2. \A e \in Ext : res'[e] = "initing" <=> e = starter'.i /\ starter'.at = "init"
    BY <1>1, <1>2 DEF Holdings
  <2>3. \A e \in Range(active) \cup Range(failed) : e # i
    BY <1>1, <1>6 DEF Holdings
  <2> QED BY <2>1, <2>2, <2>3, <1>1, <1>2, <1>5, <1>6 DEF Holdings
<1>8. Ordered'
  BY <1>1, <1>5 DEF Ordered, Starting
<1>9. Attempts'
  <2>1. att[i] = "idle"
    BY <1>1 DEF Attempts, TypeOK
  <2> QED BY <2>1, <1>1, <1>2, <1>5 DEF Attempts, Working
<1>10. Quiet' /\ LaterFirst'
  <2>1. \A e \in Ext : ~Touched(e)
    BY <1>1 DEF Quiet
  <2>2. \A e \in Ext : ~Touched(e)'
    BY <2>1, <1>2, <1>5 DEF Touched
  <2> QED BY <2>2, <1>5 DEF Quiet, LaterFirst
<1> QED BY <1>3, <1>4, <1>7, <1>8, <1>9, <1>10

\* An extension is up: it becomes the last active one.
LEMMA InitSucceedsKeeps ==
  ASSUME IInv, InitSucceeds
  PROVE  IInv'
<1> USE DEF IInv, owners, pool, counts
<1> DEFINE i == starter.i
<1>1. /\ i \in Ext /\ starter.at = "init" /\ life = "starting"
      /\ starter'.at = "next" /\ starter'.i = i + 1 /\ res[i] = "initing"
  BY DEF InitSucceeds, TypeOK, Position, Holdings, Phases, Starting
<1>2. \A f \in Ext : res'[f] = IF f = i THEN "up" ELSE res[f]
  BY DEF TypeOK, InitSucceeds
<1>3. UNCHANGED <<life, sweep, failed, pool, pub, revoked, counts>> /\ active' = Append(active, i)
  BY DEF InitSucceeds
<1>4. /\ active' \in Seq(Ext) /\ Range(active') = Range(active) \cup {i}
      /\ Increasing(active) /\ (\A e \in Range(active) : e < i) => Increasing(active')
  BY <1>1, <1>3, AppendFacts DEF TypeOK
<1>5. TypeOK' /\ Counted'
  <2>1. starter' = [starter EXCEPT !.at = "next", !.i = i + 1] /\ res' = [res EXCEPT ![i] = "up"]
    BY DEF InitSucceeds
  <2>2. i + 1 \in 1..(N + 1)
    BY <1>1, ExtNat
  <2> QED BY <2>1, <2>2, <1>1, <1>3, <1>4 DEF TypeOK, Counted
<1>6. Phases' /\ Position'
  BY <1>1, <1>3, <1>4 DEF Phases, Starting, Position
<1>7. Range(active) \subseteq Ext /\ Range(failed) \subseteq Ext
  BY DEF TypeOK, Range
<1>8. Holdings'
  <2>1. \A e \in Ext : res'[e] = "no" <=> e > starter'.i \/ (e = starter'.i /\ starter'.at \in {"none", "next"})
    BY <1>1, <1>2, ExtNat DEF Holdings
  <2>2. \A e \in Range(active) \cup Range(failed) : e # i
    BY <1>1, <1>7 DEF Holdings
  <2> QED BY <2>1, <2>2, <1>1, <1>2, <1>3, <1>4, <1>7 DEF Holdings
<1>9. Ordered'
  <2>1. \A e \in Range(active) \cup Range(failed) : e < i
    BY <1>1 DEF Ordered, Starting
  <2>2. \A e \in Range(active') \cup Range(failed') : e < i + 1
    BY <2>1, <1>1, <1>3, <1>4, <1>7, ExtNat
  <2> QED BY <2>1, <2>2, <1>1, <1>3, <1>4 DEF Ordered
<1>10. att[i] = "idle"
  BY <1>1 DEF Attempts, TypeOK
<1>11. Attempts'
  BY <1>1, <1>2, <1>3, <1>10 DEF Attempts, Working
<1>12. Quiet' /\ LaterFirst'
  <2>1. \A e \in Ext : ~Touched(e)
    BY <1>1 DEF Quiet
  <2>2. \A e \in Ext : ~Touched(e)'
    BY <2>1, <1>2, <1>3, <1>10 DEF Touched
  <2> QED BY <2>2, <1>3 DEF Quiet, LaterFirst
<1> QED BY <1>5, <1>6, <1>8, <1>9, <1>11, <1>12

\* init fails, skips or is aborted.
LEMMA InitFailsKeeps ==
  ASSUME IInv, NEW out \in {"failed", "skipped", "cancelled"}, InitFails(out)
  PROVE  IInv'
<1> USE DEF IInv, owners, pool, counts
<1> DEFINE i == starter.i
<1>1. /\ i \in Ext /\ starter.at = "init" /\ life = "starting"
      /\ starter'.at = "cleanup" /\ starter'.i = i /\ res[i] = "initing"
  BY DEF InitFails, TypeOK, Position, Holdings, Phases, Starting
<1>2. \A f \in Ext : res'[f] = IF f = i THEN "partial" ELSE res[f]
  BY DEF TypeOK, InitFails
<1>3. UNCHANGED <<life, sweep, active, failed, pool, pub, revoked, counts>>
  BY DEF InitFails
<1>4. att[i] = "idle"
  BY <1>1 DEF Attempts, TypeOK
<1>5. TypeOK' /\ Counted'
  BY DEF TypeOK, Counted, InitFails
<1>6. Phases' /\ Position'
  BY <1>1, <1>3 DEF Phases, Starting, Position
<1>7. Range(active) \subseteq Ext /\ Range(failed) \subseteq Ext
  BY DEF TypeOK, Range
<1>8. Holdings'
  <2>1. \A e \in Ext : res'[e] = "no" <=> e > starter'.i \/ (e = starter'.i /\ starter'.at \in {"none", "next"})
    BY <1>1, <1>2, ExtNat DEF Holdings
  <2>2. \A e \in Range(active) \cup Range(failed) : e # i
    BY <1>1, <1>7 DEF Holdings
  <2> QED BY <2>1, <2>2, <1>1, <1>2, <1>3, <1>4, <1>7 DEF Holdings
<1>9. Ordered'
  BY <1>1, <1>3 DEF Ordered, Starting
<1>10. Attempts'
  BY <1>1, <1>2, <1>3, <1>4 DEF Attempts, Working
<1>11. Quiet' /\ LaterFirst'
  <2>1. \A e \in Ext : ~Touched(e)
    BY <1>1 DEF Quiet
  <2>2. \A e \in Ext : ~Touched(e)'
    BY <2>1, <1>2, <1>3 DEF Touched
  <2> QED BY <2>2, <1>3 DEF Quiet, LaterFirst
<1> QED BY <1>5, <1>6, <1>8, <1>9, <1>10, <1>11

\* start_shutdown_attempt, for an extension that holds something.
LEMMA AttemptBegins ==
  ASSUME IInv, NEW o \in Ext, StartAttempt(o), res[o] \in {"up", "partial", "down", "gone"}, UNCHANGED res
  PROVE  /\ Attempts'
         /\ att' \in [Ext -> {"idle", "running", "done", "error"}]
         /\ jobs' \in Seq(Ext) /\ Len(jobs') <= QueueCap /\ busy' \subseteq Ext
         /\ \A f \in Ext : f # o => att'[f] = att[f]
<1> USE DEF IInv, pool
<1>1. CASE att[o] # "idle"
  <2>1. UNCHANGED <<att, jobs, busy>>
    BY <1>1 DEF StartAttempt
  <2> QED BY <2>1 DEF Attempts, Working, TypeOK
<1>2. CASE att[o] = "idle"
  <2>1. /\ att' = [att EXCEPT ![o] = "running"] /\ jobs' = Append(jobs, o) /\ busy' = busy
        /\ Len(jobs) # QueueCap
    BY <1>2 DEF StartAttempt, Full
  <2>2. o \notin Working
    BY <1>2 DEF Attempts
  <2>3. jobs' \in Seq(Ext) /\ Range(jobs') = Range(jobs) \cup {o} /\ IsInjective(jobs')
    BY <2>1, <2>2, AppendFacts DEF TypeOK, Attempts, Working
  <2>4. Len(jobs') <= QueueCap
    <3>1. Len(jobs') = Len(jobs) + 1 /\ Len(jobs) \in Nat
      BY <2>1 DEF TypeOK
    <3> QED BY <3>1, <2>1, HostAssumption DEF TypeOK
  <2>5. \A f \in Ext : att'[f] = IF f = o THEN "running" ELSE att[f]
    BY <2>1 DEF TypeOK
  <2>6. Working' = Working \cup {o} /\ Working \subseteq Ext
    <3>1. Working' = Working \cup {o}
      BY <2>1, <2>3 DEF Working
    <3> QED BY <3>1 DEF Working, TypeOK, Range
  <2>7. Attempts'
    <3>1. \A e \in Ext : att'[e] = "done" <=> res'[e] \in {"down", "gone"}
      BY <1>2, <2>5 DEF Attempts
    <3>2. \A e \in Ext : att'[e] # "idle" => res'[e] \in {"up", "partial", "down", "gone"}
      BY <2>5 DEF Attempts
    <3>3. \A e \in Working' : att'[e] = "running"
      BY <2>5, <2>6 DEF Attempts
    <3>4. Range(jobs') \cap busy' = {}
      BY <2>1, <2>2, <2>3 DEF Attempts, Working
    <3> QED BY <3>1, <3>2, <3>3, <3>4, <2>3 DEF Attempts
  <2> QED BY <2>1, <2>3, <2>4, <2>5, <2>7 DEF TypeOK
<1> QED BY <1>1, <1>2

\* invoke_shutdown meets the end of an attempt.
LEMMA AttemptConsumed ==
  ASSUME IInv, NEW o \in Ext, Consume(o), att[o] \in {"done", "error"}, UNCHANGED res
  PROVE  /\ Attempts'
         /\ att' \in [Ext -> {"idle", "running", "done", "error"}] /\ UNCHANGED <<jobs, busy>>
         /\ \A f \in Ext : att'[f] = IF f = o /\ att[o] = "error" THEN "idle" ELSE att[f]
<1> USE DEF IInv, pool
<1>1. \A f \in Ext : att'[f] = IF f = o /\ att[o] = "error" THEN "idle" ELSE att[f]
  BY DEF Consume, TypeOK
<1>2. att' \in [Ext -> {"idle", "running", "done", "error"}] /\ UNCHANGED <<jobs, busy>>
  BY DEF Consume, TypeOK
<1>3. o \notin Working /\ Working \subseteq Ext
  BY DEF Attempts, Working, TypeOK, Range
<1>4. Attempts'
  BY <1>1, <1>2, <1>3 DEF Attempts, Working
<1> QED BY <1>1, <1>2, <1>4

\* What a partial init leaves behind when its cleanup ends: it is retained
\* unless its callback has succeeded, and the start goes on or is rolled back.
LEMMA CleanupLeaves ==
  ASSUME IInv, starter.at \in {"cleanup", "cleaning"}, AfterCleanup,
         failed' = Append(failed, starter.i) \/ (failed' = failed /\ att[starter.i] = "done"),
         UNCHANGED <<res, active, pub, revoked, counts>>, Attempts',
         \A f \in Ext : att'[f] = att[f] \/ att'[f] = "idle",
         att' \in [Ext -> {"idle", "running", "done", "error"}],
         jobs' \in Seq(Ext), Len(jobs') <= QueueCap, busy' \subseteq Ext
  PROVE  IInv'
<1> USE DEF IInv, owners, pool, counts
<1> DEFINE i == starter.i
<1>1. i \in Ext /\ life = "starting" /\ res[i] \in {"partial", "gone"} /\ sweep = "none"
  BY DEF Position, Phases, Starting, Holdings
<1>2. \/ life' = "shuttingdown" /\ sweep' = "sweep" /\ starter' = [starter EXCEPT !.at = "done"]
      \/ starter' = [starter EXCEPT !.at = "next", !.i = @ + 1] /\ UNCHANGED <<life, sweep>>
  BY DEF AfterCleanup
<1>3. \/ life' = "shuttingdown" /\ sweep' = "sweep" /\ starter'.at = "done" /\ starter'.i = i
      \/ starter'.at = "next" /\ starter'.i = i + 1 /\ UNCHANGED <<life, sweep>>
  BY <1>2 DEF TypeOK
<1>4. Range(active) \subseteq Ext /\ Range(failed) \subseteq Ext
  BY DEF TypeOK, Range
<1>5. \A e \in Range(active) \cup Range(failed) : e < i
  BY DEF Ordered, Starting
<1>6. /\ failed' \in Seq(Ext) /\ Increasing(failed')
      /\ Range(failed') = Range(failed) \cup {i} \/ (Range(failed') = Range(failed) /\ att[i] = "done")
  <2>1. failed \in Seq(Ext) /\ Increasing(failed)
    BY DEF TypeOK, Ordered
  <2>2. CASE failed' = Append(failed, i)
    BY <2>1, <2>2, <1>1, <1>5, AppendFacts
  <2>3. CASE failed' = failed /\ att[i] = "done"
    BY <2>1, <2>3
  <2> QED BY <2>2, <2>3
<1>7. TypeOK' /\ Counted'
  <2>1. i + 1 \in 1..(N + 1)
    BY <1>1, ExtNat
  <2>2. starter' \in [at : {"none", "next", "init", "cleanup", "cleaning", "accept", "run", "report", "done"},
                      i : 1..(N + 1), strict : BOOLEAN, caller : BOOLEAN,
                      out : {"ok", "failed", "skipped", "cancelled"}]
    <3>1. CASE starter' = [starter EXCEPT !.at = "done"]
      BY <3>1 DEF TypeOK
    <3>2. CASE starter' = [starter EXCEPT !.at = "next", !.i = i + 1]
      BY <3>2, <2>1 DEF TypeOK
    <3> QED BY <3>1, <3>2, <1>2
  <2> QED BY <2>2, <1>3, <1>6 DEF TypeOK, Counted
<1>8. Phases' /\ Position'
  BY <1>1, <1>3, <1>6 DEF Phases, Starting, Position
<1>9. Holdings'
  <2>1. \A e \in Ext : res'[e] = "no" <=> e > starter'.i \/ (e = starter'.i /\ starter'.at \in {"none", "next"})
    BY <1>1, <1>3, ExtNat DEF Holdings
  <2>2. \A e \in Ext : res'[e] = "initing" <=> e = starter'.i /\ starter'.at = "init"
    BY <1>1, <1>3 DEF Holdings
  <2>3. \A e \in Ext : res'[e] = "partial" => e \in Range(failed')
    BY <1>1, <1>6 DEF Holdings, Attempts
  <2>4. \A e \in Range(failed') : res'[e] \in {"partial", "gone"}
    BY <1>1, <1>6 DEF Holdings
  <2> QED BY <2>1, <2>2, <2>3, <2>4, <1>3 DEF Holdings
<1>10. Ordered'
  <2>1. \A e \in Range(active') \cup Range(failed') : e < i + 1
    BY <1>1, <1>4, <1>5, <1>6, ExtNat
  <2> QED BY <2>1, <1>3, <1>6 DEF Ordered, Starting
<1>11. Quiet' /\ LaterFirst'
  <2>1. \A e \in Ext : ~Touched(e)
    BY <1>1 DEF Quiet
  <2>2. \A e \in Ext : ~Touched(e)'
    BY <2>1 DEF Touched
  <2>3. ~pub.draining
    BY <1>1 DEF Quiet
  <2> QED BY <2>2, <2>3 DEF Quiet, LaterFirst
<1> QED BY <1>7, <1>8, <1>9, <1>10, <1>11

\* cleanup_partial_init, up to its wait.
LEMMA CleanupBeginsKeeps ==
  ASSUME IInv, CleanupBegins
  PROVE  IInv'
<1> USE DEF IInv, owners, pool, counts
<1> DEFINE i == starter.i
<1>1. /\ i \in Ext /\ starter.at = "cleanup" /\ life = "starting" /\ res[i] \in {"partial", "gone"}
      /\ UNCHANGED <<res, active, pub, revoked, counts>>
  BY DEF CleanupBegins, Position, Phases, Starting, Holdings
<1>2. CASE StartAttempt(i) /\ starter' = [starter EXCEPT !.at = "cleaning"] /\ UNCHANGED <<life, sweep, failed>>
  <2>1. starter'.at = "cleaning" /\ starter'.i = i
    BY <1>2 DEF TypeOK
  <2>2. /\ Attempts' /\ att' \in [Ext -> {"idle", "running", "done", "error"}]
        /\ jobs' \in Seq(Ext) /\ Len(jobs') <= QueueCap /\ busy' \subseteq Ext
        /\ \A f \in Ext : f # i => att'[f] = att[f]
    BY <1>1, <1>2, AttemptBegins
  <2>3. TypeOK' /\ Counted'
    BY <1>1, <1>2, <2>2 DEF TypeOK, Counted
  <2>4. Phases' /\ Position'
    BY <1>1, <1>2, <2>1 DEF Phases, Starting, Position
  <2>5. Holdings'
    BY <1>1, <1>2, <2>1 DEF Holdings
  <2>6. Ordered'
    BY <1>1, <1>2, <2>1 DEF Ordered, Starting
  <2>7. Quiet' /\ LaterFirst'
    <3>1. \A e \in Ext : ~Touched(e)'
      BY <1>1, <2>2 DEF Quiet, Touched
    <3> QED BY <3>1, <1>1, <1>2 DEF Quiet, LaterFirst
  <2> QED BY <2>2, <2>3, <2>4, <2>5, <2>6, <2>7
<1>3. CASE AttemptRefused(i) /\ failed' = Append(failed, i) /\ AfterCleanup
  <2>1. UNCHANGED <<att, jobs, busy>>
    BY <1>3 DEF AttemptRefused
  <2>2. Attempts'
    BY <2>1, <1>1 DEF Attempts, Working
  <2> QED BY <1>1, <1>3, <2>1, <2>2, CleanupLeaves DEF TypeOK
<1> QED BY <1>2, <1>3 DEF CleanupBegins

\* cleanup_partial_init: the attempt has ended, or the wait is over.
LEMMA CleanupEndsKeeps ==
  ASSUME IInv, CleanupEnds
  PROVE  IInv'
<1> USE DEF IInv, owners, pool, counts
<1> DEFINE i == starter.i
<1>1. i \in Ext /\ starter.at = "cleaning" /\ AfterCleanup /\ UNCHANGED <<res, active, pub, revoked, counts>>
  BY DEF CleanupEnds, Position
<1>2. CASE /\ att[i] \in {"done", "error"} /\ Consume(i)
           /\ failed' = Append(failed, i) \/ (failed' = failed /\ att[i] = "done")
  <2>1. /\ Attempts' /\ att' \in [Ext -> {"idle", "running", "done", "error"}] /\ UNCHANGED <<jobs, busy>>
        /\ \A f \in Ext : att'[f] = att[f] \/ att'[f] = "idle"
    BY <1>1, <1>2, AttemptConsumed
  <2> QED BY <1>1, <1>2, <2>1, CleanupLeaves DEF TypeOK
<1>3. CASE UNCHANGED pool /\ failed' = Append(failed, i)
  <2>1. Attempts'
    BY <1>1, <1>3 DEF Attempts, Working
  <2> QED BY <1>1, <1>3, <2>1, CleanupLeaves DEF TypeOK
<1> QED BY <1>2, <1>3 DEF CleanupEnds

\* shutdown: the state moves, and nothing is touched before stop_and_wait.
LEMMA CallShutdownKeeps ==
  ASSUME IInv, CallShutdown
  PROVE  IInv'
<1> USE DEF IInv, owners, pool, counts
<1>1. /\ UNCHANGED <<starter, res, active, failed, att, jobs, busy, revoked, errors, panics, pubs>>
      /\ pub' = [pub EXCEPT !.accepting = FALSE]
  BY DEF CallShutdown
<1>2. Position' /\ Holdings' /\ Ordered' /\ Attempts' /\ LaterFirst'
  BY <1>1, OwnersKept
<1>3. TypeOK' /\ Counted'
  BY <1>1 DEF TypeOK, Counted, CallShutdown
<1>4. Phases'
  <2>1. life = "created" => active = <<>> /\ failed = <<>>
    <3>1. ASSUME life = "created" PROVE \A e \in Ext : res[e] = "no"
      BY <3>1, ExtNat DEF Phases, Position, Holdings
    <3>2. Range(active) \subseteq Ext /\ Range(failed) \subseteq Ext
      BY DEF TypeOK, Range
    <3>3. life = "created" => Range(active) = {} /\ Range(failed) = {}
      BY <3>1, <3>2 DEF Holdings
    <3> QED BY <3>3, NobodyListed DEF TypeOK
  <2> QED BY <1>1, <2>1 DEF Phases, Starting, CallShutdown
<1>5. Quiet'
  <2>1. \A e \in Ext : Touched(e)' = Touched(e)
    BY <1>1 DEF Touched
  <2>2. pub'.draining = pub.draining /\ pub'.calling = pub.calling
    BY <1>1 DEF TypeOK
  <2> QED BY <2>1, <2>2 DEF Quiet, Phases, CallShutdown
<1> QED BY <1>2, <1>3, <1>4, <1>5

\* stop_and_wait returns.
LEMMA QuiesceKeeps ==
  ASSUME IInv, Quiesce
  PROVE  IInv'
<1> USE DEF IInv, owners, pool, counts
<1>1. Position' /\ Holdings' /\ Ordered' /\ Attempts' /\ LaterFirst'
  BY OwnersKept DEF Quiesce
<1>2. TypeOK' /\ Counted'
  <2>1. pub' \in PubType /\ pub'.queue = pub.queue
    BY DEF TypeOK, PubType, Quiesce
  <2> QED BY <2>1 DEF TypeOK, PubType, Counted, Quiesce
<1>3. Phases'
  BY DEF Phases, Quiesce
<1>4. Quiet'
  <2>1. \A e \in Ext : Touched(e)' = Touched(e)
    BY DEF Touched, Quiesce
  <2>2. pub'.draining = pub.draining /\ pub'.calling = pub.calling
    BY DEF TypeOK, Quiesce
  <2> QED BY <2>1, <2>2 DEF Quiet, Quiesce
<1> QED BY <1>1, <1>2, <1>3, <1>4

\* The next owner is the last retained partial init or the last active one, and
\* no later extension holds anything when it is an active one.
LEMMA OwnerFacts ==
  ASSUME IInv, sweep \in {"sweep", "wait"}, failed # <<>> \/ active # <<>>
  PROVE  /\ Owner \in Ext
         /\ failed # <<>> => Owner \in Range(failed) /\ res[Owner] \in {"partial", "gone"}
         /\ failed = <<>> =>
              /\ Owner \in Range(active) /\ res[Owner] \in {"up", "down"}
              /\ \A f \in Ext : Owner < f => res[f] \notin {"initing", "up", "partial"}
<1> USE DEF IInv
<1>1. CASE failed # <<>>
  <2>1. Owner = Last(failed) /\ Owner \in Range(failed) /\ Owner \in Ext
    BY <1>1, FrontFacts DEF TypeOK, Owner
  <2> QED BY <1>1, <2>1 DEF Holdings
<1>2. CASE failed = <<>>
  <2>1. Owner = Last(active) /\ Owner \in Range(active) /\ Owner \in Ext /\ \A f \in Range(active) : f <= Owner
    BY <1>2, FrontFacts DEF TypeOK, Owner, Ordered
  <2>2. Range(failed) = {}
    BY <1>2 DEF Range
  <2>3. starter.at \notin Starting
    BY DEF Phases
  <2>4. ASSUME NEW f \in Ext, Owner < f PROVE res[f] \notin {"initing", "up", "partial"}
    <3>1. f \notin Range(active)
      BY <2>1, <2>4, ExtNat
    <3> QED BY <3>1, <2>2, <2>3 DEF Holdings, Starting
  <2> QED BY <1>2, <2>1, <2>4 DEF Holdings
<1> QED BY <1>1, <1>2

\* shutdown_active, up to its wait for an owner's attempt.
LEMMA SweepBeginsKeeps ==
  ASSUME IInv, SweepBegins
  PROVE  IInv'
<1> USE DEF IInv, owners, pool, counts
<1>1. /\ sweep = "sweep" /\ life = "shuttingdown" /\ ~pub.draining /\ ~pub.calling
      /\ UNCHANGED <<starter, res, active, failed, pub, revoked, errors, panics, pubs>>
  BY DEF SweepBegins, Phases, Quiet, TypeOK
<1>2. failed \o active = <<>> <=> failed = <<>> /\ active = <<>>
  <2>1. Len(failed \o active) = Len(failed) + Len(active) /\ Len(failed) \in Nat /\ Len(active) \in Nat
    BY DEF TypeOK
  <2> QED BY <2>1 DEF TypeOK
<1>3. CASE /\ UNCHANGED pool /\ sweep' = "none"
           /\ \/ life' = "stopped" /\ failed = <<>> /\ active = <<>>
              \/ life' = "shutdownfailed"
  <2>1. Position' /\ Holdings' /\ Ordered' /\ Attempts' /\ LaterFirst'
    BY <1>1, <1>3, OwnersKept
  <2>2. TypeOK' /\ Counted'
    BY <1>1, <1>3 DEF TypeOK, Counted
  <2>3. Phases'
    BY <1>1, <1>3 DEF Phases, Starting
  <2>4. Quiet'
    BY <1>1, <1>3 DEF Quiet, Touched
  <2> QED BY <2>1, <2>2, <2>3, <2>4
<1>4. CASE (failed # <<>> \/ active # <<>>) /\ StartAttempt(Owner) /\ sweep' = "wait" /\ UNCHANGED life
  <2>1. /\ Owner \in Ext /\ res[Owner] \in {"up", "partial", "down", "gone"}
        /\ res[Owner] \in {"up", "down"} => \A f \in Ext : Owner < f => res[f] \notin {"initing", "up", "partial"}
    BY <1>1, <1>4, OwnerFacts
  <2>2. /\ Attempts' /\ att' \in [Ext -> {"idle", "running", "done", "error"}]
        /\ jobs' \in Seq(Ext) /\ Len(jobs') <= QueueCap /\ busy' \subseteq Ext
        /\ \A f \in Ext : f # Owner => att'[f] = att[f]
    BY <1>1, <1>4, <2>1, AttemptBegins
  <2>3. TypeOK' /\ Counted'
    BY <1>1, <1>4, <2>2 DEF TypeOK, Counted
  <2>4. Phases' /\ Position'
    BY <1>1, <1>4 DEF Phases, Position
  <2>5. Holdings' /\ Ordered'
    BY <1>1 DEF Holdings, Ordered, Phases, Starting
  <2>6. Quiet'
    BY <1>1, <1>4 DEF Quiet
  <2>7. LaterFirst'
    BY <1>1, <2>1, <2>2 DEF LaterFirst, Touched
  <2> QED BY <2>2, <2>3, <2>4, <2>5, <2>6, <2>7
<1> QED BY <1>2, <1>3, <1>4 DEF SweepBegins, AttemptRefused

\* invoke_shutdown returns to shutdown_active: pop, or give up and keep the owner.
LEMMA SweepEndsKeeps ==
  ASSUME IInv, SweepEnds
  PROVE  IInv'
<1> USE DEF IInv, owners, pool, counts
<1>1. /\ sweep = "wait" /\ life = "shuttingdown" /\ ~pub.draining /\ ~pub.calling
      /\ failed # <<>> \/ active # <<>>
      /\ UNCHANGED <<starter, res, pub, revoked, errors, panics, pubs>>
      /\ att[Owner] \in {"done", "error"} /\ Consume(Owner)
  BY DEF SweepEnds, Phases, Quiet, TypeOK
<1>2. Owner \in Ext /\ starter.at \notin Starting /\ starter.at # "none"
  BY <1>1, OwnerFacts DEF Phases
<1>3. /\ Attempts' /\ att' \in [Ext -> {"idle", "running", "done", "error"}] /\ UNCHANGED <<jobs, busy>>
      /\ \A f \in Ext : att'[f] = att[f] \/ att'[f] = "idle"
  BY <1>1, <1>2, AttemptConsumed
<1>4. \A e \in Ext : Touched(e)' => Touched(e)
  BY <1>1, <1>3 DEF Touched
<1>5. Quiet' /\ LaterFirst'
  <2>1. LaterFirst'
    BY <1>1, <1>4 DEF LaterFirst
  <2>2. life' \in {"shuttingdown", "shutdownfailed"}
    BY <1>1 DEF SweepEnds
  <2> QED BY <1>1, <2>1, <2>2 DEF Quiet
<1>6. CASE life' = "shutdownfailed" /\ sweep' = "none" /\ UNCHANGED owners
  <2>1. TypeOK' /\ Counted'
    BY <1>1, <1>3, <1>6 DEF TypeOK, Counted
  <2>2. Phases' /\ Position'
    BY <1>1, <1>2, <1>6 DEF Phases, Position, Starting
  <2>3. Holdings' /\ Ordered'
    BY <1>1, <1>2, <1>6 DEF Holdings, Ordered, Starting
  <2> QED BY <1>3, <1>5, <2>1, <2>2, <2>3
<1>7. CASE att[Owner] = "done" /\ sweep' = "sweep" /\ PopOwner /\ UNCHANGED life
  <2>1. res[Owner] \in {"down", "gone"}
    BY <1>2, <1>7 DEF Attempts
  <2>2. /\ active' \in Seq(Ext) /\ failed' \in Seq(Ext) /\ Increasing(active') /\ Increasing(failed')
        /\ Range(active') \subseteq Range(active) /\ Range(active) \subseteq Range(active') \cup {Owner}
        /\ Range(failed') \subseteq Range(failed) /\ Range(failed) \subseteq Range(failed') \cup {Owner}
    <3>1. CASE failed # <<>>
      BY <1>7, <3>1, FrontFacts DEF PopOwner, Owner, TypeOK, Ordered
    <3>2. CASE failed = <<>>
      BY <1>1, <1>7, <3>2, FrontFacts DEF PopOwner, Owner, TypeOK, Ordered
    <3> QED BY <3>1, <3>2
  <2>3. TypeOK' /\ Counted'
    BY <1>1, <1>3, <1>7, <2>2 DEF TypeOK, Counted
  <2>4. Phases' /\ Position'
    BY <1>1, <1>2, <1>7 DEF Phases, Position, Starting
  <2>5. Holdings'
    BY <1>1, <1>2, <2>1, <2>2 DEF Holdings, Starting
  <2>6. Ordered'
    BY <1>1, <1>2, <2>2 DEF Ordered
  <2> QED BY <1>3, <1>5, <2>3, <2>4, <2>5, <2>6
<1> QED BY <1>1, <1>6, <1>7 DEF SweepEnds

\* A worker of the pool takes a job.
LEMMA WorkerTakesKeeps ==
  ASSUME IInv, WorkerTakes
  PROVE  IInv'
<1> USE DEF IInv, owners, pool, counts
<1>1. /\ jobs # <<>> /\ busy' = busy \cup {Head(jobs)} /\ jobs' = Tail(jobs)
      /\ UNCHANGED <<life, starter, sweep, res, active, failed, att, pub, revoked, errors, panics, pubs>>
  BY DEF WorkerTakes
<1>2. /\ jobs' \in Seq(Ext) /\ Head(jobs) \in Ext /\ Len(jobs') = Len(jobs) - 1
      /\ Range(jobs) = Range(jobs') \cup {Head(jobs)}
      /\ IsInjective(jobs') /\ Head(jobs) \notin Range(jobs')
  BY <1>1, TailFacts DEF TypeOK, Attempts
<1>3. TypeOK' /\ Counted'
  <2>1. Len(jobs') <= QueueCap
    BY <1>2, HostAssumption DEF TypeOK
  <2> QED BY <1>1, <1>2, <2>1 DEF TypeOK, Counted
<1>4. Phases' /\ Position' /\ Holdings' /\ Ordered'
  BY <1>1 DEF Phases, Position, Holdings, Ordered
<1>5. Attempts'
  BY <1>1, <1>2 DEF Attempts, Working
<1>6. Quiet' /\ LaterFirst'
  BY <1>1 DEF Quiet, LaterFirst, Touched
<1> QED BY <1>3, <1>4, <1>5, <1>6

\* A shutdown callback returns.
LEMMA WorkerEndsKeeps ==
  ASSUME IInv, NEW e \in Ext, WorkerEnds(e)
  PROVE  IInv'
<1> USE DEF IInv, owners, pool, counts
<1>1. /\ e \in busy /\ busy' = busy \ {e}
      /\ UNCHANGED <<life, starter, sweep, active, failed, jobs, pub, revoked, panics, pubs>>
  BY DEF WorkerEnds
<1>2. att[e] = "running" /\ res[e] \in {"up", "partial"}
  BY <1>1 DEF Attempts, Working
<1>3. e \notin Range(jobs) /\ Range(jobs) \subseteq Ext
  BY <1>1 DEF Attempts, TypeOK, Range
<1>4. CASE /\ att' = [att EXCEPT ![e] = "done"] /\ errors' = errors
           /\ res' = [res EXCEPT ![e] = IF @ = "up" THEN "down" ELSE "gone"]
  <2>1. \A f \in Ext : /\ att'[f] = IF f = e THEN "done" ELSE att[f]
                       /\ res'[f] = IF f # e THEN res[f] ELSE IF res[e] = "up" THEN "down" ELSE "gone"
    BY <1>4 DEF TypeOK
  <2>2. TypeOK' /\ Counted'
    BY <1>1, <1>4 DEF TypeOK, Counted
  <2>3. Phases' /\ Position' /\ Ordered'
    BY <1>1 DEF Phases, Position, Ordered
  <2>4. Holdings'
    <3>1. Range(active) \subseteq Ext /\ Range(failed) \subseteq Ext
      BY DEF TypeOK, Range
    <3>2. starter.at \in {"cleanup", "cleaning"} => starter.i \in Ext
      BY DEF Position
    <3>3. \A f \in Ext : (res'[f] = "no" <=> res[f] = "no") /\ (res'[f] = "initing" <=> res[f] = "initing")
      BY <1>2, <2>1
    <3>4. starter.at = "cleanup" => att'[starter.i] = "idle"
      BY <1>2, <2>1, <3>2 DEF Holdings
    <3>5. starter.at \in {"cleanup", "cleaning"} => res'[starter.i] \in {"partial", "gone"}
      BY <1>2, <2>1, <3>2 DEF Holdings
    <3>6. \A f \in Ext : res'[f] \in {"up", "partial"} => res[f] = res'[f]
      BY <2>1
    <3>7. \A f \in Range(active) : res'[f] \in {"up", "down"}
      BY <1>2, <2>1, <3>1 DEF Holdings
    <3>8. \A f \in Range(failed) : res'[f] \in {"partial", "gone"}
      BY <1>2, <2>1, <3>1 DEF Holdings
    <3> QED BY <1>1, <3>3, <3>4, <3>5, <3>6, <3>7, <3>8 DEF Holdings
  <2>5. Attempts'
    BY <1>1, <1>2, <1>3, <2>1 DEF Attempts, Working, TypeOK
  <2>6. \A f \in Ext : Touched(f)' => Touched(f)
    BY <1>2, <2>1 DEF Touched
  <2>7. Quiet' /\ LaterFirst'
    <3>1. \A f \in Ext : res'[f] \in {"initing", "up", "partial"} => res[f] \in {"initing", "up", "partial"}
      BY <2>1
    <3> QED BY <1>1, <2>6, <3>1 DEF Quiet, LaterFirst
  <2> QED BY <2>2, <2>3, <2>4, <2>5, <2>7
<1>5. CASE /\ errors < MaxErrors /\ errors' = errors + 1
           /\ att' = [att EXCEPT ![e] = "error"] /\ UNCHANGED res
  <2>1. \A f \in Ext : att'[f] = IF f = e THEN "error" ELSE att[f]
    BY <1>5 DEF TypeOK
  <2>2. TypeOK' /\ Counted'
    <3>1. errors' \in 0..MaxErrors
      BY <1>5, HostAssumption DEF TypeOK
    <3> QED BY <1>1, <1>5, <3>1 DEF TypeOK, Counted
  <2>3. Phases' /\ Position' /\ Ordered'
    BY <1>1 DEF Phases, Position, Ordered
  <2>4. Holdings'
    <3>1. starter.at = "cleanup" => starter.i \in Ext /\ starter.i # e
      BY <1>2 DEF Position, Holdings
    <3> QED BY <1>1, <1>5, <2>1, <3>1 DEF Holdings
  <2>5. Attempts'
    BY <1>1, <1>2, <1>3, <1>5, <2>1 DEF Attempts, Working, TypeOK
  <2>6. \A f \in Ext : Touched(f)' => Touched(f)
    BY <1>2, <1>5, <2>1 DEF Touched
  <2>7. Quiet' /\ LaterFirst'
    BY <1>1, <1>5, <2>6 DEF Quiet, LaterFirst
  <2> QED BY <2>2, <2>3, <2>4, <2>5, <2>7
<1> QED BY <1>4, <1>5 DEF WorkerEnds

\* A shutdown callback panics: its attempt is never completed.
LEMMA WorkerPanicsKeeps ==
  ASSUME IInv, NEW e \in Ext, WorkerPanics(e)
  PROVE  IInv'
<1> USE DEF IInv, owners, pool, counts
<1>1. /\ busy' = busy \ {e} /\ panics' = panics + 1 /\ panics < MaxPanics
      /\ UNCHANGED <<life, starter, sweep, res, active, failed, att, jobs, pub, revoked, errors, pubs>>
  BY DEF WorkerPanics
<1>2. TypeOK' /\ Counted'
  <2>1. panics' \in 0..MaxPanics
    BY <1>1, HostAssumption DEF TypeOK
  <2> QED BY <1>1, <2>1 DEF TypeOK, Counted
<1>3. Phases' /\ Position' /\ Holdings' /\ Ordered'
  BY <1>1 DEF Phases, Position, Holdings, Ordered
<1>4. Attempts'
  BY <1>1 DEF Attempts, Working
<1>5. Quiet' /\ LaterFirst'
  BY <1>1 DEF Quiet, LaterFirst, Touched
<1> QED BY <1>2, <1>3, <1>4, <1>5

\* A publication is queued, drained or revoked.
LEMMA PublicationsKeep ==
  ASSUME IInv, Publish \/ Drain \/ Revoke
  PROVE  IInv'
<1> USE DEF IInv, owners, pool, counts
<1>1. UNCHANGED <<life, starter, sweep, res, active, failed, att, jobs, busy, errors, panics>>
  BY DEF Publish, Drain, Revoke
<1>2. Position' /\ Holdings' /\ Ordered' /\ Attempts' /\ LaterFirst'
  BY <1>1, OwnersKept
<1>3. Phases'
  BY <1>1 DEF Phases
<1>4. pub \in PubType /\ pubs \in Nat /\ pub.queue \in Nat /\ pub.queue <= pubs /\ pubs <= MaxPubs
  BY HostAssumption DEF TypeOK, PubType, Counted
<1>5. \A e \in Ext : Touched(e)' = Touched(e)
  BY <1>1 DEF Touched
<1>6. CASE Publish
  <2>1. /\ pub' = [pub EXCEPT !.queue = pub.queue + 1, !.draining = TRUE]
        /\ pubs' = pubs + 1 /\ pubs < MaxPubs /\ life = "running" /\ UNCHANGED revoked
    BY <1>6 DEF Publish
  <2>2. pub.queue + 1 \in 0..MaxPubs /\ pubs' \in 0..MaxPubs
    BY <1>4, <2>1, HostAssumption
  <2>3. pub' \in PubType /\ pub'.queue = pub.queue + 1
    BY <1>4, <2>1, <2>2 DEF PubType
  <2>4. TypeOK' /\ Counted'
    BY <1>1, <1>4, <2>1, <2>2, <2>3 DEF TypeOK, Counted, PubType
  <2>5. pub'.draining
    BY <1>4, <2>1 DEF PubType
  <2>6. Quiet'
    BY <1>1, <1>5, <2>1, <2>5 DEF Quiet
  <2> QED BY <1>2, <1>3, <2>4, <2>6
<1>7. CASE Drain
  <2>1. /\ pub.draining /\ UNCHANGED <<pubs, revoked>>
        /\ \/ pub' = [pub EXCEPT !.calling = FALSE]
           \/ pub.queue > 0 /\ pub' = [pub EXCEPT !.queue = pub.queue - 1, !.calling = TRUE]
           \/ ~pub.calling /\ pub' = [pub EXCEPT !.draining = FALSE]
    BY <1>7 DEF Drain
  <2>2. pub.queue > 0 => pub.queue - 1 \in 0..MaxPubs
    BY <1>4, HostAssumption
  <2>3. pub' \in PubType /\ pub'.queue <= pubs
    <3>1. CASE pub' = [pub EXCEPT !.calling = FALSE]
      BY <1>4, <3>1 DEF PubType
    <3>2. CASE pub.queue > 0 /\ pub' = [pub EXCEPT !.queue = pub.queue - 1, !.calling = TRUE]
      <4>1. pub' \in PubType /\ pub'.queue = pub.queue - 1
        BY <1>4, <2>2, <3>2 DEF PubType
      <4> QED BY <1>4, <4>1
    <3>3. CASE pub' = [pub EXCEPT !.draining = FALSE]
      BY <1>4, <3>3 DEF PubType
    <3> QED BY <2>1, <3>1, <3>2, <3>3
  <2>4. TypeOK' /\ Counted'
    BY <1>1, <2>1, <2>3 DEF TypeOK, Counted, PubType
  <2>5. pub'.calling => pub'.draining
    BY <1>4, <2>1 DEF PubType, Quiet
  <2>6. Quiet'
    BY <1>1, <1>5, <2>1, <2>5 DEF Quiet
  <2> QED BY <1>2, <1>3, <2>4, <2>6
<1>8. CASE Revoke
  <2>1. /\ revoked' = TRUE /\ pubs' = pubs
        /\ \E left \in {0, pub.queue} : pub' = [pub EXCEPT !.accepting = FALSE, !.queue = left]
    BY <1>8 DEF Revoke
  <2>2. PICK left \in {0, pub.queue} : pub' = [pub EXCEPT !.accepting = FALSE, !.queue = left]
    BY <2>1
  <2>3. left \in 0..MaxPubs /\ left <= pubs
    BY <1>4, HostAssumption
  <2>4. /\ pub' \in PubType /\ pub'.queue = left
        /\ pub'.draining = pub.draining /\ pub'.calling = pub.calling
    BY <1>4, <2>2, <2>3 DEF PubType
  <2>5. TypeOK' /\ Counted'
    BY <1>1, <2>1, <2>3, <2>4 DEF TypeOK, Counted, PubType
  <2>6. Quiet'
    BY <1>1, <1>5, <2>4 DEF Quiet
  <2> QED BY <1>2, <1>3, <2>5, <2>6
<1> QED BY <1>6, <1>7, <1>8

\* Every step of the host keeps the invariant.
LEMMA IInvKept == IInv /\ [Next]_vars => IInv'
<1> SUFFICES ASSUME IInv, [Next]_vars PROVE IInv'
  OBVIOUS
<1>1. CASE Progress
  BY <1>1, InitBeginsKeeps, InitSucceedsKeeps, CleanupBeginsKeeps, CleanupEndsKeeps, StartEndsKeep,
     QuiesceKeeps, SweepBeginsKeeps, SweepEndsKeeps DEF Progress
<1>2. CASE SeedBegins \/ SeedEnds
  BY <1>2, SeedKeeps
<1>3. CASE \E strict \in BOOLEAN : CallStart(strict)
  BY <1>3, CallStartKeeps
<1>4. CASE CallerGone
  BY <1>4, CallerGoneKeeps
<1>5. CASE \E out \in {"failed", "skipped", "cancelled"} : InitFails(out)
  BY <1>5, InitFailsKeeps
<1>6. CASE CallShutdown
  BY <1>6, CallShutdownKeeps
<1>7. CASE WorkerTakes
  BY <1>7, WorkerTakesKeeps
<1>8. CASE \E e \in Ext : WorkerEnds(e) \/ WorkerPanics(e)
  BY <1>8, WorkerEndsKeeps, WorkerPanicsKeeps
<1>9. CASE Publish \/ Drain \/ Revoke
  BY <1>9, PublicationsKeep
<1>10. CASE UNCHANGED vars
  BY <1>10 DEF vars, owners, pool, counts, IInv, TypeOK, Phases, Position, Holdings, Ordered, Attempts,
               Working, Quiet, LaterFirst, Touched, Counted
<1> QED BY <1>1, <1>2, <1>3, <1>4, <1>5, <1>6, <1>7, <1>8, <1>9, <1>10 DEF Next

\* A host that has not been started satisfies the invariant.
LEMMA IInvInit == Init => IInv
<1> SUFFICES ASSUME Init PROVE IInv
  OBVIOUS
<1> USE DEF Init
<1>1. TypeOK
  <2>1. starter \in [at : {"none", "next", "init", "cleanup", "cleaning", "accept", "run", "report", "done"},
                     i : 1..(N + 1), strict : BOOLEAN, caller : BOOLEAN,
                     out : {"ok", "failed", "skipped", "cancelled"}]
    BY HostAssumption
  <2>2. pub \in PubType
    BY HostAssumption DEF PubType
  <2>3. /\ active \in Seq(Ext) /\ failed \in Seq(Ext) /\ jobs \in Seq(Ext) /\ Len(jobs) <= QueueCap
        /\ errors \in 0..MaxErrors /\ panics \in 0..MaxPanics /\ pubs \in 0..MaxPubs
    BY HostAssumption
  <2> QED BY <2>1, <2>2, <2>3 DEF TypeOK, PubType
<1>2. Range(active) = {} /\ Range(failed) = {} /\ Range(jobs) = {} /\ IsInjective(jobs)
  BY DEF Range, IsInjective
<1>3. Phases /\ Position /\ Counted
  BY DEF Phases, Starting, Position, Counted
<1>4. Holdings
  BY <1>2, ExtNat DEF Holdings
<1>5. Ordered
  BY <1>2 DEF Ordered, Increasing, Starting
<1>6. Attempts
  BY <1>2 DEF Attempts, Working
<1>7. Quiet /\ LaterFirst
  BY DEF Quiet, LaterFirst, Touched
<1> QED BY <1>1, <1>3, <1>4, <1>5, <1>6, <1>7 DEF IInv

\* The invariant holds in every state of the host.
THEOREM Invariance == Spec => []IInv
  BY IInvInit, IInvKept, PTL DEF Spec

-----------------------------------------------------------------------------
(* What follows                                                               *)

\* The state of the extension host has its type.
THEOREM TypeCorrect == Spec => []TypeOK
<1>1. IInv => TypeOK
  BY DEF IInv
<1> QED BY <1>1, Invariance, PTL

\* shutdown_active: an extension that was up is shut down only when every later
\* one, up or left half-initialised, has been, for any number of extensions.
THEOREM ShutdownInReverse == Spec => []DependentsFirst
<1>1. IInv => DependentsFirst
  BY DEF IInv, DependentsFirst, LaterFirst, Touched, Attempts
<1> QED BY <1>1, Invariance, PTL

\* stop_and_wait: no publication callback runs once an extension it may call
\* into is being shut down.
THEOREM CallbacksEndFirst == Spec => []QuietBeforeShutdown
<1>1. IInv => QuietBeforeShutdown
  BY DEF IInv, QuietBeforeShutdown, Quiet, Touched, Attempts
<1> QED BY <1>1, Invariance, PTL

\* A stopped host has no shutdown callback left and holds nothing an init acquired.
THEOREM StoppedIsReleased == Spec => []StoppedMeansReleased
<1>1. IInv => StoppedMeansReleased
  <2> SUFFICES ASSUME IInv, life = "stopped"
               PROVE  Working = {} /\ \A e \in Ext : res[e] \in {"no", "down", "gone"}
    BY DEF StoppedMeansReleased
  <2>1. Range(active) = {} /\ Range(failed) = {} /\ starter.at \notin Starting
    BY DEF IInv, Phases, Range
  <2>2. \A e \in Ext : res[e] \in {"no", "down", "gone"}
    BY <2>1 DEF IInv, TypeOK, Holdings, Starting
  <2>3. Working \subseteq Ext
    BY DEF IInv, TypeOK, Working, Range
  <2> QED BY <2>2, <2>3 DEF IInv, Attempts
<1> QED BY <1>1, Invariance, PTL

\* start_shutdown_attempt: however waiters time out and retry, an extension has
\* one shutdown callback at a time, and none once it has succeeded.
THEOREM SharedAttempt == Spec => []OneShutdownAtATime
<1>1. IInv => OneShutdownAtATime
  <2>1. IInv => Working \subseteq Ext
    BY DEF IInv, TypeOK, Working, Range
  <2> QED BY <2>1 DEF IInv, OneShutdownAtATime, Attempts
<1> QED BY <1>1, Invariance, PTL
=============================================================================
