------------------------- MODULE SshCallbacksProofs -------------------------
(***************************************************************************)
(* Proofs about SshCallbacks, for any number of profiles, keys,            *)
(* principals, producers, jobs, generations and workers.                   *)
(***************************************************************************)
EXTENDS SshCallbacks, FiniteSetTheorems, SequenceTheorems, TLAPS

-----------------------------------------------------------------------------
(* The parts of the inductive invariant, IInv *)

Phases == {"none", "live", "called", "flagged", "aborted", "done", "retired"}
LoopAt == {"none", "start", "next", "acquire", "pop", "admit", "send", "parked", "body", "closing", "gone"}
JobAt == {"none", "queued", "popped", "spawned", "started", "ended"}

Disp == [current : 0..MaxGens, latched : SUBSET Keys, blocked : BOOLEAN]
Gen == [phase : Phases, key : Keys \cup {0}, profile : Profiles \cup {0}, prev : 0..MaxGens, own : BOOLEAN]
Loop == [at : LoopAt, job : Jobs \cup {0}, permit : Permits]
Job == [at : JobAt, gen : 0..MaxGens, who : Principals \cup {0}, permit : Permits]
Sched == [available : 0..GlobalWorkers, order : Seq(Gens), granted : [Gens -> Nat], tombs : SUBSET Gens]

Types ==
  /\ disp \in [Profiles -> Disp] /\ gen \in [Gens -> Gen] /\ loop \in [Gens -> Loop]
  /\ order \in [Gens -> Seq(Principals)] /\ queue \in [Gens -> Seq(Jobs)] /\ job \in [Jobs -> Job]
  /\ aborted \subseteq Jobs /\ inFlight \in [Gens -> SUBSET Jobs]
  /\ enq \in [Producers -> 0..MaxGens]
  /\ sched \in Sched /\ wake \in [Gens -> BOOLEAN] /\ calls \in Nat

\* A live generation is the current one of its profile, which has neither been
\* blocked nor had the generation's key latched since it was admitted.
Voice ==
  /\ \A g \in Gens : Phase(g) = "live" =>
       /\ disp[gen[g].profile].current = g
       /\ ~disp[gen[g].profile].blocked /\ gen[g].key \notin disp[gen[g].profile].latched
  /\ \A p \in Profiles : disp[p].current # 0 => Phase(disp[p].current) \notin {"none", "retired"}
  /\ \A g \in Gens : Phase(g) \notin {"none", "retired"} => gen[g].key \in Keys /\ gen[g].profile \in Profiles

\* Where a loop may be while its generation is in a phase, and what it holds.
LoopFits(g) ==
  /\ Phase(g) = "none" => loop[g].at = "none"
  /\ loop[g].at \in {"closing", "gone"} => Phase(g) \notin {"none", "live", "called"}
  /\ loop[g].at \notin {"none", "gone"} => Phase(g) \notin {"none", "retired"}
  /\ loop[g].permit # "none" => loop[g].at \in {"pop", "admit", "send"}
  /\ loop[g].at = "admit" =>
       loop[g].job \in Jobs /\ job[loop[g].job].at = "popped" /\ job[loop[g].job].gen = g
  /\ loop[g].at = "send" =>
       loop[g].job \in Jobs /\ job[loop[g].job].at \in {"spawned", "ended"} /\ job[loop[g].job].gen = g
Loops == \A g \in Gens : LoopFits(g)

\* A queue holds queued jobs of its own generation, each once; only a started
\* task has a permit.
Queues ==
  /\ \A g \in Gens : IsInjective(queue[g])
  /\ \A g \in Gens : \A j \in Queued(g) : job[j].at = "queued" /\ job[j].gen = g
  /\ \A j \in Jobs : job[j].permit # "none" => job[j].at = "started"

\* Each task that has not ended is told to stop, or revoke will find it.
Silence ==
  \A g \in Gens : \A j \in Unfinished(g) :
    j \in aborted \/ (j \in inFlight[g] /\ Phase(g) \notin {"aborted", "done", "retired"})

\* The tombstones are those of the cancelled generations; who stands in line
\* stands there once, has no promise yet and has not been cancelled.
Line ==
  /\ sched.tombs = {g \in Gens : Phase(g) = "done"}
  /\ IsInjective(sched.order)
  /\ \A g \in Range(sched.order) : sched.granted[g] = 0 /\ g \in Alive
  /\ \A g \in Gens : sched.granted[g] \in 0..1

\* The two parts of CallbackNotForgotten.
Watched ==
  \A g \in Gens : Phase(g) = "live" /\ loop[g].at = "parked" /\ Queued(g) # {} =>
    wake[g] \/ Tasks(g) # {} \/ g \in Range(sched.order)
Fair ==
  \A g \in Gens : IsInjective(order[g]) /\ Range(order[g]) = {job[j].who : j \in Queued(g)}


-----------------------------------------------------------------------------
(* What Kept returns *)

\* The positions I of a sequence are ranked from 1 to Cardinality(I), each rank
\* being that of one position.
LEMMA Ranks ==
  ASSUME NEW n \in Nat, NEW I \in SUBSET (1..n)
  PROVE  /\ Cardinality(I) \in Nat
         /\ \A k \in 1..Cardinality(I) : \E i \in I : Cardinality({h \in I : h <= i}) = k
         /\ \A i \in I : Cardinality({h \in I : h <= i}) \in 1..Cardinality(I)
         /\ \A i, m \in I : Cardinality({h \in I : h <= i}) = Cardinality({h \in I : h <= m}) => i = m
<1> DEFINE Upto(i) == {h \in I : h <= i}
           rank == [i \in I |-> Cardinality(Upto(i))]
<1>1. IsFiniteSet(I) /\ Cardinality(I) \in Nat
  <2>1. IsFiniteSet(1..n) BY FS_Interval
  <2> QED BY <2>1, FS_Subset, FS_CardinalityType
<1>2. ASSUME NEW i \in I PROVE IsFiniteSet(Upto(i)) /\ Cardinality(Upto(i)) \in 1..Cardinality(I)
  <2>1. Upto(i) \in SUBSET I /\ i \in Upto(i) OBVIOUS
  <2>2. IsFiniteSet(Upto(i)) /\ Cardinality(Upto(i)) <= Cardinality(I) BY <1>1, <2>1, FS_Subset
  <2>3. Cardinality(Upto(i)) \in Nat /\ Cardinality(Upto(i)) # 0
    BY <2>1, <2>2, FS_CardinalityType, FS_EmptySet
  <2> QED BY <1>1, <2>2, <2>3
<1>3. ASSUME NEW i \in I, NEW m \in I, i < m PROVE Cardinality(Upto(i)) # Cardinality(Upto(m))
  <2>1. \A h \in I : h \in Int OBVIOUS
  <2>2. ASSUME NEW h \in Upto(i) PROVE h \in Upto(m) BY <1>3, <2>1
  <2>3. m \in Upto(m) /\ m \notin Upto(i) BY <1>3, <2>1
  <2> HIDE DEF Upto
  <2> QED BY <1>2, <2>2, <2>3, FS_Subset
<1>4. ASSUME NEW i \in I, NEW m \in I, Cardinality(Upto(i)) = Cardinality(Upto(m)) PROVE i = m
  <2>1. i \in Int /\ m \in Int OBVIOUS
  <2> HIDE DEF Upto
  <2> QED BY <1>3, <1>4, <2>1
<1> HIDE DEF Upto
<1>5. rank \in Injection(I, 1..Cardinality(I)) BY <1>2, <1>4 DEF Injection, IsInjective
<1>6. IsFiniteSet(1..Cardinality(I)) /\ Cardinality(1..Cardinality(I)) = Cardinality(I)
  BY <1>1, FS_Interval
<1>7. rank \in Surjection(I, 1..Cardinality(I)) BY <1>5, <1>6, FS_Injection
<1>8. \A k \in 1..Cardinality(I) : \E i \in I : rank[i] = k BY <1>7 DEF Surjection
<1>9. \A k \in 1..Cardinality(I) : \E i \in I : Cardinality(Upto(i)) = k BY <1>8
<1> QED BY <1>1, <1>2, <1>4, <1>9 DEF Upto

\* Kept(s, S) has the elements of s that are in S, each once if s has.
LEMMA KeptIs ==
  ASSUME NEW T, NEW s \in Seq(T), IsInjective(s), NEW S
  PROVE  /\ Kept(s, S) \in Seq(T) /\ IsInjective(Kept(s, S))
         /\ Range(Kept(s, S)) = Range(s) \cap S
<1> DEFINE I == {i \in DOMAIN s : s[i] \in S}
           Rank(i) == Cardinality({h \in I : h <= i})
           Place(k) == CHOOSE i \in I : Rank(i) = k
<1>1. Len(s) \in Nat /\ DOMAIN s = 1..Len(s) /\ I \in SUBSET (1..Len(s)) OBVIOUS
<1>2. /\ Cardinality(I) \in Nat
      /\ \A k \in 1..Cardinality(I) : \E i \in I : Rank(i) = k
      /\ \A i \in I : Rank(i) \in 1..Cardinality(I)
      /\ \A i, m \in I : Rank(i) = Rank(m) => i = m
  <2> HIDE DEF I
  <2> QED BY <1>1, Ranks
<1>3. Kept(s, S) = [k \in 1..Cardinality(I) |-> s[Place(k)]] BY DEF Kept
<1> HIDE DEF Rank
<1>4. \A k \in 1..Cardinality(I) : Place(k) \in I /\ Rank(Place(k)) = k BY <1>2
<1>5. \A i \in I : Rank(i) \in 1..Cardinality(I) /\ Place(Rank(i)) = i BY <1>2, <1>4
<1> HIDE DEF Place
<1>6. \A i \in I : s[i] \in T /\ s[i] \in S /\ i \in DOMAIN s BY <1>1
<1>7. Kept(s, S) \in Seq(T) BY <1>2, <1>3, <1>4, <1>6
<1>8. IsInjective(Kept(s, S))
  <2>1. ASSUME NEW k \in 1..Cardinality(I), NEW m \in 1..Cardinality(I), s[Place(k)] = s[Place(m)] PROVE k = m
    <3>1. Place(k) = Place(m) BY <1>4, <1>6, <2>1 DEF IsInjective
    <3> QED BY <1>4, <3>1
  <2> HIDE DEF I
  <2> QED BY <1>3, <2>1 DEF IsInjective
<1>9. Range(Kept(s, S)) = Range(s) \cap S
  <2>1. Range(Kept(s, S)) = {s[Place(k)] : k \in 1..Cardinality(I)} BY <1>3 DEF Range
  <2>2. Range(s) \cap S = {s[i] : i \in I} BY DEF Range
  <2> HIDE DEF I
  <2> QED BY <2>1, <2>2, <1>4, <1>5
<1> QED BY <1>7, <1>8, <1>9

-----------------------------------------------------------------------------
(* Sequences without repetition *)

\* What is left of a queue once its n oldest jobs have expired.
LEMMA SuffixIs ==
  ASSUME NEW T, NEW s \in Seq(T), IsInjective(s), NEW n \in 0..Len(s)
  PROVE  /\ SubSeq(s, n + 1, Len(s)) \in Seq(T) /\ IsInjective(SubSeq(s, n + 1, Len(s)))
         /\ Range(SubSeq(s, n + 1, Len(s))) \subseteq Range(s)
         /\ Range(SubSeq(s, n + 1, Len(s))) = Range(s) \ {s[i] : i \in 1..n}
         /\ Len(SubSeq(s, n + 1, Len(s))) = Len(s) - n
<1> DEFINE r == SubSeq(s, n + 1, Len(s))
<1>1. r \in Seq(T) /\ Len(r) = Len(s) - n /\ \A i \in 1..(Len(s) - n) : r[i] = s[n + i]
  BY SubSeqProperties
<1> HIDE DEF r
<1>2. DOMAIN r = 1..(Len(s) - n) /\ DOMAIN s = 1..Len(s) BY <1>1
<1>3. IsInjective(r)
  <2> SUFFICES ASSUME NEW i \in 1..(Len(s) - n), NEW k \in 1..(Len(s) - n), r[i] = r[k] PROVE i = k
    BY <1>2 DEF IsInjective
  <2>1. n + i \in DOMAIN s /\ n + k \in DOMAIN s /\ s[n + i] = s[n + k] BY <1>1, <1>2
  <2>2. n + i = n + k BY <2>1 DEF IsInjective
  <2> QED BY <2>2
<1>4. ASSUME NEW x \in Range(r) PROVE x \in Range(s) /\ x \notin {s[i] : i \in 1..n}
  <2>1. PICK k \in 1..(Len(s) - n) : x = s[n + k] BY <1>1, <1>2 DEF Range
  <2> QED BY <1>2, <2>1 DEF Range, IsInjective
<1>5. ASSUME NEW x \in Range(s), x \notin {s[i] : i \in 1..n} PROVE x \in Range(r)
  <2>1. PICK i \in 1..Len(s) : x = s[i] BY <1>2 DEF Range
  <2>2. i - n \in 1..(Len(s) - n) BY <1>5, <2>1
  <2>3. r[i - n] = x BY <1>1, <2>1, <2>2
  <2> QED BY <1>2, <2>2, <2>3 DEF Range
<1> QED BY <1>1, <1>3, <1>4, <1>5 DEF r

\* An element at the end, and one from the front.
LEMMA AppendIs ==
  ASSUME NEW T, NEW s \in Seq(T), IsInjective(s), NEW x \in T, x \notin Range(s)
  PROVE  /\ Append(s, x) \in Seq(T) /\ IsInjective(Append(s, x))
         /\ Range(Append(s, x)) = Range(s) \cup {x}
         /\ s \o <<x>> = Append(s, x)
<1> DEFINE r == Append(s, x)
<1>1. r \in Seq(T) /\ Len(r) = Len(s) + 1 /\ r[Len(s) + 1] = x /\ \A i \in 1..Len(s) : r[i] = s[i]
  BY AppendProperties
<1>2. s \o <<x>> = r BY DEF r
<1> HIDE DEF r
<1>3. DOMAIN r = 1..(Len(s) + 1) /\ DOMAIN s = 1..Len(s) /\ Len(s) \in Nat BY <1>1
<1>4. IsInjective(r)
  <2> SUFFICES ASSUME NEW i \in 1..(Len(s) + 1), NEW k \in 1..(Len(s) + 1), r[i] = r[k] PROVE i = k
    BY <1>3 DEF IsInjective
  <2>1. \A m \in 1..Len(s) : r[m] \in Range(s) BY <1>1, <1>3 DEF Range
  <2>2. CASE i \in 1..Len(s) /\ k \in 1..Len(s) BY <1>1, <1>3, <2>2 DEF IsInjective
  <2>3. CASE i = Len(s) + 1 BY <1>1, <2>1, <2>3
  <2>4. CASE k = Len(s) + 1 BY <1>1, <2>1, <2>4
  <2> QED BY <1>3, <2>2, <2>3, <2>4
<1>5. Range(r) = Range(s) \cup {x}
  <2>1. ASSUME NEW y \in Range(r) PROVE y \in Range(s) \cup {x} BY <1>1, <1>3 DEF Range
  <2>2. ASSUME NEW y \in Range(s) PROVE y \in Range(r) BY <1>1, <1>3 DEF Range
  <2>3. x \in Range(r) BY <1>1, <1>3 DEF Range
  <2> QED BY <2>1, <2>2, <2>3
<1> QED BY <1>1, <1>2, <1>4, <1>5 DEF r

\* The rest of a sequence without its first element.
LEMMA TailIs ==
  ASSUME NEW T, NEW s \in Seq(T), IsInjective(s), s # <<>>
  PROVE  /\ Head(s) \in Range(s) /\ Head(s) \in T
         /\ Tail(s) \in Seq(T) /\ IsInjective(Tail(s))
         /\ Range(Tail(s)) = Range(s) \ {Head(s)}
<1> DEFINE r == Tail(s)
<1>1. /\ r \in Seq(T) /\ Len(r) = Len(s) - 1 /\ Len(s) >= 1 /\ Len(s) \in Nat
      /\ \A i \in 1..(Len(s) - 1) : r[i] = s[i + 1]
      /\ Head(s) = s[1]
  BY HeadTailProperties
<1> HIDE DEF r
<1>2. DOMAIN r = 1..(Len(s) - 1) /\ DOMAIN s = 1..Len(s) BY <1>1
<1>3. Head(s) \in Range(s) /\ Head(s) \in T BY <1>1, <1>2 DEF Range
<1>4. IsInjective(r) BY <1>1, <1>2, SMTT(30) DEF IsInjective
<1>5. ASSUME NEW x \in Range(r) PROVE x \in Range(s) /\ x # Head(s)
  <2>1. PICK k \in 1..(Len(s) - 1) : x = s[k + 1] BY <1>1, <1>2 DEF Range
  <2>2. k + 1 \in DOMAIN s /\ 1 \in DOMAIN s /\ k + 1 # 1 BY <1>1, <1>2
  <2>3. x # s[1] BY <2>1, <2>2 DEF IsInjective
  <2> QED BY <1>1, <2>1, <2>2, <2>3 DEF Range
<1>6. ASSUME NEW x \in Range(s), x # Head(s) PROVE x \in Range(r)
  <2>1. PICK i \in 1..Len(s) : x = s[i] BY <1>2 DEF Range
  <2>2. i - 1 \in 1..(Len(s) - 1) BY <1>1, <1>6, <2>1
  <2>3. r[i - 1] = x BY <1>1, <2>1, <2>2
  <2> QED BY <1>2, <2>2, <2>3 DEF Range
<1> QED BY <1>1, <1>3, <1>4, <1>5, <1>6 DEF r

-----------------------------------------------------------------------------
(* The fair queue: what is fresh in it *)

\* What the assumption on the constants gives.
LEMMA Constants ==
  /\ MaxGens \in Nat /\ Workers \in Nat /\ Workers >= 1 /\ GlobalWorkers \in Nat /\ GlobalWorkers >= 1
  /\ Gens \subseteq Nat /\ 0 \notin Gens /\ Gens = 0..MaxGens \ {0} /\ IsFiniteSet(Gens) /\ IsFiniteSet(Jobs)
<1>1. IsFiniteSet(1..MaxGens) BY CallbackAssumption, FS_Interval DEF CallbackAssumption
<1> QED BY <1>1, CallbackAssumption DEF CallbackAssumption, Gens

\* The fresh jobs of a queue, and those of one principal among them.
LEMMA FreshIs ==
  ASSUME Types, Queues, NEW g \in Gens, NEW n \in Nat, n <= Len(queue[g])
  PROVE  /\ Fresh(g, n) \in Seq(Jobs) /\ IsInjective(Fresh(g, n)) /\ Range(Fresh(g, n)) \subseteq Queued(g)
         /\ \A w : /\ Of(g, n, w) \in Seq(Jobs) /\ IsInjective(Of(g, n, w))
                   /\ Range(Of(g, n, w)) = {j \in Range(Fresh(g, n)) : job[j].who = w}
<1>1. queue[g] \in Seq(Jobs) /\ IsInjective(queue[g]) /\ n \in 0..Len(queue[g]) BY DEF Types, Queues
<1>2. Fresh(g, n) \in Seq(Jobs) /\ IsInjective(Fresh(g, n)) /\ Range(Fresh(g, n)) \subseteq Queued(g)
  BY <1>1, SuffixIs DEF Fresh, Queued
<1>3. Range(Fresh(g, n)) \subseteq Jobs BY <1>2 DEF Range
<1>4. ASSUME NEW w
      PROVE  /\ Of(g, n, w) \in Seq(Jobs) /\ IsInjective(Of(g, n, w))
             /\ Range(Of(g, n, w)) = {j \in Range(Fresh(g, n)) : job[j].who = w}
  <2> DEFINE S == {j \in Jobs : job[j].who = w}
  <2>1. Range(Fresh(g, n)) \cap S = {j \in Range(Fresh(g, n)) : job[j].who = w} BY <1>3
  <2>2. Of(g, n, w) = Kept(Fresh(g, n), S) BY DEF Of
  <2> HIDE DEF S
  <2> QED BY <1>2, <2>1, <2>2, KeptIs
<1> QED BY <1>2, <1>4

\* A sequence is empty if it has no elements.
LEMMA NoElements == ASSUME NEW T, NEW s \in Seq(T) PROVE s = <<>> <=> Range(s) = {}
<1>1. ASSUME s # <<>> PROVE Range(s) # {} 
  <2>1. Len(s) >= 1 /\ Len(s) \in Nat /\ DOMAIN s = 1..Len(s) BY <1>1
  <2>2. s[1] \in Range(s) BY <2>1 DEF Range
  <2> QED BY <2>2
<1>2. ASSUME s = <<>> PROVE Range(s) = {} BY <1>2 DEF Range
<1> QED BY <1>1, <1>2

\* The principals with fresh jobs are in the line, each once.
LEMMA FreshOrderIs ==
  ASSUME Types, Queues, Fair, NEW g \in Gens, NEW n \in Nat, n <= Len(queue[g])
  PROVE  /\ FreshOrder(g, n) \in Seq(Principals) /\ IsInjective(FreshOrder(g, n))
         /\ Range(FreshOrder(g, n)) = {job[j].who : j \in Range(Fresh(g, n))}
<1> DEFINE S == {w \in Principals : Of(g, n, w) # <<>>}
           R == Range(Fresh(g, n))
<1>1. order[g] \in Seq(Principals) /\ IsInjective(order[g]) BY DEF Types, Fair
<1>2. Range(order[g]) \subseteq Principals BY <1>1 DEF Range
<1>3. Range(order[g]) = {job[j].who : j \in Queued(g)} BY DEF Fair
<1>4. R \subseteq Queued(g) BY FreshIs
<1>5. \A w : Of(g, n, w) # <<>> <=> \E j \in R : job[j].who = w BY FreshIs, NoElements
<1>6. FreshOrder(g, n) = Kept(order[g], S) BY DEF FreshOrder
<1>7. Range(order[g]) \cap S = {job[j].who : j \in R}
  <2> HIDE DEF R
  <2> QED BY <1>2, <1>3, <1>4, <1>5
<1> HIDE DEF S
<1> QED BY <1>1, <1>6, <1>7, KeptIs

-----------------------------------------------------------------------------
(* The worker scheduler *)

\* Line, of any scheduler state and any set of generations that may be in line.
LineOf(s, A) ==
  /\ IsInjective(s.order)
  /\ \A g \in Range(s.order) : s.granted[g] = 0 /\ g \in A
  /\ \A g \in Gens : s.granted[g] \in 0..1

\* Those a worker is promised to.
Owed(s, A) == {g \in A : s.granted[g] = 1}

\* The smaller of two numbers.
LEMMA MinIs == \A m, n \in Nat : Min({m, n}) = IF m <= n THEN m ELSE n
BY DEF Min

\* Those a worker is promised to are finitely many.
LEMMA OwedIs ==
  ASSUME NEW A \in SUBSET Gens, NEW s PROVE IsFiniteSet(Owed(s, A)) /\ Cardinality(Owed(s, A)) \in Nat
<1>1. Owed(s, A) \in SUBSET Gens BY DEF Owed
<1> QED BY <1>1, Constants, FS_Subset, FS_CardinalityType

\* As many are promised a worker as the count says.
LEMMA PromisedIs ==
  ASSUME NEW s \in Sched, IsInjective(s.order), NEW n \in 0..Len(s.order)
  PROVE  /\ Promised(s, n) \subseteq Range(s.order) /\ Promised(s, n) \subseteq Gens
         /\ IsFiniteSet(Promised(s, n)) /\ Cardinality(Promised(s, n)) = n
<1> DEFINE f == [i \in 1..n |-> s.order[i]]
           P == Promised(s, n)
<1>1. s.order \in Seq(Gens) /\ 1..n \subseteq DOMAIN s.order BY DEF Sched
<1>2. P \subseteq Range(s.order) /\ P \subseteq Gens BY <1>1 DEF Promised, Range
<1>3. f \in Bijection(1..n, P)
  BY <1>1 DEF Promised, Bijection, Injection, Surjection, IsInjective
<1>4. ExistsBijection(1..n, P) BY <1>3 DEF ExistsBijection
<1>5. n \in Nat /\ IsFiniteSet(P) BY <1>2, Constants, FS_Subset
<1>6. Cardinality(P) = n BY <1>4, <1>5, FS_CountingElements
<1> QED BY <1>2, <1>5, <1>6

\* The first n in line leave it with a promise each.
LEMMA GrantIs ==
  ASSUME NEW s \in Sched, NEW A \in SUBSET Gens, LineOf(s, A), NEW n \in 0..Len(s.order)
  PROVE  /\ Grant(s, n) \in Sched /\ LineOf(Grant(s, n), A) /\ Grant(s, n).tombs = s.tombs
         /\ Promised(s, n) \subseteq Gens
         /\ Range(Grant(s, n).order) = Range(s.order) \ Promised(s, n)
         /\ Len(Grant(s, n).order) = Len(s.order) - n
         /\ Cardinality(Owed(Grant(s, n), A)) = Cardinality(Owed(s, A)) + n
         /\ Grant(s, n).available = IF s.available > n THEN s.available - n ELSE 0
<1> DEFINE t == Grant(s, n)
           P == Promised(s, n)
           rest == SubSeq(s.order, n + 1, Len(s.order))
           granted == [g \in Gens |-> s.granted[g] + IF g \in P THEN 1 ELSE 0]
           left == IF s.available > n THEN s.available - n ELSE 0
<1>1. s.available \in 0..GlobalWorkers /\ s.order \in Seq(Gens) /\ s.granted \in [Gens -> Nat] /\ s.tombs \in SUBSET Gens
  BY DEF Sched
<1>2. /\ rest \in Seq(Gens) /\ IsInjective(rest) /\ Len(rest) = Len(s.order) - n
      /\ Range(rest) = Range(s.order) \ P
  <2> DEFINE o == s.order
  <2>1. o \in Seq(Gens) /\ IsInjective(o) /\ n \in 0..Len(o) /\ P = {o[i] : i \in 1..n}
    BY <1>1 DEF LineOf, Promised
  <2> HIDE DEF o, P
  <2>2. LET r == SubSeq(o, n + 1, Len(o)) IN
          r \in Seq(Gens) /\ IsInjective(r) /\ Len(r) = Len(o) - n /\ Range(r) = Range(o) \ P
    BY <2>1, SuffixIs, SMTT(30)
  <2> QED BY <2>2 DEF o
<1>3. P \subseteq Range(s.order) /\ P \subseteq Gens /\ IsFiniteSet(P) /\ Cardinality(P) = n
  BY PromisedIs DEF LineOf
<1>4. t = [available |-> left, order |-> rest, granted |-> granted, tombs |-> s.tombs]
  <2>1. s = [available |-> s.available, order |-> s.order, granted |-> s.granted, tombs |-> s.tombs]
    BY DEF Sched
  <2> HIDE DEF P
  <2>2. t = [s EXCEPT !.order = rest, !.available = left, !.granted = granted] BY DEF Grant, P
  <2> HIDE DEF t, rest, granted, left
  <2> QED BY <2>1, <2>2
<1> HIDE DEF P, rest, t
<1>5. granted \in [Gens -> Nat] BY <1>1
<1>6. left \in 0..GlobalWorkers BY <1>1, Constants
<1> HIDE DEF left
<1>7. t \in Sched BY <1>1, <1>2, <1>4, <1>5, <1>6 DEF Sched
<1>8. \A g \in P : s.granted[g] = 0 /\ g \in A BY <1>3 DEF LineOf
<1>9. \A g \in Gens : t.granted[g] = IF g \in P THEN 1 ELSE s.granted[g]
  BY <1>1, <1>3, <1>4, <1>8
<1>10. t.order = rest /\ t.tombs = s.tombs /\ t.available = left BY <1>4
<1>11. LineOf(t, A)
  <2>1. \A g \in Range(t.order) : g \in Range(s.order) /\ g \notin P /\ g \in Gens BY <1>2, <1>10 DEF Range
  <2>2. \A g \in Range(t.order) : t.granted[g] = 0 /\ g \in A BY <1>9, <2>1 DEF LineOf
  <2>3. \A g \in Gens : t.granted[g] \in 0..1 BY <1>9 DEF LineOf
  <2> QED BY <1>2, <1>10, <2>2, <2>3 DEF LineOf
<1>12. Owed(t, A) = Owed(s, A) \cup P /\ Owed(s, A) \cap P = {} BY <1>8, <1>9 DEF Owed
<1>13. Cardinality(Owed(t, A)) = Cardinality(Owed(s, A)) + n
  <2> DEFINE O == Owed(s, A)
  <2>1. IsFiniteSet(O) /\ Cardinality(O) \in Nat /\ O \cap P = {} BY <1>12, OwedIs
  <2> HIDE DEF O
  <2>2. Cardinality(O \cup P) = Cardinality(O) + Cardinality(P) - Cardinality(O \cap P)
    BY <1>3, <2>1, FS_Union
  <2>3. Cardinality(O \cap P) = 0 BY <2>1, FS_EmptySet
  <2> QED BY <1>3, <1>12, <2>1, <2>2, <2>3 DEF O
<1> QED BY <1>2, <1>3, <1>7, <1>10, <1>11, <1>13 DEF left, t, P

\* Workers that come back are free, up to GLOBAL_WORKERS.
LEMMA ReturnedIs ==
  ASSUME NEW s \in Sched, NEW n \in Nat
  PROVE  /\ Returned(s, n) \in Sched /\ Returned(s, n).order = s.order
         /\ Returned(s, n).granted = s.granted /\ Returned(s, n).tombs = s.tombs
         /\ Returned(s, n).available = IF s.available + n <= GlobalWorkers THEN s.available + n ELSE GlobalWorkers
<1> DEFINE a == Min({s.available + n, GlobalWorkers})
<1>1. s.available \in 0..GlobalWorkers /\ s.available + n \in Nat /\ GlobalWorkers \in Nat BY Constants DEF Sched
<1>2. a = IF s.available + n <= GlobalWorkers THEN s.available + n ELSE GlobalWorkers BY <1>1, MinIs
<1>3. Returned(s, n) = [s EXCEPT !.available = a] BY DEF Returned
<1> HIDE DEF a
<1>4. a \in 0..GlobalWorkers BY <1>1, <1>2
<1> QED BY <1>2, <1>3, <1>4 DEF Sched

\* A step from s to t that makes a free worker of r's permit, and n promises.
HandsOn(s, A, r, n, t) ==
  /\ t \in Sched /\ LineOf(t, A) /\ t.tombs = s.tombs /\ (t.order # <<>> => t.available = 0)
  /\ Promised(r, n) \subseteq Gens /\ Range(t.order) = Range(s.order) \ Promised(r, n)
  /\ LET before == s.available + Cardinality(Owed(s, A))
         after == t.available + Cardinality(Owed(t, A))
     IN  /\ before \in Nat /\ after \in Nat /\ after >= before
         /\ r = Returned(s, 1) => after >= before + 1 \/ after >= GlobalWorkers

\* A permit is dropped: no worker is lost by it, and who is first in line
\* leaves it with a promise and is woken.
LEMMA ReleaseIs ==
  ASSUME NEW s \in Sched, NEW A \in SUBSET Gens, LineOf(s, A), s.order # <<>> => s.available = 0,
         NEW r \in {s, Returned(s, 1)}, NEW n, n = Min({1, Len(s.order)}), NEW t, t = Grant(r, n)
  PROVE  HandsOn(s, A, r, n, t)
<1>1. s.available \in 0..GlobalWorkers /\ s.order \in Seq(Gens) /\ Len(s.order) \in Nat BY DEF Sched
<1>2. n \in 0..Len(s.order) /\ n \in 0..1 /\ (n = 0 <=> s.order = <<>>)
  <2> DEFINE l == Len(s.order)
  <2>1. l \in Nat /\ n = IF 1 <= l THEN 1 ELSE l BY <1>1, MinIs
  <2>2. l = 0 <=> s.order = <<>> BY <1>1, EmptySeq
  <2> HIDE DEF l
  <2>3. n \in 0..l /\ n \in 0..1 /\ (n = 0 <=> l = 0) BY <2>1
  <2> QED BY <2>2, <2>3 DEF l
<1>3. /\ r \in Sched /\ r.order = s.order /\ r.granted = s.granted /\ r.tombs = s.tombs
      /\ r.available \in s.available..(s.available + 1)
      /\ r = Returned(s, 1) => r.available = s.available + 1 \/ r.available = GlobalWorkers
  <2>1. CASE r = Returned(s, 1)
    <3>1. /\ Returned(s, 1) \in Sched /\ Returned(s, 1).order = s.order
          /\ Returned(s, 1).granted = s.granted /\ Returned(s, 1).tombs = s.tombs
          /\ Returned(s, 1).available = IF s.available + 1 <= GlobalWorkers THEN s.available + 1 ELSE GlobalWorkers
      BY ReturnedIs
    <3> QED BY <1>1, <2>1, <3>1, Constants
  <2>2. CASE r # Returned(s, 1) BY <1>1, <2>2
  <2> QED BY <2>1, <2>2
<1>4. LineOf(r, A) /\ Owed(r, A) = Owed(s, A) BY <1>3 DEF LineOf, Owed
<1>5. /\ t \in Sched /\ LineOf(t, A) /\ t.tombs = r.tombs
      /\ Promised(r, n) \subseteq Gens /\ Range(t.order) = Range(r.order) \ Promised(r, n)
      /\ Len(t.order) = Len(r.order) - n
      /\ Cardinality(Owed(t, A)) = Cardinality(Owed(r, A)) + n
      /\ t.available = IF r.available > n THEN r.available - n ELSE 0
  <2>1. n \in 0..Len(r.order) BY <1>2, <1>3
  <2> QED BY <1>3, <1>4, <2>1, GrantIs
<1>6. t.order # <<>> => t.available = 0
  <2>1. SUFFICES ASSUME t.order # <<>> PROVE t.available = 0 OBVIOUS
  <2>2. s.order # <<>> BY <1>1, <1>2, <1>3, <1>5, <2>1 DEF Sched
  <2> QED BY <1>2, <1>3, <1>5, <2>2
<1> DEFINE before == s.available + Cardinality(Owed(s, A))
           after == t.available + Cardinality(Owed(t, A))
<1>7. Cardinality(Owed(s, A)) \in Nat /\ Cardinality(Owed(t, A)) = Cardinality(Owed(s, A)) + n
  BY <1>4, <1>5, OwedIs
<1>8. t.available \in Nat /\ t.available + n >= r.available BY <1>1, <1>2, <1>3, <1>5, Constants
<1>9. before \in Nat /\ after \in Nat /\ after >= r.available + Cardinality(Owed(s, A))
  <2> DEFINE c == Cardinality(Owed(s, A))
             d == Cardinality(Owed(t, A))
  <2>1. c \in Nat /\ d = c + n BY <1>7
  <2> HIDE DEF c, d
  <2>2. s.available \in Nat /\ r.available \in Nat /\ n \in Nat BY <1>1, <1>2, <1>3, Constants
  <2>3. s.available + c \in Nat /\ t.available + d \in Nat /\ t.available + d >= r.available + c
    <3>1. \A x, y, k, m \in Nat : x + m >= y => x + (k + m) \in Nat /\ x + (k + m) >= y + k OBVIOUS
    <3>2. t.available + (c + n) \in Nat /\ t.available + (c + n) >= r.available + c
      BY <1>8, <2>1, <2>2, <3>1
    <3> QED BY <2>1, <2>2, <3>2
  <2> QED BY <2>3 DEF c, d
<1>10. after >= before BY <1>1, <1>3, <1>7, <1>9, Constants
<1>11. r = Returned(s, 1) => after >= before + 1 \/ after >= GlobalWorkers
  BY <1>1, <1>3, <1>7, <1>9, Constants, SMTT(30)
<1> QED BY <1>3, <1>5, <1>6, <1>9, <1>10, <1>11 DEF HandsOn

Enough ==
  sched.available + Cardinality(Owed(sched, Alive)) + Cardinality(Held \cap Alive)
    + Cardinality({j \in HeldByTasks : job[j].gen \in Alive}) >= GlobalWorkers
NoneIdle == sched.order # <<>> => sched.available = 0

\* Promises counts those a worker is promised to, of whom each has one.
LEMMA PromisesAre ==
  ASSUME Types, Line, NEW S \in SUBSET Gens
  PROVE  Promises(S) = Cardinality(Owed(sched, S))
<1> DEFINE O == Owed(sched, S)
           Q == {p \in S \X (1..GlobalWorkers) : p[2] <= sched.granted[p[1]]}
           f == [g \in O |-> <<g, 1>>]
<1>1. \A g \in S : sched.granted[g] \in 0..1 BY DEF Line
<1>2. \A g \in O : <<g, 1>> \in Q BY Constants DEF Owed
<1>3. ASSUME NEW p \in Q PROVE p[1] \in O /\ p = <<p[1], 1>>
  <2>1. PICK g \in S, i \in 1..GlobalWorkers : p = <<g, i>> OBVIOUS
  <2>2. i <= sched.granted[g] /\ sched.granted[g] \in 0..1 BY <1>1, <2>1
  <2>3. i = 1 /\ sched.granted[g] = 1 BY <2>1, <2>2, Constants
  <2> QED BY <2>1, <2>3 DEF Owed
<1> HIDE DEF Q
<1>4. f \in Bijection(O, Q) BY <1>2, <1>3 DEF Bijection, Injection, Surjection, IsInjective
<1>5. Cardinality(Q) = Cardinality(O) BY <1>4, OwedIs, FS_Bijection DEF ExistsBijection
<1> QED BY <1>5 DEF Q, Promises

\* NoWorkerLost, by its two parts.
LEMMA Balance == ASSUME Types, Line PROVE NoWorkerLost <=> Enough /\ NoneIdle
<1>1. Alive \in SUBSET Gens BY DEF Alive
<1> QED BY <1>1, PromisesAre DEF NoWorkerLost, Enough, NoneIdle

-----------------------------------------------------------------------------
(* Types *)

\* A live generation is about to be revoked; nothing else of any generation changes.
LEMMA CallRevokeIs ==
  ASSUME NEW f \in [Gens -> Gen], NEW g
  PROVE  /\ CallRevoke(f, g) \in [Gens -> Gen]
         /\ \A h \in Gens :
              /\ CallRevoke(f, g)[h].phase = IF h = g /\ f[h].phase = "live" THEN "called" ELSE f[h].phase
              /\ CallRevoke(f, g)[h].key = f[h].key /\ CallRevoke(f, g)[h].profile = f[h].profile
              /\ CallRevoke(f, g)[h].prev = f[h].prev /\ CallRevoke(f, g)[h].own = f[h].own
BY DEF CallRevoke, Gen, Phases

\* The values of a generation and a job that do not exist.
LEMMA NoneAreTyped == NoGen \in Gen /\ NoJob \in Job
BY Constants DEF NoGen, NoJob, Gen, Job, Phases, JobAt, Permits

\* Jobs and queues once the n oldest jobs of g have been expired.
LEMMA ExpiredIs ==
  ASSUME Types, NEW g \in Gens, NEW n \in Nat
  PROVE  /\ Expired(g, n) \in [Jobs -> Job]
         /\ \A j \in Jobs : Expired(g, n)[j] = IF j \in Queued(g) /\ j \notin Range(Fresh(g, n)) THEN NoJob ELSE job[j]
BY NoneAreTyped DEF Types, Expired

\* A drained queue.
LEMMA DrainedTypes == ASSUME Types, NEW g \in Gens, Drained(g)
                      PROVE order' \in [Gens -> Seq(Principals)] /\ queue' \in [Gens -> Seq(Jobs)] /\ job' \in [Jobs -> Job]
BY NoneAreTyped DEF Types, Drained

\* Jobs once the tasks of g that ended have been joined.
LEMMA ReapedIs ==
  ASSUME Types, NEW g \in Gens
  PROVE  /\ Reaped(g) \in [Jobs -> Job]
         /\ \A j \in Jobs : Reaped(g)[j] = IF job[j].gen = g /\ job[j].at = "ended" THEN NoJob ELSE job[j]
BY NoneAreTyped DEF Types, Reaped, JobsOf

\* Release, as a step of the scheduler.
LEMMA Dropped ==
  ASSUME Types, Line, NoneIdle, NEW permit, Release(permit)
  PROVE  /\ sched' \in Sched /\ LineOf(sched', Alive) /\ sched'.tombs = sched.tombs /\ NoneIdle'
         /\ wake' \in [Gens -> BOOLEAN] /\ \A g \in Gens : wake[g] => wake'[g]
         /\ Range(sched'.order) \subseteq Range(sched.order)
         /\ \A g \in Range(sched.order) : g \in Range(sched'.order) \/ wake'[g]
         /\ LET before == sched.available + Cardinality(Owed(sched, Alive))
                after == sched'.available + Cardinality(Owed(sched', Alive))
            IN  /\ before \in Nat /\ after \in Nat /\ after >= before
                /\ permit = "active" => after >= before + 1 \/ after >= GlobalWorkers
<1> DEFINE r == IF permit = "active" THEN Returned(sched, 1) ELSE sched
           n == Min({1, Len(sched.order)})
           P == Promised(r, n)
<1>1. sched' = Grant(r, n) /\ wake' = [g \in Gens |-> wake[g] \/ g \in P] BY DEF Release, Granted
<1>2. sched \in Sched /\ LineOf(sched, Alive) /\ Alive \in SUBSET Gens BY DEF Types, Line, LineOf, Alive
<1>3. sched.order # <<>> => sched.available = 0 BY DEF NoneIdle
<1>r. r = IF permit = "active" THEN Returned(sched, 1) ELSE sched OBVIOUS
<1>n. n = Min({1, Len(sched.order)}) OBVIOUS
<1>p. P = Promised(r, n) OBVIOUS
<1> HIDE DEF r, n, P
<1>4. /\ sched' \in Sched /\ LineOf(sched', Alive) /\ sched'.tombs = sched.tombs
      /\ sched'.order # <<>> => sched'.available = 0
      /\ P \subseteq Gens /\ Range(sched'.order) = Range(sched.order) \ P
      /\ LET before == sched.available + Cardinality(Owed(sched, Alive))
             after == sched'.available + Cardinality(Owed(sched', Alive))
         IN  /\ before \in Nat /\ after \in Nat /\ after >= before
             /\ permit = "active" => after >= before + 1 \/ after >= GlobalWorkers
  <2> DEFINE s == sched
             t == sched'
             A == Alive
  <2>1. s \in Sched /\ LineOf(s, A) /\ A \in SUBSET Gens /\ (s.order # <<>> => s.available = 0) BY <1>2, <1>3
  <2>2. r \in {s, Returned(s, 1)} /\ (permit = "active" => r = Returned(s, 1)) BY <1>r
  <2>3. n = Min({1, Len(s.order)}) /\ t = Grant(r, n) BY <1>1, <1>n
  <2> HIDE DEF s, t, A
  <2>4. HandsOn(s, A, r, n, t) BY <2>1, <2>2, <2>3, ReleaseIs
  <2> QED BY <1>p, <2>2, <2>4 DEF s, t, A, HandsOn
<1>5. \A g \in Range(sched.order) : g \in Gens BY <1>2 DEF Sched, Range
<1>6. wake' \in [Gens -> BOOLEAN] /\ \A g \in Gens : wake'[g] <=> wake[g] \/ g \in P
  BY <1>1 DEF Types
<1> QED BY <1>4, <1>5, <1>6 DEF NoneIdle

\* The types hold at the start.
LEMMA InitTypes == Init => Types
<1> SUFFICES ASSUME Init PROVE Types OBVIOUS
<1>1. disp \in [Profiles -> Disp] BY Constants DEF Init, Disp
<1>2. gen \in [Gens -> Gen] BY NoneAreTyped DEF Init
<1>3. loop \in [Gens -> Loop] BY DEF Init, Loop, LoopAt, Permits
<1>4. job \in [Jobs -> Job] BY NoneAreTyped DEF Init
<1>5. order \in [Gens -> Seq(Principals)] /\ queue \in [Gens -> Seq(Jobs)] BY DEF Init
<1>6. sched \in Sched BY Constants DEF Init, Sched
<1>7. enq \in [Producers -> 0..MaxGens] /\ inFlight \in [Gens -> SUBSET Jobs] /\ aborted \subseteq Jobs
  BY Constants DEF Init
<1>8. wake \in [Gens -> BOOLEAN] /\ calls \in Nat BY DEF Init
<1> QED BY <1>1, <1>2, <1>3, <1>4, <1>5, <1>6, <1>7, <1>8 DEF Types

\* The dispatcher.
LEMMA DispatcherTypes ==
  ASSUME Types, Voice, NEW p \in Profiles,
         \/ RevokeCurrent(p) \/ RevokeCurrentAndLatch(p)
         \/ \E k \in Keys : LatchKeyRevoked(p, k) \/ InstallAuthenticatedReplacement(p, k)
         \/ \E g \in Gens, k \in Keys : Activate(g, p, k)
         \/ \E q \in Producers : EnqueueBegins(q, p)
  PROVE  Types'
<1>1. disp[p] \in Disp /\ disp[p].current \in 0..MaxGens /\ disp[p].latched \in SUBSET Keys BY DEF Types, Disp
<1>2. gen \in [Gens -> Gen] BY DEF Types
<1>0. 0 \in 0..MaxGens /\ \A g \in Gens : g \in 0..MaxGens BY Constants
<1>3. CASE RevokeCurrent(p)
  <2>1. disp' \in [Profiles -> Disp] BY <1>0, <1>1, <1>3 DEF RevokeCurrent, Types, Disp
  <2>2. gen' \in [Gens -> Gen] BY <1>2, <1>3, CallRevokeIs DEF RevokeCurrent
  <2>3. calls' \in Nat BY <1>3 DEF RevokeCurrent, Types
  <2> QED BY <1>3, <2>1, <2>2, <2>3 DEF RevokeCurrent, Types, jobs, tasks
<1>4. CASE RevokeCurrentAndLatch(p)
  <2> DEFINE g == disp[p].current
             new == [current |-> 0, blocked |-> TRUE, latched |-> disp[p].latched \cup IF g = 0 THEN {} ELSE {gen[g].key}]
  <2>1. disp' = [disp EXCEPT ![p] = new] /\ gen' = CallRevoke(gen, g) BY <1>4 DEF RevokeCurrentAndLatch
  <2>2. g # 0 => gen[g].key \in Keys BY <1>1, Constants DEF Voice
  <2>3. new \in Disp BY <1>0, <1>1, <2>2 DEF Disp
  <2> HIDE DEF new, g
  <2>4. disp' \in [Profiles -> Disp] BY <2>1, <2>3 DEF Types
  <2>5. gen' \in [Gens -> Gen] BY <1>2, <2>1, CallRevokeIs
  <2>6. calls' \in Nat BY <1>4 DEF RevokeCurrentAndLatch, Types
  <2> QED BY <1>4, <2>4, <2>5, <2>6 DEF RevokeCurrentAndLatch, Types, jobs, tasks
<1>5. ASSUME NEW k \in Keys, LatchKeyRevoked(p, k) PROVE Types'
  <2>1. disp' \in [Profiles -> Disp] BY <1>0, <1>1, <1>5 DEF LatchKeyRevoked, Types, Disp
  <2>2. gen' \in [Gens -> Gen] BY <1>2, <1>5, CallRevokeIs DEF LatchKeyRevoked
  <2>c. calls' = calls + 1 /\ calls \in Nat
    <3>1. calls \in Nat BY DEF Types
    <3> QED BY <1>5, <3>1 DEF LatchKeyRevoked
  <2>3. calls' \in Nat BY <2>c
  <2> QED BY <1>5, <2>1, <2>2, <2>3 DEF LatchKeyRevoked, Types, jobs, tasks
<1>6. ASSUME NEW k \in Keys, InstallAuthenticatedReplacement(p, k) PROVE Types'
  <2>1. disp' \in [Profiles -> Disp] BY <1>1, <1>6 DEF InstallAuthenticatedReplacement, Types, Disp
  <2> QED BY <1>6, <2>1 DEF InstallAuthenticatedReplacement, Types, jobs, tasks
<1>7. ASSUME NEW g \in Gens, NEW k \in Keys, Activate(g, p, k) PROVE Types'
  <2> DEFINE new == [phase |-> "live", key |-> k, profile |-> p, prev |-> disp[p].current, own |-> FALSE]
             f == [gen EXCEPT ![g] = new]
  <2>1. disp' \in [Profiles -> Disp] BY <1>0, <1>1, <1>7 DEF Activate, Types, Disp
  <2>2. new \in Gen BY <1>1 DEF Gen, Phases
  <2>3. f \in [Gens -> Gen] BY <1>2, <2>2
  <2>4. gen' = CallRevoke(f, disp[p].current) BY <1>7 DEF Activate
  <2> HIDE DEF f
  <2>5. gen' \in [Gens -> Gen] BY <2>3, <2>4, CallRevokeIs
  <2>6. loop' \in [Gens -> Loop] BY <1>7 DEF Activate, Types, Loop, LoopAt
  <2> QED BY <1>7, <2>1, <2>5, <2>6 DEF Activate, Types, jobs, tasks
<1>8. ASSUME NEW q \in Producers, EnqueueBegins(q, p) PROVE Types'
  BY <1>1, <1>8 DEF EnqueueBegins, Types, jobs, tasks
<1> QED BY <1>3, <1>4, <1>5, <1>6, <1>7, <1>8

\* Revocation, and a generation's end.
LEMMA AdvanceIs ==
  ASSUME Types, NEW g \in Gens, NEW from, NEW to \in Phases, Advance(g, from, to)
  PROVE  /\ gen' \in [Gens -> Gen] /\ Phase(g) = from
         /\ \A h \in Gens :
              /\ gen'[h].phase = IF h = g THEN to ELSE Phase(h)
              /\ gen'[h].key = gen[h].key /\ gen'[h].profile = gen[h].profile
              /\ gen'[h].prev = gen[h].prev /\ gen'[h].own = gen[h].own
BY ZenonT(40) DEF Types, Advance, Phase, Gen

\* Fields of one loop.
LEMMA LoopIs ==
  ASSUME Types, NEW g \in Gens
  PROVE  loop[g] \in Loop /\ loop[g].at \in LoopAt /\ loop[g].job \in Jobs \cup {0} /\ loop[g].permit \in Permits
BY DEF Types, Loop

\* Where a loop rests.
LEMMA RestIs == \A g : Rest(g) \in LoopAt
BY DEF Rest, LoopAt

\* The scheduler without generation g, with c workers more and n promises to
\* make.
Without(g, c, back, n) ==
  /\ back \in Sched /\ LineOf(back, Alive \ {g}) /\ n \in 0..Len(back.order) /\ n <= back.available
  /\ n < Len(back.order) => back.available = n
  /\ back.tombs = sched.tombs \cup {g} /\ Range(back.order) = Range(sched.order) \ {g}
  /\ Owed(back, Alive \ {g}) = Owed(sched, Alive) \ {g}
  /\ back.available = IF sched.available + c <= GlobalWorkers THEN sched.available + c ELSE GlobalWorkers

\* What cancel makes of the scheduler before it makes its promises.
LEMMA CancelIs ==
  ASSUME Types, Line, NEW g \in Gens, NEW line, line = Kept(sched.order, Gens \ {g}),
         NEW c \in Nat, NEW back,
         back = Returned([sched EXCEPT !.tombs = @ \cup {g}, !.order = line, !.granted[g] = 0], c),
         NEW n, n = Min({back.available, Len(line)})
  PROVE  Without(g, c, back, n)
<1> DEFINE s == [sched EXCEPT !.tombs = @ \cup {g}, !.order = line, !.granted[g] = 0]
<1>1. sched \in Sched /\ sched.order \in Seq(Gens) /\ sched.granted \in [Gens -> Nat] BY DEF Types, Sched
<1>2. line \in Seq(Gens) /\ IsInjective(line) /\ Range(line) = Range(sched.order) \cap (Gens \ {g})
  BY <1>1, KeptIs DEF Line
<1>3. Range(sched.order) \subseteq Gens BY <1>1 DEF Range
<1>4. /\ s \in Sched /\ s.tombs = sched.tombs \cup {g} /\ s.order = line /\ s.available = sched.available
      /\ s.granted = [sched.granted EXCEPT ![g] = 0]
  BY <1>1, <1>2 DEF Sched
<1> HIDE DEF s
<1>5. /\ back \in Sched /\ back.order = s.order /\ back.granted = s.granted /\ back.tombs = s.tombs
      /\ back.available = IF s.available + c <= GlobalWorkers THEN s.available + c ELSE GlobalWorkers
  <2>1. back = Returned(s, c) BY DEF s
  <2> QED BY <1>4, <2>1, ReturnedIs
<1>6. back.available \in Nat /\ Len(line) \in Nat BY <1>2, <1>5, Constants DEF Sched
<1>7. n = IF back.available <= Len(line) THEN back.available ELSE Len(line) BY <1>6, MinIs
<1>8. \A h \in Gens : back.granted[h] = IF h = g THEN 0 ELSE sched.granted[h] BY <1>1, <1>4, <1>5
<1>9. Range(back.order) = Range(sched.order) \ {g} BY <1>2, <1>3, <1>4, <1>5
<1>10. LineOf(back, Alive \ {g})
  <2>1. \A h \in Range(back.order) : h \in Range(sched.order) /\ h # g /\ h \in Gens BY <1>3, <1>9
  <2>2. \A h \in Range(back.order) : back.granted[h] = 0 /\ h \in Alive \ {g} BY <1>8, <2>1 DEF Line
  <2>0. \A h \in Gens : sched.granted[h] \in 0..1 BY DEF Line
  <2>3. \A h \in Gens : back.granted[h] \in 0..1 BY <1>8, <2>0
  <2> QED BY <1>2, <1>4, <1>5, <2>2, <2>3 DEF LineOf
<1>11. Owed(back, Alive \ {g}) = Owed(sched, Alive) \ {g} BY <1>8 DEF Owed, Alive
<1>12. n \in 0..Len(line) /\ n <= back.available /\ (n < Len(line) => back.available = n)
  <2> DEFINE Least(x, y) == IF x <= y THEN x ELSE y
  <2>1. \A x, y \in Nat : Least(x, y) \in 0..y /\ Least(x, y) <= x /\ (Least(x, y) < y => x = Least(x, y))
    OBVIOUS
  <2>2. n = Least(back.available, Len(line)) BY <1>7
  <2> HIDE DEF Least
  <2> QED BY <1>6, <2>1, <2>2
<1>13. back.available = IF sched.available + c <= GlobalWorkers THEN sched.available + c ELSE GlobalWorkers
  BY <1>4, <1>5
<1>14. back.order = line /\ back.tombs = sched.tombs \cup {g} BY <1>4, <1>5
<1> QED BY <1>5, <1>9, <1>10, <1>11, <1>12, <1>13, <1>14 DEF Without

\* The workers that a generation and its tasks hold are finitely many.
LEMMA ActiveCountIs ==
  ASSUME Types, NEW g \in Gens
  PROVE  ActiveCount(g) \in Nat /\ IsFiniteSet(ActiveJobs(g)) /\ Cardinality(ActiveJobs(g)) \in Nat
<1>1. ActiveJobs(g) \in SUBSET Jobs BY DEF ActiveJobs, JobsOf
<1>2. IsFiniteSet(ActiveJobs(g)) /\ Cardinality(ActiveJobs(g)) \in Nat
  BY <1>1, Constants, FS_Subset, FS_CardinalityType
<1> QED BY <1>2 DEF ActiveCount

\* Cancel, as a step of the scheduler: what the generation had of workers is
\* free or promised to others, and who leaves the line is woken.
LEMMA Cancelled ==
  ASSUME Types, Line, NEW g \in Gens, Cancel(g)
  PROVE  /\ sched' \in Sched /\ LineOf(sched', Alive \ {g}) /\ sched'.tombs = sched.tombs \cup {g} /\ NoneIdle'
         /\ wake' \in [Gens -> BOOLEAN] /\ \A h \in Gens : wake[h] => wake'[h]
         /\ \A h \in Range(sched.order) : h = g \/ h \in Range(sched'.order) \/ wake'[h]
         /\ LET before == sched.available + Cardinality(Owed(sched, Alive) \ {g})
                after == sched'.available + Cardinality(Owed(sched', Alive \ {g}))
            IN  /\ before \in Nat /\ after \in Nat
                /\ after >= before + sched.granted[g] + ActiveCount(g) \/ after >= GlobalWorkers
<1> DEFINE line == Kept(sched.order, Gens \ {g})
           c == sched.granted[g] + ActiveCount(g)
           back == Returned([sched EXCEPT !.tombs = @ \cup {g}, !.order = line, !.granted[g] = 0], c)
           n == Min({back.available, Len(line)})
           P == Promised(back, n)
           A == Alive \ {g}
<1>1. sched' = Grant(back, n) /\ wake' = [h \in Gens |-> wake[h] \/ h \in P] BY DEF Cancel, Granted
<1>2. c \in Nat BY ActiveCountIs DEF Types, Sched
<1>3. line = Kept(sched.order, Gens \ {g}) OBVIOUS
<1> HIDE DEF line
<1>4. back = Returned([sched EXCEPT !.tombs = @ \cup {g}, !.order = line, !.granted[g] = 0], c) OBVIOUS
<1>5. c = sched.granted[g] + ActiveCount(g) OBVIOUS
<1> HIDE DEF c, back
<1>6. n = Min({back.available, Len(line)}) OBVIOUS
<1> HIDE DEF n
<1>7. /\ back \in Sched /\ LineOf(back, A) /\ n \in 0..Len(back.order) /\ n <= back.available
      /\ n < Len(back.order) => back.available = n
      /\ back.tombs = sched.tombs \cup {g} /\ Range(back.order) = Range(sched.order) \ {g}
      /\ Owed(back, A) = Owed(sched, Alive) \ {g}
      /\ back.available = IF sched.available + c <= GlobalWorkers THEN sched.available + c ELSE GlobalWorkers
  <2>1. Without(g, c, back, n) BY <1>2, <1>3, <1>4, <1>6, CancelIs
  <2> QED BY <2>1 DEF Without, A
<1>8. A \in SUBSET Gens BY DEF Alive
<1> DEFINE t == sched'
<1>t. t = Grant(back, n) BY <1>1
<1> HIDE DEF A, t
<1>9. /\ sched' \in Sched /\ LineOf(sched', A) /\ sched'.tombs = back.tombs
      /\ P \subseteq Gens /\ Range(sched'.order) = Range(back.order) \ P
      /\ Len(sched'.order) = Len(back.order) - n
      /\ Cardinality(Owed(sched', A)) = Cardinality(Owed(back, A)) + n
      /\ sched'.available = IF back.available > n THEN back.available - n ELSE 0
  <2>1. /\ Grant(back, n) \in Sched /\ LineOf(Grant(back, n), A) /\ Grant(back, n).tombs = back.tombs
        /\ P \subseteq Gens /\ Range(Grant(back, n).order) = Range(back.order) \ P
        /\ Len(Grant(back, n).order) = Len(back.order) - n
        /\ Cardinality(Owed(Grant(back, n), A)) = Cardinality(Owed(back, A)) + n
        /\ Grant(back, n).available = IF back.available > n THEN back.available - n ELSE 0
    <3>1. back \in Sched /\ LineOf(back, A) /\ n \in 0..Len(back.order) BY <1>7
    <3> QED BY <1>8, <3>1, GrantIs DEF P
  <2> QED BY <1>t, <2>1 DEF t
<1> HIDE DEF P
<1>10. back.available \in Nat /\ n \in Nat /\ sched.available \in Nat /\ Len(back.order) \in Nat
  BY <1>7, Constants, SMTT(30) DEF Types, Sched
<1>11. sched'.available = back.available - n BY <1>7, <1>9, <1>10
<1>12. NoneIdle'
  <2>1. SUFFICES ASSUME sched'.order # <<>> PROVE sched'.available = 0 BY DEF NoneIdle
  <2>2. Len(sched'.order) # 0 BY <1>9, <2>1, EmptySeq DEF Sched
  <2>3. n < Len(back.order) BY <1>7, <1>9, <1>10, <2>2
  <2> QED BY <1>7, <1>10, <1>11, <2>3
<1>13. wake' \in [Gens -> BOOLEAN] /\ \A h \in Gens : wake'[h] <=> wake[h] \/ h \in P BY <1>1 DEF Types
<1>14. \A h \in Range(sched.order) : h \in Gens BY DEF Types, Sched, Range
<1>15. \A h \in Range(sched.order) : h = g \/ h \in Range(sched'.order) \/ wake'[h] BY <1>7, <1>9, <1>13, <1>14
<1>16. LET before == sched.available + Cardinality(Owed(sched, Alive) \ {g})
           after == sched'.available + Cardinality(Owed(sched', A))
       IN  /\ before \in Nat /\ after \in Nat
           /\ after >= before + c \/ after >= GlobalWorkers
  <2> DEFINE o == Cardinality(Owed(back, A))
             b == back.available
             a == sched.available
  <2>1. o \in Nat BY <1>8, OwedIs
  <2>2. Cardinality(Owed(sched, Alive) \ {g}) = o BY <1>7
  <2>3. Cardinality(Owed(sched', A)) = o + n BY <1>9
  <2>4. b \in Nat /\ a \in Nat /\ n \in Nat /\ n <= b /\ (b = a + c \/ b >= GlobalWorkers) BY <1>2, <1>7, <1>10, Constants
  <2>5. sched'.available = b - n BY <1>11
  <2> HIDE DEF o, b, a
  <2>6. a + o \in Nat /\ (b - n) + (o + n) \in Nat BY <2>1, <2>4, <1>2
  <2>7. (b - n) + (o + n) >= a + o + c \/ (b - n) + (o + n) >= GlobalWorkers BY <2>1, <2>4, <1>2, Constants
  <2>8. sched.available = a BY DEF a
  <2> QED BY <2>2, <2>3, <2>5, <2>6, <2>7, <2>8
<1>17. LET before == sched.available + Cardinality(Owed(sched, Alive) \ {g})
           after == sched'.available + Cardinality(Owed(sched', A))
       IN  /\ before \in Nat /\ after \in Nat
           /\ after >= before + sched.granted[g] + ActiveCount(g) \/ after >= GlobalWorkers
  <2>1. sched.granted[g] \in Nat /\ ActiveCount(g) \in Nat BY ActiveCountIs DEF Types, Sched
  <2> QED BY <1>5, <1>16, <2>1
<1> QED BY <1>7, <1>9, <1>12, <1>13, <1>15, <1>17 DEF A

\* Cancel: what becomes of the jobs and of the loop.
LEMMA CancelledJobs ==
  ASSUME Types, Queues, NEW g \in Gens, Cancel(g)
  PROVE  /\ job' \in [Jobs -> Job] /\ loop' \in [Gens -> Loop]
         /\ \A j \in Jobs :
              \/ job'[j] = job[j] /\ ~(job[j].gen = g /\ job[j].permit = "active")
              \/ job'[j] = NoJob /\ job[j].gen = g /\ job[j].at = "ended" /\ loop'[g].at = "next"
              \/ /\ job[j].gen = g /\ job[j].permit = "active" /\ job'[j].permit = "returned"
                 /\ job'[j].at = job[j].at /\ job'[j].gen = g /\ job'[j].who = job[j].who
         /\ \A h \in Gens \ {g} : loop'[h] = loop[h]
         /\ loop'[g].job = loop[g].job /\ loop'[g].permit = ReturnedPermit(loop[g].permit)
         /\ loop'[g].at = loop[g].at \/ (loop[g].at = "parked" /\ loop'[g].at = "next")
<1> DEFINE woken == loop[g].at = "parked" /\ Cardinality(Tasks(g)) < Workers
           left == IF woken THEN Reaped(g) ELSE job
<1>1. loop' = [loop EXCEPT ![g].permit = ReturnedPermit(@), ![g].at = IF woken THEN "next" ELSE @] BY DEF Cancel
<1>2. job' = [j \in Jobs |-> IF j \in ActiveJobs(g) THEN [left[j] EXCEPT !.permit = "returned"] ELSE left[j]]
  BY DEF Cancel
<1>w. woken \in BOOLEAN /\ (woken => loop[g].at = "parked") OBVIOUS
<1> HIDE DEF woken
<1>3. loop[g] \in Loop BY DEF Types
<1>4. loop' \in [Gens -> Loop]
  <2> DEFINE a == IF woken THEN "next" ELSE loop[g].at
             p == ReturnedPermit(loop[g].permit)
  <2>1. a \in LoopAt /\ p \in Permits BY <1>3 DEF Loop, LoopAt, Permits, ReturnedPermit
  <2>2. loop' = [loop EXCEPT ![g].permit = p, ![g].at = a] BY <1>1, <1>3 DEF Types, Loop
  <2> HIDE DEF a, p
  <2> QED BY <2>1, <2>2, ZenonT(40) DEF Types, Loop
<1>5. /\ \A h \in Gens \ {g} : loop'[h] = loop[h]
      /\ loop'[g].job = loop[g].job /\ loop'[g].permit = ReturnedPermit(loop[g].permit)
      /\ loop'[g].at = IF woken THEN "next" ELSE loop[g].at
  BY <1>1, <1>3 DEF Types, Loop
<1>6. /\ left \in [Jobs -> Job]
      /\ \A j \in Jobs : left[j] = job[j] \/ (left[j] = NoJob /\ job[j].gen = g /\ job[j].at = "ended" /\ woken)
  BY ReapedIs DEF Types
<1> HIDE DEF left
<1>7. ASSUME NEW j \in ActiveJobs(g) PROVE j \in Jobs /\ job[j].gen = g /\ job[j].permit = "active" /\ left[j] = job[j]
  <2>1. j \in Jobs /\ job[j].gen = g /\ job[j].permit = "active" BY DEF ActiveJobs, JobsOf
  <2>2. job[j].at = "started" BY <2>1 DEF Queues
  <2> QED BY <1>6, <2>1, <2>2
<1>8. job' \in [Jobs -> Job] BY <1>2, <1>6 DEF Job, Permits
<1>9. ASSUME NEW j \in Jobs
      PROVE  \/ job'[j] = job[j] /\ ~(job[j].gen = g /\ job[j].permit = "active")
             \/ job'[j] = NoJob /\ job[j].gen = g /\ job[j].at = "ended" /\ loop'[g].at = "next"
             \/ /\ job[j].gen = g /\ job[j].permit = "active" /\ job'[j].permit = "returned"
                /\ job'[j].at = job[j].at /\ job'[j].gen = g /\ job'[j].who = job[j].who
  <2>1. CASE j \in ActiveJobs(g)
    <3>1. job[j] \in Job BY DEF Types
    <3>2. job'[j] = [job[j] EXCEPT !.permit = "returned"] BY <1>2, <1>7, <2>1
    <3> QED BY <1>7, <2>1, <3>1, <3>2 DEF Job
  <2>2. CASE j \notin ActiveJobs(g)
    <3>1. job'[j] = left[j] BY <1>2, <2>2
    <3>2. ~(job[j].gen = g /\ job[j].permit = "active") BY <2>2 DEF ActiveJobs, JobsOf
    <3> QED BY <1>5, <1>6, <3>1, <3>2
  <2> QED BY <2>1, <2>2
<1> QED BY <1>w, <1>4, <1>5, <1>8, <1>9

\* The steps of revoke, and of the last reference, keep the types.
LEMMA RevokeTypes ==
  ASSUME Types, Line, Queues, NEW g \in Gens, RevokeSteps(g) \/ Retire(g)
  PROVE  Types'
<1>0. {"flagged", "aborted", "done"} \subseteq Phases BY DEF Phases
<1>1. CASE Flag(g)
  <2>1. gen' \in [Gens -> Gen] BY <1>0, <1>1, AdvanceIs DEF Flag
  <2>2. order' \in [Gens -> Seq(Principals)] /\ queue' \in [Gens -> Seq(Jobs)] /\ job' \in [Jobs -> Job]
    BY <1>1, DrainedTypes DEF Flag
  <2> QED BY <1>1, <2>1, <2>2 DEF Flag, Types, tasks
<1>2. CASE AbortInFlight(g)
  <2>1. gen' \in [Gens -> Gen] BY <1>0, <1>2, AdvanceIs DEF AbortInFlight
  <2>2. aborted' \subseteq Jobs /\ inFlight' \in [Gens -> SUBSET Jobs] BY <1>2 DEF AbortInFlight, Types
  <2> QED BY <1>2, <2>1, <2>2 DEF AbortInFlight, Types, jobs
<1>3. CASE Cancel(g)
  <2>1. gen' \in [Gens -> Gen]
    <3>1. Advance(g, "aborted", "done") BY <1>3 DEF Cancel
    <3> QED BY <1>0, <3>1, AdvanceIs
  <2>2. UNCHANGED <<disp, order, queue, aborted, inFlight, enq, calls>> BY <1>3 DEF Cancel, tasks
  <2> QED BY <1>3, <2>1, <2>2, Cancelled, CancelledJobs DEF Types
<1>4. CASE Retire(g)
  <2>1. gen' \in [Gens -> Gen] BY <1>4, NoneAreTyped DEF Retire, Types, Gen, Phases
  <2>2. job' \in [Jobs -> Job] BY <1>4, NoneAreTyped DEF Retire, Types
  <2>3. sched' \in Sched /\ wake' \in [Gens -> BOOLEAN] BY <1>4 DEF Retire, Types, Sched
  <2>4. /\ order' \in [Gens -> Seq(Principals)] /\ queue' \in [Gens -> Seq(Jobs)]
        /\ inFlight' \in [Gens -> SUBSET Jobs]
    BY <1>4 DEF Retire, Types
  <2> QED BY <1>4, <2>1, <2>2, <2>3, <2>4 DEF Retire, Types
<1> QED BY <1>1, <1>2, <1>3, <1>4 DEF RevokeSteps

\* The queue, as enqueue and pop leave it.
LEMMA EnqueueTypes ==
  ASSUME Types, Queues, Fair, NEW q \in Producers, NEW w \in Principals, NEW n \in Nat,
         EnqueueRefused(q, n, w) \/ \E j \in Jobs : EnqueuePushes(q, n, w, j)
  PROVE  Types' /\ enq[q] \in Gens /\ n <= Len(queue[enq[q]])
<1> DEFINE g == enq[q]
<1>1. g \in Gens /\ n <= Len(queue[g]) /\ g \in 0..MaxGens
  <2>1. g \in 0..MaxGens BY DEF Types
  <2> QED BY <2>1, Constants DEF EnqueueRefused, EnqueuePushes
<1>2. Fresh(g, n) \in Seq(Jobs) /\ FreshOrder(g, n) \in Seq(Principals) BY <1>1, FreshIs, FreshOrderIs
<1>3. Expired(g, n) \in [Jobs -> Job] BY <1>1, ExpiredIs
<1>4. enq' = [enq EXCEPT ![q] = 0] BY DEF EnqueueRefused, EnqueuePushes
<1>5. enq' \in [Producers -> 0..MaxGens] BY <1>4, Constants DEF Types
<1>6. CASE EnqueueRefused(q, n, w)
  <2>1. job' = Expired(g, n) /\ queue' = [queue EXCEPT ![g] = Fresh(g, n)] /\ order' = [order EXCEPT ![g] = FreshOrder(g, n)]
    BY <1>6 DEF EnqueueRefused
  <2>2. UNCHANGED <<disp, gen, loop, aborted, inFlight, sched, wake, calls>> BY <1>6 DEF EnqueueRefused, tasks
  <2> HIDE DEF g
  <2> QED BY <1>1, <1>2, <1>3, <1>5, <2>1, <2>2 DEF Types, g
<1>7. ASSUME NEW j \in Jobs, EnqueuePushes(q, n, w, j) PROVE Types'
  <2> DEFINE new == [at |-> "queued", gen |-> g, who |-> w, permit |-> "none"]
             more == IF Of(g, n, w) = <<>> THEN <<w>> ELSE <<>>
  <2>1. /\ job' = [Expired(g, n) EXCEPT ![j] = new]
        /\ queue' = [queue EXCEPT ![g] = Append(Fresh(g, n), j)]
        /\ order' = [order EXCEPT ![g] = FreshOrder(g, n) \o more]
    BY <1>7 DEF EnqueuePushes, Pushed
  <2>2. wake' = [wake EXCEPT ![g] = @ \/ ~Revoked(g)] BY <1>7 DEF EnqueuePushes
  <2>3. UNCHANGED <<disp, gen, loop, aborted, inFlight, sched, calls>> BY <1>7 DEF EnqueuePushes, tasks
  <2>4. new \in Job BY <1>1 DEF Job, JobAt, Permits
  <2>5. more \in Seq(Principals) OBVIOUS
  <2> HIDE DEF g, new, more
  <2>6. job' \in [Jobs -> Job] BY <1>3, <2>1, <2>4
  <2>7. Append(Fresh(g, n), j) \in Seq(Jobs) /\ FreshOrder(g, n) \o more \in Seq(Principals)
    BY <1>2, <2>5, AppendProperties, ConcatProperties
  <2>8. queue' \in [Gens -> Seq(Jobs)] /\ order' \in [Gens -> Seq(Principals)] BY <2>1, <2>7 DEF Types
  <2>9. wake' \in [Gens -> BOOLEAN] BY <2>2 DEF Types
  <2> QED BY <1>5, <2>3, <2>6, <2>8, <2>9 DEF Types
<1> QED BY <1>1, <1>6, <1>7

\* Job j leaves the queue of g, in which n jobs have expired.
Takes(g, n, j) ==
  /\ j \in Jobs /\ j \in Range(Fresh(g, n))
  /\ LET rest == Kept(Fresh(g, n), Jobs \ {j})
     IN  rest \in Seq(Jobs) /\ IsInjective(rest) /\ Range(rest) = Range(Fresh(g, n)) \ {j}
  /\ NextOrder(g, n) \in Seq(Principals) /\ IsInjective(NextOrder(g, n))
  /\ Range(NextOrder(g, n)) = {job[i].who : i \in Range(Fresh(g, n)) \ {j}}

\* FairQueue::pop: the first job of the principal at the head of the line leaves
\* the queue, and the principals with jobs stay in line.
LEMMA PopIs ==
  ASSUME Types, Queues, Fair, NEW g \in Gens, NEW n \in Nat, n <= Len(queue[g]), Fresh(g, n) # <<>>,
         NEW j, j = Head(Of(g, n, Head(FreshOrder(g, n))))
  PROVE  Takes(g, n, j)
<1> DEFINE F == Fresh(g, n)
           O == FreshOrder(g, n)
           w == Head(O)
           s == Of(g, n, w)
           more == IF Len(s) > 1 THEN <<w>> ELSE <<>>
<1>1. F \in Seq(Jobs) /\ IsInjective(F) BY FreshIs
<1>2. O \in Seq(Principals) /\ IsInjective(O) /\ Range(O) = {job[i].who : i \in Range(F)} BY FreshOrderIs
<1>3. s \in Seq(Jobs) /\ IsInjective(s) /\ Range(s) = {i \in Range(F) : job[i].who = w} BY FreshIs
<1>j. j = Head(s) OBVIOUS
<1>n. NextOrder(g, n) = Tail(O) \o more BY DEF NextOrder
<1> HIDE DEF F, O
<1>4. Range(F) # {} BY <1>1, NoElements DEF F
<1>5. O # <<>> BY <1>2, <1>4, NoElements
<1>6. /\ w \in Range(O) /\ w \in Principals
      /\ Tail(O) \in Seq(Principals) /\ IsInjective(Tail(O)) /\ Range(Tail(O)) = Range(O) \ {w}
  BY <1>2, <1>5, TailIs
<1>w. PICK i0 \in Range(F) : job[i0].who = w BY <1>2, <1>6
<1> HIDE DEF w
<1>7. s # <<>> BY <1>3, <1>w, NoElements
<1> HIDE DEF s
<1>8. j \in Range(s) /\ j \in Jobs /\ Range(Tail(s)) = Range(s) \ {j} /\ Tail(s) \in Seq(Jobs)
  BY <1>3, <1>7, <1>j, TailIs
<1>9. j \in Range(F) /\ job[j].who = w BY <1>3, <1>8
<1>10. LET rest == Kept(F, Jobs \ {j})
       IN  rest \in Seq(Jobs) /\ IsInjective(rest) /\ Range(rest) = Range(F) \ {j}
  <2>1. Range(F) \cap (Jobs \ {j}) = Range(F) \ {j} BY <1>1 DEF Range
  <2> QED BY <1>1, <2>1, KeptIs
<1>11. Len(s) > 1 <=> \E i \in Range(F) \ {j} : job[i].who = w
  <2>1. Len(Tail(s)) = Len(s) - 1 /\ Len(s) \in Nat BY <1>3, <1>7, HeadTailProperties
  <2> DEFINE u == Tail(s)
  <2>u. u \in Seq(Jobs) /\ Len(u) = Len(s) - 1 BY <1>8, <2>1
  <2> HIDE DEF u
  <2>e. Len(u) = 0 <=> u = <<>> BY <2>u, EmptySeq
  <2>l. Len(s) > 1 <=> Len(u) # 0
    <3>1. Len(s) \in Nat /\ Len(s) # 0 BY <1>3, <1>7, EmptySeq
    <3>2. \A l \in Nat : l # 0 => (l > 1 <=> l - 1 # 0) OBVIOUS
    <3> QED BY <2>u, <3>1, <3>2
  <2>2. Len(s) > 1 <=> Tail(s) # <<>> BY <2>l, <2>e DEF u
  <2>3. Tail(s) # <<>> <=> Range(s) \ {j} # {} BY <1>8, NoElements
  <2> QED BY <1>3, <2>2, <2>3
<1>12. Range(Tail(O)) = {job[i].who : i \in Range(F)} \ {w} BY <1>2, <1>6
<1>13. /\ Tail(O) \o more \in Seq(Principals) /\ IsInjective(Tail(O) \o more)
       /\ Range(Tail(O) \o more) = {job[i].who : i \in Range(F) \ {j}}
  <2>1. CASE Len(s) > 1
    <3>1. w \notin Range(Tail(O)) BY <1>6
    <3>2. /\ Append(Tail(O), w) \in Seq(Principals) /\ IsInjective(Append(Tail(O), w))
          /\ Range(Append(Tail(O), w)) = Range(Tail(O)) \cup {w}
          /\ Tail(O) \o <<w>> = Append(Tail(O), w)
      <4> DEFINE u == Tail(O)
      <4>1. u \in Seq(Principals) /\ IsInjective(u) /\ w \in Principals /\ w \notin Range(u) BY <1>6, <3>1
      <4> HIDE DEF u
      <4>2. /\ Append(u, w) \in Seq(Principals) /\ IsInjective(Append(u, w))
            /\ Range(Append(u, w)) = Range(u) \cup {w} /\ u \o <<w>> = Append(u, w)
        BY <4>1, AppendIs
      <4> QED BY <4>2 DEF u
    <3>3. Range(Tail(O)) \cup {w} = {job[i].who : i \in Range(F) \ {j}} BY <1>9, <1>11, <1>12, <2>1
    <3> QED BY <2>1, <3>2, <3>3
  <2>2. CASE ~(Len(s) > 1)
    <3>1. Tail(O) \o more = Tail(O) BY <1>6, <2>2, ConcatEmptySeq
    <3>2. Range(Tail(O)) = {job[i].who : i \in Range(F) \ {j}} BY <1>9, <1>11, <1>12, <2>2
    <3> QED BY <1>6, <3>1, <3>2
  <2> QED BY <2>1, <2>2
<1> QED BY <1>8, <1>9, <1>10, <1>13, <1>n DEF F, Takes

\* DropPermit, as a step of the loop.
LEMMA DropPermitIs ==
  ASSUME Types, NEW g \in Gens, NEW at \in LoopAt, DropPermit(g, at)
  PROVE  /\ loop' \in [Gens -> Loop] /\ Release(loop[g].permit)
         /\ loop'[g] = [at |-> at, job |-> 0, permit |-> "none"] /\ \A h \in Gens \ {g} : loop'[h] = loop[h]
BY DEF Types, DropPermit, Loop, Permits

\* Only the place of one loop changes.
LEMMA GotoIs ==
  ASSUME Types, NEW g \in Gens, NEW at \in LoopAt, Goto(g, at)
  PROVE  /\ loop' \in [Gens -> Loop] /\ loop'[g].at = at /\ loop'[g].job = loop[g].job
         /\ loop'[g].permit = loop[g].permit /\ \A h \in Gens \ {g} : loop'[h] = loop[h]
BY DEF Types, Goto, Loop

\* A loop begins a round: its ended tasks are joined.
LEMMA ResumeIs ==
  ASSUME Types, NEW g \in Gens, Resume(g)
  PROVE  /\ job' \in [Jobs -> Job] /\ loop' \in [Gens -> Loop]
         /\ \A j \in Jobs : job'[j] = IF job[j].gen = g /\ job[j].at = "ended" THEN NoJob ELSE job[j]
         /\ loop'[g].at = "next" /\ loop'[g].job = loop[g].job /\ loop'[g].permit = loop[g].permit
         /\ \A h \in Gens \ {g} : loop'[h] = loop[h]
BY ReapedIs, GotoIs DEF Resume, LoopAt

\* TryAcquire: one of four outcomes.
Refuses(g) == g \in sched.tombs /\ Goto(g, Rest(g)) /\ UNCHANGED sched
TakesPromise(g) ==
  /\ g \notin sched.tombs /\ sched.granted[g] > 0
  /\ Issue(g) /\ sched' = [sched EXCEPT !.granted[g] = @ - 1]
TakesFree(g) ==
  /\ g \notin sched.tombs /\ sched.granted[g] = 0 /\ sched.available > 0 /\ sched.order = <<>>
  /\ Issue(g) /\ sched' = [sched EXCEPT !.available = @ - 1]
StandsInLine(g) ==
  /\ g \notin sched.tombs /\ sched.granted[g] = 0 /\ (sched.available = 0 \/ sched.order # <<>>)
  /\ Goto(g, Rest(g)) /\ sched' = [sched EXCEPT !.order = IF g \in Range(@) THEN @ ELSE Append(@, g)]

\* try_acquire has one of the four outcomes.
LEMMA TryAcquireIs ==
  ASSUME NEW g, TryAcquire(g)
  PROVE  /\ loop[g].at = "acquire" /\ UNCHANGED <<disp, gen, order, queue, job, aborted, inFlight, enq, wake, calls>>
         /\ Refuses(g) \/ TakesPromise(g) \/ TakesFree(g) \/ StandsInLine(g)
BY DEF TryAcquire, Refuses, TakesPromise, TakesFree, StandsInLine, jobs, tasks

\* A loop gets a permit.
LEMMA IssueIs ==
  ASSUME Types, NEW g \in Gens, Issue(g)
  PROVE  /\ loop' \in [Gens -> Loop] /\ loop'[g].at = "pop" /\ loop'[g].permit = "active"
         /\ loop'[g].job = loop[g].job /\ \A h \in Gens \ {g} : loop'[h] = loop[h]
BY DEF Types, Issue, Loop, LoopAt, Permits

\* What TryAcquire does to the scheduler.
LEMMA AcquiredIs ==
  ASSUME Types, Line, NEW g \in Gens, Refuses(g) \/ TakesPromise(g) \/ TakesFree(g) \/ StandsInLine(g)
  PROVE  /\ sched' \in Sched /\ sched'.tombs = sched.tombs
         /\ \A h \in Gens : sched'.granted[h] = IF h = g /\ TakesPromise(g) THEN 0 ELSE sched.granted[h]
         /\ TakesPromise(g) => sched.granted[g] = 1
         /\ sched'.available = IF TakesFree(g) THEN sched.available - 1 ELSE sched.available
         /\ IsInjective(sched'.order)
         /\ Range(sched'.order) = IF StandsInLine(g) THEN Range(sched.order) \cup {g} ELSE Range(sched.order)
<1>0. /\ sched \in Sched /\ sched.order \in Seq(Gens) /\ sched.granted \in [Gens -> Nat] /\ sched.granted[g] \in 0..1
      /\ sched.available \in 0..GlobalWorkers /\ IsInjective(sched.order)
  BY DEF Types, Line, Sched
<1>1. CASE Refuses(g) BY <1>0, <1>1 DEF Refuses, TakesPromise, TakesFree, StandsInLine
<1>2. CASE TakesPromise(g)
  <2>1. sched.granted[g] = 1 /\ sched' = [sched EXCEPT !.granted[g] = sched.granted[g] - 1] BY <1>0, <1>2 DEF TakesPromise, Sched
  <2>2. sched' = [sched EXCEPT !.granted[g] = 0] BY <2>1
  <2>3. ~TakesFree(g) /\ ~StandsInLine(g) BY <2>1 DEF TakesFree, StandsInLine
  <2>4. sched' \in Sched BY <1>0, <2>2 DEF Sched
  <2>5. /\ sched'.granted = [sched.granted EXCEPT ![g] = 0] /\ sched'.tombs = sched.tombs
        /\ sched'.available = sched.available /\ sched'.order = sched.order
    BY <1>0, <2>2 DEF Sched
  <2> QED BY <1>0, <1>2, <2>1, <2>3, <2>4, <2>5
<1>3. CASE TakesFree(g)
  <2>1. ~TakesPromise(g) /\ ~StandsInLine(g) BY <1>0, <1>3 DEF TakesFree, TakesPromise, StandsInLine
  <2>2. sched.available - 1 \in 0..GlobalWorkers BY <1>0, <1>3, Constants DEF TakesFree
  <2>3. sched' = [sched EXCEPT !.available = sched.available - 1] BY <1>0, <1>3 DEF TakesFree, Sched
  <2>4. sched' \in Sched BY <1>0, <2>2, <2>3 DEF Sched
  <2>5. /\ sched'.granted = sched.granted /\ sched'.tombs = sched.tombs
        /\ sched'.available = sched.available - 1 /\ sched'.order = sched.order
    BY <1>0, <2>3 DEF Sched
  <2> QED BY <1>0, <1>3, <2>1, <2>4, <2>5
<1>4. CASE StandsInLine(g)
  <2> DEFINE o == IF g \in Range(sched.order) THEN sched.order ELSE Append(sched.order, g)
  <2>1. ~TakesPromise(g) /\ ~TakesFree(g) BY <1>0, <1>4 DEF TakesFree, TakesPromise, StandsInLine
  <2>2. sched' = [sched EXCEPT !.order = o] BY <1>0, <1>4 DEF StandsInLine, Sched
  <2>3. o \in Seq(Gens) /\ IsInjective(o) /\ Range(o) = Range(sched.order) \cup {g} BY <1>0, AppendIs
  <2> HIDE DEF o
  <2>4. sched' \in Sched BY <1>0, <2>2, <2>3 DEF Sched
  <2>5. /\ sched'.granted = sched.granted /\ sched'.tombs = sched.tombs
        /\ sched'.available = sched.available /\ sched'.order = o
    BY <1>0, <2>2 DEF Sched
  <2> QED BY <1>0, <1>4, <2>1, <2>3, <2>4, <2>5
<1> QED BY <1>1, <1>2, <1>3, <1>4

\* The job popped, admitted or started is the only one that changes.
PoppedIs(g, n, j) ==
  /\ loop[g].at = "pop" /\ n <= Len(queue[g]) /\ ~Revoked(g) /\ Fresh(g, n) # <<>>
  /\ j = Head(Of(g, n, Head(FreshOrder(g, n))))
  /\ job' = [Expired(g, n) EXCEPT ![j].at = "popped"]
  /\ queue' = [queue EXCEPT ![g] = Kept(Fresh(g, n), Jobs \ {j})]
  /\ loop' = [loop EXCEPT ![g].at = "admit", ![g].job = j]
  /\ order' = [order EXCEPT ![g] = NextOrder(g, n)]
  /\ UNCHANGED <<disp, gen, aborted, inFlight, enq, sched, wake, calls>>

\* Pop drops the permit or takes a job.
LEMMA PopCases ==
  ASSUME NEW g, NEW n, Pop(g, n)
  PROVE  \/ /\ loop[g].at = "pop" /\ DropPermit(g, Rest(g))
            /\ (Revoked(g) /\ UNCHANGED <<order, queue, job>>) \/ (~Revoked(g) /\ Drained(g))
            /\ UNCHANGED <<disp, gen, aborted, inFlight, enq, calls>>
         \/ PoppedIs(g, n, Head(Of(g, n, Head(FreshOrder(g, n)))))
BY DEF Pop, PoppedIs, jobs, tasks

\* The loop holds the job it has popped.
LEMMA AdmitLoopIs ==
  ASSUME Types, NEW g \in Gens, NEW j \in Jobs, loop' = [loop EXCEPT ![g].at = "admit", ![g].job = j]
  PROVE  /\ loop' \in [Gens -> Loop] /\ loop'[g].at = "admit" /\ loop'[g].job = j
         /\ loop'[g].permit = loop[g].permit /\ \A h \in Gens \ {g} : loop'[h] = loop[h]
BY DEF Types, Loop, LoopAt

\* Pop keeps the types.
LEMMA PopTypes ==
  ASSUME Types, Queues, Fair, Line, NoneIdle, NEW g \in Gens, NEW n \in Nat, Pop(g, n)
  PROVE  Types'
<1>1. CASE /\ DropPermit(g, Rest(g)) /\ (UNCHANGED <<order, queue, job>> \/ Drained(g))
           /\ UNCHANGED <<disp, gen, aborted, inFlight, enq, calls>>
  <2> DEFINE at == Rest(g)
  <2>0. at \in LoopAt /\ DropPermit(g, at) BY <1>1, RestIs
  <2> HIDE DEF at
  <2>1. loop' \in [Gens -> Loop] /\ Release(loop[g].permit) BY <2>0, DropPermitIs
  <2>2. sched' \in Sched /\ wake' \in [Gens -> BOOLEAN] BY <2>1, Dropped
  <2>3. order' \in [Gens -> Seq(Principals)] /\ queue' \in [Gens -> Seq(Jobs)] /\ job' \in [Jobs -> Job]
    BY <1>1, DrainedTypes DEF Types
  <2> QED BY <1>1, <2>1, <2>2, <2>3 DEF Types
<1>2. ASSUME NEW j, PoppedIs(g, n, j) PROVE Types'
  <2>1. j \in Jobs /\ Kept(Fresh(g, n), Jobs \ {j}) \in Seq(Jobs) /\ NextOrder(g, n) \in Seq(Principals)
    BY <1>2, PopIs DEF PoppedIs, Takes
  <2>2. Expired(g, n) \in [Jobs -> Job] BY ExpiredIs
  <2>3. job' \in [Jobs -> Job] BY <1>2, <2>1, <2>2 DEF PoppedIs, Job, JobAt
  <2>4. loop' \in [Gens -> Loop]
    <3>1. loop' = [loop EXCEPT ![g].at = "admit", ![g].job = j] BY <1>2 DEF PoppedIs
    <3> QED BY <2>1, <3>1, AdmitLoopIs
  <2>5. queue' \in [Gens -> Seq(Jobs)] /\ order' \in [Gens -> Seq(Principals)] BY <1>2, <2>1 DEF PoppedIs, Types
  <2> QED BY <1>2, <2>3, <2>4, <2>5 DEF PoppedIs, Types
<1> QED BY <1>1, <1>2, PopCases

\* Admit: a revoked generation's task is told to stop at once, another's is
\* one that revoke will find.
Admitted(g, j) ==
  /\ loop[g].at = "admit" /\ j = loop[g].job
  /\ job' = [job EXCEPT ![j].at = "spawned"]
  /\ UNCHANGED <<disp, gen, order, queue, enq, calls>>

\* The two branches of Admit.
LEMMA AdmitCases ==
  ASSUME NEW g, Admit(g)
  PROVE  /\ Admitted(g, loop[g].job)
         /\ \/ Revoked(g) /\ DropPermit(g, "next") /\ aborted' = aborted \cup {loop[g].job} /\ UNCHANGED inFlight
            \/ /\ ~Revoked(g) /\ inFlight' = [inFlight EXCEPT ![g] = @ \cup {loop[g].job}]
               /\ Goto(g, "send") /\ UNCHANGED <<aborted, sched, wake>>
BY DEF Admit, Admitted

\* Only the stage of one job changes.
LEMMA JobAtIs ==
  ASSUME Types, NEW j \in Jobs, NEW a \in JobAt, job' = [job EXCEPT ![j].at = a]
  PROVE  /\ job' \in [Jobs -> Job] /\ \A i \in Jobs \ {j} : job'[i] = job[i]
         /\ job'[j].at = a /\ job'[j].gen = job[j].gen /\ job'[j].who = job[j].who /\ job'[j].permit = job[j].permit
BY DEF Types, Job

\* Admit keeps the types.
LEMMA AdmitTypes ==
  ASSUME Types, Loops, Line, NoneIdle, NEW g \in Gens, Admit(g)
  PROVE  Types'
<1> DEFINE j == loop[g].job
<1>1. Admitted(g, j) BY AdmitCases
<1>2. j \in Jobs BY <1>1 DEF Admitted, Loops, LoopFits
<1>3. job' \in [Jobs -> Job] BY <1>1, <1>2, JobAtIs DEF Admitted, JobAt
<1>0. "next" \in LoopAt /\ "send" \in LoopAt BY DEF LoopAt
<1>4. CASE DropPermit(g, "next") /\ aborted' = aborted \cup {j} /\ UNCHANGED inFlight
  <2>1. loop' \in [Gens -> Loop] /\ Release(loop[g].permit) BY <1>0, <1>4, DropPermitIs
  <2>2. sched' \in Sched /\ wake' \in [Gens -> BOOLEAN] BY <2>1, Dropped
  <2> QED BY <1>1, <1>2, <1>3, <1>4, <2>1, <2>2 DEF Types, Admitted
<1>5. CASE inFlight' = [inFlight EXCEPT ![g] = @ \cup {j}] /\ Goto(g, "send") /\ UNCHANGED <<aborted, sched, wake>>
  <2>1. loop' \in [Gens -> Loop] BY <1>0, <1>5, GotoIs
  <2>2. inFlight' \in [Gens -> SUBSET Jobs] BY <1>2, <1>5 DEF Types
  <2> QED BY <1>1, <1>3, <1>5, <2>1, <2>2 DEF Types, Admitted
<1> QED BY <1>4, <1>5, AdmitCases

\* SendStart: the task is gone, or it gets the permit.
LEMMA SendStartCases ==
  ASSUME NEW g, SendStart(g), NEW j, j = loop[g].job
  PROVE  /\ loop[g].at = "send" /\ UNCHANGED <<disp, gen, order, queue, aborted, enq, calls>>
         /\ \/ /\ job[j].at = "ended" /\ DropPermit(g, "next")
               /\ inFlight' = [inFlight EXCEPT ![g] = @ \ {j}] /\ UNCHANGED job
            \/ /\ job[j].at # "ended" /\ job' = [job EXCEPT ![j].at = "started", ![j].permit = loop[g].permit]
               /\ loop' = [loop EXCEPT ![g] = [at |-> "next", job |-> 0, permit |-> "none"]]
               /\ UNCHANGED <<inFlight, sched, wake>>
BY DEF SendStart

\* What starting the task of job j does to the tables.
Started(g, j) ==
  /\ job' \in [Jobs -> Job] /\ \A i \in Jobs \ {j} : job'[i] = job[i]
  /\ job'[j].at = "started" /\ job'[j].gen = job[j].gen /\ job'[j].who = job[j].who
  /\ job'[j].permit = loop[g].permit
  /\ loop' \in [Gens -> Loop] /\ \A h \in Gens \ {g} : loop'[h] = loop[h]
  /\ loop'[g].at = "next" /\ loop'[g].job = 0 /\ loop'[g].permit = "none"

\* The permit goes from the loop to the task.
LEMMA StartedIs ==
  ASSUME Types, NEW g \in Gens, NEW j \in Jobs,
         job' = [job EXCEPT ![j].at = "started", ![j].permit = loop[g].permit],
         loop' = [loop EXCEPT ![g] = [at |-> "next", job |-> 0, permit |-> "none"]]
  PROVE  Started(g, j)
<1>1. loop[g].permit \in Permits BY LoopIs
<1>2. /\ job' \in [Jobs -> Job] /\ \A i \in Jobs \ {j} : job'[i] = job[i]
      /\ job'[j].at = "started" /\ job'[j].gen = job[j].gen /\ job'[j].who = job[j].who
      /\ job'[j].permit = loop[g].permit
  BY <1>1 DEF Types, Job, JobAt
<1>3. /\ loop' \in [Gens -> Loop] /\ \A h \in Gens \ {g} : loop'[h] = loop[h]
      /\ loop'[g].at = "next" /\ loop'[g].job = 0 /\ loop'[g].permit = "none"
  BY DEF Types, Loop, LoopAt, Permits
<1> QED BY <1>2, <1>3 DEF Started

\* SendStart keeps the types.
LEMMA SendStartTypes ==
  ASSUME Types, Loops, Line, NoneIdle, NEW g \in Gens, SendStart(g)
  PROVE  Types'
<1> DEFINE j == loop[g].job
<1>1. loop[g].at = "send" /\ UNCHANGED <<disp, gen, order, queue, aborted, enq, calls>> BY SendStartCases
<1>2. j \in Jobs BY <1>1 DEF Loops, LoopFits
<1>3. CASE DropPermit(g, "next") /\ inFlight' = [inFlight EXCEPT ![g] = @ \ {j}] /\ UNCHANGED job
  <2>1. loop' \in [Gens -> Loop] /\ Release(loop[g].permit) BY <1>3, DropPermitIs DEF LoopAt
  <2>2. sched' \in Sched /\ wake' \in [Gens -> BOOLEAN] BY <2>1, Dropped
  <2>3. inFlight' \in [Gens -> SUBSET Jobs] BY <1>3 DEF Types
  <2> QED BY <1>1, <1>3, <2>1, <2>2, <2>3 DEF Types
<1>4. CASE /\ job' = [job EXCEPT ![j].at = "started", ![j].permit = loop[g].permit]
           /\ loop' = [loop EXCEPT ![g] = [at |-> "next", job |-> 0, permit |-> "none"]]
           /\ UNCHANGED <<inFlight, sched, wake>>
  BY <1>1, <1>2, <1>4, StartedIs DEF Types, Started
<1> QED BY <1>3, <1>4, SendStartCases

\* TaskEnds: what becomes of the task.
LEMMA EndedIs ==
  ASSUME Types, NEW j \in Jobs, NEW polled \in BOOLEAN, TaskEnds(j, polled)
  PROVE  /\ job' \in [Jobs -> Job] /\ \A i \in Jobs \ {j} : job'[i] = job[i]
         /\ job[j].at \in {"spawned", "started"}
         /\ job'[j].at = "ended" /\ job'[j].gen = job[j].gen /\ job'[j].who = job[j].who /\ job'[j].permit = "none"
         /\ inFlight' \in [Gens -> SUBSET Jobs] /\ \A h \in Gens : inFlight[h] \ {j} \subseteq inFlight'[h]
         /\ aborted' = aborted \ {j}
         /\ UNCHANGED <<disp, gen, loop, order, queue, enq, calls>>
<1>1. job' = [job EXCEPT ![j].at = "ended", ![j].permit = "none"] BY DEF TaskEnds
<1>2. /\ job' \in [Jobs -> Job] /\ \A i \in Jobs \ {j} : job'[i] = job[i]
      /\ job'[j].at = "ended" /\ job'[j].gen = job[j].gen /\ job'[j].who = job[j].who /\ job'[j].permit = "none"
  BY <1>1 DEF Types, Job, JobAt, Permits
<1>3. inFlight' = inFlight \/ inFlight' = [inFlight EXCEPT ![job[j].gen] = @ \ {j}] BY DEF TaskEnds
<1>4. inFlight' \in [Gens -> SUBSET Jobs] /\ \A h \in Gens : inFlight[h] \ {j} \subseteq inFlight'[h]
  BY <1>3, ZenonT(40) DEF Types
<1> QED BY <1>2, <1>4 DEF TaskEnds

\* The end of a task keeps the types.
LEMMA TaskEndsTypes ==
  ASSUME Types, Line, NoneIdle, NEW j \in Jobs, NEW polled \in BOOLEAN, TaskEnds(j, polled)
  PROVE  Types'
<1> DEFINE p == job[j].permit
<1>1. UNCHANGED <<sched, wake>> \/ Release(p) BY DEF TaskEnds
<1> HIDE DEF p
<1>2. sched' \in Sched /\ wake' \in [Gens -> BOOLEAN] BY <1>1, Dropped DEF Types
<1> QED BY <1>2, EndedIs DEF Types

\* A loop that revokes its own generation, and that drops its lease.
LEMMA OwnRevokeIs ==
  ASSUME Types, NEW g \in Gens, gen' = [gen EXCEPT ![g].phase = "flagged", ![g].own = TRUE]
  PROVE  /\ gen' \in [Gens -> Gen] /\ gen'[g].phase = "flagged" /\ gen'[g].key = gen[g].key
         /\ gen'[g].profile = gen[g].profile /\ \A h \in Gens \ {g} : gen'[h] = gen[h]
BY ZenonT(40) DEF Types, Gen, Phases

\* The lease that is dropped is no longer the current one.
LEMMA ReleaseCurrentIs ==
  ASSUME Types, NEW g \in Gens, CloseDrops(g)
  PROVE  /\ disp' \in [Profiles -> Disp]
         /\ \A p \in Profiles : /\ disp'[p].latched = disp[p].latched /\ disp'[p].blocked = disp[p].blocked
                                /\ disp'[p].current = disp[p].current \/ (disp[p].current = g /\ disp'[p].current = 0)
<1> DEFINE p == gen[g].profile
           c == IF disp[p].current = g THEN 0 ELSE disp[p].current
<1>1. disp' = [disp EXCEPT ![p].current = IF @ = g THEN 0 ELSE @] BY DEF CloseDrops
<1>2. disp \in [Profiles -> Disp] BY DEF Types
<1>3. CASE p \notin Profiles
  <2> HIDE DEF p
  <2> QED BY <1>1, <1>2, <1>3
<1>4. CASE p \in Profiles
  <2> HIDE DEF p
  <2>1. disp' = [disp EXCEPT ![p].current = c] BY <1>1, <1>2, <1>4 DEF Disp
  <2>2. c \in 0..MaxGens BY <1>2, <1>4, Constants DEF Disp
  <2>3. c = disp[p].current \/ (disp[p].current = g /\ c = 0) OBVIOUS
  <2> HIDE DEF c
  <2> QED BY <1>2, <1>4, <2>1, <2>2, <2>3 DEF Disp
<1> QED BY <1>3, <1>4

\* The other steps of the loop.
LEMMA LoopTypes ==
  ASSUME Types, Line, NEW g \in Gens,
         LoopStarts(g) \/ DispatchNext(g) \/ TryAcquire(g) \/ Woken(g) \/ Joins(g) \/ Data(g) \/ CloseRevokes(g) \/ CloseDrops(g)
  PROVE  Types'
<1>0. {"acquire", "closing", "gone"} \subseteq LoopAt BY DEF LoopAt
<1>z. 0 \in 0..MaxGens BY Constants
<1>1. CASE LoopStarts(g)
  <2>1. gen' \in [Gens -> Gen] BY <1>1, <1>z, ZenonT(40) DEF LoopStarts, Types, Gen
  <2> QED BY <1>1, <2>1, ResumeIs DEF LoopStarts, Types, tasks
<1>2. CASE DispatchNext(g)
  <2> DEFINE at == IF Cardinality(Tasks(g)) < Workers /\ HasWork(g) THEN "acquire" ELSE Rest(g)
  <2>1. at \in LoopAt /\ Goto(g, at) BY <1>0, <1>2, RestIs DEF DispatchNext
  <2> HIDE DEF at
  <2>2. loop' \in [Gens -> Loop] BY <2>1, GotoIs
  <2> QED BY <1>2, <2>2 DEF DispatchNext, Types, jobs, tasks
<1>3. CASE TryAcquire(g)
  <2>1. loop' \in [Gens -> Loop]
    <3> DEFINE at == Rest(g)
    <3>1. at \in LoopAt /\ (Issue(g) \/ Goto(g, at)) BY <1>3, RestIs DEF TryAcquire
    <3> HIDE DEF at
    <3> QED BY <3>1, GotoIs, IssueIs
  <2>2. sched' \in Sched BY <1>3, TryAcquireIs, AcquiredIs
  <2> QED BY <1>3, <2>1, <2>2, TryAcquireIs DEF Types
<1>4. CASE Woken(g)
  <2>1. wake' \in [Gens -> BOOLEAN] BY <1>4 DEF Woken, Types
  <2> QED BY <1>4, <2>1, ResumeIs DEF Woken, Types, tasks
<1>5. CASE Joins(g) \/ Data(g) BY <1>5, ResumeIs DEF Joins, Data, Types, tasks
<1>6. CASE CloseRevokes(g)
  <2>1. loop' \in [Gens -> Loop] BY <1>0, <1>6, GotoIs DEF CloseRevokes
  <2>2. gen' \in [Gens -> Gen] BY <1>6, OwnRevokeIs DEF CloseRevokes, Types
  <2>3. order' \in [Gens -> Seq(Principals)] /\ queue' \in [Gens -> Seq(Jobs)] /\ job' \in [Jobs -> Job]
    BY <1>6, DrainedTypes DEF CloseRevokes, jobs, Types
  <2> QED BY <1>6, <2>1, <2>2, <2>3 DEF CloseRevokes, Types, tasks
<1>7. CASE CloseDrops(g)
  <2>1. loop' \in [Gens -> Loop] BY <1>0, <1>7, GotoIs DEF CloseDrops
  <2>2. aborted' \subseteq Jobs BY <1>7 DEF CloseDrops, Types, Unfinished, JobsOf
  <2>3. disp' \in [Profiles -> Disp] BY <1>7, ReleaseCurrentIs
  <2> QED BY <1>7, <2>1, <2>2, <2>3 DEF CloseDrops, Types, jobs
<1> QED BY <1>1, <1>2, <1>3, <1>4, <1>5, <1>6, <1>7

-----------------------------------------------------------------------------
(* What a step leaves alone *)

\* No generation ends and no permit moves.
SameEnds ==
  \A g \in Gens : /\ gen'[g].phase = "done" <=> gen[g].phase = "done"
                  /\ gen'[g].phase = "retired" <=> gen[g].phase = "retired"
SamePermits ==
  /\ \A g \in Gens : loop'[g].permit = loop[g].permit
  /\ \A j \in Jobs : job'[j].permit = job[j].permit /\ (job[j].permit # "none" => job'[j].gen = job[j].gen)

\* Then the line and the count of workers stay as they are.
LEMMA WorkersKept ==
  ASSUME Line, Enough, NoneIdle, SameEnds, SamePermits, sched' = sched
  PROVE  Line' /\ Enough' /\ NoneIdle'
<1>1. Alive' = Alive BY DEF SameEnds, Alive, Phase
<1>2. Held' = Held BY DEF SamePermits, Held
<1>3. {j \in HeldByTasks : job[j].gen \in Alive}' = {j \in HeldByTasks : job[j].gen \in Alive}
  BY <1>1 DEF SamePermits, HeldByTasks
<1>4. Owed(sched, Alive)' = Owed(sched, Alive) BY <1>1 DEF Owed
<1>5. Line'
  <2>1. {g \in Gens : Phase(g) = "done"}' = {g \in Gens : Phase(g) = "done"} BY DEF SameEnds, Phase
  <2> QED BY <1>1, <2>1 DEF Line
<1>6. Enough' BY <1>1, <1>2, <1>3, <1>4 DEF Enough
<1> QED BY <1>5, <1>6 DEF NoneIdle

\* The queues stay as they are, and so do the jobs in them.
LEMMA QueuesKept ==
  ASSUME Types, Queues, Fair, queue' = queue, order' = order,
         \A j \in Jobs : \/ job'[j].at = "queued" /\ job'[j].gen = job[j].gen /\ job'[j].who = job[j].who
                         \/ job[j].at # "queued",
         \A j \in Jobs : job'[j].permit # "none" => job'[j].at = "started"
  PROVE  Queues' /\ Fair'
<1>1. \A g : Queued(g)' = Queued(g) BY DEF Queued
<1>2. ASSUME NEW g \in Gens, NEW j \in Queued(g)
      PROVE  j \in Jobs /\ job'[j].at = "queued" /\ job'[j].gen = g /\ job'[j].who = job[j].who
  <2>1. j \in Jobs BY DEF Types, Queued, Range
  <2>2. job[j].at = "queued" /\ job[j].gen = g BY DEF Queues
  <2> QED BY <2>1, <2>2
<1>3. Queues' BY <1>1, <1>2 DEF Queues
<1>4. \A g \in Gens : {job'[j].who : j \in Queued(g)} = {job[j].who : j \in Queued(g)} BY <1>2
<1>5. Fair' BY <1>1, <1>4 DEF Fair
<1> QED BY <1>3, <1>5

\* A task that has not ended is neither new nor forgotten.
LEMMA SilenceKept ==
  ASSUME Silence,
         \A g \in Gens : gen'[g].phase \in {"aborted", "done", "retired"} => gen[g].phase \in {"aborted", "done", "retired"},
         \A g \in Gens : \A j \in Unfinished(g)' :
           /\ j \in Unfinished(g) /\ (j \in aborted => j \in aborted')
           /\ j \in inFlight[g] => j \in inFlight'[g] \/ j \in aborted'
  PROVE  Silence'
<1> SUFFICES ASSUME NEW g \in Gens, NEW j \in Unfinished(g)'
             PROVE  j \in aborted' \/ (j \in inFlight'[g] /\ gen'[g].phase \notin {"aborted", "done", "retired"})
  BY DEF Silence, Phase
<1>1. j \in aborted \/ (j \in inFlight[g] /\ gen[g].phase \notin {"aborted", "done", "retired"}) BY DEF Silence, Phase
<1> QED BY <1>1

\* A loop stays where it is, with its job.
LEMMA LoopKept ==
  ASSUME NEW h \in Gens, LoopFits(h), loop'[h] = loop[h],
         gen'[h].phase = "none" => gen[h].phase = "none",
         gen'[h].phase \in {"live", "called"} => gen[h].phase \in {"live", "called"},
         gen'[h].phase = "retired" => gen[h].phase = "retired" \/ loop[h].at = "gone",
         loop[h].at \in {"admit", "send"} =>
           /\ job'[loop[h].job].gen = job[loop[h].job].gen
           /\ \/ job'[loop[h].job].at = job[loop[h].job].at
              \/ job[loop[h].job].at = "spawned" /\ job'[loop[h].job].at = "ended"
  PROVE  LoopFits(h)'
BY DEF LoopFits, Phase

\* Watched after a step, generation by generation.
LEMMA WatchedAll ==
  ASSUME \A g \in Gens : gen'[g].phase = "live" /\ loop'[g].at = "parked" /\ Queued(g)' # {} =>
           wake'[g] \/ Tasks(g)' # {} \/ g \in Range(sched'.order)
  PROVE  Watched'
BY DEF Watched, Phase

-----------------------------------------------------------------------------
(* The dispatcher *)

\* The inductive invariant, with NoWorkerLost in its two parts.
IInv == Types /\ Voice /\ Loops /\ Queues /\ Fair /\ Silence /\ Line /\ Enough /\ NoneIdle /\ Watched

\* A generation that is admitted, is about to be revoked, or stays as it is.
Shifts(h) ==
  \/ /\ loop'[h] = loop[h]
     /\ gen'[h].phase = gen[h].phase \/ (gen[h].phase = "live" /\ gen'[h].phase = "called")
  \/ /\ gen[h].phase = "none" /\ gen'[h].phase = "live"
     /\ loop'[h].at = "start" /\ loop'[h].permit = loop[h].permit

\* Only Voice depends on more than that of what the dispatcher does.
LEMMA ShiftsKeep ==
  ASSUME IInv, UNCHANGED <<order, queue, job, aborted, inFlight, sched, wake>>, \A h \in Gens : Shifts(h)
  PROVE  Loops' /\ Queues' /\ Fair' /\ Silence' /\ Line' /\ Enough' /\ NoneIdle' /\ Watched'
<1> USE DEF IInv
<1>1. ASSUME NEW h \in Gens PROVE LoopFits(h)'
  <2>1. LoopFits(h) BY DEF Loops
  <2>2. CASE loop'[h] = loop[h] /\ (gen'[h].phase = gen[h].phase \/ (gen[h].phase = "live" /\ gen'[h].phase = "called"))
    BY <2>1, <2>2, LoopKept
  <2>3. CASE /\ gen[h].phase = "none" /\ gen'[h].phase = "live"
             /\ loop'[h].at = "start" /\ loop'[h].permit = loop[h].permit
    BY <2>1, <2>3 DEF LoopFits, Phase
  <2> QED BY <2>2, <2>3 DEF Shifts
<1>2. Queues' /\ Fair'
  <2>1. \A j \in Jobs : job[j].permit # "none" => job[j].at = "started" BY DEF Queues
  <2> QED BY <2>1, QueuesKept
<1>3. Silence'
  <2>1. \A g \in Gens : Unfinished(g)' = Unfinished(g) BY DEF Unfinished, JobsOf
  <2> QED BY <2>1, SilenceKept DEF Shifts
<1>4. Line' /\ Enough' /\ NoneIdle'
  <2>1. SameEnds BY DEF SameEnds, Shifts
  <2>2. SamePermits BY DEF SamePermits, Shifts
  <2> QED BY <2>1, <2>2, WorkersKept
<1>5. Watched'
  <2>1. ASSUME NEW g \in Gens, gen'[g].phase = "live", loop'[g].at = "parked"
        PROVE gen[g].phase = "live" /\ loop[g].at = "parked"
    BY <2>1 DEF Shifts
  <2>2. \A g \in Gens : Queued(g)' = Queued(g) /\ Tasks(g)' = Tasks(g) BY DEF Queued, Tasks, Unfinished, JobsOf
  <2> QED BY <2>1, <2>2, WatchedAll DEF Watched, Phase
<1> QED BY <1>1, <1>2, <1>3, <1>4, <1>5 DEF Loops

\* Whoever revokes the current generation leaves the profile without one.
LEMMA CurrentRevoked ==
  ASSUME Types, Voice, NEW p \in Profiles, gen' = CallRevoke(gen, disp[p].current),
         disp' \in [Profiles -> Disp], disp'[p].current = 0, \A q \in Profiles \ {p} : disp'[q] = disp[q], loop' = loop
  PROVE  Voice' /\ \A h \in Gens : Shifts(h)
<1> DEFINE c == disp[p].current
<1>1. /\ gen' \in [Gens -> Gen]
      /\ \A h \in Gens : /\ gen'[h].phase = IF h = c /\ gen[h].phase = "live" THEN "called" ELSE gen[h].phase
                         /\ gen'[h].key = gen[h].key /\ gen'[h].profile = gen[h].profile
  <2>1. gen \in [Gens -> Gen] /\ gen' = CallRevoke(gen, c) BY DEF Types
  <2> HIDE DEF c
  <2> QED BY <2>1, CallRevokeIs
<1>2. ASSUME NEW g \in Gens, gen'[g].phase = "live"
      PROVE  /\ disp'[gen'[g].profile].current = g
             /\ ~disp'[gen'[g].profile].blocked /\ gen'[g].key \notin disp'[gen'[g].profile].latched
  <2>1. gen[g].phase = "live" /\ g # c BY <1>1, <1>2
  <2>2. /\ disp[gen[g].profile].current = g /\ gen[g].profile \in Profiles
        /\ ~disp[gen[g].profile].blocked /\ gen[g].key \notin disp[gen[g].profile].latched
    BY <2>1 DEF Voice, Phase
  <2>3. gen[g].profile # p BY <2>1, <2>2
  <2> QED BY <1>1, <2>2, <2>3
<1>3. ASSUME NEW q \in Profiles, disp'[q].current # 0 PROVE gen'[disp'[q].current].phase \notin {"none", "retired"}
  <2>1. q # p /\ disp'[q] = disp[q] BY <1>3
  <2>2. disp[q].current \in Gens BY <1>3, <2>1, Constants DEF Types, Disp
  <2>3. gen[disp[q].current].phase \notin {"none", "retired"} BY <1>3, <2>1 DEF Voice, Phase
  <2> QED BY <1>1, <2>1, <2>2, <2>3
<1>4. ASSUME NEW g \in Gens, gen'[g].phase \notin {"none", "retired"} PROVE gen'[g].key \in Keys /\ gen'[g].profile \in Profiles
  BY <1>1, <1>4 DEF Voice, Phase
<1>5. \A h \in Gens : Shifts(h) BY <1>1 DEF Shifts
<1> QED BY <1>2, <1>3, <1>4, <1>5 DEF Voice, Phase

\* The dispatcher's operations keep the invariant.
LEMMA DispatcherKeeps ==
  ASSUME IInv, NEW p \in Profiles,
         \/ RevokeCurrent(p) \/ RevokeCurrentAndLatch(p)
         \/ \E k \in Keys : LatchKeyRevoked(p, k) \/ InstallAuthenticatedReplacement(p, k)
         \/ \E g \in Gens, k \in Keys : Activate(g, p, k)
         \/ \E q \in Producers : EnqueueBegins(q, p)
  PROVE  IInv'
<1> DEFINE c == disp[p].current
<1>0. Types /\ Voice /\ Loops BY DEF IInv
<1>t. Types' BY <1>0, DispatcherTypes
<1>d. disp \in [Profiles -> Disp] /\ disp' \in [Profiles -> Disp] BY <1>0, <1>t DEF Types
<1>u. UNCHANGED <<order, queue, job, aborted, inFlight, sched, wake>>
  BY DEF RevokeCurrent, RevokeCurrentAndLatch, LatchKeyRevoked, InstallAuthenticatedReplacement, Activate, EnqueueBegins, jobs, tasks
<1> SUFFICES Voice' /\ \A h \in Gens : Shifts(h)
  <2> HIDE DEF c
  <2> QED BY <1>t, <1>u, ShiftsKeep DEF IInv
<1>s. ASSUME gen' = gen, loop' = loop PROVE \A h \in Gens : Shifts(h) BY <1>s DEF Shifts
<1>1. CASE RevokeCurrent(p)
  <2>1. disp' = [disp EXCEPT ![p].current = 0] /\ gen' = CallRevoke(gen, disp[p].current) /\ loop' = loop
    BY <1>1 DEF RevokeCurrent
  <2>2. disp'[p].current = 0 /\ \A q \in Profiles \ {p} : disp'[q] = disp[q] BY <1>d, <2>1 DEF Disp
  <2> QED BY <1>0, <1>d, <2>1, <2>2, CurrentRevoked
<1>2. CASE RevokeCurrentAndLatch(p)
  <2>1. gen' = CallRevoke(gen, disp[p].current) /\ loop' = loop BY <1>2 DEF RevokeCurrentAndLatch
  <2>2. disp'[p].current = 0 /\ \A q \in Profiles \ {p} : disp'[q] = disp[q]
    BY <1>d, <1>2 DEF RevokeCurrentAndLatch
  <2> QED BY <1>0, <1>d, <2>1, <2>2, CurrentRevoked
<1>3. ASSUME NEW k \in Keys, LatchKeyRevoked(p, k) PROVE Voice' /\ \A h \in Gens : Shifts(h)
  <2>1. CASE c # 0 /\ gen[c].key = k
    <3>1. disp' = [disp EXCEPT ![p].latched = @ \cup {k}, ![p].current = 0]
      BY <1>3, <1>d, <2>1 DEF LatchKeyRevoked, Disp
    <3>2. gen' = CallRevoke(gen, disp[p].current) /\ loop' = loop BY <1>3, <2>1 DEF LatchKeyRevoked
    <3>3. disp'[p].current = 0 /\ \A q \in Profiles \ {p} : disp'[q] = disp[q] BY <1>d, <3>1 DEF Disp
    <3> QED BY <1>0, <1>d, <3>2, <3>3, CurrentRevoked
  <2>2. CASE ~(c # 0 /\ gen[c].key = k)
    <3>1. gen' = gen /\ loop' = loop BY <1>3, <2>2 DEF LatchKeyRevoked
    <3>2. \A q \in Profiles : /\ disp'[q].current = disp[q].current /\ disp'[q].blocked = disp[q].blocked
                              /\ disp'[q].latched = IF q = p THEN disp[q].latched \cup {k} ELSE disp[q].latched
      BY <1>3, <1>d, <2>2 DEF LatchKeyRevoked, Disp
    <3>3. ASSUME NEW g \in Gens, gen[g].phase = "live", gen[g].profile = p PROVE gen[g].key # k
      <4>1. g = c /\ g # 0 BY <1>0, <3>3, Constants DEF Voice, Phase
      <4> QED BY <2>2, <4>1
    <3>4. ASSUME NEW g \in Gens, gen[g].phase = "live"
          PROVE  /\ disp'[gen[g].profile].current = g
                 /\ ~disp'[gen[g].profile].blocked /\ gen[g].key \notin disp'[gen[g].profile].latched
      <4>1. /\ disp[gen[g].profile].current = g /\ gen[g].profile \in Profiles
            /\ ~disp[gen[g].profile].blocked /\ gen[g].key \notin disp[gen[g].profile].latched
        BY <1>0, <3>4 DEF Voice, Phase
      <4> QED BY <3>2, <3>3, <3>4, <4>1
    <3>5. \A q \in Profiles : disp'[q].current # 0 => gen[disp'[q].current].phase \notin {"none", "retired"}
      BY <1>0, <3>2 DEF Voice, Phase
    <3>6. Voice' BY <1>0, <3>1, <3>4, <3>5 DEF Voice, Phase
    <3> QED BY <1>s, <3>1, <3>6
  <2> QED BY <2>1, <2>2
<1>4. ASSUME NEW k \in Keys, InstallAuthenticatedReplacement(p, k) PROVE Voice' /\ \A h \in Gens : Shifts(h)
  <2>1. gen' = gen /\ loop' = loop BY <1>4 DEF InstallAuthenticatedReplacement
  <2>2. \A q \in Profiles : /\ disp'[q].current = disp[q].current /\ disp'[q].blocked = disp[q].blocked
                            /\ disp'[q].latched \subseteq disp[q].latched
    BY <1>4, <1>d DEF InstallAuthenticatedReplacement, Disp
  <2>3. Voice' BY <1>0, <2>1, <2>2 DEF Voice, Phase
  <2> QED BY <1>s, <2>1, <2>3
<1>5. ASSUME NEW g \in Gens, NEW k \in Keys, Activate(g, p, k) PROVE Voice' /\ \A h \in Gens : Shifts(h)
  <2> DEFINE new == [phase |-> "live", key |-> k, profile |-> p, prev |-> c, own |-> FALSE]
             f == [gen EXCEPT ![g] = new]
  <2>1. gen' = CallRevoke(f, c) /\ loop' = [loop EXCEPT ![g].at = "start"] /\ disp' = [disp EXCEPT ![p].current = g]
    BY <1>5 DEF Activate
  <2>2. gen[g].phase = "none" /\ ~disp[p].blocked /\ k \notin disp[p].latched BY <1>5 DEF Activate, Phase
  <2>3. c \in 0..MaxGens BY <1>d DEF Disp
  <2>4. c # 0 => c \in Gens /\ gen[c].phase \notin {"none", "retired"} BY <1>0, <2>3, Constants DEF Voice, Phase
  <2>5. c # g BY <2>2, <2>4, Constants
  <2>6. f \in [Gens -> Gen] /\ f[g] = new /\ \A h \in Gens \ {g} : f[h] = gen[h]
    <3>1. new \in Gen BY <2>3 DEF Gen, Phases
    <3>2. gen \in [Gens -> Gen] BY <1>0 DEF Types
    <3> HIDE DEF new
    <3> QED BY <3>1, <3>2
  <2>7. \A h \in Gens : /\ gen'[h].phase = IF h = c /\ f[h].phase = "live" THEN "called" ELSE f[h].phase
                        /\ gen'[h].key = f[h].key /\ gen'[h].profile = f[h].profile
    <3> HIDE DEF f, c
    <3> QED BY <2>1, <2>6, CallRevokeIs
  <2> HIDE DEF f
  <2>8. gen'[g].phase = "live" /\ gen'[g].key = k /\ gen'[g].profile = p BY <2>5, <2>6, <2>7
  <2>9. \A h \in Gens \ {g} : /\ gen'[h].phase = IF h = c /\ gen[h].phase = "live" THEN "called" ELSE gen[h].phase
                              /\ gen'[h].key = gen[h].key /\ gen'[h].profile = gen[h].profile
    BY <2>6, <2>7
  <2>10. /\ disp'[p].current = g /\ disp'[p].blocked = disp[p].blocked /\ disp'[p].latched = disp[p].latched
         /\ \A q \in Profiles \ {p} : disp'[q] = disp[q]
    BY <1>d, <2>1 DEF Disp
  <2>11. /\ loop'[g].at = "start" /\ loop'[g].permit = loop[g].permit /\ \A h \in Gens \ {g} : loop'[h] = loop[h]
    BY <1>0, <2>1 DEF Types, Loop
  <2>12. \A h \in Gens : Shifts(h) BY <2>2, <2>8, <2>9, <2>11 DEF Shifts
  <2>13. ASSUME NEW h \in Gens, gen'[h].phase = "live"
         PROVE  /\ disp'[gen'[h].profile].current = h
                /\ ~disp'[gen'[h].profile].blocked /\ gen'[h].key \notin disp'[gen'[h].profile].latched
    <3>1. CASE h = g BY <2>2, <2>8, <2>10, <3>1
    <3>2. CASE h # g
      <4>1. gen[h].phase = "live" /\ h # c BY <2>9, <2>13, <3>2
      <4>2. /\ disp[gen[h].profile].current = h /\ gen[h].profile \in Profiles
            /\ ~disp[gen[h].profile].blocked /\ gen[h].key \notin disp[gen[h].profile].latched
        BY <1>0, <4>1 DEF Voice, Phase
      <4>3. gen[h].profile # p BY <4>1, <4>2
      <4> QED BY <2>9, <2>10, <3>2, <4>2, <4>3
    <3> QED BY <3>1, <3>2
  <2>14. ASSUME NEW q \in Profiles, disp'[q].current # 0 PROVE gen'[disp'[q].current].phase \notin {"none", "retired"}
    <3>1. CASE q = p BY <2>8, <2>10, <3>1
    <3>2. CASE q # p
      <4>1. disp'[q] = disp[q] BY <2>10, <3>2
      <4>2. disp[q].current \in Gens BY <1>d, <2>14, <4>1, Constants DEF Disp
      <4>3. gen[disp[q].current].phase \notin {"none", "retired"} BY <1>0, <2>14, <4>1 DEF Voice, Phase
      <4> QED BY <2>2, <2>9, <4>1, <4>2, <4>3
    <3> QED BY <3>1, <3>2
  <2>15. ASSUME NEW h \in Gens, gen'[h].phase \notin {"none", "retired"} PROVE gen'[h].key \in Keys /\ gen'[h].profile \in Profiles
    <3>1. CASE h = g BY <2>8, <3>1
    <3>2. CASE h # g BY <1>0, <2>9, <2>15, <3>2 DEF Voice, Phase
    <3> QED BY <3>1, <3>2
  <2>16. Voice' BY <2>13, <2>14, <2>15 DEF Voice, Phase
  <2> QED BY <2>12, <2>16
<1>6. ASSUME NEW q \in Producers, EnqueueBegins(q, p) PROVE Voice' /\ \A h \in Gens : Shifts(h)
  <2>1. disp' = disp /\ gen' = gen /\ loop' = loop BY <1>6 DEF EnqueueBegins
  <2>2. Voice' BY <1>0, <2>1 DEF Voice, Phase
  <2> QED BY <1>s, <2>1, <2>2
<1> QED BY <1>1, <1>2, <1>3, <1>4, <1>5, <1>6

-----------------------------------------------------------------------------
(* Revocation *)

\* The generations go on towards their end, and the dispatcher stays as it is.
LEMMA VoiceKept ==
  ASSUME Types, Voice, disp' = disp,
         \A g \in Gens : /\ gen'[g].key = gen[g].key /\ gen'[g].profile = gen[g].profile
                         /\ \/ gen'[g].phase = gen[g].phase
                            \/ /\ gen'[g].phase \notin {"none", "live", "retired"}
                               /\ gen[g].phase \notin {"none", "retired"}
  PROVE  Voice'
<1>1. ASSUME NEW g \in Gens, gen'[g].phase = "live"
      PROVE  /\ disp'[gen'[g].profile].current = g
             /\ ~disp'[gen'[g].profile].blocked /\ gen'[g].key \notin disp'[gen'[g].profile].latched
  BY <1>1 DEF Voice, Phase
<1>2. ASSUME NEW q \in Profiles, disp'[q].current # 0 PROVE gen'[disp'[q].current].phase \notin {"none", "retired"}
  <2>1. disp[q].current \in Gens /\ disp'[q] = disp[q] BY <1>2, Constants DEF Types, Disp
  <2>2. gen[disp[q].current].phase \notin {"none", "retired"} BY <1>2 DEF Voice, Phase
  <2> QED BY <2>1, <2>2
<1>3. ASSUME NEW g \in Gens, gen'[g].phase \notin {"none", "retired"} PROVE gen'[g].key \in Keys /\ gen'[g].profile \in Profiles
  BY <1>3 DEF Voice, Phase
<1> QED BY <1>1, <1>2, <1>3 DEF Voice, Phase

\* Jobs that wait in a queue, or whose task has ended, are dropped.
Forgets(at) == \A j \in Jobs : job'[j] = job[j] \/ (job[j].at = at /\ job'[j] = NoJob)

\* No permit and no unfinished task is lost with such jobs.
LEMMA ForgetsIs ==
  ASSUME Types, Queues, NEW at \in {"queued", "ended"}, Forgets(at)
  PROVE  /\ \A j \in Jobs : job'[j].permit = job[j].permit /\ (job[j].permit # "none" => job'[j].gen = job[j].gen)
         /\ \A j \in Jobs : job'[j].permit # "none" => job'[j].at = "started"
         /\ \A g \in Gens : Unfinished(g)' = Unfinished(g)
<1>1. ASSUME NEW j \in Jobs
      PROVE  /\ job'[j].permit = job[j].permit /\ (job[j].permit # "none" => job'[j].gen = job[j].gen)
             /\ job'[j].permit # "none" => job'[j].at = "started"
  <2>1. job[j].permit # "none" => job[j].at = "started" BY DEF Queues
  <2> QED BY <2>1 DEF Forgets, NoJob
<1>2. ASSUME NEW g \in Gens PROVE Unfinished(g)' = Unfinished(g)
  BY Constants DEF Forgets, NoJob, Unfinished, JobsOf
<1> QED BY <1>1, <1>2

\* A queue is drained.
LEMMA DrainedIs ==
  ASSUME Types, Queues, Fair, NEW g \in Gens, Drained(g)
  PROVE  /\ Forgets("queued") /\ Queues' /\ Fair' /\ Queued(g)' = {}
         /\ \A h \in Gens \ {g} : Queued(h)' = Queued(h)
         /\ \A h \in Gens : Tasks(h)' = Tasks(h)
<1>1. queue' = [queue EXCEPT ![g] = <<>>] /\ order' = [order EXCEPT ![g] = <<>>] BY DEF Drained
<1>2. \A j \in Jobs : job'[j] = IF j \in Queued(g) THEN NoJob ELSE job[j] BY DEF Drained
<1>3. \A j \in Queued(g) : job[j].at = "queued" /\ job[j].gen = g BY DEF Queues
<1>4. Forgets("queued") BY <1>2, <1>3 DEF Forgets
<1>5. queue'[g] = <<>> /\ order'[g] = <<>> /\ \A h \in Gens \ {g} : queue'[h] = queue[h] /\ order'[h] = order[h]
  BY <1>1 DEF Types
<1>6. Queued(g)' = {} BY <1>5 DEF Queued, Range
<1>7. \A h \in Gens \ {g} : Queued(h)' = Queued(h) BY <1>5 DEF Queued
<1>8. ASSUME NEW h \in Gens \ {g}, NEW j \in Queued(h) PROVE job'[j] = job[j]
  <2>1. j \in Jobs BY DEF Types, Queued, Range
  <2>2. job[j].gen = h BY DEF Queues
  <2> QED BY <1>2, <1>3, <2>1, <2>2
<1>9. Queues'
  <2>1. \A h \in Gens : IsInjective(queue'[h]) BY <1>5 DEF Queues, IsInjective
  <2>2. \A h \in Gens : \A j \in Queued(h)' : job'[j].at = "queued" /\ job'[j].gen = h BY <1>6, <1>7, <1>8 DEF Queues
  <2> QED BY <1>4, <2>1, <2>2, ForgetsIs DEF Queues
<1>10. Fair'
  <2>1. ASSUME NEW h \in Gens PROVE IsInjective(order'[h]) /\ Range(order'[h]) = {job'[j].who : j \in Queued(h)'}
    <3>1. CASE h = g BY <1>5, <1>6, <3>1 DEF IsInjective, Range
    <3>2. CASE h # g
      <4>1. IsInjective(order[h]) /\ Range(order[h]) = {job[j].who : j \in Queued(h)} BY DEF Fair
      <4>2. {job'[j].who : j \in Queued(h)'} = {job[j].who : j \in Queued(h)} BY <1>7, <1>8, <3>2
      <4> QED BY <1>5, <3>2, <4>1, <4>2
    <3> QED BY <3>1, <3>2
  <2> QED BY <2>1 DEF Fair
<1>11. \A h \in Gens : Tasks(h)' = Tasks(h)
  BY <1>4, Constants DEF Forgets, NoJob, Tasks, Unfinished, JobsOf
<1> QED BY <1>4, <1>6, <1>7, <1>9, <1>10, <1>11

\* The flag is set and the queue drained, by the loop itself or by another.
LEMMA FlagKeeps ==
  ASSUME IInv, Types', NEW g \in Gens, Drained(g), UNCHANGED <<disp, aborted, inFlight, sched, wake>>,
         gen[g].phase \in {"live", "called"}, gen'[g].phase = "flagged",
         \A h \in Gens \ {g} : gen'[h].phase = gen[h].phase,
         \A h \in Gens : gen'[h].key = gen[h].key /\ gen'[h].profile = gen[h].profile,
         \A h \in Gens \ {g} : loop'[h] = loop[h],
         \/ loop'[g] = loop[g]
         \/ /\ loop[g].at \in {"parked", "body"} /\ loop'[g].at = "closing" /\ loop'[g].permit = loop[g].permit
  PROVE  IInv'
<1> USE DEF IInv
<1>1. Voice' BY VoiceKept
<1>2. /\ Forgets("queued") /\ Queues' /\ Fair' /\ Queued(g)' = {}
      /\ \A h \in Gens \ {g} : Queued(h)' = Queued(h)
      /\ \A h \in Gens : Tasks(h)' = Tasks(h)
  BY DrainedIs
<1>3. /\ \A j \in Jobs : job'[j].permit = job[j].permit /\ (job[j].permit # "none" => job'[j].gen = job[j].gen)
      /\ \A h \in Gens : Unfinished(h)' = Unfinished(h)
  BY <1>2, ForgetsIs
<1>4. ASSUME NEW h \in Gens PROVE LoopFits(h)'
  <2>1. LoopFits(h) BY DEF Loops
  <2>2. CASE loop'[h] = loop[h]
    <3>1. loop[h].at \in {"admit", "send"} => job'[loop[h].job] = job[loop[h].job] BY <1>2, <2>1 DEF Forgets, LoopFits
    <3> QED BY <2>1, <2>2, <3>1, LoopKept
  <2>3. CASE h = g /\ loop[g].at \in {"parked", "body"} /\ loop'[g].at = "closing" /\ loop'[g].permit = loop[g].permit
    BY <2>1, <2>3 DEF LoopFits, Phase
  <2> QED BY <2>2, <2>3
<1>5. Silence' BY <1>3, SilenceKept
<1>6. Line' /\ Enough' /\ NoneIdle'
  <2>1. SameEnds BY DEF SameEnds
  <2>2. SamePermits BY <1>3 DEF SamePermits
  <2> QED BY <2>1, <2>2, WorkersKept
<1>7. ASSUME NEW h \in Gens, gen'[h].phase = "live", loop'[h].at = "parked", Queued(h)' # {}
      PROVE  wake'[h] \/ Tasks(h)' # {} \/ h \in Range(sched'.order)
  BY <1>2, <1>7 DEF Watched, Phase
<1> QED BY <1>1, <1>2, <1>4, <1>5, <1>6, <1>7, WatchedAll DEF Loops

\* One loop goes somewhere else, with what it holds; tasks may be told to stop.
LEMMA LoopMoves ==
  ASSUME IInv, UNCHANGED <<gen, order, queue, job, inFlight, sched, wake>>, aborted \subseteq aborted',
         NEW g \in Gens, \A h \in Gens \ {g} : loop'[h] = loop[h], loop'[g].permit = loop[g].permit, LoopFits(g)',
         gen[g].phase = "live" /\ loop'[g].at = "parked" /\ Queued(g) # {} =>
           wake[g] \/ Tasks(g) # {} \/ g \in Range(sched.order)
  PROVE  Loops' /\ Queues' /\ Fair' /\ Silence' /\ Line' /\ Enough' /\ NoneIdle' /\ Watched'
<1> USE DEF IInv
<1>1. ASSUME NEW h \in Gens \ {g} PROVE LoopFits(h)'
  <2>1. LoopFits(h) BY DEF Loops
  <2> QED BY <2>1, LoopKept
<1>2. Queues' /\ Fair'
  <2>1. \A j \in Jobs : job[j].permit # "none" => job[j].at = "started" BY DEF Queues
  <2> QED BY <2>1, QueuesKept
<1>3. \A h \in Gens : Unfinished(h)' = Unfinished(h) /\ Tasks(h)' = Tasks(h) /\ Queued(h)' = Queued(h)
  BY DEF Unfinished, JobsOf, Tasks, Queued
<1>4. Silence' BY <1>3, SilenceKept
<1>5. Line' /\ Enough' /\ NoneIdle'
  <2>1. SameEnds BY DEF SameEnds
  <2>2. SamePermits BY DEF SamePermits
  <2> QED BY <2>1, <2>2, WorkersKept
<1>6. ASSUME NEW h \in Gens, gen'[h].phase = "live", loop'[h].at = "parked", Queued(h)' # {}
      PROVE  wake'[h] \/ Tasks(h)' # {} \/ h \in Range(sched'.order)
  <2>1. CASE h = g BY <1>3, <1>6, <2>1
  <2>2. CASE h # g BY <1>3, <1>6, <2>2 DEF Watched, Phase
  <2> QED BY <2>1, <2>2
<1> QED BY <1>1, <1>2, <1>4, <1>5, <1>6, WatchedAll DEF Loops

\* The loop revokes its own generation.
LEMMA CloseRevokesKeeps == ASSUME IInv, NEW g \in Gens, CloseRevokes(g) PROVE IInv'
<1>0. Types /\ Line /\ Voice /\ LoopFits(g) BY DEF IInv, Loops
<1>t. Types' BY <1>0, LoopTypes
<1>1. loop[g].at \in {"parked", "body"} /\ UNCHANGED <<disp, aborted, inFlight, enq, sched, wake, calls>>
  BY DEF CloseRevokes, tasks
<1>2. loop'[g].at = "closing" /\ loop'[g].permit = loop[g].permit /\ \A h \in Gens \ {g} : loop'[h] = loop[h]
  <2>1. Goto(g, "closing") BY DEF CloseRevokes
  <2> QED BY <1>0, <2>1, GotoIs DEF LoopAt
<1>3. CASE Revoked(g)
  <2>1. UNCHANGED <<gen, order, queue, job>> BY <1>3 DEF CloseRevokes, jobs
  <2>2. LoopFits(g)' BY <1>0, <1>1, <1>2, <1>3, <2>1 DEF LoopFits, Phase, Revoked
  <2>3. Voice' BY <1>0, <1>1, <2>1, VoiceKept
  <2> QED BY <1>t, <1>1, <1>2, <2>1, <2>2, <2>3, LoopMoves DEF IInv
<1>4. CASE ~Revoked(g)
  <2>1. gen' = [gen EXCEPT ![g].phase = "flagged", ![g].own = TRUE] /\ Drained(g) BY <1>4 DEF CloseRevokes
  <2>2. /\ gen'[g].phase = "flagged" /\ gen'[g].key = gen[g].key /\ gen'[g].profile = gen[g].profile
        /\ \A h \in Gens \ {g} : gen'[h] = gen[h]
    BY <1>0, <2>1, OwnRevokeIs
  <2>3. gen[g].phase \in {"live", "called"} BY <1>4 DEF Revoked, Phase
  <2> QED BY <1>t, <1>1, <1>2, <2>1, <2>2, <2>3, FlagKeeps
<1> QED BY <1>3, <1>4

\* Another thread sets the flag.
LEMMA FlagIs == ASSUME IInv, NEW g \in Gens, Flag(g) PROVE IInv'
<1>0. Types /\ Line /\ Queues BY DEF IInv
<1>t. Types' BY <1>0, RevokeTypes DEF RevokeSteps
<1>1. Advance(g, "called", "flagged") /\ Drained(g) /\ UNCHANGED <<disp, loop, aborted, inFlight, sched, wake>>
  BY DEF Flag, tasks
<1>2. /\ gen[g].phase = "called" /\ gen'[g].phase = "flagged"
      /\ \A h \in Gens \ {g} : gen'[h].phase = gen[h].phase
      /\ \A h \in Gens : gen'[h].key = gen[h].key /\ gen'[h].profile = gen[h].profile
  BY <1>0, <1>1, AdvanceIs DEF Phase, Phases
<1> QED BY <1>t, <1>1, <1>2, FlagKeeps

\* revoke goes through in_flight: every task it finds is told to stop.
LEMMA AbortKeeps == ASSUME IInv, NEW g \in Gens, AbortInFlight(g) PROVE IInv'
<1> USE DEF IInv
<1>t. Types' BY RevokeTypes DEF RevokeSteps
<1>1. /\ aborted' = aborted \cup inFlight[g] /\ inFlight' = [inFlight EXCEPT ![g] = {}]
      /\ UNCHANGED <<disp, loop, order, queue, job, sched, wake>>
  BY DEF AbortInFlight, jobs
<1>2. /\ gen[g].phase = "flagged" /\ gen'[g].phase = "aborted"
      /\ \A h \in Gens \ {g} : gen'[h].phase = gen[h].phase
      /\ \A h \in Gens : gen'[h].key = gen[h].key /\ gen'[h].profile = gen[h].profile
  <2>1. Advance(g, "flagged", "aborted") BY DEF AbortInFlight
  <2> QED BY <2>1, AdvanceIs DEF Phase, Phases
<1>3. Voice' BY <1>1, <1>2, VoiceKept
<1>4. ASSUME NEW h \in Gens PROVE LoopFits(h)'
  <2>1. LoopFits(h) BY DEF Loops
  <2> QED BY <1>1, <1>2, <2>1, LoopKept
<1>5. Queues' /\ Fair'
  <2>1. \A j \in Jobs : job[j].permit # "none" => job[j].at = "started" BY DEF Queues
  <2> QED BY <1>1, <2>1, QueuesKept
<1>6. \A h \in Gens : Unfinished(h)' = Unfinished(h) /\ Tasks(h)' = Tasks(h) /\ Queued(h)' = Queued(h)
  BY <1>1 DEF Unfinished, JobsOf, Tasks, Queued
<1>7. Silence'
  <2> SUFFICES ASSUME NEW h \in Gens, NEW j \in Unfinished(h)
               PROVE  j \in aborted' \/ (j \in inFlight'[h] /\ gen'[h].phase \notin {"aborted", "done", "retired"})
    BY <1>6 DEF Silence, Phase
  <2>1. j \in aborted \/ (j \in inFlight[h] /\ gen[h].phase \notin {"aborted", "done", "retired"}) BY DEF Silence, Phase
  <2>2. h # g => inFlight'[h] = inFlight[h] /\ gen'[h].phase = gen[h].phase BY <1>1, <1>2 DEF Types
  <2> QED BY <1>1, <2>1, <2>2
<1>8. Line' /\ Enough' /\ NoneIdle'
  <2>1. SameEnds BY <1>2 DEF SameEnds
  <2>2. SamePermits BY <1>1 DEF SamePermits
  <2> QED BY <1>1, <2>1, <2>2, WorkersKept
<1>9. ASSUME NEW h \in Gens, gen'[h].phase = "live", loop'[h].at = "parked", Queued(h)' # {}
      PROVE  wake'[h] \/ Tasks(h)' # {} \/ h \in Range(sched'.order)
  BY <1>1, <1>2, <1>6, <1>9 DEF Watched, Phase
<1> QED BY <1>t, <1>3, <1>4, <1>5, <1>7, <1>8, <1>9, WatchedAll DEF Loops

\* The loop drops its lease.
LEMMA CloseDropsKeeps == ASSUME IInv, NEW g \in Gens, CloseDrops(g) PROVE IInv'
<1>0. Types /\ Line /\ Voice /\ LoopFits(g) BY DEF IInv, Loops
<1>t. Types' BY <1>0, LoopTypes
<1>1. loop[g].at = "closing" /\ UNCHANGED <<gen, order, queue, job, inFlight, sched, wake>> /\ aborted \subseteq aborted'
  BY DEF CloseDrops, jobs
<1>2. loop'[g].at = "gone" /\ loop'[g].permit = loop[g].permit /\ \A h \in Gens \ {g} : loop'[h] = loop[h]
  <2>1. Goto(g, "gone") BY DEF CloseDrops
  <2> QED BY <1>0, <2>1, GotoIs DEF LoopAt
<1>3. gen[g].phase \notin {"none", "live", "called"} BY <1>0, <1>1 DEF LoopFits, Phase
<1>4. LoopFits(g)' BY <1>0, <1>1, <1>2, <1>3 DEF LoopFits, Phase
<1>5. \A p \in Profiles : /\ disp'[p].latched = disp[p].latched /\ disp'[p].blocked = disp[p].blocked
                          /\ disp'[p].current = disp[p].current \/ (disp[p].current = g /\ disp'[p].current = 0)
  BY <1>0, ReleaseCurrentIs
<1>6. Voice'
  <2>1. ASSUME NEW h \in Gens, gen[h].phase = "live"
        PROVE  /\ disp'[gen[h].profile].current = h
               /\ ~disp'[gen[h].profile].blocked /\ gen[h].key \notin disp'[gen[h].profile].latched
    <3>1. /\ disp[gen[h].profile].current = h /\ gen[h].profile \in Profiles
          /\ ~disp[gen[h].profile].blocked /\ gen[h].key \notin disp[gen[h].profile].latched
      BY <1>0, <2>1 DEF Voice, Phase
    <3> QED BY <1>3, <1>5, <2>1, <3>1
  <2>2. \A q \in Profiles : disp'[q].current # 0 => gen[disp'[q].current].phase \notin {"none", "retired"}
    BY <1>0, <1>5 DEF Voice, Phase
  <2> QED BY <1>0, <1>1, <2>1, <2>2 DEF Voice, Phase
<1> QED BY <1>t, <1>1, <1>2, <1>4, <1>6, LoopMoves DEF IInv

\* The last reference to a generation goes away, and its tombstone with it.
LEMMA RetireKeeps == ASSUME IInv, NEW g \in Gens, Retire(g) PROVE IInv'
<1> USE DEF IInv
<1>t. Types' BY RevokeTypes
<1>1. /\ gen[g].phase = "done" /\ loop[g].at = "gone" /\ Unfinished(g) = {}
      /\ \A p \in Profiles : disp[p].current # g
      /\ UNCHANGED <<disp, loop, aborted>>
  BY DEF Retire, Phase
<1>2. gen'[g].phase = "retired" /\ \A h \in Gens \ {g} : gen'[h] = gen[h]
  BY DEF Retire, Types, NoGen
<1>3. \A j \in Jobs : job'[j] = IF job[j].gen = g THEN NoJob ELSE job[j] BY DEF Retire, JobsOf
<1>4. /\ queue'[g] = <<>> /\ order'[g] = <<>> /\ \A h \in Gens \ {g} : queue'[h] = queue[h] /\ order'[h] = order[h]
      /\ \A h \in Gens \ {g} : inFlight'[h] = inFlight[h] /\ wake'[h] = wake[h]
  BY DEF Retire, Types
<1>5. /\ sched'.tombs = sched.tombs \ {g} /\ sched'.order = sched.order /\ sched'.granted = sched.granted
      /\ sched'.available = sched.available
  BY DEF Retire, Types, Sched
<1>6. \A j \in Jobs : job[j].gen = g => job[j].permit = "none"
  BY <1>1 DEF Queues, Unfinished, JobsOf
<1>7. Queued(g)' = {} /\ \A h \in Gens \ {g} : Queued(h)' = Queued(h) BY <1>4 DEF Queued, Range
<1>8. ASSUME NEW h \in Gens \ {g}, NEW j \in Queued(h) PROVE job'[j] = job[j] /\ job[j].at = "queued" /\ job[j].gen = h
  <2>1. j \in Jobs BY DEF Types, Queued, Range
  <2>2. job[j].gen = h /\ job[j].at = "queued" BY DEF Queues
  <2> QED BY <1>3, <2>1, <2>2
<1>9. Voice'
  <2>1. ASSUME NEW q \in Profiles, disp[q].current # 0 PROVE gen'[disp[q].current].phase \notin {"none", "retired"}
    <3>1. disp[q].current \in Gens \ {g} BY <1>1, <2>1, Constants DEF Types, Disp
    <3>2. gen[disp[q].current].phase \notin {"none", "retired"} BY <2>1 DEF Voice, Phase
    <3> QED BY <1>2, <3>1, <3>2
  <2>2. ASSUME NEW h \in Gens, gen'[h].phase = "live" PROVE h # g /\ gen'[h] = gen[h] BY <1>2, <2>2
  <2>3. ASSUME NEW h \in Gens, gen'[h].phase \notin {"none", "retired"} PROVE h # g /\ gen'[h] = gen[h] BY <1>2, <2>3
  <2> QED BY <1>1, <2>1, <2>2, <2>3 DEF Voice, Phase
<1>10. ASSUME NEW h \in Gens PROVE LoopFits(h)'
  <2>1. LoopFits(h) BY DEF Loops
  <2>2. loop[h].at \in {"admit", "send"} => job'[loop[h].job] = job[loop[h].job] BY <1>1, <1>3, <2>1 DEF LoopFits
  <2> QED BY <1>1, <1>2, <2>1, <2>2, LoopKept
<1>11. Queues'
  <2>1. \A h \in Gens : IsInjective(queue'[h]) BY <1>4 DEF Queues, IsInjective
  <2>2. \A h \in Gens : \A j \in Queued(h)' : job'[j].at = "queued" /\ job'[j].gen = h BY <1>7, <1>8
  <2>3. \A j \in Jobs : job'[j].permit # "none" => job'[j].at = "started" BY <1>3 DEF Queues, NoJob
  <2> QED BY <2>1, <2>2, <2>3 DEF Queues
<1>12. Fair'
  <2>1. ASSUME NEW h \in Gens PROVE IsInjective(order'[h]) /\ Range(order'[h]) = {job'[j].who : j \in Queued(h)'}
    <3>1. CASE h = g BY <1>4, <1>7, <3>1 DEF IsInjective, Range
    <3>2. CASE h # g
      <4>1. IsInjective(order[h]) /\ Range(order[h]) = {job[j].who : j \in Queued(h)} BY DEF Fair
      <4>2. {job'[j].who : j \in Queued(h)'} = {job[j].who : j \in Queued(h)} BY <1>7, <1>8, <3>2
      <4> QED BY <1>4, <3>2, <4>1, <4>2
    <3> QED BY <3>1, <3>2
  <2> QED BY <2>1 DEF Fair
<1>13. \A h \in Gens \ {g} : Unfinished(h)' = Unfinished(h) /\ Tasks(h)' = Tasks(h)
  BY <1>3, Constants DEF Unfinished, Tasks, JobsOf, NoJob
<1>14. Unfinished(g)' = {} BY <1>3, Constants DEF Unfinished, JobsOf, NoJob
<1>15. Silence'
  <2> SUFFICES ASSUME NEW h \in Gens, NEW j \in Unfinished(h)'
               PROVE  j \in aborted' \/ (j \in inFlight'[h] /\ gen'[h].phase \notin {"aborted", "done", "retired"})
    BY DEF Silence, Phase
  <2>1. h # g BY <1>14
  <2>2. j \in Unfinished(h) BY <1>13, <2>1
  <2>3. j \in aborted \/ (j \in inFlight[h] /\ gen[h].phase \notin {"aborted", "done", "retired"}) BY <2>2 DEF Silence, Phase
  <2> QED BY <1>1, <1>2, <1>4, <2>1, <2>3
<1>16. Alive' = Alive BY <1>1, <1>2 DEF Alive, Phase
<1>17. Line'
  <2>1. {h \in Gens : Phase(h) = "done"}' = {h \in Gens : Phase(h) = "done"} \ {g} BY <1>2 DEF Phase
  <2>2. sched'.tombs = {h \in Gens : Phase(h) = "done"}' BY <1>5, <2>1 DEF Line
  <2> QED BY <1>5, <1>16, <2>2 DEF Line
<1>18. Enough' /\ NoneIdle'
  <2>1. Held' = Held BY <1>1 DEF Held
  <2>2. {j \in HeldByTasks : job[j].gen \in Alive}' = {j \in HeldByTasks : job[j].gen \in Alive}
    <3>1. \A j \in Jobs : job[j].permit = "active" <=> job'[j].permit = "active" BY <1>3, <1>6 DEF NoJob
    <3>2. \A j \in Jobs : job[j].permit = "active" => job'[j].gen = job[j].gen BY <1>3, <1>6
    <3> QED BY <1>16, <3>1, <3>2 DEF HeldByTasks
  <2>3. Owed(sched, Alive)' = Owed(sched, Alive) BY <1>5, <1>16 DEF Owed
  <2>4. Enough' BY <1>5, <1>16, <2>1, <2>2, <2>3 DEF Enough
  <2> QED BY <1>5, <2>4 DEF NoneIdle
<1>19. ASSUME NEW h \in Gens, gen'[h].phase = "live", loop'[h].at = "parked", Queued(h)' # {}
      PROVE  wake'[h] \/ Tasks(h)' # {} \/ h \in Range(sched'.order)
  <2>1. h # g /\ gen'[h] = gen[h] BY <1>2, <1>19
  <2> QED BY <1>1, <1>4, <1>5, <1>7, <1>13, <1>19, <2>1 DEF Watched, Phase
<1> QED BY <1>t, <1>9, <1>10, <1>11, <1>12, <1>15, <1>17, <1>18, <1>19, WatchedAll DEF Loops

\* The two kinds of holders of a worker are finite sets.
LEMMA HoldersAre ==
  /\ IsFiniteSet(Held \cap Alive) /\ Cardinality(Held \cap Alive) \in Nat
  /\ IsFiniteSet({j \in HeldByTasks : job[j].gen \in Alive})
  /\ Cardinality({j \in HeldByTasks : job[j].gen \in Alive}) \in Nat
<1>1. Held \cap Alive \in SUBSET Gens BY DEF Alive
<1>2. {j \in HeldByTasks : job[j].gen \in Alive} \in SUBSET Jobs BY DEF HeldByTasks
<1> QED BY <1>1, <1>2, Constants, FS_Subset, FS_CardinalityType

\* Cancel keeps the count: what the generation gives back is what it had.
LEMMA CancelEnough ==
  ASSUME Types, Line, Queues, Enough, NEW g \in Gens, Cancel(g)
  PROVE  Enough'
<1> DEFINE O == Owed(sched, Alive)
           H == Held \cap Alive
           T == {j \in HeldByTasks : job[j].gen \in Alive}
           J == ActiveJobs(g)
           i == IF loop[g].permit = "active" THEN 1 ELSE 0
           a == sched.available
           after == sched'.available + Cardinality(Owed(sched', Alive \ {g}))
           k == sched.granted[g]
<1>1. gen[g].phase = "aborted" /\ gen'[g].phase = "done" /\ \A h \in Gens \ {g} : gen'[h].phase = gen[h].phase
  <2>1. Advance(g, "aborted", "done") BY DEF Cancel
  <2> QED BY <2>1, AdvanceIs DEF Phase, Phases
<1>2. Alive' = Alive \ {g} /\ g \in Alive /\ Alive \in SUBSET Gens BY <1>1 DEF Alive, Phase
<1>3. /\ \A j \in Jobs :
              \/ job'[j] = job[j] /\ ~(job[j].gen = g /\ job[j].permit = "active")
              \/ job'[j] = NoJob /\ job[j].gen = g /\ job[j].at = "ended" /\ loop'[g].at = "next"
              \/ /\ job[j].gen = g /\ job[j].permit = "active" /\ job'[j].permit = "returned"
                 /\ job'[j].at = job[j].at /\ job'[j].gen = g /\ job'[j].who = job[j].who
      /\ \A h \in Gens \ {g} : loop'[h] = loop[h]
  BY CancelledJobs
<1>4. (Held \cap Alive)' = H \ {g} BY <1>2, <1>3 DEF Held
<1>5. T' = T \ J
  <2>0. \A j \in Jobs : job[j].permit = "active" => job[j].at = "started" BY DEF Queues
  <2>1. ASSUME NEW j \in T' PROVE j \in T \ J
    <3>1. j \in Jobs /\ job'[j].permit = "active" /\ job'[j].gen \in Alive /\ job'[j].gen # g BY <1>2 DEF HeldByTasks
    <3>2. job'[j] = job[j] BY <1>3, <3>1 DEF NoJob
    <3> QED BY <3>1, <3>2 DEF HeldByTasks, ActiveJobs, JobsOf
  <2>2. ASSUME NEW j \in T \ J PROVE j \in T'
    <3>1. j \in Jobs /\ job[j].permit = "active" /\ job[j].gen \in Alive /\ job[j].gen # g
      BY DEF HeldByTasks, ActiveJobs, JobsOf
    <3>2. job'[j] = job[j] BY <1>3, <3>1
    <3> QED BY <1>2, <3>1, <3>2 DEF HeldByTasks
  <2> QED BY <2>1, <2>2
<1>6. J \subseteq T /\ (g \in H <=> loop[g].permit = "active") /\ (g \in O <=> k = 1) /\ k \in 0..1
  BY <1>2 DEF ActiveJobs, JobsOf, HeldByTasks, Held, Owed, Line
<1>7. IsFiniteSet(O) /\ IsFiniteSet(H) /\ IsFiniteSet(T) /\ Cardinality(O) \in Nat /\ Cardinality(H) \in Nat /\ Cardinality(T) \in Nat
  BY <1>2, OwedIs, HoldersAre
<1>8. IsFiniteSet(J) /\ Cardinality(J) \in Nat /\ ActiveCount(g) = Cardinality(J) + i BY ActiveCountIs DEF ActiveCount
<1>9. /\ a + Cardinality(O \ {g}) \in Nat /\ after \in Nat
      /\ after >= a + Cardinality(O \ {g}) + k + ActiveCount(g) \/ after >= GlobalWorkers
  BY Cancelled
<1>10. a + Cardinality(O) + Cardinality(H) + Cardinality(T) >= GlobalWorkers BY DEF Enough
<1>11. a \in Nat /\ GlobalWorkers \in Nat BY Constants DEF Types, Sched
<1> HIDE DEF O, H, T, J, a, after, k
<1>12. Cardinality(O \ {g}) = Cardinality(O) - k
  <2>1. Cardinality(O \ {g}) = IF g \in O THEN Cardinality(O) - 1 ELSE Cardinality(O) BY <1>7, FS_RemoveElement
  <2>2. CASE k = 1 BY <1>6, <2>1, <2>2
  <2>3. CASE k = 0 BY <1>6, <1>7, <2>1, <2>3
  <2> QED BY <1>6, <2>2, <2>3
<1>13. Cardinality(H \ {g}) = Cardinality(H) - i
  <2>1. Cardinality(H \ {g}) = IF g \in H THEN Cardinality(H) - 1 ELSE Cardinality(H) BY <1>7, FS_RemoveElement
  <2>2. CASE i = 1 BY <1>6, <2>1, <2>2
  <2>3. CASE i = 0 BY <1>6, <1>7, <2>1, <2>3
  <2> QED BY <2>2, <2>3
<1>14. IsFiniteSet(T \ J) /\ Cardinality(T \ J) = Cardinality(T) - Cardinality(J) /\ Cardinality(T \ J) \in Nat
  <2>1. T \cap J = J BY <1>6
  <2> QED BY <1>7, <1>8, <2>1, FS_Difference, FS_CardinalityType
<1>15. Cardinality(H \ {g}) \in Nat
  <2>1. IsFiniteSet(H \ {g}) BY <1>7, FS_RemoveElement
  <2> QED BY <2>1, FS_CardinalityType
<1>16. after + Cardinality(H \ {g}) + Cardinality(T \ J) >= GlobalWorkers
  <2> DEFINE o == Cardinality(O)
             p == Cardinality(H)
             t == Cardinality(T)
             j == Cardinality(J)
  <2>1. o \in Nat /\ p \in Nat /\ t \in Nat /\ j \in Nat /\ i \in {0, 1} /\ k \in {0, 1} BY <1>6, <1>7, <1>8
  <2>2. after >= a + (o - k) + k + (j + i) \/ after >= GlobalWorkers BY <1>8, <1>9, <1>12
  <2>3. a + o + p + t >= GlobalWorkers BY <1>10
  <2>4. Cardinality(H \ {g}) = p - i /\ Cardinality(T \ J) = t - j /\ p - i \in Nat /\ t - j \in Nat BY <1>13, <1>14, <1>15
  <2>5. after \in Nat /\ a \in Nat /\ GlobalWorkers \in Nat BY <1>9, <1>11
  <2> HIDE DEF o, p, t, j, i
  <2>6. after + (p - i) + (t - j) >= GlobalWorkers BY <2>1, <2>2, <2>3, <2>4, <2>5
  <2> QED BY <2>4, <2>6
<1>17. sched'.available + Cardinality(Owed(sched', Alive')) + Cardinality((Held \cap Alive)') + Cardinality(T') >= GlobalWorkers
  BY <1>2, <1>4, <1>5, <1>16 DEF after
<1> QED BY <1>17 DEF Enough, T

\* Cancel keeps the invariant.
LEMMA CancelKeeps == ASSUME IInv, NEW g \in Gens, Cancel(g) PROVE IInv'
<1> USE DEF IInv
<1>t. Types' BY RevokeTypes DEF RevokeSteps
<1>1. /\ gen[g].phase = "aborted" /\ gen'[g].phase = "done"
      /\ \A h \in Gens \ {g} : gen'[h].phase = gen[h].phase
      /\ \A h \in Gens : gen'[h].key = gen[h].key /\ gen'[h].profile = gen[h].profile
  <2>1. Advance(g, "aborted", "done") BY DEF Cancel
  <2> QED BY <2>1, AdvanceIs DEF Phase, Phases
<1>2. UNCHANGED <<disp, order, queue, aborted, inFlight>> BY DEF Cancel, tasks
<1>3. /\ \A j \in Jobs :
              \/ job'[j] = job[j] /\ ~(job[j].gen = g /\ job[j].permit = "active")
              \/ job'[j] = NoJob /\ job[j].gen = g /\ job[j].at = "ended" /\ loop'[g].at = "next"
              \/ /\ job[j].gen = g /\ job[j].permit = "active" /\ job'[j].permit = "returned"
                 /\ job'[j].at = job[j].at /\ job'[j].gen = g /\ job'[j].who = job[j].who
      /\ \A h \in Gens \ {g} : loop'[h] = loop[h]
      /\ loop'[g].job = loop[g].job /\ loop'[g].permit = ReturnedPermit(loop[g].permit)
      /\ loop'[g].at = loop[g].at \/ (loop[g].at = "parked" /\ loop'[g].at = "next")
  BY CancelledJobs
<1>4. Voice' BY <1>1, <1>2, VoiceKept
<1>5. ASSUME NEW h \in Gens PROVE LoopFits(h)'
  <2>1. LoopFits(h) BY DEF Loops
  <2>2. CASE h = g
    <3>1. loop[g].at \in {"admit", "send"} =>
            /\ loop'[g].at = loop[g].at /\ loop[g].job \in Jobs
            /\ job'[loop[g].job].at = job[loop[g].job].at /\ job'[loop[g].job].gen = job[loop[g].job].gen
      BY <1>3, <2>1, <2>2 DEF LoopFits
    <3>2. loop'[g].permit # "none" <=> loop[g].permit # "none" BY <1>3 DEF ReturnedPermit
    <3> QED BY <1>1, <1>3, <2>1, <2>2, <3>1, <3>2 DEF LoopFits, Phase
  <2>3. CASE h # g
    <3>1. loop[h].at \in {"admit", "send"} => job'[loop[h].job] = job[loop[h].job]
      BY <1>3, <2>1, <2>3 DEF LoopFits
    <3> QED BY <1>1, <1>3, <2>1, <2>3, <3>1, LoopKept
  <2> QED BY <2>2, <2>3
<1>6. Queues' /\ Fair'
  <2>0. \A j \in Jobs : job[j].permit # "none" => job[j].at = "started" BY DEF Queues
  <2>1. \A j \in Jobs : \/ job'[j].at = "queued" /\ job'[j].gen = job[j].gen /\ job'[j].who = job[j].who
                        \/ job[j].at # "queued"
    BY <1>3, <2>0
  <2>2. \A j \in Jobs : job'[j].permit # "none" => job'[j].at = "started" BY <1>3, <2>0 DEF NoJob
  <2> QED BY <1>2, <2>1, <2>2, QueuesKept
<1>7. \A h \in Gens : Unfinished(h)' = Unfinished(h) BY <1>3, Constants DEF Unfinished, JobsOf, NoJob
<1>8. Silence' BY <1>1, <1>2, <1>7, SilenceKept
<1>9. /\ LineOf(sched', Alive \ {g}) /\ sched'.tombs = sched.tombs \cup {g} /\ NoneIdle'
      /\ \A h \in Gens : wake[h] => wake'[h]
      /\ \A h \in Range(sched.order) : h = g \/ h \in Range(sched'.order) \/ wake'[h]
  BY Cancelled
<1>10. Line'
  <2>1. Alive' = Alive \ {g} BY <1>1 DEF Alive, Phase
  <2>2. sched'.tombs = {h \in Gens : Phase(h) = "done"}'
    <3>1. {h \in Gens : Phase(h) = "done"}' = {h \in Gens : Phase(h) = "done"} \cup {g} BY <1>1 DEF Phase
    <3> QED BY <1>9, <3>1 DEF Line
  <2> QED BY <1>9, <2>1, <2>2 DEF Line, LineOf
<1>11. Enough' BY CancelEnough
<1>12. ASSUME NEW h \in Gens, gen'[h].phase = "live", loop'[h].at = "parked", Queued(h)' # {}
       PROVE  wake'[h] \/ Tasks(h)' # {} \/ h \in Range(sched'.order)
  <2>1. h # g /\ gen[h].phase = "live" /\ loop[h].at = "parked" BY <1>1, <1>3, <1>12
  <2>2. Queued(h) # {} BY <1>2, <1>12 DEF Queued
  <2>3. Tasks(h)' = Tasks(h) BY <1>3, <2>1, Constants DEF Tasks, Unfinished, JobsOf, NoJob
  <2>4. wake[h] \/ Tasks(h) # {} \/ h \in Range(sched.order) BY <2>1, <2>2 DEF Watched, Phase
  <2> QED BY <1>9, <2>1, <2>3, <2>4
<1> QED BY <1>t, <1>4, <1>5, <1>6, <1>8, <1>9, <1>10, <1>11, <1>12, WatchedAll DEF Loops

-----------------------------------------------------------------------------
(* The fair queue *)

\* Jobs come to a queue and leave it; whoever adds one wakes the loop.
LEMMA QueueChanges ==
  ASSUME IInv, Types', UNCHANGED <<disp, gen, loop, aborted, inFlight, sched>>, Queues', Fair',
         \A i \in Jobs : \/ job'[i] = job[i]
                         \/ /\ job[i].at \in {"none", "queued"} /\ job'[i].at \in {"none", "queued"}
                            /\ job'[i].permit = "none",
         \A h \in Gens : wake[h] => wake'[h],
         \A h \in Gens : Queued(h)' # {} => Queued(h) # {} \/ (gen[h].phase = "live" => wake'[h])
  PROVE  IInv'
<1> USE DEF IInv
<1>1. Voice' BY VoiceKept
<1>2. ASSUME NEW h \in Gens PROVE LoopFits(h)'
  <2>1. LoopFits(h) BY DEF Loops
  <2>2. loop[h].at \in {"admit", "send"} => job'[loop[h].job] = job[loop[h].job] BY <2>1 DEF LoopFits
  <2> QED BY <2>1, <2>2, LoopKept
<1>3. \A h \in Gens : Unfinished(h)' = Unfinished(h) /\ Tasks(h)' = Tasks(h) BY DEF Unfinished, Tasks, JobsOf
<1>4. Silence' BY <1>3, SilenceKept
<1>5. Line' /\ Enough' /\ NoneIdle'
  <2>1. SameEnds BY DEF SameEnds
  <2>2. \A j \in Jobs : job[j].permit # "none" => job[j].at = "started" BY DEF Queues
  <2>3. SamePermits BY <2>2 DEF SamePermits
  <2> QED BY <2>1, <2>3, WorkersKept
<1>6. ASSUME NEW h \in Gens, gen'[h].phase = "live", loop'[h].at = "parked", Queued(h)' # {}
      PROVE  wake'[h] \/ Tasks(h)' # {} \/ h \in Range(sched'.order)
  <2>1. CASE Queued(h) # {} BY <1>3, <1>6, <2>1 DEF Watched, Phase
  <2>2. CASE Queued(h) = {} BY <1>6, <2>2
  <2> QED BY <2>1, <2>2
<1> QED BY <1>1, <1>2, <1>4, <1>5, <1>6, WatchedAll DEF Loops

\* A queue changes to s and its line to o, whose principals are those of s.
LEMMA QueueReplaced ==
  ASSUME Types, Queues, Fair, NEW g \in Gens, NEW s, NEW o,
         queue' = [queue EXCEPT ![g] = s], order' = [order EXCEPT ![g] = o],
         IsInjective(s), IsInjective(o), Range(o) = {job'[i].who : i \in Range(s)},
         \A i \in Range(s) : job'[i].at = "queued" /\ job'[i].gen = g,
         \A i \in Jobs : job[i].at = "queued" /\ job[i].gen # g => job'[i] = job[i],
         \A i \in Jobs : job'[i].permit # "none" => job'[i].at = "started"
  PROVE  Queues' /\ Fair' /\ Queued(g)' = Range(s) /\ \A h \in Gens \ {g} : Queued(h)' = Queued(h)
<1>1. queue'[g] = s /\ order'[g] = o /\ \A h \in Gens \ {g} : queue'[h] = queue[h] /\ order'[h] = order[h] BY DEF Types
<1>2. Queued(g)' = Range(s) /\ \A h \in Gens \ {g} : Queued(h)' = Queued(h) BY <1>1 DEF Queued
<1>3. ASSUME NEW h \in Gens \ {g}, NEW i \in Queued(h) PROVE job'[i] = job[i] /\ job[i].at = "queued" /\ job[i].gen = h
  <2>1. i \in Jobs BY DEF Types, Queued, Range
  <2>2. job[i].at = "queued" /\ job[i].gen = h BY DEF Queues
  <2> QED BY <2>1, <2>2
<1>4. Queues'
  <2>1. \A h \in Gens : IsInjective(queue'[h]) BY <1>1 DEF Queues
  <2>2. ASSUME NEW h \in Gens, NEW i \in Queued(h)' PROVE job'[i].at = "queued" /\ job'[i].gen = h
    BY <1>2, <1>3
  <2> QED BY <2>1, <2>2 DEF Queues
<1>5. ASSUME NEW h \in Gens PROVE IsInjective(order'[h]) /\ Range(order'[h]) = {job'[i].who : i \in Queued(h)'}
  <2>1. CASE h = g BY <1>1, <1>2, <2>1
  <2>2. CASE h # g
    <3>1. IsInjective(order[h]) /\ Range(order[h]) = {job[i].who : i \in Queued(h)} BY DEF Fair
    <3>2. {job'[i].who : i \in Queued(h)'} = {job[i].who : i \in Queued(h)} BY <1>2, <1>3, <2>2
    <3> QED BY <1>1, <2>2, <3>1, <3>2
  <2> QED BY <2>1, <2>2
<1> QED BY <1>2, <1>4, <1>5 DEF Fair

\* An enqueue call that is refused expires jobs all the same.
LEMMA EnqueueRefusedKeeps ==
  ASSUME IInv, NEW q \in Producers, NEW w \in Principals, NEW n \in Nat, EnqueueRefused(q, n, w), NEW g, g = enq[q]
  PROVE  IInv'
<1> DEFINE s == Fresh(g, n)
           o == FreshOrder(g, n)
<1>0. Types /\ Queues /\ Fair BY DEF IInv
<1>t. Types' /\ g \in Gens /\ n <= Len(queue[g]) BY <1>0, EnqueueTypes
<1>1. /\ job' = Expired(g, n) /\ queue' = [queue EXCEPT ![g] = s] /\ order' = [order EXCEPT ![g] = o]
      /\ UNCHANGED <<disp, gen, loop, aborted, inFlight, sched, wake>>
  BY DEF EnqueueRefused, tasks
<1>2. IsInjective(s) /\ Range(s) \subseteq Queued(g) BY <1>0, <1>t, FreshIs
<1>3. IsInjective(o) /\ Range(o) = {job[i].who : i \in Range(s)} BY <1>0, <1>t, FreshOrderIs
<1>4. \A i \in Jobs : job'[i] = IF i \in Queued(g) /\ i \notin Range(s) THEN NoJob ELSE job[i]
  <2> QED BY <1>0, <1>t, <1>1, ExpiredIs
<1> HIDE DEF s, o
<1>5. \A i \in Queued(g) : i \in Jobs /\ job[i].at = "queued" /\ job[i].gen = g
  BY <1>0, <1>t DEF Types, Queues, Queued, Range
<1>x. \A i \in Range(s) : job'[i] = job[i] BY <1>2, <1>4, <1>5
<1>6. \A i \in Range(s) : job'[i].at = "queued" /\ job'[i].gen = g BY <1>2, <1>5, <1>x
<1>7. IsInjective(s) /\ IsInjective(o) /\ Range(o) = {job'[i].who : i \in Range(s)} BY <1>2, <1>3, <1>x
<1>8. \A i \in Jobs : job[i].at = "queued" /\ job[i].gen # g => job'[i] = job[i] BY <1>4, <1>5
<1>9. \A i \in Jobs : job'[i].permit # "none" => job'[i].at = "started" BY <1>0, <1>4 DEF Queues, NoJob
<1>10. Queues' /\ Fair' /\ Queued(g)' = Range(s) /\ \A h \in Gens \ {g} : Queued(h)' = Queued(h)
  BY <1>0, <1>t, <1>1, <1>6, <1>7, <1>8, <1>9, QueueReplaced
<1>11. \A i \in Jobs : \/ job'[i] = job[i]
                       \/ /\ job[i].at \in {"none", "queued"} /\ job'[i].at \in {"none", "queued"}
                          /\ job'[i].permit = "none"
  BY <1>4, <1>5 DEF NoJob
<1>12. \A h \in Gens : Queued(h)' # {} => Queued(h) # {} BY <1>2, <1>10
<1> QED BY <1>t, <1>1, <1>10, <1>11, <1>12, QueueChanges

\* An enqueue call adds a job, and its principal to the line if it was not there.
LEMMA EnqueuePushesKeeps ==
  ASSUME IInv, NEW q \in Producers, NEW w \in Principals, NEW n \in Nat, NEW j \in Jobs, EnqueuePushes(q, n, w, j), NEW g, g = enq[q]
  PROVE  IInv'
<1> DEFINE F == Fresh(g, n)
           D == FreshOrder(g, n)
           e == Of(g, n, w)
           s == Append(F, j)
           o == D \o IF e = <<>> THEN <<w>> ELSE <<>>
           new == [at |-> "queued", gen |-> g, who |-> w, permit |-> "none"]
<1>0. Types /\ Queues /\ Fair BY DEF IInv
<1>t. Types' /\ g \in Gens /\ n <= Len(queue[g]) BY <1>0, EnqueueTypes
<1>1. /\ job[j] = NoJob /\ job' = [Expired(g, n) EXCEPT ![j] = new]
      /\ queue' = [queue EXCEPT ![g] = s] /\ order' = [order EXCEPT ![g] = o]
      /\ wake' = [wake EXCEPT ![g] = @ \/ ~Revoked(g)]
      /\ UNCHANGED <<disp, gen, loop, aborted, inFlight, sched>>
  BY DEF EnqueuePushes, Pushed, tasks
<1>2. F \in Seq(Jobs) /\ IsInjective(F) /\ Range(F) \subseteq Queued(g) BY <1>0, <1>t, FreshIs
<1>3. D \in Seq(Principals) /\ IsInjective(D) /\ Range(D) = {job[i].who : i \in Range(F)} BY <1>0, <1>t, FreshOrderIs
<1>e. e \in Seq(Jobs) /\ Range(e) = {i \in Range(F) : job[i].who = w} BY <1>0, <1>t, FreshIs
<1>4. \A i \in Jobs : job'[i] = IF i = j THEN new ELSE IF i \in Queued(g) /\ i \notin Range(F) THEN NoJob ELSE job[i]
  <2> DEFINE x == Expired(g, n)
  <2>1. x \in [Jobs -> Job] /\ \A i \in Jobs : x[i] = IF i \in Queued(g) /\ i \notin Range(F) THEN NoJob ELSE job[i]
    <3> QED BY <1>0, <1>t, ExpiredIs
  <2>2. job' = [x EXCEPT ![j] = new] BY <1>1
  <2> HIDE DEF x, new, F
  <2> QED BY <2>1, <2>2
<1>5. \A i \in Queued(g) : i \in Jobs /\ job[i].at = "queued" /\ job[i].gen = g
  BY <1>0, <1>t DEF Types, Queues, Queued, Range
<1>6. j \notin Queued(g) /\ j \notin Range(F) BY <1>1, <1>2, <1>5 DEF NoJob
<1>7. s \in Seq(Jobs) /\ IsInjective(s) /\ Range(s) = Range(F) \cup {j}
  <2> HIDE DEF F
  <2> QED BY <1>2, <1>6, AppendIs
<1>n. new.at = "queued" /\ new.gen = g /\ new.who = w /\ new.permit = "none" OBVIOUS
<1>8. IsInjective(o) /\ Range(o) = {job[i].who : i \in Range(F)} \cup {w}
  <2> HIDE DEF D, e, F
  <2>0. e = <<>> <=> Range(e) = {} BY <1>e, NoElements
  <2>1. CASE e = <<>>
    <3>1. w \notin Range(D) BY <1>3, <1>e, <2>0, <2>1
    <3>2. o = D \o <<w>> BY <2>1
    <3>3. Append(D, w) = D \o <<w>> /\ IsInjective(Append(D, w)) /\ Range(Append(D, w)) = Range(D) \cup {w}
      BY <1>3, <3>1, AppendIs
    <3> QED BY <1>3, <3>2, <3>3
  <2>2. CASE e # <<>>
    <3>1. w \in Range(D) BY <1>3, <1>e, <2>0, <2>2
    <3>2. o = D BY <1>3, <2>2, ConcatEmptySeq
    <3> QED BY <1>3, <3>1, <3>2
  <2> QED BY <2>1, <2>2
<1> HIDE DEF s, o, F, D, e, new
<1>9. \A i \in Range(F) : job'[i] = job[i] BY <1>2, <1>4, <1>5, <1>6
<1>10. \A i \in Range(s) : job'[i].at = "queued" /\ job'[i].gen = g
  BY <1>2, <1>4, <1>5, <1>7, <1>9, <1>n
<1>11. Range(o) = {job'[i].who : i \in Range(s)}
  <2>1. job'[j].who = w BY <1>4, <1>n
  <2> QED BY <1>7, <1>8, <1>9, <2>1
<1>12. \A i \in Jobs : job[i].at = "queued" /\ job[i].gen # g => job'[i] = job[i] BY <1>1, <1>4, <1>5 DEF NoJob
<1>13. \A i \in Jobs : job'[i].permit # "none" => job'[i].at = "started" BY <1>0, <1>4, <1>n DEF Queues, NoJob
<1>14. Queues' /\ Fair' /\ Queued(g)' = Range(s) /\ \A h \in Gens \ {g} : Queued(h)' = Queued(h)
  BY <1>0, <1>t, <1>1, <1>7, <1>8, <1>10, <1>11, <1>12, <1>13, QueueReplaced
<1>15. \A i \in Jobs : \/ job'[i] = job[i]
                       \/ /\ job[i].at \in {"none", "queued"} /\ job'[i].at \in {"none", "queued"}
                          /\ job'[i].permit = "none"
  BY <1>1, <1>4, <1>5, <1>n DEF NoJob
<1>16. \A h \in Gens : (wake[h] => wake'[h]) /\ (h = g /\ gen[h].phase = "live" => wake'[h])
  BY <1>0, <1>1 DEF Types, Revoked, Phase
<1>17. \A h \in Gens : Queued(h)' # {} => Queued(h) # {} \/ (gen[h].phase = "live" => wake'[h]) BY <1>14, <1>16
<1> QED BY <1>t, <1>1, <1>14, <1>15, <1>16, <1>17, QueueChanges

-----------------------------------------------------------------------------
(* The loop of a map stream *)

\* A round begins: the tasks that have ended are joined.
LEMMA ResumeKeeps ==
  ASSUME IInv, Types', NEW g \in Gens, loop[g].at \in {"start", "parked"}, Resume(g),
         UNCHANGED <<disp, order, queue, aborted, inFlight, sched>>,
         \A h \in Gens : gen'[h].phase = gen[h].phase /\ gen'[h].key = gen[h].key /\ gen'[h].profile = gen[h].profile,
         \A h \in Gens \ {g} : wake'[h] = wake[h]
  PROVE  IInv'
<1> USE DEF IInv
<1>1. /\ \A j \in Jobs : job'[j] = IF job[j].gen = g /\ job[j].at = "ended" THEN NoJob ELSE job[j]
      /\ loop'[g].at = "next" /\ loop'[g].permit = loop[g].permit /\ \A h \in Gens \ {g} : loop'[h] = loop[h]
  BY ResumeIs
<1>2. Forgets("ended") BY <1>1 DEF Forgets
<1>3. /\ \A j \in Jobs : job'[j].permit = job[j].permit /\ (job[j].permit # "none" => job'[j].gen = job[j].gen)
      /\ \A j \in Jobs : job'[j].permit # "none" => job'[j].at = "started"
      /\ \A h \in Gens : Unfinished(h)' = Unfinished(h)
  BY <1>2, ForgetsIs
<1>4. Voice' BY VoiceKept
<1>5. ASSUME NEW h \in Gens PROVE LoopFits(h)'
  <2>1. LoopFits(h) BY DEF Loops
  <2>2. CASE h = g BY <1>1, <2>1, <2>2 DEF LoopFits, Phase
  <2>3. CASE h # g
    <3>1. loop[h].at \in {"admit", "send"} => job'[loop[h].job] = job[loop[h].job] BY <1>1, <2>1, <2>3 DEF LoopFits
    <3> QED BY <1>1, <2>1, <2>3, <3>1, LoopKept
  <2> QED BY <2>2, <2>3
<1>6. Queues' /\ Fair'
  <2>1. \A j \in Jobs : \/ job'[j].at = "queued" /\ job'[j].gen = job[j].gen /\ job'[j].who = job[j].who
                        \/ job[j].at # "queued"
    BY <1>1
  <2> QED BY <1>3, <2>1, QueuesKept
<1>7. Silence' BY <1>3, SilenceKept
<1>8. Line' /\ Enough' /\ NoneIdle'
  <2>1. SameEnds BY DEF SameEnds
  <2>2. SamePermits BY <1>1, <1>3 DEF SamePermits
  <2> QED BY <2>1, <2>2, WorkersKept
<1>9. ASSUME NEW h \in Gens, gen'[h].phase = "live", loop'[h].at = "parked", Queued(h)' # {}
      PROVE  wake'[h] \/ Tasks(h)' # {} \/ h \in Range(sched'.order)
  <2>1. h # g BY <1>1, <1>9
  <2>2. Tasks(h)' = Tasks(h) BY <1>1, <2>1, Constants DEF Tasks, Unfinished, JobsOf, NoJob
  <2>3. Queued(h)' = Queued(h) BY DEF Queued
  <2> QED BY <1>1, <1>9, <2>1, <2>2, <2>3 DEF Watched, Phase
<1> QED BY <1>4, <1>5, <1>6, <1>7, <1>8, <1>9, WatchedAll DEF Loops

\* The steps with which a round begins.
LEMMA RoundKeeps ==
  ASSUME IInv, NEW g \in Gens, LoopStarts(g) \/ Woken(g) \/ Joins(g) \/ Data(g)
  PROVE  IInv'
<1>0. Types /\ Line BY DEF IInv
<1>t. Types' BY <1>0, LoopTypes
<1>1. loop[g].at \in {"start", "parked"} /\ Resume(g) /\ UNCHANGED <<disp, order, queue, aborted, inFlight, sched>>
  BY DEF LoopStarts, Woken, Joins, Data, tasks
<1>2. \A h \in Gens : gen'[h].phase = gen[h].phase /\ gen'[h].key = gen[h].key /\ gen'[h].profile = gen[h].profile
  <2>1. CASE LoopStarts(g) BY <1>0, <2>1 DEF LoopStarts, Types, Gen
  <2>2. CASE Woken(g) \/ Joins(g) \/ Data(g) BY <2>2 DEF Woken, Joins, Data
  <2> QED BY <2>1, <2>2
<1>3. \A h \in Gens \ {g} : wake'[h] = wake[h] BY <1>0 DEF LoopStarts, Woken, Joins, Data, Types
<1> QED BY <1>t, <1>1, <1>2, <1>3, ResumeKeeps

\* A round ends with work left only if a task will end.
LEMMA DispatchNextKeeps == ASSUME IInv, NEW g \in Gens, DispatchNext(g) PROVE IInv'
<1> DEFINE at == IF Cardinality(Tasks(g)) < Workers /\ HasWork(g) THEN "acquire" ELSE Rest(g)
<1>0. Types /\ Line /\ Voice /\ LoopFits(g) BY DEF IInv, Loops
<1>t. Types' BY <1>0, LoopTypes
<1>1. loop[g].at = "next" /\ Goto(g, at) /\ UNCHANGED <<disp, gen, order, queue, job, aborted, inFlight, sched, wake>>
  BY DEF DispatchNext, jobs, tasks
<1>2. at \in {"acquire", "parked", "body"} BY DEF Rest
<1>3. at = "parked" /\ gen[g].phase = "live" /\ Queued(g) # {} => Tasks(g) # {}
  <2> SUFFICES ASSUME at = "parked", gen[g].phase = "live", Queued(g) # {}, Tasks(g) = {} PROVE FALSE OBVIOUS
  <2>1. HasWork(g) BY DEF HasWork, Revoked, Phase
  <2>2. Cardinality(Tasks(g)) = 0 BY FS_EmptySet
  <2> QED BY <2>1, <2>2, Constants
<1> HIDE DEF at
<1>4. loop'[g].at = at /\ loop'[g].permit = loop[g].permit /\ \A h \in Gens \ {g} : loop'[h] = loop[h]
  BY <1>0, <1>1, <1>2, GotoIs DEF LoopAt
<1>5. LoopFits(g)' BY <1>0, <1>1, <1>2, <1>4 DEF LoopFits, Phase
<1>6. Voice' BY <1>0, <1>1, VoiceKept
<1> QED BY <1>t, <1>1, <1>3, <1>4, <1>5, <1>6, LoopMoves DEF IInv

\* A worker that was promised or free is in the hands of the loop.
LEMMA AcquireEnough ==
  ASSUME Types, Line, Enough, NEW g \in Gens, LoopFits(g), loop[g].at = "acquire", UNCHANGED <<gen, job>>,
         TakesPromise(g) \/ TakesFree(g)
  PROVE  Enough'
<1> DEFINE O == Owed(sched, Alive)
           H == Held \cap Alive
           T == {j \in HeldByTasks : job[j].gen \in Alive}
           a == sched.available
<1>1. Alive' = Alive /\ Alive \in SUBSET Gens BY DEF Alive, Phase
<1>2. g \in Alive
  <2>1. g \notin sched.tombs BY DEF TakesPromise, TakesFree
  <2> QED BY <2>1 DEF LoopFits, Line, Alive
<1>3. T' = T BY <1>1 DEF HeldByTasks
<1>4. loop'[g].permit = "active" /\ \A h \in Gens \ {g} : loop'[h] = loop[h] BY IssueIs DEF TakesPromise, TakesFree
<1>5. loop[g].permit = "none" BY DEF LoopFits
<1>6. H' = H \cup {g} /\ g \notin H BY <1>1, <1>2, <1>4, <1>5 DEF Held
<1>7. IsFiniteSet(O) /\ IsFiniteSet(H) /\ Cardinality(O) \in Nat /\ Cardinality(H) \in Nat /\ Cardinality(T) \in Nat
  BY <1>1, OwedIs, HoldersAre
<1>8. a + Cardinality(O) + Cardinality(H) + Cardinality(T) >= GlobalWorkers /\ a \in Nat /\ GlobalWorkers \in Nat
  BY Constants DEF Enough, Types, Sched
<1>9. Cardinality(H') = Cardinality(H) + 1
  <2> HIDE DEF H
  <2> QED BY <1>6, <1>7, FS_AddElement
<1>10. sched'.available + Cardinality(O') = a + Cardinality(O) - 1
  <2>1. CASE TakesPromise(g)
    <3>0. ~TakesFree(g) BY <2>1 DEF TakesPromise, TakesFree
    <3>1. /\ \A h \in Gens : sched'.granted[h] = IF h = g THEN 0 ELSE sched.granted[h]
          /\ sched.granted[g] = 1 /\ sched'.available = a
      BY <2>1, <3>0, AcquiredIs
    <3>2. O' = O \ {g} /\ g \in O BY <1>1, <1>2, <3>1 DEF Owed
    <3> HIDE DEF O
    <3>3. Cardinality(O') = Cardinality(O) - 1 BY <1>7, <3>2, FS_RemoveElement
    <3> QED BY <1>7, <1>8, <3>1, <3>3
  <2>2. CASE TakesFree(g)
    <3>0. ~TakesPromise(g) BY <2>2 DEF TakesPromise, TakesFree
    <3>1. (\A h \in Gens : sched'.granted[h] = sched.granted[h]) /\ sched'.available = a - 1 BY <2>2, <3>0, AcquiredIs
    <3>2. O' = O BY <1>1, <3>1 DEF Owed
    <3> QED BY <1>7, <1>8, <3>1, <3>2
  <2> QED BY <2>1, <2>2
<1>11. sched'.available + Cardinality(O') + Cardinality(H') + Cardinality(T') >= GlobalWorkers
  <2> DEFINE o == Cardinality(O)
             p == Cardinality(H)
             t == Cardinality(T)
             x == sched'.available + Cardinality(O')
  <2>1. /\ o \in Nat /\ p \in Nat /\ t \in Nat /\ a + o + p + t >= GlobalWorkers /\ a \in Nat /\ GlobalWorkers \in Nat
        /\ x = a + o - 1
    BY <1>7, <1>8, <1>10
  <2>2. Cardinality(H') = p + 1 /\ Cardinality(T') = t BY <1>3, <1>9
  <2> HIDE DEF o, p, t, x, a
  <2>3. x + (p + 1) + t >= GlobalWorkers BY <2>1
  <2> QED BY <2>2, <2>3 DEF x
<1> QED BY <1>11 DEF Enough, O, H, T

\* try_acquire keeps the invariant.
LEMMA TryAcquireKeeps == ASSUME IInv, NEW g \in Gens, TryAcquire(g) PROVE IInv'
<1>0. Types /\ Line /\ Voice /\ LoopFits(g) /\ Queues /\ Fair /\ Silence /\ Watched /\ Enough /\ NoneIdle BY DEF IInv, Loops
<1>t. Types' BY <1>0, LoopTypes
<1>1. /\ loop[g].at = "acquire" /\ UNCHANGED <<disp, gen, order, queue, job, aborted, inFlight, enq, wake, calls>>
      /\ Refuses(g) \/ TakesPromise(g) \/ TakesFree(g) \/ StandsInLine(g)
  BY TryAcquireIs
<1>2. Voice' BY <1>0, <1>1, VoiceKept
<1>3. gen[g].phase \notin {"none", "retired"} /\ loop[g].permit = "none" BY <1>0, <1>1 DEF LoopFits, Phase
<1>4. CASE Refuses(g)
  <2>1. gen[g].phase = "done" BY <1>0, <1>4 DEF Refuses, Line, Phase
  <2>2. Goto(g, "body") /\ sched' = sched BY <1>4, <2>1 DEF Refuses, Rest, Revoked, Phase
  <2>3. loop'[g].at = "body" /\ loop'[g].permit = loop[g].permit /\ \A h \in Gens \ {g} : loop'[h] = loop[h]
    BY <1>0, <2>2, GotoIs DEF LoopAt
  <2>4. LoopFits(g)' BY <1>1, <1>3, <2>3 DEF LoopFits, Phase
  <2> QED BY <1>t, <1>1, <1>2, <2>2, <2>3, <2>4, LoopMoves DEF IInv
<1>5. CASE TakesPromise(g) \/ TakesFree(g) \/ StandsInLine(g)
  <2>0. g \notin sched.tombs BY <1>5 DEF TakesPromise, TakesFree, StandsInLine
  <2>1. g \in Alive /\ Alive' = Alive BY <1>0, <1>1, <1>3, <2>0 DEF Line, Alive, Phase
  <2>2. /\ sched'.tombs = sched.tombs
        /\ \A h \in Gens : sched'.granted[h] = IF h = g /\ TakesPromise(g) THEN 0 ELSE sched.granted[h]
        /\ sched'.available = IF TakesFree(g) THEN sched.available - 1 ELSE sched.available
        /\ IsInjective(sched'.order)
        /\ Range(sched'.order) = IF StandsInLine(g) THEN Range(sched.order) \cup {g} ELSE Range(sched.order)
    BY <1>0, <1>5, AcquiredIs
  <2>3. Line'
    <3>0. Range(sched.order) \subseteq Gens BY <1>0 DEF Types, Sched, Range
    <3>1. \A h \in Range(sched'.order) : sched'.granted[h] = 0 /\ h \in Alive
      <4>1. StandsInLine(g) => sched.granted[g] = 0 /\ ~TakesPromise(g) BY DEF StandsInLine, TakesPromise
      <4> QED BY <1>0, <2>1, <2>2, <3>0, <4>1 DEF Line
    <3>2. \A h \in Gens : sched'.granted[h] \in 0..1
      <4>1. \A h \in Gens : sched.granted[h] \in 0..1 BY <1>0 DEF Line
      <4> QED BY <2>2, <4>1
    <3>3. sched'.tombs = {h \in Gens : Phase(h) = "done"}' BY <1>0, <1>1, <2>2 DEF Line, Phase
    <3> QED BY <2>1, <2>2, <3>1, <3>2, <3>3 DEF Line
  <2>4. NoneIdle'
    <3>1. CASE TakesPromise(g)
      <4>1. sched'.order = sched.order /\ sched'.available = sched.available
        BY <1>0, <3>1 DEF TakesPromise, Types, Sched
      <4> QED BY <1>0, <4>1 DEF NoneIdle
    <3>2. CASE TakesFree(g)
      <4>1. sched'.order = <<>> BY <1>0, <3>2 DEF TakesFree, Types, Sched
      <4> QED BY <4>1 DEF NoneIdle
    <3>3. CASE StandsInLine(g)
      <4>1. sched'.available = sched.available /\ sched.available = 0
        BY <1>0, <3>3 DEF StandsInLine, Types, Sched, NoneIdle
      <4> QED BY <4>1 DEF NoneIdle
    <3> QED BY <1>5, <3>1, <3>2, <3>3
  <2>5. \A h \in Gens \ {g} : loop'[h] = loop[h]
    <3>1. ASSUME StandsInLine(g) PROVE Goto(g, Rest(g)) /\ Rest(g) \in LoopAt BY <3>1, RestIs DEF StandsInLine
    <3>2. ASSUME NEW at \in LoopAt, Goto(g, at) PROVE \A h \in Gens \ {g} : loop'[h] = loop[h] BY <1>0, <3>2, GotoIs
    <3>3. ASSUME TakesPromise(g) \/ TakesFree(g) PROVE Issue(g) BY <3>3 DEF TakesPromise, TakesFree
    <3> QED BY <1>0, <1>5, <3>1, <3>2, <3>3, IssueIs
  <2>6. \/ loop'[g].at = "pop"
        \/ StandsInLine(g) /\ loop'[g].at \in {"parked", "body"} /\ loop'[g].permit = "none"
    <3>1. CASE StandsInLine(g)
      <4> DEFINE at == Rest(g)
      <4>1. at \in {"parked", "body"} /\ Goto(g, at) BY <3>1 DEF Rest, StandsInLine
      <4> HIDE DEF at
      <4>2. at \in LoopAt BY <4>1 DEF LoopAt
      <4>3. loop'[g].at = at /\ loop'[g].permit = loop[g].permit BY <1>0, <4>1, <4>2, GotoIs
      <4> QED BY <1>3, <3>1, <4>1, <4>3
    <3>2. CASE TakesPromise(g) \/ TakesFree(g)
      <4>1. Issue(g) BY <3>2 DEF TakesPromise, TakesFree
      <4> QED BY <1>0, <4>1, IssueIs
    <3> QED BY <1>5, <3>1, <3>2
  <2>7. Enough'
    <3>1. CASE TakesPromise(g) \/ TakesFree(g) BY <1>0, <1>1, <3>1, AcquireEnough
    <3>2. CASE StandsInLine(g)
      <4>0. ~TakesPromise(g) /\ ~TakesFree(g) BY <1>0, <3>2 DEF StandsInLine, TakesPromise, TakesFree, Types, Sched, NoneIdle
      <4>1. \A h \in Gens : loop'[h].permit = loop[h].permit
        <5>1. loop'[g].permit = "none"
          <6> DEFINE at == Rest(g)
          <6>1. at \in LoopAt /\ Goto(g, at) BY <3>2, RestIs DEF StandsInLine
          <6> HIDE DEF at
          <6> QED BY <1>0, <1>3, <6>1, GotoIs
        <5> QED BY <1>3, <2>5, <5>1
      <4>2. Held' = Held BY <4>1 DEF Held
      <4>3. {j \in HeldByTasks : job[j].gen \in Alive}' = {j \in HeldByTasks : job[j].gen \in Alive}
        BY <1>1, <2>1 DEF HeldByTasks
      <4>4. Owed(sched, Alive)' = Owed(sched, Alive)
        <5>1. Alive \in SUBSET Gens BY DEF Alive
        <5> QED BY <2>1, <2>2, <4>0, <5>1 DEF Owed
      <4>5. sched'.available = sched.available BY <2>2, <4>0
      <4> QED BY <1>0, <2>1, <4>2, <4>3, <4>4, <4>5 DEF Enough
    <3> QED BY <1>5, <3>1, <3>2
  <2>8. ASSUME NEW h \in Gens PROVE LoopFits(h)'
    <3>1. CASE h = g BY <1>1, <1>3, <2>6, <3>1 DEF LoopFits, Phase
    <3>2. CASE h # g
      <4>1. LoopFits(h) BY DEF IInv, Loops
      <4> QED BY <1>1, <2>5, <3>2, <4>1, LoopKept
    <3> QED BY <3>1, <3>2
  <2>9. Queues' /\ Fair'
    <3>1. \A j \in Jobs : job[j].permit # "none" => job[j].at = "started" BY <1>0 DEF Queues
    <3> QED BY <1>0, <1>1, <3>1, QueuesKept
  <2>10. \A h \in Gens : Unfinished(h)' = Unfinished(h) /\ Tasks(h)' = Tasks(h) /\ Queued(h)' = Queued(h)
    BY <1>1 DEF Unfinished, Tasks, JobsOf, Queued
  <2>11. Silence' BY <1>0, <1>1, <2>10, SilenceKept
  <2>12. ASSUME NEW h \in Gens, gen'[h].phase = "live", loop'[h].at = "parked", Queued(h)' # {}
         PROVE  wake'[h] \/ Tasks(h)' # {} \/ h \in Range(sched'.order)
    <3>1. CASE h = g BY <2>2, <2>6, <2>12, <3>1
    <3>2. CASE h # g BY <1>0, <1>1, <2>2, <2>5, <2>10, <2>12, <3>2 DEF Watched, Phase
    <3> QED BY <3>1, <3>2
  <2> QED BY <1>t, <1>2, <2>3, <2>4, <2>7, <2>8, <2>9, <2>11, <2>12, WatchedAll DEF IInv, Loops
<1> QED BY <1>1, <1>4, <1>5

-----------------------------------------------------------------------------
(* A permit is dropped *)

\* The worker of a permit that is dropped is free or promised, unless cancel has
\* given it back before.
LEMMA ReleaseKeeps ==
  ASSUME Types, Line, Enough, NoneIdle, NEW permit, Release(permit), gen' = gen,
         LET H == Held \cap Alive
             T == {j \in HeldByTasks : job[j].gen \in Alive}
         IN  Cardinality(H') + Cardinality(T') + (IF permit = "active" THEN 1 ELSE 0) >= Cardinality(H) + Cardinality(T)
  PROVE  Line' /\ Enough' /\ NoneIdle'
<1> DEFINE H == Held \cap Alive
           T == {j \in HeldByTasks : job[j].gen \in Alive}
           before == sched.available + Cardinality(Owed(sched, Alive))
           after == sched'.available + Cardinality(Owed(sched', Alive))
           i == IF permit = "active" THEN 1 ELSE 0
<1>1. Alive' = Alive BY DEF Alive, Phase
<1>2. /\ LineOf(sched', Alive) /\ sched'.tombs = sched.tombs /\ NoneIdle'
      /\ before \in Nat /\ after \in Nat /\ after >= before
      /\ permit = "active" => after >= before + 1 \/ after >= GlobalWorkers
  BY Dropped
<1>3. Line'
  <2>1. sched'.tombs = {h \in Gens : Phase(h) = "done"}' BY <1>2 DEF Line, Phase
  <2> QED BY <1>1, <1>2, <2>1 DEF Line, LineOf
<1>4. Cardinality(H) \in Nat /\ Cardinality(T) \in Nat BY HoldersAre
<1>5. Cardinality(H') \in Nat /\ Cardinality(T') \in Nat
  <2>1. H' \in SUBSET Gens BY DEF Alive
  <2>2. T' \in SUBSET Jobs BY DEF HeldByTasks
  <2> QED BY <2>1, <2>2, Constants, FS_Subset, FS_CardinalityType
<1>6. before + Cardinality(H) + Cardinality(T) >= GlobalWorkers BY DEF Enough
<1>7. Cardinality(H') + Cardinality(T') + i >= Cardinality(H) + Cardinality(T) /\ GlobalWorkers \in Nat BY Constants
<1>8. (i = 0 \/ after >= before + 1 \/ after >= GlobalWorkers) /\ i \in {0, 1} BY <1>2
<1> HIDE DEF H, T, before, after, i
<1>9. after + Cardinality(H') + Cardinality(T') >= GlobalWorkers
  <2> DEFINE p == Cardinality(H)
             t == Cardinality(T)
             x == Cardinality(H')
             y == Cardinality(T')
  <2>1. /\ p \in Nat /\ t \in Nat /\ x \in Nat /\ y \in Nat /\ before + p + t >= GlobalWorkers /\ x + y + i >= p + t
        /\ before \in Nat /\ after \in Nat /\ after >= before /\ GlobalWorkers \in Nat
    BY <1>2, <1>4, <1>5, <1>6, <1>7
  <2> HIDE DEF p, t, x, y
  <2>2. after + x + y >= GlobalWorkers BY <1>8, <2>1
  <2> QED BY <2>2 DEF x, y
<1>10. Enough' BY <1>1, <1>9 DEF Enough, H, T, after
<1> QED BY <1>2, <1>3, <1>10

\* The loop drops its permit.
LEMMA LoopReleases ==
  ASSUME Types, Queues, Line, Enough, NoneIdle, NEW g \in Gens, NEW at \in LoopAt, DropPermit(g, at), gen' = gen,
         \A j \in Jobs : job[j].permit = "active" => job'[j].permit = "active" /\ job'[j].gen = job[j].gen
  PROVE  Line' /\ Enough' /\ NoneIdle'
<1> DEFINE H == Held \cap Alive
           T == {j \in HeldByTasks : job[j].gen \in Alive}
<1>1. Alive' = Alive BY DEF Alive, Phase
<1>2. Release(loop[g].permit) /\ loop'[g].permit = "none" /\ \A h \in Gens \ {g} : loop'[h] = loop[h]
  <2>1. /\ Release(loop[g].permit) /\ loop'[g] = [at |-> at, job |-> 0, permit |-> "none"]
        /\ \A h \in Gens \ {g} : loop'[h] = loop[h]
    BY DropPermitIs
  <2> QED BY <2>1
<1>3. H' = H \ {g} BY <1>1, <1>2 DEF Held
<1>4. T \subseteq T' BY <1>1 DEF HeldByTasks
<1>5. IsFiniteSet(H) /\ Cardinality(H) \in Nat /\ Cardinality(T) \in Nat BY HoldersAre
<1>6. IsFiniteSet(T') /\ Cardinality(T') \in Nat
  <2>1. T' \in SUBSET Jobs BY DEF HeldByTasks
  <2> QED BY <2>1, Constants, FS_Subset, FS_CardinalityType
<1>7. g \in H => loop[g].permit = "active" BY DEF Held
<1>8. Cardinality(T') >= Cardinality(T)
  <2> HIDE DEF T
  <2> QED BY <1>4, <1>5, <1>6, FS_Subset
<1>9. Cardinality(H') = IF g \in H THEN Cardinality(H) - 1 ELSE Cardinality(H)
  <2> HIDE DEF H
  <2> QED BY <1>3, <1>5, FS_RemoveElement
<1>10. Cardinality(H') + Cardinality(T') + (IF loop[g].permit = "active" THEN 1 ELSE 0) >= Cardinality(H) + Cardinality(T)
  <2> DEFINE p == Cardinality(H)
             t == Cardinality(T)
             y == Cardinality(T')
  <2>1. p \in Nat /\ t \in Nat /\ y \in Nat /\ y >= t BY <1>5, <1>6, <1>8
  <2> HIDE DEF p, t, y, H, T
  <2>2. CASE g \in H
    <3>1. Cardinality(H') = p - 1 /\ loop[g].permit = "active" BY <1>7, <1>9, <2>2 DEF p
    <3>2. (p - 1) + y + 1 >= p + t BY <2>1
    <3> QED BY <3>1, <3>2 DEF p, t, y
  <2>3. CASE g \notin H
    <3>1. Cardinality(H') = p BY <1>9, <2>3 DEF p
    <3>2. p + y + 1 >= p + t /\ p + y + 0 >= p + t BY <2>1
    <3> QED BY <3>1, <3>2 DEF p, t, y
  <2> QED BY <2>2, <2>3
<1> QED BY <1>2, <1>10, ReleaseKeeps

\* Pop finds the generation revoked, or nothing left in the queue.
LEMMA PopDropsKeeps ==
  ASSUME IInv, Types', NEW g \in Gens, loop[g].at = "pop", DropPermit(g, Rest(g)),
         (Revoked(g) /\ UNCHANGED <<order, queue, job>>) \/ (~Revoked(g) /\ Drained(g)),
         UNCHANGED <<disp, gen, aborted, inFlight>>
  PROVE  IInv'
<1> USE DEF IInv
<1> DEFINE at == Rest(g)
<1>1. at \in {"parked", "body"} /\ at \in LoopAt /\ DropPermit(g, at) /\ (at = "parked" => ~Revoked(g)) BY RestIs DEF Rest
<1> HIDE DEF at
<1>2. /\ Release(loop[g].permit) /\ loop'[g] = [at |-> at, job |-> 0, permit |-> "none"]
      /\ \A h \in Gens \ {g} : loop'[h] = loop[h]
  BY <1>1, DropPermitIs
<1>3. Voice' BY VoiceKept
<1>4. /\ Forgets("queued") /\ Queues' /\ Fair' /\ (~Revoked(g) => Queued(g)' = {})
      /\ \A h \in Gens \ {g} : Queued(h)' = Queued(h)
      /\ \A h \in Gens : Tasks(h)' = Tasks(h)
  <2>1. CASE UNCHANGED <<order, queue, job>> /\ Revoked(g)
    <3>1. \A j \in Jobs : job[j].permit # "none" => job[j].at = "started" BY DEF Queues
    <3>2. Queues' /\ Fair' BY <2>1, <3>1, QueuesKept
    <3> QED BY <2>1, <3>2 DEF Forgets, Queued, Tasks, Unfinished, JobsOf
  <2>2. CASE Drained(g) BY <2>2, DrainedIs
  <2> QED BY <2>1, <2>2
<1>5. /\ \A j \in Jobs : job'[j].permit = job[j].permit /\ (job[j].permit # "none" => job'[j].gen = job[j].gen)
      /\ \A h \in Gens : Unfinished(h)' = Unfinished(h)
  BY <1>4, ForgetsIs
<1>6. Line' /\ Enough' /\ NoneIdle' BY <1>1, <1>5, LoopReleases
<1>7. ASSUME NEW h \in Gens PROVE LoopFits(h)'
  <2>1. LoopFits(h) BY DEF Loops
  <2>2. CASE h = g BY <1>1, <1>2, <2>1, <2>2 DEF LoopFits, Phase
  <2>3. CASE h # g
    <3>1. loop[h].at \in {"admit", "send"} => job'[loop[h].job] = job[loop[h].job] BY <1>4, <2>1 DEF Forgets, LoopFits
    <3> QED BY <1>2, <2>1, <2>3, <3>1, LoopKept
  <2> QED BY <2>2, <2>3
<1>8. Silence' BY <1>5, SilenceKept
<1>9. /\ \A h \in Gens : wake[h] => wake'[h]
      /\ \A h \in Range(sched.order) : h \in Range(sched'.order) \/ wake'[h]
  BY <1>2, Dropped
<1>10. ASSUME NEW h \in Gens, gen'[h].phase = "live", loop'[h].at = "parked", Queued(h)' # {}
       PROVE  wake'[h] \/ Tasks(h)' # {} \/ h \in Range(sched'.order)
  <2>1. CASE h = g BY <1>1, <1>2, <1>4, <1>10, <2>1
  <2>2. CASE h # g BY <1>2, <1>4, <1>9, <1>10, <2>2 DEF Watched, Phase
  <2> QED BY <2>1, <2>2
<1> QED BY <1>3, <1>4, <1>6, <1>7, <1>8, <1>10, WatchedAll DEF Loops

\* Pop takes a job.
LEMMA PoppedKeeps ==
  ASSUME IInv, Types', NEW g \in Gens, NEW n \in Nat, NEW j, PoppedIs(g, n, j)
  PROVE  IInv'
<1> USE DEF IInv
<1> DEFINE F == Fresh(g, n)
           s == Kept(F, Jobs \ {j})
           o == NextOrder(g, n)
<1>1. /\ loop[g].at = "pop" /\ n <= Len(queue[g]) /\ ~Revoked(g) /\ Fresh(g, n) # <<>>
      /\ j = Head(Of(g, n, Head(FreshOrder(g, n))))
      /\ job' = [Expired(g, n) EXCEPT ![j].at = "popped"]
      /\ queue' = [queue EXCEPT ![g] = s]
      /\ loop' = [loop EXCEPT ![g].at = "admit", ![g].job = j]
      /\ order' = [order EXCEPT ![g] = o]
      /\ UNCHANGED <<disp, gen, aborted, inFlight, sched, wake>>
  BY DEF PoppedIs
<1>2. /\ j \in Jobs /\ j \in Range(F) /\ IsInjective(s) /\ Range(s) = Range(F) \ {j}
      /\ IsInjective(o) /\ Range(o) = {job[i].who : i \in Range(F) \ {j}}
  <2>1. Takes(g, n, j) BY <1>1, PopIs
  <2> QED BY <2>1 DEF Takes
<1>3. Range(F) \subseteq Queued(g) BY <1>1, FreshIs
<1>4. \A i \in Queued(g) : i \in Jobs /\ job[i].at = "queued" /\ job[i].gen = g BY DEF Types, Queues, Queued, Range
<1>5. /\ \A i \in Jobs \ {j} : job'[i] = IF i \in Queued(g) /\ i \notin Range(F) THEN NoJob ELSE job[i]
      /\ job'[j].at = "popped" /\ job'[j].gen = g /\ job'[j].permit = job[j].permit
  <2> DEFINE x == Expired(g, n)
  <2>1. x \in [Jobs -> Job] /\ \A i \in Jobs : x[i] = IF i \in Queued(g) /\ i \notin Range(F) THEN NoJob ELSE job[i]
    BY ExpiredIs
  <2>2. job' = [x EXCEPT ![j].at = "popped"] BY <1>1
  <2>3. x[j] = job[j] /\ job[j].gen = g BY <1>2, <1>3, <1>4, <2>1
  <2>4. x[j] \in Job BY <1>2, <2>1
  <2> HIDE DEF x, F
  <2> QED BY <1>2, <2>1, <2>2, <2>3, <2>4 DEF Job
<1>6. /\ loop'[g].at = "admit" /\ loop'[g].job = j /\ loop'[g].permit = loop[g].permit
      /\ \A h \in Gens \ {g} : loop'[h] = loop[h]
  BY <1>1, <1>2, AdmitLoopIs
<1> HIDE DEF F, s, o
<1>7. job[j].at = "queued" /\ job[j].gen = g /\ job[j].permit = "none" BY <1>2, <1>3, <1>4 DEF Queues
<1>8. \A i \in Range(s) : job'[i] = job[i] BY <1>2, <1>3, <1>4, <1>5
<1>9. \A i \in Range(s) : job'[i].at = "queued" /\ job'[i].gen = g BY <1>2, <1>3, <1>4, <1>8
<1>10. IsInjective(s) /\ IsInjective(o) /\ Range(o) = {job'[i].who : i \in Range(s)} BY <1>2, <1>8
<1>11. \A i \in Jobs : job[i].at = "queued" /\ job[i].gen # g => job'[i] = job[i] BY <1>4, <1>5, <1>7
<1>12. \A i \in Jobs : job'[i].permit # "none" => job'[i].at = "started" BY <1>5, <1>7 DEF Queues, NoJob
<1>13. Queues' /\ Fair' /\ Queued(g)' = Range(s) /\ \A h \in Gens \ {g} : Queued(h)' = Queued(h)
  BY <1>1, <1>9, <1>10, <1>11, <1>12, QueueReplaced
<1>14. \A i \in Jobs : job'[i] = job[i] \/ (job[i].at = "queued" /\ job[i].permit = "none" /\ job'[i].permit = "none"
                                           /\ job'[i].at \in {"none", "popped"})
  BY <1>4, <1>5, <1>7 DEF NoJob, Queues
<1>15. Voice' BY <1>1, VoiceKept
<1>16. ASSUME NEW h \in Gens PROVE LoopFits(h)'
  <2>1. LoopFits(h) BY DEF Loops
  <2>2. CASE h = g BY <1>1, <1>2, <1>5, <1>6, <2>1, <2>2 DEF LoopFits, Phase
  <2>3. CASE h # g
    <3>1. loop[h].at \in {"admit", "send"} => job'[loop[h].job] = job[loop[h].job] BY <1>14, <2>1 DEF LoopFits
    <3> QED BY <1>1, <1>6, <2>1, <2>3, <3>1, LoopKept
  <2> QED BY <2>2, <2>3
<1>17. \A h \in Gens : Unfinished(h)' = Unfinished(h) /\ Tasks(h)' = Tasks(h)
  BY <1>14 DEF Unfinished, Tasks, JobsOf
<1>18. Silence' BY <1>1, <1>17, SilenceKept
<1>19. Line' /\ Enough' /\ NoneIdle'
  <2>1. SameEnds BY <1>1 DEF SameEnds
  <2>2. SamePermits BY <1>6, <1>14 DEF SamePermits
  <2> QED BY <1>1, <2>1, <2>2, WorkersKept
<1>20. ASSUME NEW h \in Gens, gen'[h].phase = "live", loop'[h].at = "parked", Queued(h)' # {}
       PROVE  wake'[h] \/ Tasks(h)' # {} \/ h \in Range(sched'.order)
  <2>1. h # g BY <1>6, <1>20
  <2> QED BY <1>1, <1>6, <1>13, <1>17, <1>20, <2>1 DEF Watched, Phase
<1> QED BY <1>13, <1>15, <1>16, <1>18, <1>19, <1>20, WatchedAll DEF Loops

\* Pop keeps the invariant.
LEMMA PopKeeps == ASSUME IInv, NEW g \in Gens, NEW n \in Nat, Pop(g, n) PROVE IInv'
<1>0. Types /\ Queues /\ Fair /\ Line /\ NoneIdle BY DEF IInv
<1>t. Types' BY <1>0, PopTypes
<1> QED BY <1>t, PopCases, PopDropsKeeps, PoppedKeeps

-----------------------------------------------------------------------------
(* Tasks *)

\* A job of g changes while its loop holds it, or its task runs: what is left
\* alone then.
LEMMA OneJobChanges ==
  ASSUME IInv, UNCHANGED <<disp, gen, order, queue>>, NEW g, NEW j \in Jobs, job[j].gen = g,
         \A i \in Jobs \ {j} : job'[i] = job[i], job'[j].gen = g, job[j].at # "queued",
         job'[j].permit # "none" => job'[j].at = "started"
  PROVE  /\ Voice' /\ Queues' /\ Fair' /\ \A h \in Gens : Queued(h)' = Queued(h)
         /\ \A h \in Gens \ {g} : Unfinished(h)' = Unfinished(h) /\ Tasks(h)' = Tasks(h)
         /\ \A h \in Gens \ {g} : loop'[h] = loop[h] => LoopFits(h)'
<1> USE DEF IInv
<1>1. Voice' BY VoiceKept
<1>2. Queues' /\ Fair'
  <2>1. \A i \in Jobs : job[i].permit # "none" => job[i].at = "started" BY DEF Queues
  <2>2. \A i \in Jobs : job'[i].permit # "none" => job'[i].at = "started" BY <2>1
  <2>3. \A i \in Jobs : \/ job'[i].at = "queued" /\ job'[i].gen = job[i].gen /\ job'[i].who = job[i].who
                        \/ job[i].at # "queued"
    OBVIOUS
  <2> QED BY <2>2, <2>3, QueuesKept
<1>3. \A h \in Gens : Queued(h)' = Queued(h) BY DEF Queued
<1>4. \A h \in Gens \ {g} : Unfinished(h)' = Unfinished(h) /\ Tasks(h)' = Tasks(h) BY DEF Unfinished, Tasks, JobsOf
<1>5. ASSUME NEW h \in Gens \ {g}, loop'[h] = loop[h] PROVE LoopFits(h)'
  <2>1. LoopFits(h) BY DEF Loops
  <2>2. loop[h].at \in {"admit", "send"} => job'[loop[h].job] = job[loop[h].job] BY <2>1 DEF LoopFits
  <2> QED BY <1>5, <2>1, <2>2, LoopKept
<1> QED BY <1>1, <1>2, <1>3, <1>4, <1>5

\* A loop that is not parked any more, a line that only those leave who are
\* woken, and tasks that are not fewer.
LEMMA WatchGoesOn ==
  ASSUME IInv, gen' = gen, NEW g \in Gens, loop'[g].at # "parked",
         \A h \in Gens \ {g} : loop'[h] = loop[h] /\ Tasks(h)' = Tasks(h),
         \A h \in Gens : Queued(h)' = Queued(h),
         \A h \in Gens : wake[h] => wake'[h],
         \A h \in Range(sched.order) : h \in Range(sched'.order) \/ wake'[h]
  PROVE  Watched'
<1>1. ASSUME NEW h \in Gens, gen'[h].phase = "live", loop'[h].at = "parked", Queued(h)' # {}
      PROVE  wake'[h] \/ Tasks(h)' # {} \/ h \in Range(sched'.order)
  <2>1. h # g BY <1>1
  <2> QED BY <1>1, <2>1 DEF IInv, Watched, Phase
<1> QED BY <1>1, WatchedAll

\* A task that is spawned is told to stop, or revoke will find it.
LEMMA AdmitKeeps == ASSUME IInv, NEW g \in Gens, Admit(g), NEW j, j = loop[g].job PROVE IInv'
<1> USE DEF IInv
<1>t. Types' BY AdmitTypes
<1>1. /\ loop[g].at = "admit" /\ job' = [job EXCEPT ![j].at = "spawned"]
      /\ UNCHANGED <<disp, gen, order, queue, enq, calls>>
      /\ \/ Revoked(g) /\ DropPermit(g, "next") /\ aborted' = aborted \cup {j} /\ UNCHANGED inFlight
         \/ /\ ~Revoked(g) /\ inFlight' = [inFlight EXCEPT ![g] = @ \cup {j}]
            /\ Goto(g, "send") /\ UNCHANGED <<aborted, sched, wake>>
  BY AdmitCases DEF Admitted
<1>f. LoopFits(g) BY DEF Loops
<1>2. j \in Jobs /\ job[j].at = "popped" /\ job[j].gen = g /\ gen[g].phase \notin {"none", "retired"}
  BY <1>1, <1>f DEF LoopFits, Phase
<1>3. /\ \A i \in Jobs \ {j} : job'[i] = job[i]
      /\ job'[j].at = "spawned" /\ job'[j].gen = job[j].gen /\ job'[j].permit = job[j].permit
  BY <1>1, <1>2, JobAtIs DEF JobAt
<1>4. job[j].permit = "none" BY <1>2 DEF Queues
<1>5. /\ Voice' /\ Queues' /\ Fair' /\ \A h \in Gens : Queued(h)' = Queued(h)
      /\ \A h \in Gens \ {g} : Unfinished(h)' = Unfinished(h) /\ Tasks(h)' = Tasks(h)
      /\ \A h \in Gens \ {g} : loop'[h] = loop[h] => LoopFits(h)'
  BY <1>1, <1>2, <1>3, <1>4, OneJobChanges
<1>6. Unfinished(g)' = Unfinished(g) \cup {j} BY <1>2, <1>3 DEF Unfinished, JobsOf
<1>7. CASE Revoked(g) /\ DropPermit(g, "next") /\ aborted' = aborted \cup {j} /\ UNCHANGED inFlight
  <2>1. /\ Release(loop[g].permit) /\ loop'[g] = [at |-> "next", job |-> 0, permit |-> "none"]
        /\ \A h \in Gens \ {g} : loop'[h] = loop[h]
    BY <1>7, DropPermitIs DEF LoopAt
  <2>2. Line' /\ Enough' /\ NoneIdle'
    <3>1. \A i \in Jobs : job[i].permit = "active" => job'[i].permit = "active" /\ job'[i].gen = job[i].gen
      BY <1>3
    <3> QED BY <1>1, <1>7, <3>1, LoopReleases DEF LoopAt
  <2>3. LoopFits(g)' BY <1>1, <1>2, <2>1 DEF LoopFits, Phase
  <2>4. Silence'
    <3> SUFFICES ASSUME NEW h \in Gens, NEW i \in Unfinished(h)'
                 PROVE  i \in aborted' \/ (i \in inFlight'[h] /\ gen'[h].phase \notin {"aborted", "done", "retired"})
      BY DEF Silence, Phase
    <3>1. i \in Unfinished(h) \/ i = j BY <1>5, <1>6
    <3> QED BY <1>1, <1>7, <3>1 DEF Silence, Phase
  <2>5. /\ \A h \in Gens : wake[h] => wake'[h]
        /\ \A h \in Range(sched.order) : h \in Range(sched'.order) \/ wake'[h]
    BY <2>1, Dropped
  <2>6. Watched' BY <1>1, <1>5, <2>1, <2>5, WatchGoesOn
  <2> QED BY <1>t, <1>5, <2>1, <2>2, <2>3, <2>4, <2>6 DEF Loops
<1>8. CASE /\ ~Revoked(g) /\ inFlight' = [inFlight EXCEPT ![g] = @ \cup {j}]
           /\ Goto(g, "send") /\ UNCHANGED <<aborted, sched, wake>>
  <2>1. /\ loop'[g].at = "send" /\ loop'[g].job = j /\ loop'[g].permit = loop[g].permit
        /\ \A h \in Gens \ {g} : loop'[h] = loop[h]
    BY <1>8, GotoIs DEF LoopAt
  <2>2. Line' /\ Enough' /\ NoneIdle'
    <3>1. SameEnds BY <1>1 DEF SameEnds
    <3>2. SamePermits BY <1>3, <2>1 DEF SamePermits
    <3> QED BY <1>8, <3>1, <3>2, WorkersKept
  <2>3. LoopFits(g)' BY <1>1, <1>2, <1>3, <2>1 DEF LoopFits, Phase
  <2>4. Silence'
    <3> SUFFICES ASSUME NEW h \in Gens, NEW i \in Unfinished(h)'
                 PROVE  i \in aborted' \/ (i \in inFlight'[h] /\ gen'[h].phase \notin {"aborted", "done", "retired"})
      BY DEF Silence, Phase
    <3>1. inFlight[h] \subseteq inFlight'[h] /\ (h = g => j \in inFlight'[h]) BY <1>8 DEF Types
    <3>2. gen[g].phase \in {"live", "called"} BY <1>8 DEF Revoked, Phase
    <3>3. i \in Unfinished(h) \/ (h = g /\ i = j) BY <1>5, <1>6
    <3> QED BY <1>1, <1>8, <3>1, <3>2, <3>3 DEF Silence, Phase
  <2>5. Watched' BY <1>1, <1>5, <1>8, <2>1, WatchGoesOn
  <2> QED BY <1>t, <1>5, <2>1, <2>2, <2>3, <2>4, <2>5 DEF Loops
<1> QED BY <1>1, <1>7, <1>8

\* The permit goes from the loop to the task.
LEMMA StartEnough ==
  ASSUME Types, Queues, Enough, NEW g \in Gens, NEW j \in Jobs, gen' = gen, sched' = sched,
         job[j].gen = g, job[j].permit = "none",
         \A i \in Jobs \ {j} : job'[i] = job[i], job'[j].gen = g, job'[j].permit = loop[g].permit,
         \A h \in Gens \ {g} : loop'[h] = loop[h], loop'[g].permit = "none"
  PROVE  Enough'
<1> DEFINE H == Held \cap Alive
           T == {i \in HeldByTasks : job[i].gen \in Alive}
<1>1. Alive' = Alive BY DEF Alive, Phase
<1>2. IsFiniteSet(H) /\ IsFiniteSet(T) /\ Cardinality(H) \in Nat /\ Cardinality(T) \in Nat BY HoldersAre
<1>3. Cardinality(H') + Cardinality(T') = Cardinality(H) + Cardinality(T)
  <2>1. CASE g \in H
    <3>1. H' = H \ {g} BY <1>1 DEF Held
    <3>2. T' = T \cup {j} /\ j \notin T BY <1>1, <2>1 DEF HeldByTasks, Held
    <3> HIDE DEF H, T
    <3>3. Cardinality(H') = Cardinality(H) - 1 /\ Cardinality(T') = Cardinality(T) + 1
      BY <1>2, <2>1, <3>1, <3>2, FS_RemoveElement, FS_AddElement
    <3> QED BY <1>2, <3>3
  <2>2. CASE g \notin H
    <3>1. H' = H BY <1>1, <2>2 DEF Held
    <3>2. T' = T BY <1>1, <2>2 DEF HeldByTasks, Held
    <3> QED BY <3>1, <3>2
  <2> QED BY <2>1, <2>2
<1>4. Owed(sched, Alive)' = Owed(sched, Alive) BY <1>1 DEF Owed
<1>5. sched.available \in Nat /\ Cardinality(Owed(sched, Alive)) \in Nat /\ GlobalWorkers \in Nat
  BY Constants, OwedIs DEF Types, Sched, Alive
<1>6. sched.available + Cardinality(Owed(sched, Alive)) + Cardinality(H) + Cardinality(T) >= GlobalWorkers BY DEF Enough
<1>7. Cardinality(H') \in Nat /\ Cardinality(T') \in Nat
  <2>1. H' \in SUBSET Gens BY DEF Alive
  <2>2. T' \in SUBSET Jobs BY DEF HeldByTasks
  <2> QED BY <2>1, <2>2, Constants, FS_Subset, FS_CardinalityType
<1>8. sched.available + Cardinality(Owed(sched, Alive)) + Cardinality(H') + Cardinality(T') >= GlobalWorkers
  <2> HIDE DEF H, T
  <2> QED BY <1>2, <1>3, <1>5, <1>6, <1>7
<1> QED BY <1>1, <1>4, <1>8 DEF Enough

\* A task is started, or found to be gone.
LEMMA SendStartKeeps == ASSUME IInv, NEW g \in Gens, SendStart(g), NEW j, j = loop[g].job PROVE IInv'
<1> USE DEF IInv
<1>t. Types' BY SendStartTypes
<1>1. /\ loop[g].at = "send" /\ UNCHANGED <<disp, gen, order, queue, aborted, enq, calls>>
      /\ \/ /\ job[j].at = "ended" /\ DropPermit(g, "next")
            /\ inFlight' = [inFlight EXCEPT ![g] = @ \ {j}] /\ UNCHANGED job
         \/ /\ job[j].at # "ended" /\ job' = [job EXCEPT ![j].at = "started", ![j].permit = loop[g].permit]
            /\ loop' = [loop EXCEPT ![g] = [at |-> "next", job |-> 0, permit |-> "none"]]
            /\ UNCHANGED <<inFlight, sched, wake>>
  BY SendStartCases, SMTT(30)
<1>f. LoopFits(g) BY DEF Loops
<1>2. j \in Jobs /\ job[j].at \in {"spawned", "ended"} /\ job[j].gen = g /\ gen[g].phase \notin {"none", "retired"}
  BY <1>1, <1>f DEF LoopFits, Phase
<1>3. job[j].permit = "none" BY <1>2 DEF Queues
<1>4. CASE /\ job[j].at = "ended" /\ DropPermit(g, "next")
           /\ inFlight' = [inFlight EXCEPT ![g] = @ \ {j}] /\ UNCHANGED job
  <2>1. /\ Release(loop[g].permit) /\ loop'[g] = [at |-> "next", job |-> 0, permit |-> "none"]
        /\ \A h \in Gens \ {g} : loop'[h] = loop[h]
    BY <1>4, DropPermitIs DEF LoopAt
  <2>2. /\ Voice' /\ Queues' /\ Fair' /\ \A h \in Gens : Queued(h)' = Queued(h)
        /\ \A h \in Gens \ {g} : Unfinished(h)' = Unfinished(h) /\ Tasks(h)' = Tasks(h)
        /\ \A h \in Gens \ {g} : loop'[h] = loop[h] => LoopFits(h)'
    BY <1>1, <1>2, <1>3, <1>4, OneJobChanges
  <2>3. Line' /\ Enough' /\ NoneIdle'
    <3>1. \A i \in Jobs : job[i].permit = "active" => job'[i].permit = "active" /\ job'[i].gen = job[i].gen
      BY <1>4
    <3> QED BY <1>1, <1>4, <3>1, LoopReleases DEF LoopAt
  <2>4. LoopFits(g)' BY <1>1, <1>2, <2>1 DEF LoopFits, Phase
  <2>5. Silence'
    <3>1. \A h \in Gens : Unfinished(h)' = Unfinished(h) /\ j \notin Unfinished(h) BY <1>4 DEF Unfinished, JobsOf
    <3>2. \A h \in Gens : inFlight[h] \ {j} \subseteq inFlight'[h] BY <1>4 DEF Types
    <3> QED BY <1>1, <3>1, <3>2, SilenceKept
  <2>6. /\ \A h \in Gens : wake[h] => wake'[h]
        /\ \A h \in Range(sched.order) : h \in Range(sched'.order) \/ wake'[h]
    BY <2>1, Dropped
  <2>7. Watched' BY <1>1, <2>1, <2>2, <2>6, WatchGoesOn
  <2> QED BY <1>t, <2>1, <2>2, <2>3, <2>4, <2>5, <2>7 DEF Loops
<1>5. CASE /\ job[j].at # "ended" /\ job' = [job EXCEPT ![j].at = "started", ![j].permit = loop[g].permit]
           /\ loop' = [loop EXCEPT ![g] = [at |-> "next", job |-> 0, permit |-> "none"]]
           /\ UNCHANGED <<inFlight, sched, wake>>
  <2>s. Started(g, j) BY <1>2, <1>5, StartedIs
  <2>1. /\ \A i \in Jobs \ {j} : job'[i] = job[i]
        /\ job'[j].at = "started" /\ job'[j].gen = job[j].gen /\ job'[j].permit = loop[g].permit
        /\ \A h \in Gens \ {g} : loop'[h] = loop[h]
        /\ loop'[g].at = "next" /\ loop'[g].job = 0 /\ loop'[g].permit = "none"
    BY <2>s DEF Started
  <2>2. /\ Voice' /\ Queues' /\ Fair' /\ \A h \in Gens : Queued(h)' = Queued(h)
        /\ \A h \in Gens \ {g} : Unfinished(h)' = Unfinished(h) /\ Tasks(h)' = Tasks(h)
        /\ \A h \in Gens \ {g} : loop'[h] = loop[h] => LoopFits(h)'
    BY <1>1, <1>2, <2>1, OneJobChanges
  <2>e. gen' = gen /\ sched' = sched /\ job'[j].gen = g /\ job[j].gen = g /\ job[j].at = "spawned" BY <1>1, <1>2, <1>5, <2>1
  <2>3. Enough' BY <1>2, <1>3, <2>1, <2>e, StartEnough
  <2>4. Line' /\ NoneIdle'
    <3>1. Alive' = Alive /\ sched' = sched /\ {h \in Gens : Phase(h) = "done"}' = {h \in Gens : Phase(h) = "done"}
      BY <1>1, <1>5 DEF Alive, Phase
    <3> QED BY <3>1 DEF Line, NoneIdle
  <2>5. LoopFits(g)' BY <1>1, <1>2, <2>1 DEF LoopFits, Phase
  <2>6. Silence'
    <3>1. \A i \in Jobs : /\ job'[i].gen = job[i].gen
                          /\ job'[i].at \in {"spawned", "started"} <=> job[i].at \in {"spawned", "started"}
      BY <2>1, <2>e
    <3>2. \A h \in Gens : Unfinished(h)' = Unfinished(h) BY <3>1 DEF Unfinished, JobsOf
    <3> QED BY <1>1, <1>5, <3>2, SilenceKept
  <2>7. Watched' BY <1>1, <1>5, <2>1, <2>2, WatchGoesOn
  <2> QED BY <1>t, <2>1, <2>2, <2>3, <2>4, <2>5, <2>6, <2>7 DEF Loops
<1> QED BY <1>1, <1>4, <1>5

\* The task's permit goes back with it.
LEMMA TaskReleases ==
  ASSUME Types, Line, Enough, NoneIdle, NEW j \in Jobs, Release(job[j].permit), gen' = gen, loop' = loop,
         \A i \in Jobs \ {j} : job'[i] = job[i], job'[j].permit = "none"
  PROVE  Line' /\ Enough' /\ NoneIdle'
<1> DEFINE H == Held \cap Alive
           T == {i \in HeldByTasks : job[i].gen \in Alive}
           p == job[j].permit
<1>1. Alive' = Alive BY DEF Alive, Phase
<1>2. IsFiniteSet(H) /\ IsFiniteSet(T) /\ Cardinality(H) \in Nat /\ Cardinality(T) \in Nat BY HoldersAre
<1>3. H' = H BY <1>1 DEF Held
<1>4. T' = T \ {j} /\ (j \in T => p = "active") BY <1>1 DEF HeldByTasks
<1>5. Cardinality(H') + Cardinality(T') + (IF p = "active" THEN 1 ELSE 0) >= Cardinality(H) + Cardinality(T)
  <2> HIDE DEF H, T, p
  <2>1. Cardinality(T') = IF j \in T THEN Cardinality(T) - 1 ELSE Cardinality(T) BY <1>2, <1>4, FS_RemoveElement
  <2>2. CASE j \in T
    <3>1. Cardinality(T') = Cardinality(T) - 1 /\ p = "active" BY <1>4, <2>1, <2>2
    <3> QED BY <1>2, <1>3, <3>1
  <2>3. CASE j \notin T
    <3>1. Cardinality(T') = Cardinality(T) BY <2>1, <2>3
    <3> QED BY <1>2, <1>3, <3>1
  <2> QED BY <2>2, <2>3
<1> HIDE DEF p
<1>6. Release(p) BY DEF p
<1> QED BY <1>5, <1>6, ReleaseKeeps

\* The end of a task, polled or not.
LEMMA TaskEndsKeeps ==
  ASSUME IInv, NEW j \in Jobs, NEW polled \in BOOLEAN, TaskEnds(j, polled), NEW g, g = job[j].gen
  PROVE  IInv'
<1> USE DEF IInv
<1>t. Types' BY TaskEndsTypes
<1>1. /\ \A i \in Jobs \ {j} : job'[i] = job[i]
      /\ job[j].at \in {"spawned", "started"}
      /\ job'[j].at = "ended" /\ job'[j].gen = job[j].gen /\ job'[j].permit = "none"
      /\ \A h \in Gens : inFlight[h] \ {j} \subseteq inFlight'[h]
      /\ aborted' = aborted \ {j}
      /\ UNCHANGED <<disp, gen, loop, order, queue>>
  BY EndedIs
<1>2. IF job[j].permit = "none" THEN UNCHANGED <<sched, wake>> ELSE Release(job[j].permit) BY DEF TaskEnds
<1>3. job[j].gen = g /\ job'[j].gen = g BY <1>1
<1>4. Voice' /\ Queues' /\ Fair' /\ \A h \in Gens : Queued(h)' = Queued(h)
  BY <1>1, <1>3, OneJobChanges
<1>5. ASSUME NEW h \in Gens PROVE LoopFits(h)'
  <2>1. LoopFits(h) BY DEF Loops
  <2>2. loop[h].at \in {"admit", "send"} =>
          /\ job'[loop[h].job].gen = job[loop[h].job].gen
          /\ \/ job'[loop[h].job].at = job[loop[h].job].at
             \/ job[loop[h].job].at = "spawned" /\ job'[loop[h].job].at = "ended"
    <3>1. CASE loop[h].job = j
      <4>1. loop[h].at \in {"admit", "send"} => job[j].at \in {"popped", "spawned", "ended"} BY <2>1, <3>1 DEF LoopFits
      <4> QED BY <1>1, <3>1, <4>1
    <3>2. CASE loop[h].job # j
      <4>1. loop[h].at \in {"admit", "send"} => loop[h].job \in Jobs BY <2>1 DEF LoopFits
      <4> QED BY <1>1, <3>2, <4>1
    <3> QED BY <3>1, <3>2
  <2> QED BY <1>1, <2>1, <2>2, LoopKept
<1>6. \A i \in Jobs : /\ job'[i].gen = job[i].gen
                      /\ job'[i].at \in {"spawned", "started"} <=> i # j /\ job[i].at \in {"spawned", "started"}
                      /\ job'[i].at \in {"spawned", "started", "ended"} <=> job[i].at \in {"spawned", "started", "ended"}
  BY <1>1
<1>7. \A h \in Gens : Unfinished(h)' = Unfinished(h) \ {j} /\ Tasks(h)' = Tasks(h)
  BY <1>6 DEF Unfinished, Tasks, JobsOf
<1>8. Silence' BY <1>1, <1>7, SilenceKept
<1>9. CASE job[j].permit = "none"
  <2>1. sched' = sched /\ wake' = wake BY <1>2, <1>9
  <2>2. Line' /\ Enough' /\ NoneIdle'
    <3>1. SameEnds BY <1>1 DEF SameEnds
    <3>2. SamePermits BY <1>1, <1>9 DEF SamePermits
    <3> QED BY <2>1, <3>1, <3>2, WorkersKept
  <2>3. Watched' BY <1>1, <1>4, <1>7, <2>1, WatchedAll DEF Watched, Phase
  <2> QED BY <1>t, <1>4, <1>5, <1>8, <2>2, <2>3 DEF Loops
<1>10. CASE job[j].permit # "none"
  <2> DEFINE p == job[j].permit
  <2>1. Release(p) BY <1>2, <1>10
  <2>2. Line' /\ Enough' /\ NoneIdle' BY <1>1, <2>1, TaskReleases
  <2> HIDE DEF p
  <2>3. /\ \A h \in Gens : wake[h] => wake'[h]
        /\ \A h \in Range(sched.order) : h \in Range(sched'.order) \/ wake'[h]
    BY <2>1, Dropped
  <2>4. ASSUME NEW h \in Gens, gen'[h].phase = "live", loop'[h].at = "parked", Queued(h)' # {}
        PROVE  wake'[h] \/ Tasks(h)' # {} \/ h \in Range(sched'.order)
    BY <1>1, <1>4, <1>7, <2>3, <2>4 DEF Watched, Phase
  <2> QED BY <1>t, <1>4, <1>5, <1>8, <2>2, <2>4, WatchedAll DEF Loops
<1> QED BY <1>9, <1>10

-----------------------------------------------------------------------------
(* The theorems *)

\* The invariant holds at the start,
LEMMA InitIInv == Init => IInv
<1> SUFFICES ASSUME Init PROVE IInv OBVIOUS
<1>t. Types BY InitTypes
<1>1. /\ \A p \in Profiles : disp[p].current = 0
      /\ \A g \in Gens : gen[g].phase = "none"
      /\ \A g \in Gens : loop[g].at = "none" /\ loop[g].permit = "none"
      /\ \A g \in Gens : order[g] = <<>> /\ queue[g] = <<>>
      /\ \A j \in Jobs : job[j] = NoJob
  BY DEF Init, NoGen
<1>2. /\ sched.available = GlobalWorkers /\ sched.order = <<>> /\ sched.tombs = {}
      /\ \A g \in Gens : sched.granted[g] = 0
  BY DEF Init
<1>3. Voice BY <1>1 DEF Voice, Phase
<1>4. Loops BY <1>1 DEF Loops, LoopFits, Phase
<1>5. \A g \in Gens : Queued(g) = {} /\ IsInjective(queue[g]) /\ IsInjective(order[g]) /\ Range(order[g]) = {}
  BY <1>1 DEF Queued, Range, IsInjective
<1>6. Queues BY <1>1, <1>5 DEF Queues, NoJob
<1>7. Fair BY <1>5 DEF Fair
<1>8. Silence BY <1>1 DEF Silence, Unfinished, JobsOf, NoJob
<1>9. Line
  <2>1. IsInjective(sched.order) /\ Range(sched.order) = {} BY <1>2 DEF IsInjective, Range
  <2> QED BY <1>1, <1>2, <2>1 DEF Line, Phase
<1>10. Enough
  <2>1. Cardinality(Owed(sched, Alive)) \in Nat BY OwedIs DEF Alive
  <2>2. GlobalWorkers \in Nat BY Constants
  <2> QED BY <1>2, <2>1, <2>2, HoldersAre DEF Enough
<1>11. NoneIdle BY <1>2 DEF NoneIdle
<1>12. Watched BY <1>1 DEF Watched, Phase
<1> QED BY <1>t, <1>3, <1>4, <1>6, <1>7, <1>8, <1>9, <1>10, <1>11, <1>12 DEF IInv

\* every step keeps it,
LEMMA NextIInv == IInv /\ [Next]_vars => IInv'
<1> SUFFICES ASSUME IInv, [Next]_vars PROVE IInv' OBVIOUS
<1>n. QueueCap \in Nat /\ 0..QueueCap \subseteq Nat BY CallbackAssumption DEF CallbackAssumption
<1>1. ASSUME NEW p \in Profiles,
             \/ RevokeCurrent(p) \/ RevokeCurrentAndLatch(p)
             \/ \E k \in Keys : LatchKeyRevoked(p, k) \/ InstallAuthenticatedReplacement(p, k)
             \/ \E g \in Gens, k \in Keys : Activate(g, p, k)
             \/ \E q \in Producers : EnqueueBegins(q, p)
      PROVE  IInv'
  BY <1>1, DispatcherKeeps
<1>2. ASSUME NEW g \in Gens, RevokeSteps(g) \/ Retire(g) PROVE IInv'
  BY <1>2, FlagIs, AbortKeeps, CancelKeeps, RetireKeeps DEF RevokeSteps
<1>3. ASSUME NEW g \in Gens, Dispatch(g) PROVE IInv'
  <2>1. CASE LoopStarts(g) \/ Woken(g) \/ Joins(g) BY <2>1, RoundKeeps
  <2>2. CASE DispatchNext(g) BY <2>2, DispatchNextKeeps
  <2>3. CASE TryAcquire(g) BY <2>3, TryAcquireKeeps
  <2>4. CASE \E n \in 0..QueueCap : Pop(g, n) BY <1>n, <2>4, PopKeeps
  <2>5. CASE Admit(g) BY <2>5, AdmitKeeps
  <2>6. CASE SendStart(g) BY <2>6, SendStartKeeps
  <2>7. CASE CloseDrops(g) BY <2>7, CloseDropsKeeps
  <2> QED BY <1>3, <2>1, <2>2, <2>3, <2>4, <2>5, <2>6, <2>7 DEF Dispatch
<1>4. ASSUME NEW g \in Gens, Data(g) \/ CloseRevokes(g) PROVE IInv' BY <1>4, RoundKeeps, CloseRevokesKeeps
<1>5. ASSUME NEW q \in Producers, EnqueueSteps(q) PROVE IInv'
  BY <1>5, <1>n, EnqueueRefusedKeeps, EnqueuePushesKeeps DEF EnqueueSteps
<1>6. ASSUME NEW j \in Jobs, NEW polled \in BOOLEAN, TaskEnds(j, polled) PROVE IInv' BY <1>6, TaskEndsKeeps
<1>7. CASE UNCHANGED vars
  <2> USE <1>7 DEF vars, jobs, tasks
  <2>1. Types' /\ Voice' /\ Loops' BY DEF IInv, Types, Voice, Loops, LoopFits, Phase
  <2>2. Queues' /\ Fair' /\ Silence' BY DEF IInv, Queues, Fair, Silence, Queued, Unfinished, JobsOf, Phase
  <2>3. Line' /\ Enough' /\ NoneIdle'
    BY DEF IInv, Line, Enough, NoneIdle, Owed, Held, HeldByTasks, Alive, Phase
  <2>4. Watched' BY DEF IInv, Watched, Tasks, Queued, Unfinished, JobsOf, Phase
  <2> QED BY <2>1, <2>2, <2>3, <2>4 DEF IInv
<1> QED BY <1>1, <1>2, <1>3, <1>4, <1>5, <1>6, <1>7 DEF Next

\* and so it always holds.
LEMMA IInvAlways == Spec => []IInv
BY InitIInv, NextIInv, PTL DEF Spec

\* Once revoke has been through in_flight, every task of the generation has been
\* told to stop and none can still be started (CallbackGeneration::dispatch_ready
\* against Generation::revoke), whatever the number of tasks and generations.
THEOREM SilenceHolds == Spec => []RevokedIsSilent
<1>1. IInv => RevokedIsSilent
  <2> SUFFICES ASSUME IInv, NEW g \in Gens, gen[g].phase \in {"aborted", "done", "retired"}
               PROVE  /\ Unfinished(g) \subseteq aborted
                      /\ loop[g].at = "send" => job[loop[g].job].at = "ended" \/ loop[g].job \in aborted
    BY DEF RevokedIsSilent, Phase
  <2>1. Unfinished(g) \subseteq aborted BY DEF IInv, Silence, Phase
  <2>2. LoopFits(g) BY DEF IInv, Loops
  <2>3. loop[g].at = "send" /\ job[loop[g].job].at # "ended" => loop[g].job \in Unfinished(g)
    BY <2>2 DEF LoopFits, Unfinished, JobsOf
  <2> QED BY <2>1, <2>3
<1> QED BY <1>1, IInvAlways, PTL

\* No generation of a latched key or of a blocked profile is live
\* (latch_key_revoked and revoke_current_and_latch against activate).
THEOREM VoiceHolds == Spec => []LatchedKeyHasNoVoice
<1>1. IInv => LatchedKeyHasNoVoice BY DEF IInv, Voice, LatchedKeyHasNoVoice
<1> QED BY <1>1, IInvAlways, PTL

\* Every variable has its type; the free workers never exceed GLOBAL_WORKERS, and
\* a generation stands in line once (GlobalWorkerState).
THEOREM TypesHold == Spec => []TypeOK
<1>1. IInv => TypeOK
  <2> SUFFICES ASSUME IInv PROVE TypeOK OBVIOUS
  <2>1. Types /\ Line BY DEF IInv
  <2>2. sched.available \in 0..GlobalWorkers /\ sched.order \in Seq(Gens) /\ sched.tombs \subseteq Gens /\ IsInjective(sched.order)
    BY <2>1 DEF Types, Sched, Line
  <2>3. sched.granted \in [Gens -> 0..GlobalWorkers]
    <3>1. sched.granted \in [Gens -> Nat] /\ \A g \in Gens : sched.granted[g] \in 0..1 BY <2>1 DEF Types, Sched, Line
    <3>2. \A g \in Gens : sched.granted[g] \in 0..GlobalWorkers BY <3>1, Constants
    <3> QED BY <3>1, <3>2
  <2> QED BY <2>1, <2>2, <2>3 DEF Types, TypeOK, Disp, Gen, Loop, Job, Phases, LoopAt, JobAt
<1> QED BY <1>1, IInvAlways, PTL

\* No worker is lost, however permits are dropped, promised and cancelled, and
\* none is free while a generation is in line (GlobalWorkerScheduler).
THEOREM WorkersHold == Spec => []NoWorkerLost
<1>1. IInv => NoWorkerLost BY Balance DEF IInv
<1> QED BY <1>1, IInvAlways, PTL

\* A live generation with queued callbacks is at work, woken, or waits for a
\* task or a worker; the line of its queue has exactly the principals with jobs
\* (recv_map_data, enqueue, FairQueue::pop).
THEOREM CallbacksHold == Spec => []CallbackNotForgotten
<1>1. IInv => CallbackNotForgotten BY DEF IInv, Watched, Fair, CallbackNotForgotten
<1> QED BY <1>1, IInvAlways, PTL
=============================================================================
