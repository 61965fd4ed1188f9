---------------------------- MODULE SshCallbacks ----------------------------
(***************************************************************************)
(* SSH recording-failure callbacks (controlclient/src/ssh_notify.rs).      *)
(*                                                                         *)
(* A profile's dispatcher admits callbacks to its current generation, the  *)
(* map stream that control answered last; revoking a generation drains its *)
(* queue, aborts its dispatch tasks and gives back its worker permits,     *)
(* while producers, the stream's loop and the tasks run on other threads.  *)
(* One scheduler rations the workers of all profiles of the process.       *)
(*                                                                         *)
(* Whenever a queue is expired, its n oldest jobs, for any n, are older    *)
(* than QUEUE_TTL.  What a callback says, where it goes and the redirects  *)
(* it follows are left out: deliver_callback is a task that starts and     *)
(* ends.  The counters are left out too.                                   *)
(***************************************************************************)
EXTENDS Naturals, Sequences, FiniteSets, SequencesExt, FiniteSetsExt

CONSTANTS
  Profiles, Keys, Principals, Producers,
  Jobs,           \* bound: jobs that exist at the same time
  MaxGens,        \* bound: generations
  MaxCalls,       \* bound: calls that revoke a generation or a key
  Workers,        \* GENERATION_WORKERS
  GlobalWorkers,  \* GLOBAL_WORKERS
  QueueCap,       \* GENERATION_QUEUE_CAPACITY
  PrincipalCap    \* PRINCIPAL_QUEUE_CAPACITY

ASSUME CallbackAssumption ==
  /\ {MaxGens, MaxCalls, Workers, GlobalWorkers, QueueCap, PrincipalCap} \subseteq Nat \ {0}
  /\ IsFiniteSet(Jobs)

VARIABLES
  disp,      \* DispatcherState of each profile; current = 0 is None
  gen,       \* each generation: its key, and how far its revocation has come
  loop,      \* the task of each generation's map stream, with the permit in its hands
  order,     \* FairQueue.order of each generation
  queue,     \* the jobs in each generation's queue, in the order they came
  job,       \* each job, from its admission to the end of its task
  aborted,   \* jobs whose task has been told to stop
  inFlight,  \* Generation.in_flight
  enq,       \* the generation each producer is about to enqueue to, or 0
  sched,     \* GlobalWorkerState; `order` holds the keys of `waiting`
  wake,      \* the stored permit of Generation.wake
  calls

jobs == <<order, queue, job>>
tasks == <<aborted, inFlight>>
vars == <<disp, gen, loop, jobs, tasks, enq, sched, wake, calls>>

Gens == 1..MaxGens

\* Before its admission, and once nothing refers to it.
NoGen == [phase |-> "none", key |-> 0, profile |-> 0, prev |-> 0, own |-> FALSE]
NoJob == [at |-> "none", gen |-> 0, who |-> 0, permit |-> "none"]

Init ==
  /\ disp = [p \in Profiles |-> [current |-> 0, latched |-> {}, blocked |-> FALSE]]
  /\ gen = [g \in Gens |-> NoGen]
  /\ loop = [g \in Gens |-> [at |-> "none", job |-> 0, permit |-> "none"]]
  /\ order = [g \in Gens |-> <<>>]
  /\ job = [j \in Jobs |-> NoJob]
  /\ queue = [g \in Gens |-> <<>>]
  /\ aborted = {} /\ inFlight = [g \in Gens |-> {}]
  /\ enq = [q \in Producers |-> 0]
  /\ sched = [available |-> GlobalWorkers, order |-> <<>>, granted |-> [g \in Gens |-> 0],
              tombs |-> {}]
  /\ wake = [g \in Gens |-> FALSE]
  /\ calls = 0

Phase(g) == gen[g].phase
Revoked(g) == Phase(g) \notin {"live", "called"}
JobsOf(g) == {j \in Jobs : job[j].gen = g}
Queued(g) == Range(queue[g])

\* The JoinSet: tasks that have not ended, or have and are not yet joined.
Unfinished(g) == {j \in JobsOf(g) : job[j].at \in {"spawned", "started"}}
Tasks(g) == Unfinished(g) \cup {j \in JobsOf(g) : job[j].at = "ended"}

\* The elements of s that are in S, in their order: SelectSeq, of which the
\* proof system knows nothing, by the ranks of their positions.
Kept(s, S) ==
  LET I == {i \in DOMAIN s : s[i] \in S}
      Place(k) == CHOOSE i \in I : Cardinality({h \in I : h <= i}) = k
  IN [k \in 1..Cardinality(I) |-> s[Place(k)]]

-----------------------------------------------------------------------------
(* The worker scheduler                                                       *)

Returned(s, n) == [s EXCEPT !.available = Min({@ + n, GlobalWorkers})]

\* The first n generations in line are promised a worker each.
Promised(s, n) == {s.order[i] : i \in 1..n}
Grant(s, n) ==
  [s EXCEPT !.order = SubSeq(@, n + 1, Len(@)), !.available = IF @ > n THEN @ - n ELSE 0,
            !.granted = [g \in Gens |-> @[g] + IF g \in Promised(s, n) THEN 1 ELSE 0]]
Granted(s, n) ==
  /\ sched' = Grant(s, n)
  /\ wake' = [g \in Gens |-> wake[g] \/ g \in Promised(s, n)]

\* Mutant: a worker that becomes free is offered to nobody.
Release_KeepsIt(permit) ==
  /\ sched' = IF permit = "active" THEN Returned(sched, 1) ELSE sched
  /\ UNCHANGED wake

\* A permit is dropped: it is given back, unless cancel has done so, and the
\* next generation in line gets a worker either way.
Release(permit) ==
  Granted(IF permit = "active" THEN Returned(sched, 1) ELSE sched, Min({1, Len(sched.order)}))

-----------------------------------------------------------------------------
(* The dispatcher                                                             *)

\* Someone holds generation g and is about to call revoke on it.
CallRevoke(f, g) == [h \in Gens |-> [f[h] EXCEPT !.phase = IF h = g /\ @ = "live" THEN "called" ELSE @]]

\* Mutant: a latched key is not looked at.
Activate_AnyKey(g, p, k) ==
  /\ Phase(g) = "none" /\ \A h \in 1..(g - 1) : Phase(h) # "none"
  /\ ~disp[p].blocked
  /\ disp' = [disp EXCEPT ![p].current = g]
  /\ gen' = CallRevoke([gen EXCEPT ![g] = [phase |-> "live", key |-> k, profile |-> p,
                                           prev |-> disp[p].current, own |-> FALSE]],
                       disp[p].current)
  /\ loop' = [loop EXCEPT ![g].at = "start"]
  /\ UNCHANGED <<jobs, tasks, enq, sched, wake, calls>>

\* Control has answered the map request of key k with success.
Activate(g, p, k) ==
  /\ Phase(g) = "none" /\ \A h \in 1..(g - 1) : Phase(h) # "none"
  /\ ~disp[p].blocked /\ k \notin disp[p].latched
  /\ disp' = [disp EXCEPT ![p].current = g]
  /\ gen' = CallRevoke([gen EXCEPT ![g] = [phase |-> "live", key |-> k, profile |-> p,
                                           prev |-> disp[p].current, own |-> FALSE]],
                       disp[p].current)
  /\ loop' = [loop EXCEPT ![g].at = "start"]
  /\ UNCHANGED <<jobs, tasks, enq, sched, wake, calls>>

RevokeCurrent(p) ==
  /\ disp[p].current # 0 /\ disp' = [disp EXCEPT ![p].current = 0]
  /\ gen' = CallRevoke(gen, disp[p].current)
  /\ UNCHANGED <<loop, jobs, tasks, enq, sched, wake>>
  /\ calls < MaxCalls /\ calls' = calls + 1

\* Logout and shutdown: nothing is admitted ever after.
RevokeCurrentAndLatch(p) ==
  LET g == disp[p].current IN
  /\ disp' = [disp EXCEPT ![p] =
                [current |-> 0, blocked |-> TRUE,
                 latched |-> @.latched \cup IF g = 0 THEN {} ELSE {gen[g].key}]]
  /\ gen' = CallRevoke(gen, g)
  /\ UNCHANGED <<loop, jobs, tasks, enq, sched, wake>>
  /\ calls < MaxCalls /\ calls' = calls + 1

\* Control has told that key k has expired.
LatchKeyRevoked(p, k) ==
  LET g == disp[p].current
      mine == g # 0 /\ gen[g].key = k
  IN
  /\ disp' = [disp EXCEPT ![p].latched = @ \cup {k}, ![p].current = IF mine THEN 0 ELSE @]
  /\ gen' = IF mine THEN CallRevoke(gen, g) ELSE gen
  /\ UNCHANGED <<loop, jobs, tasks, enq, sched, wake>>
  /\ calls < MaxCalls /\ calls' = calls + 1

InstallAuthenticatedReplacement(p, k) ==
  /\ k \in disp[p].latched /\ disp' = [disp EXCEPT ![p].latched = @ \ {k}]
  /\ UNCHANGED <<gen, loop, jobs, tasks, enq, sched, wake, calls>>

-----------------------------------------------------------------------------
(* Generation::revoke, by the thread whose swap sets the flag                 *)

\* Each round of dispatch_ready begins with joining the tasks that ended.
Reaped(g) == [j \in Jobs |-> IF j \in JobsOf(g) /\ job[j].at = "ended" THEN NoJob ELSE job[j]]
Drained(g) ==
  /\ order' = [order EXCEPT ![g] = <<>>] /\ queue' = [queue EXCEPT ![g] = <<>>]
  /\ job' = [j \in Jobs |-> IF j \in Queued(g) THEN NoJob ELSE job[j]]
Advance(g, from, to) == Phase(g) = from /\ gen' = [gen EXCEPT ![g].phase = to]

\* The flag is set and the queue drained: after the flag only an enqueue call
\* under way touches the queue, and nothing it adds is ever taken out.
Flag(g) ==
  /\ Advance(g, "called", "flagged")
  /\ Drained(g)
  /\ UNCHANGED <<disp, loop, tasks, enq, sched, wake, calls>>

AbortInFlight(g) ==
  /\ Advance(g, "flagged", "aborted")
  /\ aborted' = aborted \cup inFlight[g] /\ inFlight' = [inFlight EXCEPT ![g] = {}]
  /\ UNCHANGED <<disp, loop, jobs, enq, sched, wake, calls>>

ReturnedPermit(permit) == IF permit = "active" THEN "returned" ELSE permit
ActiveJobs(g) == {j \in JobsOf(g) : job[j].permit = "active"}
ActiveCount(g) == Cardinality(ActiveJobs(g)) + IF loop[g].permit = "active" THEN 1 ELSE 0

\* All permits of the generation come back at once and go to those in line; at
\* last notify_waiters wakes the generation's own loop if that is what it awaits.
Cancel(g) ==
  LET line == Kept(sched.order, Gens \ {g})
      back == Returned([sched EXCEPT !.tombs = @ \cup {g}, !.order = line, !.granted[g] = 0],
                       sched.granted[g] + ActiveCount(g))
      woken == loop[g].at = "parked" /\ Cardinality(Tasks(g)) < Workers
      left == IF woken THEN Reaped(g) ELSE job
  IN
  /\ Advance(g, "aborted", "done")
  /\ loop' = [loop EXCEPT ![g].permit = ReturnedPermit(@), ![g].at = IF woken THEN "next" ELSE @]
  /\ job' = [j \in Jobs |-> IF j \in ActiveJobs(g) THEN [left[j] EXCEPT !.permit = "returned"]
                                                 ELSE left[j]]
  /\ Granted(back, Min({back.available, Len(line)}))
  /\ UNCHANGED <<disp, order, queue, tasks, enq, calls>>

-----------------------------------------------------------------------------
(* The fair queue                                                             *)

Fresh(g, n) == SubSeq(queue[g], n + 1, Len(queue[g]))
Of(g, n, w) == Kept(Fresh(g, n), {j \in Jobs : job[j].who = w})
FreshOrder(g, n) == Kept(order[g], {w \in Principals : Of(g, n, w) # <<>>})

\* The jobs once the n oldest of g have been expired.
Expired(g, n) == [j \in Jobs |-> IF j \in Queued(g) \ Range(Fresh(g, n)) THEN NoJob ELSE job[j]]

\* The producer holds the current generation, which is not revoked.
EnqueueBegins(q, p) ==
  /\ enq[q] = 0 /\ disp[p].current # 0 /\ ~Revoked(disp[p].current)
  /\ enq' = [enq EXCEPT ![q] = disp[p].current]
  /\ UNCHANGED <<disp, gen, loop, jobs, tasks, sched, wake, calls>>

Refused(g, n, w) == Len(Of(g, n, w)) >= PrincipalCap \/ Len(Fresh(g, n)) >= QueueCap

Pushed(g, n, w, j) ==
  /\ job' = [Expired(g, n) EXCEPT ![j] = [at |-> "queued", gen |-> g, who |-> w, permit |-> "none"]]
  /\ queue' = [queue EXCEPT ![g] = Append(Fresh(g, n), j)]
  /\ order' = [order EXCEPT ![g] = FreshOrder(g, n) \o IF Of(g, n, w) = <<>> THEN <<w>> ELSE <<>>]

\* Mutant: the loop is not told of the new job.
EnqueuePushes_Silent(q, n, w, j) ==
  LET g == enq[q] IN
  /\ g # 0 /\ n <= Len(queue[g]) /\ ~Refused(g, n, w) /\ job[j] = NoJob
  /\ Pushed(g, n, w, j) /\ enq' = [enq EXCEPT ![q] = 0]
  /\ UNCHANGED <<disp, gen, loop, tasks, sched, wake, calls>>

\* A job is queued and the loop told, unless the generation is revoked by now:
\* then the job stays in its queue, and the call fails.
EnqueuePushes(q, n, w, j) ==
  LET g == enq[q] IN
  /\ g # 0 /\ n <= Len(queue[g]) /\ ~Refused(g, n, w) /\ job[j] = NoJob
  /\ Pushed(g, n, w, j) /\ enq' = [enq EXCEPT ![q] = 0]
  /\ wake' = [wake EXCEPT ![g] = @ \/ ~Revoked(g)]
  /\ UNCHANGED <<disp, gen, loop, tasks, sched, calls>>

EnqueueRefused(q, n, w) ==
  LET g == enq[q] IN
  /\ g # 0 /\ n <= Len(queue[g]) /\ Refused(g, n, w)
  /\ job' = Expired(g, n) /\ queue' = [queue EXCEPT ![g] = Fresh(g, n)]
  /\ order' = [order EXCEPT ![g] = FreshOrder(g, n)]
  /\ enq' = [enq EXCEPT ![q] = 0]
  /\ UNCHANGED <<disp, gen, loop, tasks, sched, wake, calls>>

-----------------------------------------------------------------------------
(* The loop of a map stream: dispatch_ready and recv_map_data                 *)

Goto(g, at) == loop' = [loop EXCEPT ![g].at = at]

Resume(g) == job' = Reaped(g) /\ Goto(g, "next")

\* After a round the loop waits, for the stream alone once it is revoked.
Rest(g) == IF Revoked(g) THEN "body" ELSE "parked"

\* activate has returned: the call that revoked the previous generation ended,
\* at once when that generation's own loop had revoked it before.
PrevRevoked(g) ==
  LET h == gen[g].prev IN
  h # 0 => Phase(h) \in {"done", "retired"} \/ (gen[h].own /\ Phase(h) # "called")

LoopStarts(g) ==
  /\ loop[g].at = "start" /\ PrevRevoked(g) /\ Resume(g)
  /\ gen' = [gen EXCEPT ![g].prev = 0]
  /\ UNCHANGED <<disp, order, queue, tasks, enq, sched, wake, calls>>

HasWork(g) == ~Revoked(g) /\ Queued(g) # {}

DispatchNext(g) ==
  /\ loop[g].at = "next"
  /\ Goto(g, IF Cardinality(Tasks(g)) < Workers /\ HasWork(g) THEN "acquire" ELSE Rest(g))
  /\ UNCHANGED <<disp, gen, jobs, tasks, enq, sched, wake, calls>>

Issue(g) == loop' = [loop EXCEPT ![g].at = "pop", ![g].permit = "active"]

\* Mutant: revocation between has_work and here is not noticed.
TryAcquire_NoTombstone(g) ==
  /\ loop[g].at = "acquire"
  /\ \/ /\ sched.granted[g] > 0
        /\ Issue(g) /\ sched' = [sched EXCEPT !.granted[g] = @ - 1]
     \/ /\ sched.granted[g] = 0 /\ sched.available > 0 /\ sched.order = <<>>
        /\ Issue(g) /\ sched' = [sched EXCEPT !.available = @ - 1]
     \/ /\ sched.granted[g] = 0
        /\ sched.available = 0 \/ sched.order # <<>>
        /\ Goto(g, Rest(g))
        /\ sched' = [sched EXCEPT !.order = IF g \in Range(@) THEN @ ELSE Append(@, g)]
  /\ UNCHANGED <<disp, gen, jobs, tasks, enq, wake, calls>>

TryAcquire(g) ==
  /\ loop[g].at = "acquire"
  /\ \/ /\ g \in sched.tombs
        /\ Goto(g, Rest(g)) /\ UNCHANGED sched
     \/ /\ g \notin sched.tombs /\ sched.granted[g] > 0
        /\ Issue(g) /\ sched' = [sched EXCEPT !.granted[g] = @ - 1]
     \/ /\ g \notin sched.tombs /\ sched.granted[g] = 0
        /\ sched.available > 0 /\ sched.order = <<>>
        /\ Issue(g) /\ sched' = [sched EXCEPT !.available = @ - 1]
     \/ /\ g \notin sched.tombs /\ sched.granted[g] = 0
        /\ sched.available = 0 \/ sched.order # <<>>
        /\ Goto(g, Rest(g))
        /\ sched' = [sched EXCEPT !.order = IF g \in Range(@) THEN @ ELSE Append(@, g)]
  /\ UNCHANGED <<disp, gen, jobs, tasks, enq, wake, calls>>

\* The loop drops the permit it holds and goes on.
DropPermit(g, at) ==
  /\ Release(loop[g].permit)
  /\ loop' = [loop EXCEPT ![g] = [at |-> at, job |-> 0, permit |-> "none"]]

\* Mutant: a principal with more jobs loses its place.
NextOrder_Forgets(g, n) == Tail(FreshOrder(g, n))

\* Round robin: a principal with more jobs goes to the end of the line.
NextOrder(g, n) ==
  LET w == Head(FreshOrder(g, n)) IN
  Tail(FreshOrder(g, n)) \o IF Len(Of(g, n, w)) > 1 THEN <<w>> ELSE <<>>

Pop(g, n) ==
  /\ loop[g].at = "pop" /\ n <= Len(queue[g]) /\ UNCHANGED <<disp, gen, tasks, enq, calls>>
  /\ \/ /\ Revoked(g) /\ n = 0 /\ DropPermit(g, Rest(g)) /\ UNCHANGED jobs
     \/ /\ ~Revoked(g) /\ Fresh(g, n) = <<>>
        /\ DropPermit(g, Rest(g)) /\ Drained(g)
     \/ /\ ~Revoked(g) /\ Fresh(g, n) # <<>>
        /\ LET j == Head(Of(g, n, Head(FreshOrder(g, n)))) IN
           /\ job' = [Expired(g, n) EXCEPT ![j].at = "popped"]
           /\ queue' = [queue EXCEPT ![g] = Kept(Fresh(g, n), Jobs \ {j})]
           /\ loop' = [loop EXCEPT ![g].at = "admit", ![g].job = j]
        /\ order' = [order EXCEPT ![g] = NextOrder(g, n)]
        /\ UNCHANGED <<sched, wake>>

\* Mutant: the flag is not read again under the lock of in_flight.
Admit_Unchecked(g) ==
  /\ loop[g].at = "admit"
  /\ job' = [job EXCEPT ![loop[g].job].at = "spawned"]
  /\ inFlight' = [inFlight EXCEPT ![g] = @ \cup {loop[g].job}]
  /\ Goto(g, "send") /\ UNCHANGED <<aborted, sched, wake>>
  /\ UNCHANGED <<disp, gen, order, queue, enq, calls>>

\* The task is spawned, and may start only if it can still be aborted by revoke.
Admit(g) ==
  /\ loop[g].at = "admit"
  /\ job' = [job EXCEPT ![loop[g].job].at = "spawned"]
  /\ IF Revoked(g)
     THEN /\ DropPermit(g, "next") /\ aborted' = aborted \cup {loop[g].job} /\ UNCHANGED inFlight
     ELSE /\ inFlight' = [inFlight EXCEPT ![g] = @ \cup {loop[g].job}]
          /\ Goto(g, "send") /\ UNCHANGED <<aborted, sched, wake>>
  /\ UNCHANGED <<disp, gen, order, queue, enq, calls>>

\* The task gets its job and the permit, unless it has been aborted and is gone.
SendStart(g) ==
  LET j == loop[g].job IN
  /\ loop[g].at = "send"
  /\ IF job[j].at = "ended"
     THEN /\ DropPermit(g, "next") /\ inFlight' = [inFlight EXCEPT ![g] = @ \ {j}] /\ UNCHANGED job
     ELSE /\ job' = [job EXCEPT ![j].at = "started", ![j].permit = loop[g].permit]
          /\ loop' = [loop EXCEPT ![g] = [at |-> "next", job |-> 0, permit |-> "none"]]
          /\ UNCHANGED <<inFlight, sched, wake>>
  /\ UNCHANGED <<disp, gen, order, queue, aborted, enq, calls>>

\* The select of recv_map_data: a wake-up, the end of a task, or a frame.
Woken(g) ==
  /\ loop[g].at = "parked" /\ wake[g] /\ Cardinality(Tasks(g)) < Workers
  /\ wake' = [wake EXCEPT ![g] = FALSE] /\ Resume(g)
  /\ UNCHANGED <<disp, gen, order, queue, tasks, enq, sched, calls>>

Joins(g) ==
  /\ loop[g].at = "parked" /\ Tasks(g) # Unfinished(g) /\ Resume(g)
  /\ UNCHANGED <<disp, gen, order, queue, tasks, enq, sched, wake, calls>>

\* A frame of the map stream has come and been handed on: another round.  (A
\* loop that is at "body" is there again after each frame.)
Data(g) ==
  /\ loop[g].at = "parked" /\ Resume(g)
  /\ UNCHANGED <<disp, gen, order, queue, tasks, enq, sched, wake, calls>>

\* The stream ends, or its task is dropped: the loop revokes its generation
\* itself, and does all of it if nobody has set the flag before.
CloseRevokes(g) ==
  /\ loop[g].at \in {"parked", "body"} /\ Goto(g, "closing")
  /\ IF Revoked(g) THEN UNCHANGED <<gen, jobs>>
     ELSE gen' = [gen EXCEPT ![g].phase = "flagged", ![g].own = TRUE] /\ Drained(g)
  /\ UNCHANGED <<disp, tasks, enq, sched, wake, calls>>

\* Its call of revoke has returned: the remaining tasks are aborted and the
\* lease is dropped, by shutdown after it has joined the tasks.
CloseDrops(g) ==
  LET p == gen[g].profile IN
  /\ loop[g].at = "closing" /\ (gen[g].own => Phase(g) = "done") /\ Goto(g, "gone")
  /\ aborted' = aborted \cup Unfinished(g)
  /\ disp' = [disp EXCEPT ![p].current = IF @ = g THEN 0 ELSE @]
  /\ UNCHANGED <<gen, jobs, inFlight, enq, sched, wake, calls>>

\* The last reference to the generation goes away.
Retire(g) ==
  /\ Phase(g) = "done" /\ gen' = [gen EXCEPT ![g] = [NoGen EXCEPT !.phase = "retired"]]
  /\ loop[g].at = "gone" /\ Unfinished(g) = {}
  /\ \A p \in Profiles : disp[p].current # g
  /\ \A q \in Producers : enq[q] # g
  /\ sched' = [sched EXCEPT !.tombs = @ \ {g}] /\ wake' = [wake EXCEPT ![g] = FALSE]
  /\ job' = [j \in Jobs |-> IF j \in JobsOf(g) THEN NoJob ELSE job[j]]
  /\ order' = [order EXCEPT ![g] = <<>>] /\ queue' = [queue EXCEPT ![g] = <<>>]
  /\ inFlight' = [inFlight EXCEPT ![g] = {}]
  /\ UNCHANGED <<disp, loop, aborted, enq, calls>>

-----------------------------------------------------------------------------
(* Dispatch tasks                                                             *)

\* A task ends by itself, at DISPATCH_TIMEOUT at the latest, or is aborted.  If
\* it has been polled it takes itself out of in_flight; it may have sent in its
\* last poll, which an abort does not interrupt.
TaskEnds(j, polled) ==
  LET g == job[j].gen IN
  /\ \/ job[j].at = "started" /\ (polled \/ j \in aborted)
     \/ job[j].at = "spawned" /\ ~polled /\ j \in aborted
  /\ job' = [job EXCEPT ![j].at = "ended", ![j].permit = "none"]
  /\ inFlight' = IF polled THEN [inFlight EXCEPT ![g] = @ \ {j}] ELSE inFlight
  /\ aborted' = aborted \ {j}
  /\ IF job[j].permit = "none" THEN UNCHANGED <<sched, wake>> ELSE Release(job[j].permit)
  /\ UNCHANGED <<disp, gen, loop, order, queue, enq, calls>>

-----------------------------------------------------------------------------
Dispatch(g) ==
  \/ LoopStarts(g) \/ DispatchNext(g) \/ TryAcquire(g) \/ (\E n \in 0..QueueCap : Pop(g, n)) \/ Admit(g) \/ SendStart(g)
  \/ Woken(g) \/ Joins(g) \/ CloseDrops(g)
RevokeSteps(g) == Flag(g) \/ AbortInFlight(g) \/ Cancel(g)
EnqueueSteps(q) ==
  \E w \in Principals, n \in 0..QueueCap :
    EnqueueRefused(q, n, w) \/ \E j \in Jobs : EnqueuePushes(q, n, w, j)

Next ==
  \/ \E p \in Profiles :
       \/ RevokeCurrent(p) \/ RevokeCurrentAndLatch(p)
       \/ \E k \in Keys : LatchKeyRevoked(p, k) \/ InstallAuthenticatedReplacement(p, k)
       \/ \E g \in Gens, k \in Keys : Activate(g, p, k)
       \/ \E q \in Producers : EnqueueBegins(q, p)
  \/ \E g \in Gens : RevokeSteps(g) \/ Dispatch(g) \/ Data(g) \/ CloseRevokes(g) \/ Retire(g)
  \/ \E q \in Producers : EnqueueSteps(q)
  \/ \E j \in Jobs : \E polled \in BOOLEAN : TaskEnds(j, polled)

Spec == Init /\ [][Next]_vars

-----------------------------------------------------------------------------
(* Properties                                                                 *)

Permits == {"none", "active", "returned"}

\* Types; the free workers never exceed GLOBAL_WORKERS and a generation stands
\* in line once (GlobalWorkerState).
TypeOK ==
  /\ disp \in [Profiles -> [current : 0..MaxGens, latched : SUBSET Keys, blocked : BOOLEAN]]
  /\ gen \in [Gens -> [phase : {"none", "live", "called", "flagged", "aborted", "done", "retired"},
                       key : Keys \cup {0}, profile : Profiles \cup {0}, prev : 0..MaxGens, own : BOOLEAN]]
  /\ loop \in [Gens -> [at : {"none", "start", "next", "acquire", "pop", "admit", "send", "parked",
                              "body", "closing", "gone"},
                        job : Jobs \cup {0}, permit : Permits]]
  /\ order \in [Gens -> Seq(Principals)]
  /\ job \in [Jobs -> [at : {"none", "queued", "popped", "spawned", "started", "ended"},
                       gen : 0..MaxGens, who : Principals \cup {0}, permit : Permits]]
  /\ queue \in [Gens -> Seq(Jobs)]
  /\ aborted \subseteq Jobs /\ inFlight \in [Gens -> SUBSET Jobs]
  /\ enq \in [Producers -> 0..MaxGens]
  /\ sched.available \in 0..GlobalWorkers /\ sched.granted \in [Gens -> 0..GlobalWorkers]
  /\ sched.order \in Seq(Gens) /\ IsInjective(sched.order) /\ sched.tombs \subseteq Gens
  /\ wake \in [Gens -> BOOLEAN]

\* Once revoke has been through in_flight, every dispatch task of the
\* generation has been told to stop, and none can still be started
\* (CallbackGeneration::dispatch_ready against Generation::revoke).
RevokedIsSilent ==
  \A g \in Gens : Phase(g) \in {"aborted", "done", "retired"} =>
    /\ Unfinished(g) \subseteq aborted
    /\ loop[g].at = "send" => job[loop[g].job].at = "ended" \/ loop[g].job \in aborted

\* No generation of a latched key, or of a blocked profile, speaks for the
\* profile: each of them is revoked or about to be
\* (latch_key_revoked, revoke_current_and_latch against activate).
LatchedKeyHasNoVoice ==
  \A g \in Gens : Phase(g) = "live" =>
    LET d == disp[gen[g].profile] IN ~d.blocked /\ gen[g].key \notin d.latched

Held == {g \in Gens : loop[g].permit = "active"}
HeldByTasks == {j \in Jobs : job[j].permit = "active"}
Promises(S) == Cardinality({p \in S \X (1..GlobalWorkers) : p[2] <= sched.granted[p[1]]})
Alive == {g \in Gens : Phase(g) \notin {"done", "retired"}}

\* No worker is ever lost: each is free, or promised to or held by a generation
\* that has not been cancelled; and none is free while a generation is in line
\* (Generation::revoke, GlobalWorkerScheduler::try_acquire, release, cancel).
NoWorkerLost ==
  /\ sched.available + Promises(Alive)
       + Cardinality(Held \cap Alive) + Cardinality({j \in HeldByTasks : job[j].gen \in Alive})
         >= GlobalWorkers
  /\ sched.order # <<>> => sched.available = 0

\* No admitted callback is forgotten.  While its generation lives, the loop is
\* at work, or has been woken, or will be by the end of a task, or stands in
\* line for a worker (recv_map_data, enqueue and GlobalWorkerScheduler); and the
\* principals with jobs are in the line of the queue, once, and no others, so
\* that FairQueue::pop reaches every job and its `expect` cannot fail.
CallbackNotForgotten ==
  \A g \in Gens :
    /\ Phase(g) = "live" /\ loop[g].at = "parked" /\ Queued(g) # {} =>
         wake[g] \/ Tasks(g) # {} \/ g \in Range(sched.order)
    /\ IsInjective(order[g])
    /\ Range(order[g]) = {job[j].who : j \in Queued(g)}

\* "globally capped generation workers" (docs/parity.md): the permits in use or
\* promised are never more than GLOBAL_WORKERS.
WorkersBounded == Promises(Gens) + Cardinality(Held) + Cardinality(HeldByTasks) <= GlobalWorkers
=============================================================================
