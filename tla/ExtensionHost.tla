--------------------------- MODULE ExtensionHost ---------------------------
(***************************************************************************)
(* The host of IPN extensions (ipnext/src/lib.rs): extensions are          *)
(* initialised in registration order and shut down in reverse, publication *)
(* callbacks run in between.                                               *)
(*                                                                         *)
(* A start runs in a task of its own (`starter`) whose caller may go away  *)
(* at any time; a shutdown, or the rollback of a start, runs in another    *)
(* (`sweep`).  Shutdown callbacks are user code: a fixed pool of workers   *)
(* takes them from a bounded queue, a waiter that times out leaves its     *)
(* attempt running, and the next waiter meets it.  A callback may succeed, *)
(* fail, or panic and take its worker with it.                             *)
(***************************************************************************)
EXTENDS Naturals, Sequences, FiniteSets, SequencesExt

CONSTANTS
  N,           \* extensions, numbered in registration order
  Workers,     \* SHUTDOWN_WORKERS
  QueueCap,    \* SHUTDOWN_QUEUE_CAPACITY
  MaxErrors,   \* bound: shutdown callbacks that fail
  MaxPanics,   \* bound: shutdown callbacks that panic
  MaxPubs      \* bound: publications

ASSUME HostAssumption ==
  /\ N \in Nat \ {0} /\ Workers \in Nat \ {0} /\ QueueCap \in Nat \ {0}
  /\ MaxErrors \in Nat /\ MaxPanics \in Nat /\ MaxPubs \in Nat

VARIABLES
  life,     \* HostCore.lifecycle_state
  starter,  \* the task of run_start and its caller
  sweep,    \* the task of shutdown_active
  res,      \* what each extension holds: the ghost of its init and shutdown
  active,   \* HostCore.active
  failed,   \* HostCore.cleanup_failed
  att,      \* ShutdownAttemptStatus of each extension
  jobs,     \* the queue of shutdown jobs
  busy,     \* extensions whose shutdown callback a worker runs
  pub,      \* PublicationState, and whether a callback is running
  revoked,  \* a caller has revoked publications, which it does once
  errors, panics, pubs

pool == <<att, jobs, busy>>
owners == <<active, failed>>
counts == <<errors, panics, pubs>>
vars == <<life, starter, sweep, res, owners, pool, pub, revoked, counts>>

Ext == 1..N

Init ==
  /\ life = "created"
  /\ starter = [at |-> "none", i |-> 1, strict |-> FALSE, caller |-> FALSE, out |-> "ok"]
  /\ sweep = "none"
  /\ res = [e \in Ext |-> "no"]
  /\ active = <<>> /\ failed = <<>>
  /\ att = [e \in Ext |-> "idle"] /\ jobs = <<>> /\ busy = {}
  /\ pub = [accepting |-> FALSE, draining |-> FALSE, queue |-> 0, calling |-> FALSE]
  /\ revoked = FALSE
  /\ errors = 0 /\ panics = 0 /\ pubs = 0

-----------------------------------------------------------------------------
(* Shutdown attempts                                                          *)

Full == Len(jobs) = QueueCap

\* Mutant: a waiter that finds an attempt under way starts another.
StartAttempt_Again(e) ==
  IF att[e] # "idle" /\ att[e] # "running" THEN UNCHANGED pool
  ELSE /\ ~Full
       /\ att' = [att EXCEPT ![e] = "running"] /\ jobs' = Append(jobs, e) /\ UNCHANGED busy

\* start_shutdown_attempt: one attempt at a time, shared by every waiter.
StartAttempt(e) ==
  IF att[e] # "idle" THEN UNCHANGED pool
  ELSE /\ ~Full
       /\ att' = [att EXCEPT ![e] = "running"] /\ jobs' = Append(jobs, e) /\ UNCHANGED busy

AttemptRefused(e) == att[e] = "idle" /\ Full /\ UNCHANGED pool

WorkerTakes ==
  /\ jobs # <<>> /\ Cardinality(busy) + panics < Workers
  /\ busy' = busy \cup {Head(jobs)} /\ jobs' = Tail(jobs)
  /\ UNCHANGED <<life, starter, sweep, res, owners, att, pub, revoked, counts>>

\* The callback returns: what the extension held is released, or not.
WorkerEnds(e) ==
  /\ e \in busy /\ busy' = busy \ {e}
  /\ \/ /\ att' = [att EXCEPT ![e] = "done"]
        /\ res' = [res EXCEPT ![e] = IF @ = "up" THEN "down" ELSE "gone"]
        /\ UNCHANGED errors
     \/ /\ errors < MaxErrors /\ errors' = errors + 1
        /\ att' = [att EXCEPT ![e] = "error"] /\ UNCHANGED res
  /\ UNCHANGED <<life, starter, sweep, owners, jobs, pub, revoked, panics, pubs>>

\* block_on unwinds the worker thread; nobody completes the attempt.
WorkerPanics(e) ==
  /\ e \in busy /\ panics < MaxPanics
  /\ panics' = panics + 1 /\ busy' = busy \ {e}
  /\ UNCHANGED <<life, starter, sweep, res, owners, att, jobs, pub, revoked, errors, pubs>>

\* invoke_shutdown meets the end of an attempt; an error makes it idle again.
Consume(e) == att' = [att EXCEPT ![e] = IF @ = "error" THEN "idle" ELSE @] /\ UNCHANGED <<jobs, busy>>

-----------------------------------------------------------------------------
(* start, start_strict, run_start and send_start_result                       *)

\* seed_profile_state holds the lifecycle state while it writes the profile.
SeedBegins ==
  /\ life = "created" /\ life' = "seeding"
  /\ UNCHANGED <<starter, sweep, res, owners, pool, pub, revoked, counts>>
SeedEnds ==
  /\ life = "seeding" /\ life' = "created"
  /\ UNCHANGED <<starter, sweep, res, owners, pool, pub, revoked, counts>>

CallStart(strict) ==
  /\ life = "created" /\ life' = "starting"
  /\ starter' = [starter EXCEPT !.at = "next", !.strict = strict, !.caller = TRUE]
  /\ UNCHANGED <<sweep, res, owners, pool, pub, revoked, counts>>

\* The future of the caller is dropped.
CallerGone ==
  /\ starter.caller /\ starter' = [starter EXCEPT !.caller = FALSE]
  /\ UNCHANGED <<life, sweep, res, owners, pool, pub, revoked, counts>>

InitBegins ==
  /\ starter.at = "next" /\ starter.i <= N
  /\ starter' = [starter EXCEPT !.at = "init"]
  /\ res' = [res EXCEPT ![starter.i] = "initing"]
  /\ UNCHANGED <<life, sweep, owners, pool, pub, revoked, counts>>

InitSucceeds ==
  /\ starter.at = "init"
  /\ res' = [res EXCEPT ![starter.i] = "up"]
  /\ active' = Append(active, starter.i)
  /\ starter' = [starter EXCEPT !.at = "next", !.i = @ + 1]
  /\ UNCHANGED <<life, sweep, failed, pool, pub, revoked, counts>>

\* init fails or skips, or is aborted because the caller has gone: what it may
\* have acquired is released by its shutdown callback.
InitFails(out) ==
  /\ starter.at = "init" /\ (out = "cancelled" => ~starter.caller)
  /\ res' = [res EXCEPT ![starter.i] = "partial"]
  /\ starter' = [starter EXCEPT !.at = "cleanup", !.out = out]
  /\ UNCHANGED <<life, sweep, owners, pool, pub, revoked, counts>>

\* What follows a partial init once its cleanup has ended.
AfterCleanup ==
  IF starter.out = "cancelled" \/ (starter.out = "failed" /\ starter.strict)
  THEN life' = "shuttingdown" /\ sweep' = "sweep" /\ starter' = [starter EXCEPT !.at = "done"]
  ELSE starter' = [starter EXCEPT !.at = "next", !.i = @ + 1] /\ UNCHANGED <<life, sweep>>

\* cleanup_partial_init starts the attempt; a full queue refuses it.
CleanupBegins ==
  /\ starter.at = "cleanup"
  /\ \/ /\ StartAttempt(starter.i) /\ starter' = [starter EXCEPT !.at = "cleaning"]
        /\ UNCHANGED <<life, sweep, failed>>
     \/ /\ AttemptRefused(starter.i)
        /\ failed' = Append(failed, starter.i) /\ AfterCleanup
  /\ UNCHANGED <<res, active, pub, revoked, counts>>

\* Mutant: a cleanup that timed out is given up.
CleanupEnds_Forgets ==
  /\ starter.at = "cleaning"
  /\ \/ att[starter.i] = "done" /\ Consume(starter.i) /\ UNCHANGED failed
     \/ att[starter.i] = "error" /\ Consume(starter.i) /\ failed' = Append(failed, starter.i)
     \/ UNCHANGED <<pool, failed>>
  /\ AfterCleanup
  /\ UNCHANGED <<res, active, pub, revoked, counts>>

\* cleanup_partial_init: an attempt that failed, or has not ended in time, is
\* retained and stays owned.
CleanupEnds ==
  /\ starter.at = "cleaning"
  /\ \/ att[starter.i] = "done" /\ Consume(starter.i) /\ UNCHANGED failed
     \/ att[starter.i] = "error" /\ Consume(starter.i) /\ failed' = Append(failed, starter.i)
     \/ UNCHANGED pool /\ failed' = Append(failed, starter.i)
  /\ AfterCleanup
  /\ UNCHANGED <<res, active, pub, revoked, counts>>

\* The last look at the caller, publications.start, the state RUNNING.
StartChecks ==
  /\ starter.at = "next" /\ starter.i > N
  /\ IF starter.caller
     THEN starter' = [starter EXCEPT !.at = "accept"] /\ UNCHANGED <<life, sweep>>
     ELSE life' = "shuttingdown" /\ sweep' = "sweep" /\ starter' = [starter EXCEPT !.at = "done"]
  /\ UNCHANGED <<res, owners, pool, pub, revoked, counts>>

StartAccepts ==
  /\ starter.at = "accept"
  /\ pub' = [pub EXCEPT !.accepting = TRUE]
  /\ starter' = [starter EXCEPT !.at = "run"]
  /\ UNCHANGED <<life, sweep, res, owners, pool, revoked, counts>>

StartRuns ==
  /\ starter.at = "run" /\ life' = "running"
  /\ starter' = [starter EXCEPT !.at = "report"]
  /\ UNCHANGED <<sweep, res, owners, pool, pub, revoked, counts>>

\* Mutant: the rollback of an unacknowledged start does not wait for publications.
StartReports_NoWait ==
  /\ starter.at = "report"
  /\ starter' = [starter EXCEPT !.at = "done", !.caller = FALSE]
  /\ IF starter.caller \/ life # "running" THEN UNCHANGED <<life, sweep>>
     ELSE life' = "shuttingdown" /\ sweep' = "sweep"
  /\ UNCHANGED <<res, owners, pool, pub, revoked, counts>>

\* send_start_result: a report nobody acknowledges rolls the host back, unless
\* a shutdown has come first.
StartReports ==
  /\ starter.at = "report"
  /\ starter' = [starter EXCEPT !.at = "done", !.caller = FALSE]
  /\ IF starter.caller \/ life # "running" THEN UNCHANGED <<life, sweep>>
     ELSE life' = "shuttingdown" /\ sweep' = "quiet"
  /\ UNCHANGED <<res, owners, pool, pub, revoked, counts>>

-----------------------------------------------------------------------------
(* shutdown, shutdown_timeout and shutdown_active                             *)

CallShutdown ==
  /\ \/ life = "created" /\ life' = "stopped" /\ UNCHANGED sweep
     \/ /\ life \in {"running", "shutdownfailed"} /\ ~pub.draining
        /\ life' = "shuttingdown" /\ sweep' = "quiet"
  /\ pub' = [pub EXCEPT !.accepting = FALSE]
  /\ UNCHANGED <<starter, res, owners, pool, revoked, counts>>

\* stop_and_wait: callbacks in progress end before shutdown callbacks begin.
Quiesce ==
  /\ sweep = "quiet" /\ ~pub.draining
  /\ pub' = [pub EXCEPT !.accepting = FALSE]
  /\ sweep' = "sweep"
  /\ UNCHANGED <<life, starter, res, owners, pool, revoked, counts>>

\* Mutant: active extensions go before the partial ones that were retained.
Owner_ActiveFirst == IF active # <<>> THEN Last(active) ELSE Last(failed)

\* The owner shut down next: retained partial inits, then the last active one.
Owner == IF failed # <<>> THEN Last(failed) ELSE Last(active)

PopOwner ==
  IF failed # <<>> THEN failed' = Front(failed) /\ UNCHANGED active
  ELSE active' = Front(active) /\ UNCHANGED failed

SweepBegins ==
  /\ sweep = "sweep"
  /\ \/ /\ failed \o active = <<>> /\ life' = "stopped" /\ sweep' = "none" /\ UNCHANGED pool
     \/ /\ failed \o active # <<>>
        /\ \/ StartAttempt(Owner) /\ sweep' = "wait" /\ UNCHANGED life
           \/ AttemptRefused(Owner) /\ life' = "shutdownfailed" /\ sweep' = "none"
  /\ UNCHANGED <<starter, res, owners, pub, revoked, counts>>

\* Mutant: the waiter only reacts to success.
SweepEnds_WaitsForSuccess ==
  /\ sweep = "wait" /\ att[Owner] = "done" /\ Consume(Owner)
  /\ sweep' = "sweep" /\ PopOwner
  /\ UNCHANGED <<life, starter, res, pub, revoked, counts>>

\* A failure keeps the owner and everything it depends on for a retry.
SweepEnds ==
  /\ sweep = "wait" /\ att[Owner] \in {"done", "error"} /\ Consume(Owner)
  /\ IF att[Owner] = "error" THEN life' = "shutdownfailed" /\ sweep' = "none" /\ UNCHANGED owners
     ELSE sweep' = "sweep" /\ PopOwner /\ UNCHANGED life
  /\ UNCHANGED <<starter, res, pub, revoked, counts>>

-----------------------------------------------------------------------------
(* Publications                                                               *)

\* PublicationQueue::enqueue, from a backend thread or from inside a callback.
Publish ==
  /\ pubs < MaxPubs /\ pub.accepting /\ life = "running"
  /\ pubs' = pubs + 1
  /\ pub' = [pub EXCEPT !.queue = @ + 1, !.draining = TRUE]
  /\ UNCHANGED <<life, starter, sweep, res, owners, pool, revoked, errors, panics>>

\* drain: one callback after another, until the queue is empty.
Drain ==
  /\ pub.draining
  /\ pub' = IF pub.calling THEN [pub EXCEPT !.calling = FALSE]
            ELSE IF pub.queue > 0 THEN [pub EXCEPT !.queue = @ - 1, !.calling = TRUE]
            ELSE [pub EXCEPT !.draining = FALSE]
  /\ UNCHANGED <<life, starter, sweep, res, owners, pool, revoked, counts>>

\* revoke_publications_now clears the queue, stop_publications_and_wait lets it drain.
Revoke ==
  /\ ~revoked /\ revoked' = TRUE
  /\ \E left \in {0, pub.queue} : pub' = [pub EXCEPT !.accepting = FALSE, !.queue = left]
  /\ UNCHANGED <<life, starter, sweep, res, owners, pool, counts>>

-----------------------------------------------------------------------------
\* The tasks and threads that run on once they are started; user callbacks return.
Progress ==
  \/ InitBegins \/ InitSucceeds \/ CleanupBegins \/ CleanupEnds
  \/ StartChecks \/ StartAccepts \/ StartRuns \/ StartReports
  \/ Quiesce \/ SweepBegins \/ SweepEnds

Next ==
  \/ Progress
  \/ SeedBegins \/ SeedEnds \/ \E strict \in BOOLEAN : CallStart(strict)
  \/ CallerGone \/ \E out \in {"failed", "skipped", "cancelled"} : InitFails(out)
  \/ CallShutdown
  \/ WorkerTakes \/ \E e \in Ext : WorkerEnds(e) \/ WorkerPanics(e)
  \/ Publish \/ Drain \/ Revoke

Spec == Init /\ [][Next]_vars

FairSpec ==
  /\ Spec
  /\ WF_vars(Progress) /\ WF_vars(SeedEnds) /\ WF_vars(Drain) /\ WF_vars(WorkerTakes)
  /\ \A e \in Ext : WF_vars(WorkerEnds(e))

-----------------------------------------------------------------------------
(* Properties                                                                 *)

Working == busy \cup Range(jobs)

\* The state has its type.
TypeOK ==
  /\ life \in {"created", "seeding", "starting", "running", "shuttingdown", "stopped", "shutdownfailed"}
  /\ starter \in [at : {"none", "next", "init", "cleanup", "cleaning", "accept", "run", "report", "done"},
                  i : 1..(N + 1), strict : BOOLEAN, caller : BOOLEAN,
                  out : {"ok", "failed", "skipped", "cancelled"}]
  /\ sweep \in {"none", "quiet", "sweep", "wait"}
  /\ res \in [Ext -> {"no", "initing", "up", "partial", "down", "gone"}]
  /\ active \in Seq(Ext) /\ failed \in Seq(Ext)
  /\ att \in [Ext -> {"idle", "running", "done", "error"}]
  /\ jobs \in Seq(Ext) /\ Len(jobs) <= QueueCap /\ busy \subseteq Ext
  /\ pub \in [accepting : BOOLEAN, draining : BOOLEAN, queue : 0..MaxPubs, calling : BOOLEAN]
  /\ revoked \in BOOLEAN
  /\ errors \in 0..MaxErrors /\ panics \in 0..MaxPanics /\ pubs \in 0..MaxPubs

\* Shutdown is in reverse order of dependency: an extension that was up is shut
\* down only when every later one, up or left half-initialised, has been.
DependentsFirst ==
  \A e, f \in Ext :
    e < f /\ (res[e] = "down" \/ (res[e] = "up" /\ e \in Working))
      => res[f] \notin {"initing", "up", "partial"}

\* Publication callbacks have ended before an extension they may call into is
\* shut down, also when a start is rolled back.
QuietBeforeShutdown ==
  pub.calling => \A e \in Ext : res[e] # "down" /\ ~(res[e] = "up" /\ e \in Working)

\* A stopped host has released whatever any init acquired, also an init that
\* failed, was aborted, or whose cleanup did not end in time.
StoppedMeansReleased ==
  life = "stopped" => Working = {} /\ \A e \in Ext : res[e] \in {"no", "down", "gone"}

\* Waiters that time out and retry never run a shutdown callback twice at once,
\* and never again once it has succeeded.
OneShutdownAtATime ==
  /\ IsInjective(jobs) /\ Range(jobs) \cap busy = {}
  /\ \A e \in Working : res[e] \notin {"down", "gone"}

\* Every transition ends: a start runs, or is rolled back; a shutdown stops the
\* host or reports what failed. A callback that panics is the exception.
TransitionsEnd ==
  (life \in {"starting", "shuttingdown"}) ~> (life \notin {"starting", "shuttingdown"} \/ panics > 0)
=============================================================================
