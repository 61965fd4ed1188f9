------------------------------ MODULE UserUnit ------------------------------
(***************************************************************************)
(* Transactional management of one systemd user unit                       *)
(* (freedesktop/src/systemd_user.rs): UserUnitManager over                 *)
(* SystemUserUnitStore.                                                    *)
(*                                                                         *)
(* A file is an inode and its bytes.  The directory holds the unit, the    *)
(* operation journal, the staging names `staged`, and whatever was left    *)
(* under tombstone names: a journal's tombstone is looked for by later     *)
(* operations (`tomb`), the others are never read again and left out.  The *)
(* operation lock (a process mutex and flock) admits one operation at a    *)
(* time and is released by a crash.  An operation is cut at every rename   *)
(* and unlink, at every systemctl command and at every check that a later  *)
(* step relies on; it can fail or die at each, and a process that ignores  *)
(* the lock can put another file in the unit's place in between.           *)
(***************************************************************************)
EXTENDS Naturals

CONSTANTS
  Data,        \* contents UserUnit::render can produce
  Alien,       \* bytes is_exact_generated_unit refuses
  Missing,     \* no file: StoredUnit::Missing
  MaxOps,      \* bound: operations
  MaxFaults,   \* bound: system calls and commands that fail
  MaxCrashes,  \* bound: deaths of the process
  MaxRaces     \* bound: writes of a noncooperating process

ASSUME UnitAssumption ==
  /\ Alien \notin Data /\ Missing \notin Data /\ Alien # Missing
  /\ MaxOps \in Nat /\ MaxFaults \in Nat /\ MaxCrashes \in Nat /\ MaxRaces \in Nat

VARIABLES
  unit,     \* the unit file, or Missing
  jour,     \* the operation journal, or Missing
  tomb,     \* a journal tombstone is in the directory
  staged,   \* files under staging names; a name is a number
  loaded,   \* content of the unit systemd has loaded, or Missing
  enabled,  \* systemd's enablement of the unit
  snap,     \* SystemUserUnitStore.journals: the snapshot and the target expected with it
  op,       \* the operation that holds the lock, or Missing
  last,     \* the operation that ended last, or Missing
  aliens,   \* inodes of foreign bytes the other process has put there and not taken back
  seq,      \* inodes and staging names given out
  ops, faults, crashes, races

dirVars == <<unit, jour, tomb, staged>>
sysdVars == <<loaded, enabled>>
bounds == <<ops, crashes, races>>
vars == <<dirVars, sysdVars, snap, op, last, aliens, seq, faults, bounds>>

Kinds == {"install", "update", "remove", "enable", "disable", "status"}
DataOf(file) == IF file = Missing THEN Missing ELSE file.data
Staged(name) == IF name \in DOMAIN staged THEN staged[name] ELSE Missing
WithStaged(name, file) == [n \in DOMAIN staged \cup {name} |-> IF n = name THEN file ELSE staged[n]]
Unstaged(name) == [n \in DOMAIN staged \ {name} |-> staged[n]]

PutStaged(name, file) == IF file = Missing THEN Unstaged(name) ELSE WithStaged(name, file)

\* What the variables hold.  A file is `ours` when is_exact_generated_unit takes
\* its bytes for this manager's.
Files == [ino : Nat, data : Data \cup {Alien}]
Ours == [ino : Nat, data : Data]
Results == {"ok", "needs", "conflict", "io", "repair", "cancelled", "command"}
Labels ==
  {"ensure", "recover", "recsync", "recswapped", "recaborted", "recheck", "begin",
   "sweep", "toggle", "restore", "write", "publish", "publishing", "put", "swapped",
   "dropped", "takenback", "abort", "aborted", "sync", "rmfile", "take", "taken",
   "rmdropped", "stored", "back", "reval", "reload", "reloaded", "clear", "unlink", "cleared"}
Contexts == {"none", "rec", "recabort", "fwd", "rm", "back", "rmback"}
Records ==
  [phase : {"forward", "rollback"}, kind : {"replace", "remove"}, temp : Nat,
   before : Ours \cup {Missing}, after : Ours \cup {Missing}]
Snaps == [jour : Records, expect : Ours \cup {Missing}]
Exchanges ==
  [kind : {"none", "swap", "put", "take", "drop"}, mine : Ours \cup {Missing},
   theirs : Ours \cup {Missing}, checked : BOOLEAN]
Operations ==
  [kind : Kinds, want : Data \cup {Missing}, at : Labels, ctx : Contexts, ret : Results,
   prev : Data \cup {Missing}, was : BOOLEAN, begun : BOOLEAN, changed : BOOLEAN,
   cancelled : BOOLEAN, orig : Results, err : Results, tmp : Nat, put : Data \cup {Missing},
   new : Ours \cup {Missing}, exp : Ours \cup {Missing}, cas : Exchanges]
Reports ==
  [kind : Kinds, want : Data \cup {Missing}, begun : BOOLEAN, was : BOOLEAN,
   prev : Data \cup {Alien, Missing},
   res : Results \cup {"changed", "unchanged", "foreign", "notinstalled", "exists",
                       "rollbackfailed"}]
Transactions == [from : Data \cup {Missing}, to : Data \cup {Missing}, undo : BOOLEAN]

\* Missing is none of the things it stands for the absence of.
ASSUME MissingAssumption ==
  Missing \notin Files /\ Missing \notin Ours /\ Missing \notin Records /\ Missing \notin Snaps
  /\ Missing \notin Operations /\ Missing \notin Reports /\ Missing \notin Transactions

Init ==
  /\ unit \in {Missing} \cup {[ino |-> 0, data |-> d] : d \in Data}
  /\ loaded = DataOf(unit)
  /\ enabled \in {FALSE, unit # Missing}
  /\ jour = Missing /\ tomb = FALSE /\ staged = <<>>
  /\ snap = Missing /\ op = Missing /\ last = Missing
  /\ aliens = {} /\ seq = 0
  /\ ops = 0 /\ faults = 0 /\ crashes = 0 /\ races = 0

-----------------------------------------------------------------------------
(* How an operation moves: `at` is where it is, `ctx` the manager procedure   *)
(* a store procedure returns to, `ret` what it returned.  `exp` is the unit   *)
(* as checked_unit last inspected it (SystemUserUnitStore.observed).          *)

NoCas == [kind |-> "none", mine |-> Missing, theirs |-> Missing, checked |-> FALSE]
NewOp(kind, want) ==
  [kind |-> kind, want |-> want, at |-> "ensure", ctx |-> "none", ret |-> "ok",
   prev |-> Missing, was |-> FALSE, begun |-> FALSE, changed |-> FALSE,
   cancelled |-> FALSE, orig |-> "ok", err |-> "ok", tmp |-> 0, put |-> Missing,
   new |-> Missing, exp |-> Missing, cas |-> NoCas]

At(label) == op # Missing /\ op.cas = NoCas /\ op.at = label
Go(label) == op' = [op EXCEPT !.at = label]
Answer(label, result) == op' = [op EXCEPT !.at = label, !.ret = result]
End(result) ==
  /\ op' = Missing
  /\ last' = [kind |-> op.kind, want |-> op.want, res |-> result, begun |-> op.begun,
              prev |-> op.prev, was |-> op.was]
Goes == UNCHANGED last

\* A step that fails; a token that is cancelled.  Rollbacks use a token of
\* their own, which nobody cancels.
Fault == faults < MaxFaults /\ faults' = faults + 1
Fine == UNCHANGED faults
Cancelled == op.cancelled /\ op.ctx \notin {"back", "rmback"}

Start(kind, want) ==
  /\ op = Missing /\ ops < MaxOps
  /\ ops' = ops + 1
  /\ op' = NewOp(kind, want)
  /\ last' = Missing
  /\ UNCHANGED <<dirVars, sysdVars, snap, aliens, seq, faults, crashes, races>>

Cancel ==
  /\ op # Missing /\ ~op.cancelled
  /\ op' = [op EXCEPT !.cancelled = TRUE]
  /\ UNCHANGED <<dirVars, sysdVars, snap, last, aliens, seq, faults, bounds>>

\* The kernel releases the flock; the caches die with the process.
Crash ==
  /\ op # Missing /\ crashes < MaxCrashes
  /\ crashes' = crashes + 1
  /\ op' = Missing /\ last' = Missing /\ snap' = Missing
  /\ UNCHANGED <<dirVars, sysdVars, aliens, seq, faults, ops, races>>

\* Another program replaces the unit or removes it.
Race ==
  /\ races < MaxRaces /\ races' = races + 1
  /\ LET old == IF unit = Missing THEN {} ELSE {unit.ino} IN
     \/ \E d \in Data \cup {Alien} :
          /\ unit' = [ino |-> seq + 1, data |-> d]
          /\ aliens' = (aliens \ old) \cup (IF d = Alien THEN {seq + 1} ELSE {})
          /\ seq' = seq + 1
     \/ unit # Missing /\ unit' = Missing /\ aliens' = aliens \ old /\ UNCHANGED seq
  /\ UNCHANGED <<jour, tomb, staged, sysdVars, snap, op, last, faults, ops, crashes>>

-----------------------------------------------------------------------------
(* exchange_exact, rename_noreplace_exact and remove_exact: both names are    *)
(* inspected, then one rename moves whatever is there by then, and what it    *)
(* moved is inspected.  A mismatch is left where it is.                       *)

Cas(kind, mine, theirs, next) ==
  op' = [op EXCEPT !.at = next,
                   !.cas = [kind |-> kind, mine |-> mine, theirs |-> theirs, checked |-> FALSE]]
CasReturns(result) == op' = [op EXCEPT !.cas = NoCas, !.ret = result]

\* Mutant: the removal does not look at what the name holds now.
Exact_NameOnly(cas) ==
  CASE cas.kind = "swap" -> Staged(op.tmp) = cas.mine /\ unit = cas.theirs
    [] cas.kind = "put"  -> Staged(op.tmp) = cas.mine /\ unit = Missing
    [] cas.kind = "take" -> unit = cas.mine /\ Staged(op.tmp) = Missing
    [] cas.kind = "drop" -> Staged(op.tmp) # Missing

\* exact_regular on the names the primitive is about.
Exact(cas) ==
  CASE cas.kind = "swap" -> Staged(op.tmp) = cas.mine /\ unit = cas.theirs
    [] cas.kind = "put"  -> Staged(op.tmp) = cas.mine /\ unit = Missing
    [] cas.kind = "take" -> unit = cas.mine /\ Staged(op.tmp) = Missing
    [] cas.kind = "drop" -> Staged(op.tmp) = cas.mine

CasCheck ==
  /\ op # Missing /\ op.cas # NoCas /\ ~op.cas.checked
  /\ \/ Exact(op.cas) /\ Fine /\ op' = [op EXCEPT !.cas.checked = TRUE]
     \/ ~Exact(op.cas) /\ Fine /\ CasReturns("conflict")
     \/ Fault /\ CasReturns("io")
  /\ Goes /\ UNCHANGED <<dirVars, sysdVars, snap, aliens, seq, bounds>>

\* The rename finds its names, and what it moved is what was checked.
Renamable(cas) ==
  CASE cas.kind = "swap" -> unit # Missing
    [] cas.kind = "put"  -> unit = Missing
    [] cas.kind = "take" -> unit # Missing
    [] cas.kind = "drop" -> TRUE

\* A failure of the rename changes nothing; a failure to look at what it moved,
\* or to unlink it, comes after the change.
CasRename ==
  /\ op # Missing /\ op.cas # NoCas /\ op.cas.checked
  /\ \/ /\ Renamable(op.cas)
        /\ \/ Fine /\ CasReturns(IF Exact(op.cas) THEN "ok" ELSE "repair")
           \/ Fault /\ CasReturns(IF op.cas.kind = "swap" THEN "repair" ELSE "io")
        /\ CASE op.cas.kind = "swap" -> unit' = Staged(op.tmp) /\ staged' = PutStaged(op.tmp, unit)
             [] op.cas.kind = "put"  -> unit' = Staged(op.tmp) /\ staged' = Unstaged(op.tmp)
             [] op.cas.kind = "take" -> unit' = Missing /\ staged' = PutStaged(op.tmp, unit)
             [] op.cas.kind = "drop" -> staged' = Unstaged(op.tmp) /\ UNCHANGED unit
     \/ /\ (~Renamable(op.cas) /\ Fine) \/ Fault
        /\ CasReturns("conflict") /\ UNCHANGED <<unit, staged>>
  /\ Goes /\ UNCHANGED <<jour, tomb, sysdVars, snap, aliens, seq, bounds>>

-----------------------------------------------------------------------------
(* The journal                                                                *)

Record(phase, kind, temp, before, after) ==
  [phase |-> phase, kind |-> kind, temp |-> temp, before |-> before, after |-> after]

\* publish_journal: the first record of a transaction is renamed into place;
\* a rollback exchanges it with the forward record and drops that one.  A
\* failure before the rename, or undone after it, leaves the journal as it
\* was; a failed directory sync leaves a record the caller has not remembered.
Publish(kind, temp, after, next, refused) ==
  LET phase == IF jour = Missing THEN "forward" ELSE "rollback"
      record == Record(phase, kind, temp, op.exp, after)
      goes(label, result) == op' = [op EXCEPT !.at = label, !.ret = result, !.tmp = temp] IN
  \/ /\ jour = Missing /\ tomb /\ Fine
     /\ goes(refused, "repair") /\ UNCHANGED <<jour, snap>>
  \/ /\ jour # Missing /\ jour.phase = "rollback" /\ Fine
     /\ goes(refused, "conflict") /\ UNCHANGED <<jour, snap>>
  \/ /\ IF jour = Missing THEN ~tomb ELSE jour.phase = "forward"
     /\ \/ /\ Fine /\ goes(next, "ok")
           /\ jour' = record /\ snap' = [jour |-> record, expect |-> after]
        \/ /\ Fault /\ goes(refused, "io") /\ UNCHANGED <<jour, snap>>
        \/ /\ Fault /\ goes("stored", "needs") /\ jour' = record /\ UNCHANGED snap

\* revalidate_reload_required.
StillNamed == snap # Missing /\ jour = snap.jour /\ unit = snap.expect

ReloadValidate ==
  /\ At("reval")
  /\ \/ Fine /\ StillNamed /\ Go("reload")
     \/ Fine /\ ~StillNamed /\ Answer("reloaded", "repair")
     \/ Fault /\ Answer("reloaded", "io")
  /\ Goes /\ UNCHANGED <<dirVars, sysdVars, snap, aliens, seq, bounds>>

\* daemon-reload: systemd reads the directory.  A command that fails or times
\* out may have had its effect.
Reload ==
  /\ At("reload")
  /\ \/ Fine /\ Cancelled /\ Answer("reloaded", "cancelled") /\ UNCHANGED loaded
     \/ Fine /\ ~Cancelled /\ Answer("reloaded", "ok") /\ loaded' = DataOf(unit)
     \/ Fault /\ ~Cancelled /\ Answer("reloaded", "command") /\ loaded' \in {loaded, DataOf(unit)}
  /\ Goes /\ UNCHANGED <<dirVars, enabled, snap, aliens, seq, bounds>>

\* clear_reload_required: the journal becomes a tombstone, and the tombstone
\* goes, each under the same snapshot and the same target.  A failure before the
\* rename leaves the journal in place: plain while the names are being looked
\* at, CommittedNeedsReload or RepairRequired inside the removal.
ClearBegins ==
  /\ At("clear")
  /\ LET exact == StillNamed /\ Staged(jour.temp) = Missing IN
     \/ Fine /\ exact /\ Go("unlink") /\ jour' = Missing /\ tomb' = TRUE
     \/ /\ \/ Fine /\ ~exact /\ Answer("cleared", "repair")
           \/ Fault /\ \E r \in {"io", "conflict"} : Answer("cleared", r)
           \/ Fault /\ exact /\ \E r \in {"needs", "repair"} : Answer("cleared", r)
        /\ UNCHANGED <<jour, tomb>>
  /\ Goes /\ UNCHANGED <<unit, staged, sysdVars, snap, aliens, seq, bounds>>

\* A failing look at a unit that should be missing counts as a mismatch; when a
\* second look finds it missing, the journal gets its name back.
ClearUnlinks ==
  /\ At("unlink")
  /\ \/ /\ Fine /\ unit = snap.expect /\ Answer("cleared", "ok")
        /\ tomb' = FALSE /\ snap' = Missing /\ UNCHANGED jour
     \/ Fine /\ unit # snap.expect /\ Answer("cleared", "repair") /\ UNCHANGED <<jour, tomb, snap>>
     \/ Fault /\ Answer("cleared", "needs") /\ tomb' \in BOOLEAN /\ UNCHANGED <<jour, snap>>
     \/ /\ Fault /\ snap.expect = Missing /\ Answer("cleared", "repair") /\ UNCHANGED snap
        /\ \/ UNCHANGED <<jour, tomb>>
           \/ unit = Missing /\ jour' = snap.jour /\ tomb' = FALSE
  /\ Goes /\ UNCHANGED <<unit, staged, sysdVars, aliens, seq, bounds>>

-----------------------------------------------------------------------------
(* atomic_replace (write_at): stage, journal, revalidate, publish, drop what  *)
(* was displaced, sync.                                                       *)

Write ==
  /\ At("write")
  /\ \/ /\ Fine /\ ~Cancelled /\ unit = op.exp
        /\ LET file == [ino |-> seq + 1, data |-> op.put] IN
           /\ op' = [op EXCEPT !.at = "publish", !.tmp = seq + 1, !.new = file]
           /\ staged' = WithStaged(seq + 1, file)
        /\ seq' = seq + 1
     \/ /\ \/ Fine /\ Cancelled /\ Answer("stored", "cancelled")
           \/ Fine /\ ~Cancelled /\ unit # op.exp /\ Answer("stored", "conflict")
           \/ Fault /\ Answer("stored", "io")
        /\ UNCHANGED <<staged, seq>>
  /\ Goes /\ UNCHANGED <<unit, jour, tomb, sysdVars, snap, aliens, bounds>>

\* Mutant: a rollback writes no record of its own over the forward one.
WriteJournal_ForwardOnly ==
  /\ At("publish")
  /\ \/ Fine /\ Cancelled /\ Answer("abort", "cancelled") /\ UNCHANGED <<jour, snap>>
     \/ ~Cancelled /\ jour = Missing /\ Publish("replace", op.tmp, op.new, "publishing", "abort")
     \/ Fine /\ ~Cancelled /\ jour # Missing /\ Go("publishing") /\ UNCHANGED <<jour, snap>>
  /\ Goes /\ UNCHANGED <<unit, tomb, staged, sysdVars, aliens, seq, bounds>>

WriteJournal ==
  /\ At("publish")
  /\ \/ Fine /\ Cancelled /\ Answer("abort", "cancelled") /\ UNCHANGED <<jour, snap>>
     \/ ~Cancelled /\ Publish("replace", op.tmp, op.new, "publishing", "abort")
  /\ Goes /\ UNCHANGED <<unit, tomb, staged, sysdVars, aliens, seq, bounds>>

\* One step of the rest: a local decision that starts the next primitive.
Decide(label) ==
  /\ At(label) /\ Goes /\ UNCHANGED <<dirVars, sysdVars, snap, aliens, seq, bounds>>

WritePublishes ==
  /\ Decide("publishing") /\ Fine
  /\ IF unit # op.exp THEN Answer("abort", "conflict")
     ELSE IF op.exp = Missing THEN Cas("put", op.new, Missing, "put")
     ELSE Cas("swap", op.new, op.exp, "swapped")

WriteSwapped ==
  \/ Decide("put") /\ Fine /\ Go(IF op.ret = "ok" THEN "sync" ELSE "abort")
  \/ /\ Decide("swapped") /\ Fine
     /\ IF op.ret = "ok" THEN Cas("drop", op.exp, Missing, "dropped") ELSE Go("abort")

\* The displaced file cannot be removed: take the publication back.
WriteDropped ==
  /\ Decide("dropped") /\ Fine
  /\ IF op.ret = "ok" THEN Go("sync")
     ELSE op' = [op EXCEPT !.at = "takenback", !.err = op.ret,
                           !.cas = [kind |-> "swap", mine |-> op.exp, theirs |-> op.new,
                                    checked |-> FALSE]]

WriteTakenBack ==
  /\ Decide("takenback") /\ Fine
  /\ IF op.ret = "ok" THEN Answer("abort", op.err) ELSE Answer("stored", "needs")

\* What was staged is removed again, if it still can be.
WriteAbort ==
  \/ /\ Decide("abort") /\ Fine
     /\ op' = [op EXCEPT !.at = "aborted", !.err = op.ret,
                         !.cas = [kind |-> "drop", mine |-> op.new, theirs |-> Missing,
                                  checked |-> FALSE]]
  \/ Decide("aborted") /\ Fine /\ Answer("stored", op.err)

Sync ==
  \/ Decide("sync") /\ Fine /\ Answer("stored", "ok")
  \/ Decide("sync") /\ Fault /\ Answer("stored", "needs")

(* atomic_remove: journal, move the unit to a tombstone, drop it, sync.       *)

\* The journal names the tombstone before the unit is moved there.
RemoveJournal ==
  /\ At("rmfile")
  /\ \/ Fine /\ Cancelled /\ Answer("stored", "cancelled") /\ UNCHANGED <<jour, snap, seq>>
     \/ ~Cancelled /\ Publish("remove", seq + 1, Missing, "take", "stored") /\ seq' = seq + 1
  /\ Goes /\ UNCHANGED <<unit, tomb, staged, sysdVars, aliens, bounds>>

RemoveTakes ==
  \/ Decide("take") /\ Fine /\ Cas("take", op.exp, Missing, "taken")
  \/ /\ Decide("taken") /\ Fine
     /\ IF op.ret = "ok" THEN Cas("drop", op.exp, Missing, "rmdropped") ELSE Go("stored")
  \/ /\ Decide("rmdropped") /\ Fine
     /\ IF op.ret = "ok" THEN Go("sync") ELSE Answer("stored", "needs")

-----------------------------------------------------------------------------
(* recover_pending_reload and reload_required: what an operation that did not *)
(* end has left is finished, or taken back when nothing has changed yet.      *)

\* ensure_manager: systemctl answers, or the operation ends here.
EnsureManager ==
  /\ At("ensure")
  /\ \/ Fine /\ ~op.cancelled /\ Go("recover") /\ Goes
     \/ Fine /\ op.cancelled /\ End("cancelled")
     \/ Fault /\ End("command")
  /\ UNCHANGED <<dirVars, sysdVars, snap, aliens, seq, bounds>>

Remember(expect) == snap' = [jour |-> jour, expect |-> expect]
RecoveryCas(kind, mine, theirs, next) ==
  op' = [op EXCEPT !.at = next, !.tmp = jour.temp,
                   !.cas = [kind |-> kind, mine |-> mine, theirs |-> theirs, checked |-> FALSE]]

\* The change was published: drop what it displaced, then reload.
RecoverCommitted ==
  /\ unit = jour.after
  /\ Remember(jour.after)
  /\ \/ Staged(jour.temp) = Missing /\ Go("recheck") /\ Goes
     \/ /\ Staged(jour.temp) # Missing /\ Staged(jour.temp) = jour.before
        /\ RecoveryCas("drop", jour.before, Missing, "recsync") /\ Goes
     \/ Staged(jour.temp) \notin {Missing, jour.before} /\ End("conflict")

\* It was not, and may be given up: drop what was staged, then the record.
RecoverAbort ==
  /\ unit # jour.after /\ unit = jour.before /\ jour.phase = "forward"
  /\ Remember(jour.before)
  /\ \/ /\ Staged(jour.temp) = Missing
        /\ op' = [op EXCEPT !.ctx = "recabort", !.at = "clear"] /\ Goes
     \/ /\ Staged(jour.temp) # Missing /\ Staged(jour.temp) = jour.after
        /\ RecoveryCas("drop", jour.after, Missing, "recaborted") /\ Goes
     \/ Staged(jour.temp) \notin {Missing, jour.after} /\ End("conflict")

\* A rollback that was not published is carried out; without what it needs the
\* answer is CommittedNeedsReload.
RecoverRollback ==
  /\ unit # jour.after /\ unit = jour.before /\ jour.phase = "rollback"
  /\ Remember(jour.after) /\ Goes
  /\ IF jour.kind = "replace"
     THEN IF Staged(jour.temp) # jour.after THEN Go("recheck")
          ELSE IF jour.before = Missing THEN RecoveryCas("put", jour.after, Missing, "recsync")
          ELSE RecoveryCas("swap", jour.after, jour.before, "recswapped")
     ELSE IF Staged(jour.temp) # Missing THEN Go("recheck")
          ELSE RecoveryCas("take", jour.before, Missing, "recswapped")

ReloadRequired ==
  /\ At("recover")
  /\ \/ /\ jour = Missing /\ Fine /\ UNCHANGED snap
        /\ IF tomb THEN End("repair") ELSE Go("begin") /\ Goes
     \/ /\ jour # Missing /\ Fine
        /\ \/ RecoverCommitted
           \/ RecoverAbort
           \/ RecoverRollback
           \/ unit \notin {jour.before, jour.after} /\ Remember(jour.after) /\ End("conflict")
     \/ /\ jour # Missing /\ Fault /\ Remember(jour.after)
        /\ (Go("recheck") /\ Goes) \/ End("io")
     \/ Fault /\ UNCHANGED snap /\ End("io")
  /\ UNCHANGED <<dirVars, sysdVars, aliens, seq, bounds>>

\* A step of an operation that may end it.
Concludes(label) ==
  At(label) /\ UNCHANGED <<dirVars, sysdVars, snap, aliens, seq, bounds>>

\* A failed sync here is CommittedNeedsReload, and goes on to the reload too.
RecoveryStep ==
  \/ /\ Concludes("recsync") /\ Fine
     /\ IF op.ret = "ok" THEN Go("recheck") /\ Goes ELSE End(op.ret)
  \/ /\ Concludes("recswapped") /\ Fine
     /\ IF op.ret = "ok" THEN Cas("drop", jour.before, Missing, "recsync") /\ Goes ELSE End(op.ret)
  \/ /\ Concludes("recaborted")
     /\ \/ /\ Fine /\ op.ret = "ok" /\ Goes
           /\ op' = [op EXCEPT !.ctx = "recabort", !.at = "clear"]
        \/ Fine /\ op.ret # "ok" /\ End(op.ret)
        \/ Fault /\ End("io")

RecoveryCheck ==
  /\ Concludes("recheck") /\ Fine
  /\ IF DataOf(unit) = Alien THEN End("foreign")
     ELSE op' = [op EXCEPT !.ctx = "rec", !.at = "reval"] /\ Goes

-----------------------------------------------------------------------------
(* The operations of UserUnitManager                                          *)

\* install, update, remove, enable, disable and status up to their first change.
Begin ==
  /\ Concludes("begin") /\ Fine
  /\ LET here == [op EXCEPT !.ctx = "none", !.begun = TRUE, !.prev = DataOf(unit),
                            !.was = enabled, !.exp = unit]
         replace == op' = [here EXCEPT !.ctx = "fwd", !.put = op.want, !.at = "write"]
         toggle == op' = [here EXCEPT !.at = "toggle"]
         ends(result) ==
           /\ op' = Missing
           /\ last' = [kind |-> op.kind, want |-> op.want, res |-> result, begun |-> TRUE,
                       prev |-> here.prev, was |-> here.was] IN
     CASE DataOf(unit) = Alien -> ends("foreign")
       [] unit = Missing /\ op.kind = "install" -> replace /\ Goes
       [] unit = Missing /\ op.kind = "remove" -> op' = [here EXCEPT !.at = "sweep"] /\ Goes
       [] unit = Missing /\ op.kind \notin {"install", "remove"} -> ends("notinstalled")
       [] DataOf(unit) \in Data /\ op.kind \in {"install", "update"} ->
            IF unit.data = op.want THEN ends("unchanged")
            ELSE IF op.kind = "install" THEN ends("exists") ELSE replace /\ Goes
       [] DataOf(unit) \in Data /\ op.kind \in {"remove", "enable", "disable"} -> toggle /\ Goes
       [] DataOf(unit) \in Data /\ op.kind = "status" -> ends("unchanged")

\* remove of a unit that is not there clears stale links.
Sweep ==
  /\ At("sweep")
  /\ \/ Fine /\ ~op.cancelled /\ enabled' = FALSE /\ End("unchanged")
     \/ Fine /\ op.cancelled /\ UNCHANGED enabled /\ End("cancelled")
     \/ Fault /\ enabled' \in {enabled, FALSE} /\ End("command")
  /\ UNCHANGED <<dirVars, loaded, snap, aliens, seq, bounds>>

\* Mutant: a cancelled change of the enablement is not taken back.
Toggle_CancelKeeps ==
  /\ At("toggle")
  /\ LET want == op.kind = "enable"
         undo(why) == op' = [op EXCEPT !.at = "restore", !.orig = why] /\ Goes IN
     \/ /\ Fine /\ ~op.cancelled /\ enabled' = want
        /\ IF op.kind = "remove"
           THEN op' = [op EXCEPT !.ctx = "rm", !.at = "rmfile", !.changed = enabled # want] /\ Goes
           ELSE End(IF enabled = want THEN "unchanged" ELSE "changed")
     \/ Fine /\ op.cancelled /\ enabled' \in {enabled, want} /\ End("cancelled")
     \/ Fault /\ UNCHANGED enabled /\ End("command")
     \/ Fault /\ enabled # want /\ enabled' \in BOOLEAN /\ undo("command")
  /\ UNCHANGED <<dirVars, loaded, snap, aliens, seq, bounds>>

\* query_status and set_enabled_locked, for enable, disable and remove.
Toggle ==
  /\ At("toggle")
  /\ LET want == op.kind = "enable"
         undo(why) == op' = [op EXCEPT !.at = "restore", !.orig = why] /\ Goes IN
     \/ /\ Fine /\ ~op.cancelled /\ enabled' = want
        /\ IF op.kind = "remove"
           THEN op' = [op EXCEPT !.ctx = "rm", !.at = "rmfile", !.changed = enabled # want] /\ Goes
           ELSE End(IF enabled = want THEN "unchanged" ELSE "changed")
     \/ Fine /\ op.cancelled /\ UNCHANGED enabled /\ End("cancelled")  \* at the query
     \/ Fault /\ UNCHANGED enabled /\ End("command")
     \/ Fine /\ op.cancelled /\ enabled # want /\ enabled' \in BOOLEAN /\ undo("cancelled")
     \/ Fault /\ enabled # want /\ enabled' \in BOOLEAN /\ undo("command")
  /\ UNCHANGED <<dirVars, loaded, snap, aliens, seq, bounds>>

\* restore_enablement, the last thing an operation that failed does.
RestoreEnablement ==
  /\ At("restore")
  /\ \/ Fine /\ enabled' = op.was /\ End(op.orig)
     \/ Fault /\ enabled' \in {enabled, FALSE, op.was} /\ End("rollbackfailed")
  /\ UNCHANGED <<dirVars, loaded, snap, aliens, seq, bounds>>

FailWith(result) ==
  IF op.changed THEN op' = [op EXCEPT !.at = "restore", !.orig = result] /\ Goes ELSE End(result)
StartReload == Go("reval") /\ Goes
StartRollback(why) == op' = [op EXCEPT !.at = "back", !.orig = why] /\ Goes

\* What the manager does with the answer of atomic_replace or atomic_remove.
Stored ==
  /\ Concludes("stored") /\ Fine
  /\ LET committed == op.ret \in {"ok", "needs"} IN
     CASE op.ctx = "fwd" /\ ~committed -> End(op.ret)
       [] op.ctx = "fwd" /\ committed ->
            IF DataOf(unit) # op.want THEN End("needs")
            ELSE IF op.cancelled THEN StartRollback("cancelled") ELSE StartReload
       [] op.ctx = "rm" /\ ~committed -> FailWith(op.ret)
       [] op.ctx = "rm" /\ committed -> IF unit # Missing THEN FailWith("needs") ELSE StartReload
       [] op.ctx \in {"back", "rmback"} ->
            IF committed /\ DataOf(unit) = op.prev THEN StartReload ELSE End("rollbackfailed")

\* Putting a removed unit back.
StartRestore(why) ==
  op' = [op EXCEPT !.ctx = "rmback", !.at = "write", !.exp = Missing, !.put = op.prev, !.orig = why]

\* Mutant: in a recovery a daemon-reload that fails counts as done.
Reloaded_FailureIgnored ==
  /\ Concludes("reloaded") /\ Fine
  /\ IF op.ret = "ok" \/ (op.ctx = "rec" /\ op.ret = "command") THEN Go("clear") /\ Goes
     ELSE CASE op.ctx = "rec" -> End(op.ret)
            [] op.ctx = "fwd" -> IF op.ret = "repair" THEN End("repair") ELSE StartRollback(op.ret)
            [] op.ctx = "rm" -> IF op.ret = "repair" THEN End("repair") ELSE StartRestore(op.ret) /\ Goes
            [] op.ctx \in {"back", "rmback"} -> End("rollbackfailed")

Reloaded ==
  /\ Concludes("reloaded") /\ Fine
  /\ IF op.ret = "ok" THEN Go("clear") /\ Goes
     ELSE CASE op.ctx = "rec" -> End(op.ret)
            [] op.ctx = "fwd" -> IF op.ret = "repair" THEN End("repair") ELSE StartRollback(op.ret)
            [] op.ctx = "rm" -> IF op.ret = "repair" THEN End("repair") ELSE StartRestore(op.ret) /\ Goes
            [] op.ctx \in {"back", "rmback"} -> End("rollbackfailed")

\* Mutant: the answer of clear_reload_required is dropped after a forward change.
Cleared_Dropped ==
  /\ Concludes("cleared") /\ Fine
  /\ IF op.ret = "ok"
     THEN CASE op.ctx \in {"rec", "recabort"} -> Go("begin") /\ Goes
            [] op.ctx \in {"fwd", "rm"} -> End("changed")
            [] op.ctx \in {"back", "rmback"} -> FailWith(op.orig)
     ELSE CASE op.ctx = "recabort" /\ op.ret = "needs" -> Go("recheck") /\ Goes
            [] op.ctx = "rec" \/ (op.ctx = "recabort" /\ op.ret # "needs") -> End(op.ret)
            [] op.ctx = "fwd" -> End("changed")
            [] op.ctx = "rm" -> IF op.ret = "repair" THEN End("repair") ELSE StartRestore(op.ret) /\ Goes
            [] op.ctx \in {"back", "rmback"} -> End("rollbackfailed")

\* And with the answer of clear_reload_required.  CommittedNeedsReload from the
\* one in reload_required goes on to the reload, like any from there.
Cleared ==
  /\ Concludes("cleared") /\ Fine
  /\ IF op.ret = "ok"
     THEN CASE op.ctx \in {"rec", "recabort"} -> Go("begin") /\ Goes
            [] op.ctx \in {"fwd", "rm"} -> End("changed")
            [] op.ctx \in {"back", "rmback"} -> FailWith(op.orig)
     ELSE CASE op.ctx = "recabort" /\ op.ret = "needs" -> Go("recheck") /\ Goes
            [] op.ctx \in {"rec", "fwd"} \/ (op.ctx = "recabort" /\ op.ret # "needs") -> End(op.ret)
            [] op.ctx = "rm" -> IF op.ret = "repair" THEN End("repair") ELSE StartRestore(op.ret) /\ Goes
            [] op.ctx \in {"back", "rmback"} -> End("rollbackfailed")

\* rollback_file: the previous content goes back, or the new file goes.
RollbackFile ==
  /\ Concludes("back") /\ Fine
  /\ IF DataOf(unit) # op.want THEN End("rollbackfailed")
     ELSE /\ op' = [op EXCEPT !.ctx = "back", !.exp = unit, !.put = op.prev,
                              !.at = IF op.prev = Missing THEN "rmfile" ELSE "write"]
          /\ Goes

-----------------------------------------------------------------------------
Steps ==
  \/ EnsureManager \/ ReloadRequired \/ RecoveryStep \/ RecoveryCheck
  \/ CasCheck \/ CasRename
  \/ ReloadValidate \/ Reload \/ ClearBegins \/ ClearUnlinks
  \/ Write \/ WriteJournal \/ WritePublishes \/ WriteSwapped \/ WriteDropped
  \/ WriteTakenBack \/ WriteAbort \/ Sync
  \/ RemoveJournal \/ RemoveTakes
  \/ Begin \/ Sweep \/ Toggle \/ RestoreEnablement
  \/ Stored \/ Reloaded \/ Cleared \/ RollbackFile

Next ==
  \/ \E kind \in {"install", "update"}, d \in Data : Start(kind, d)
  \/ \E kind \in Kinds \ {"install", "update"} : Start(kind, Missing)
  \/ Steps
  \/ Cancel
  \/ Crash
  \/ Race

Spec == Init /\ [][Next]_vars

-----------------------------------------------------------------------------
(* Properties                                                                 *)

\* The state has its type; a staging name and an inode that are in use were given out.
TypeOK ==
  /\ unit \in Files \cup {Missing} /\ jour \in Records \cup {Missing}
  /\ loaded \in Data \cup {Alien, Missing} /\ tomb \in BOOLEAN /\ enabled \in BOOLEAN
  /\ staged \in [DOMAIN staged -> Files] /\ DOMAIN staged \subseteq 1..seq
  /\ snap \in Snaps \cup {Missing} /\ op \in Operations \cup {Missing}
  /\ last \in Reports \cup {Missing}
  /\ seq \in Nat /\ aliens \subseteq 1..seq
  /\ unit # Missing => unit.ino <= seq
  /\ \A n \in DOMAIN staged : staged[n].ino <= seq
  /\ jour # Missing => jour.temp \in 1..seq
  /\ op # Missing => op.tmp \in 0..seq
  /\ ops \in 0..MaxOps /\ faults \in 0..MaxFaults /\ crashes \in 0..MaxCrashes
  /\ races \in 0..MaxRaces

\* The transaction on record: the journal, also while its tombstone may still
\* get the name back.
OnRecord == IF op # Missing /\ op.at = "unlink" THEN snap.jour ELSE jour

\* The unit file, systemd and the journal follow the abstract transaction: what
\* SystemUserUnitStore and UserUnitManager promise together, at every step, in
\* every crash and through every recovery.
Transaction ==
  INSTANCE UnitTransaction
    WITH unit <- DataOf(unit), alone <- races = 0,
         txn <- IF OnRecord = Missing THEN Missing
                ELSE [from |-> DataOf(OnRecord.before), to |-> DataOf(OnRecord.after),
                      undo |-> OnRecord.phase = "rollback"]
Implements == Transaction!Spec

\* What reload_required can finish or undo.
Recoverable ==
  LET st == Staged(jour.temp) IN
  \/ unit = jour.after /\ st \in {Missing, jour.before}
  \/ unit = jour.before /\ jour.phase = "forward" /\ st \in {Missing, jour.after}
  \/ unit = jour.before /\ jour.phase = "rollback" /\ jour.kind = "replace" /\ st = jour.after
  \/ unit = jour.before /\ jour.phase = "rollback" /\ jour.kind = "remove" /\ st = Missing

\* Whatever steps processes died at or were cancelled at, also those of a
\* rollback or of a recovery: a journal they left says what the next operation
\* has to finish or undo; a tombstone they left between the journal's last rename
\* and its unlink stands for a change that is over and loaded, though every
\* later operation answers RepairRequired until it is cleared by hand.
CrashRecovers ==
  races = 0 /\ faults = 0 =>
    /\ jour # Missing => Recoverable
    /\ tomb => jour = Missing /\ loaded = DataOf(unit)

\* An operation that reports success has left the unit as asked, systemd has
\* loaded it, and no journal is left to recover; also when it found nothing to do.
SuccessMeansLoaded ==
  races = 0 /\ last # Missing /\ last.res \in {"changed", "unchanged"} =>
    /\ loaded = DataOf(unit) /\ jour = Missing /\ ~tomb
    /\ last.kind \in {"install", "update", "remove"} => DataOf(unit) = last.want
    /\ last.kind \in {"enable", "disable"} => enabled = (last.kind = "enable")

\* An operation that reports a plain failure has changed nothing, neither the
\* unit nor what systemd has loaded nor the enablement (rollback_file,
\* restore_enablement), or has left the journal of this very change, published
\* and perhaps loaded, for the next one to finish (replace_and_reload passes an
\* error of clear_reload_required on without a rollback).
FailureRestores ==
  /\ races = 0 /\ last # Missing /\ last.begun
  /\ last.res \notin {"changed", "unchanged", "needs", "repair", "rollbackfailed"}
  => /\ \/ DataOf(unit) = last.prev /\ loaded = last.prev
        \/ /\ jour # Missing /\ unit = jour.after /\ loaded \in {last.prev, last.want}
           /\ DataOf(jour.before) = last.prev /\ DataOf(jour.after) = last.want
     /\ unit # Missing => enabled = last.was

\* Bytes another process put in the unit's place, which this manager cannot have
\* generated, are never deleted: the file is the unit, or under a staging name.
RacerPreserved ==
  \A i \in aliens : \/ unit # Missing /\ unit.ino = i
                    \/ \E n \in DOMAIN staged : staged[n].ino = i
=============================================================================
