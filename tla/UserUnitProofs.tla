--------------------------- MODULE UserUnitProofs ---------------------------
(***************************************************************************)
(* Proofs about UserUnit, for any contents and any number of operations,   *)
(* failing steps, deaths and writes of other processes.                    *)
(***************************************************************************)
EXTENDS UserUnit, TLAPS

\* Where an operation is: before its own work, inside atomic_replace, inside
\* atomic_remove, at the reload and at the end of the journal.
Recovering == {"ensure", "recover", "recsync", "recswapped", "recaborted", "recheck"}
Published == {"publishing", "put", "swapped", "dropped", "takenback"}
Writing == Published \cup {"write", "publish", "abort", "aborted"}
Taking == {"take", "taken", "rmdropped"}
Removing == Taking \cup {"rmfile"}
Loading == {"reval", "reload", "reloaded"}
Clearing == {"clear", "unlink", "cleared"}
Forth == {"fwd", "rm"}
Back == {"back", "rmback"}
Main == Forth \cup Back

\* The procedure a position belongs to.
Flow ==
  op # Missing =>
    /\ op.at \in (Recovering \ {"recheck"}) \cup {"sweep", "toggle"} => op.ctx = "none"
    /\ op.at = "recheck" => op.ctx \in {"none", "recabort"}
    /\ op.at = "begin" => op.ctx \in {"none", "rec", "recabort"}
    /\ op.at = "restore" => op.ctx \in {"none", "rm", "rmback"}
    /\ op.at \in Writing => op.ctx \in {"fwd", "back", "rmback"}
    /\ op.at \in Removing => op.ctx \in {"rm", "back"}
    /\ op.at \in {"sync", "stored"} => op.ctx \in Main
    /\ op.at = "back" => op.ctx = "fwd"
    /\ op.at \in Loading => op.ctx \in Main \cup {"rec"}
    /\ op.at \in Clearing => op.ctx \in Main \cup {"rec", "recabort"}
    /\ op.begun <=> op.at \notin Recovering \cup {"begin"} /\ op.ctx \notin {"rec", "recabort"}

\* The content an operation replaces, and the one it puts there.
Source == IF op.ctx \in Forth THEN op.prev ELSE op.want
Goal == IF op.ctx \in Forth THEN op.want ELSE op.prev

\* What an operation is about, and what it has done to the enablement.
Errand ==
  op # Missing =>
    /\ op.want \in Data <=> op.kind \in {"install", "update"}
    /\ op.at = "sweep" => op.kind = "remove" /\ op.prev = Missing
    /\ op.at = "toggle" => op.kind \in {"remove", "enable", "disable"} /\ op.prev \in Data
                            /\ DataOf(op.exp) = op.prev
    /\ op.ctx \in {"fwd", "back"} => op.kind \in {"install", "update"} /\ op.prev # op.want
    /\ op.ctx \in {"rm", "rmback"} => op.kind = "remove" /\ op.prev \in Data
    /\ op.ctx \in Main => DataOf(op.exp) = Source
    /\ op.ctx = "rmback" => op.exp = Missing
    /\ op.at \in Writing => op.put = Goal /\ op.put \in Data
    /\ op.at \in Writing \ {"write"} => op.new = [ino |-> op.tmp, data |-> op.put] /\ op.tmp # 0
    /\ op.at \in {"swapped", "dropped", "takenback"} => op.exp # Missing
    /\ op.at = "put" => op.exp = Missing
    /\ op.at \in Removing => Goal = Missing
    /\ op.at \in Published => op.ret # "needs"
    /\ op.at = "abort" => op.ret \notin {"ok", "needs"}
    /\ op.at \in {"takenback", "aborted"} => op.err \notin {"ok", "needs"}
    /\ op.at = "cleared" => op.ret \in {"ok", "repair", "needs", "io", "conflict"}

Enablement ==
  op # Missing =>
    /\ ~op.begun => ~op.changed
    /\ op.at = "toggle" \/ op.ctx \in {"fwd", "back"} => enabled = op.was /\ ~op.changed
    /\ op.ctx \in {"rm", "rmback"} => ~enabled /\ op.changed = op.was

\* The exchange in progress moves what its caller is about.
Exchange ==
  op # Missing /\ op.cas # NoCas =>
    LET cas == op.cas IN
    /\ op.at \in {"put", "swapped", "dropped", "takenback", "aborted", "taken", "rmdropped",
                  "recsync", "recswapped", "recaborted"}
    /\ op.at = "put" => cas.kind = "put" /\ cas.mine = op.new
    /\ op.at = "swapped" => cas.kind = "swap" /\ cas.mine = op.new /\ cas.theirs = op.exp
    /\ op.at = "takenback" => cas.kind = "swap" /\ cas.mine = op.exp /\ cas.theirs = op.new
    /\ op.at \in {"dropped", "rmdropped"} => cas.kind = "drop" /\ cas.mine = op.exp
    /\ op.at = "aborted" => cas.kind = "drop" /\ cas.mine = op.new
    /\ op.at = "taken" => cas.kind = "take" /\ cas.mine = op.exp
    /\ op.at = "recsync" => \/ cas.kind = "drop" /\ cas.mine = jour.before
                            \/ cas.kind = "put" /\ cas.mine = jour.after /\ jour.kind = "replace"
    /\ op.at = "recswapped" =>
         \/ /\ cas.kind = "swap" /\ jour.kind = "replace"
            /\ cas.mine = jour.after /\ cas.theirs = jour.before
         \/ cas.kind = "take" /\ cas.mine = jour.before /\ jour.kind = "remove"
    /\ op.at = "recaborted" => cas.kind = "drop" /\ cas.mine = jour.after
    /\ cas.checked => Staged(op.tmp) = IF cas.kind = "take" THEN Missing ELSE cas.mine

\* The journal on record leads from one content to the other.
Leads(from, to) ==
  jour # Missing /\ DataOf(jour.before) = from /\ DataOf(jour.after) = to

\* SystemUserUnitStore remembers the journal with the outcome it expects.
Named == jour # Missing /\ snap = [jour |-> jour, expect |-> jour.after]

\* Or with what a forward change that was given up leaves in place.
Kept == /\ jour # Missing /\ jour.phase = "forward"
        /\ snap = [jour |-> jour, expect |-> jour.before]

\* A journal that became a tombstone, as the store remembers it.
Parked ==
  LET j == snap.jour IN
  /\ jour = Missing /\ snap \in Snaps /\ j.temp \in 1..seq
  /\ DataOf(j.before) # DataOf(j.after) /\ (j.kind = "remove" <=> j.after = Missing)
  /\ op.ctx \in Forth => /\ DataOf(j.before) = op.prev /\ DataOf(j.after) = op.want
                          /\ j.phase = "forward"

\* The journal as an operation finds it, and as it has written it.
Found ==
  CASE op.ctx \in Forth -> jour = Missing
    [] op.ctx = "back" -> Leads(op.prev, op.want) /\ jour.phase = "forward"
    [] op.ctx = "rmback" -> jour = Missing \/ (Leads(op.prev, op.want) /\ jour.phase = "forward")
    [] OTHER -> TRUE
Phased ==
  /\ op.ctx \in Forth => jour.phase = "forward"
  /\ op.ctx = "back" => jour.phase = "rollback"
Posted ==
  /\ Named /\ Phased /\ jour.temp = op.tmp /\ jour.before = op.exp
  /\ op.at \in Writing => jour.kind = "replace" /\ jour.after = op.new
  /\ op.at \in Removing => jour.kind = "remove" /\ jour.after = Missing

Journal ==
  op # Missing =>
    /\ op.at \in {"begin", "sweep", "toggle"} => jour = Missing /\ ~tomb
    /\ op.at \in {"recsync", "recswapped"} => Named /\ op.tmp = jour.temp
    /\ op.at = "recaborted" =>
         /\ jour # Missing /\ snap = [jour |-> jour, expect |-> jour.before]
         /\ op.tmp = jour.temp /\ jour.phase = "forward"
    /\ op.at = "recheck" \/ (op.at \in Loading /\ op.ctx = "rec") => jour = Missing \/ Named \/ Kept
    /\ op.at \in {"write", "rmfile"} => Found
    /\ op.at = "publish" => Found /\ (jour # Missing => jour.temp # op.tmp)
    /\ op.at \in Published \cup Taking => Posted
    /\ op.at \in {"abort", "aborted"} => Posted \/ (Found /\ (jour # Missing => jour.temp # op.tmp))
    /\ op.at = "sync" => Named /\ Phased /\ Leads(Source, Goal)
    /\ op.at = "stored" /\ op.ctx \in Forth =>
         \/ Leads(op.prev, op.want) /\ jour.phase = "forward"
         \/ jour = Missing /\ op.ret \notin {"ok", "needs"}
    /\ op.at \in Loading \cup {"back", "clear"} /\ op.ctx \in Forth =>
         Leads(op.prev, op.want) /\ jour.phase = "forward"
    /\ op.at = "clear" /\ op.ctx = "recabort" => Kept
    /\ op.at = "unlink" => Parked
    /\ op.at = "cleared" =>
         /\ op.ret = "ok" => jour = Missing /\ ~tomb
         /\ op.ctx \in Forth => jour = Missing \/ (Leads(op.prev, op.want) /\ jour.phase = "forward")
         /\ op.ctx \in Forth /\ op.ret \in {"io", "conflict"} => jour # Missing
         /\ op.ctx = "recabort" /\ op.ret = "needs" => jour = Missing \/ Kept

\* A record leads from one content to another one.
Lawful ==
  jour # Missing => /\ DataOf(jour.before) # DataOf(jour.after)
                    /\ jour.kind = "remove" <=> jour.after = Missing

\* What the directory can hold when nobody interfered.
Shape ==
  LET st == Staged(jour.temp) IN
  \/ unit = jour.after /\ st \in {Missing, jour.before}
  \/ unit = jour.before /\ jour.phase = "forward" /\ st \in {Missing, jour.after}
  \/ unit = jour.before /\ jour.phase = "rollback" /\ jour.kind = "replace" /\ st \in {Missing, jour.after}
  \/ unit = jour.before /\ jour.phase = "rollback" /\ jour.kind = "remove" /\ st = Missing

Directory ==
  /\ DataOf(unit) # Alien
  /\ jour = Missing => loaded = DataOf(unit)
  /\ jour # Missing => /\ Shape
                       /\ unit = jour.before /\ jour.phase = "forward" => loaded = DataOf(unit)

Pending == op.cas # NoCas
Achieved == Named /\ unit = jour.after /\ DataOf(unit) = Goal

\* The directory holds what the journal leads to, or what a forward one came from.
Resolved(j) == j # Missing /\ (unit = j.after \/ (unit = j.before /\ j.phase = "forward"))

\* Nothing of the operation is left, or its own journal is, published.
Undone == DataOf(unit) = op.prev /\ loaded = op.prev
Resumable == Leads(op.prev, op.want) /\ unit = jour.after /\ loaded \in {op.prev, op.want}

\* Where the operation has come to, in the directory.
Progress ==
  op # Missing =>
    /\ Pending /\ op.cas.checked => Exact(op.cas)
    /\ op.at \in {"toggle", "write", "publish", "publishing", "rmfile", "take"} => unit = op.exp
    /\ op.at \in {"publish", "publishing"} => Staged(op.tmp) = op.new
    /\ op.at \in {"put", "swapped"} /\ Pending => unit = op.exp /\ Staged(op.tmp) = op.new
    /\ op.at = "put" /\ ~Pending /\ op.ret = "ok" => unit = op.new
    /\ op.at = "swapped" /\ ~Pending /\ op.ret = "ok" => unit = op.new /\ Staged(op.tmp) = op.exp
    /\ op.at = "dropped" => unit = op.new
    /\ op.at = "takenback" /\ Pending => unit = op.new
    /\ op.at = "taken" /\ Pending => unit = op.exp
    /\ op.at = "taken" /\ ~Pending /\ op.ret = "ok" => unit = Missing
    /\ op.at = "rmdropped" => unit = Missing
    /\ op.at \in {"abort", "aborted"} => Posted \/ unit = op.exp
    /\ op.at = "recaborted" => unit = jour.before
    /\ op.at = "sync" => unit = jour.after
    /\ op.at = "stored" => \/ DataOf(unit) = Source
                           \/ Achieved
    /\ op.at \in Loading \cup {"back"} /\ op.ctx \in Main => Achieved
    /\ op.at = "reload" => Resolved(jour)
    /\ op.at = "reloaded" /\ op.ret = "ok" => Resolved(jour) /\ loaded = DataOf(unit)
    /\ op.at = "clear" => Resolved(jour) /\ loaded = DataOf(unit)
    /\ op.at = "unlink" =>
         Resolved(snap.jour) /\ loaded = DataOf(unit) /\ Staged(snap.jour.temp) = Missing
    /\ op.at \in Clearing /\ op.ctx \in Main => DataOf(unit) = Goal /\ loaded = Goal
    /\ op.at \in {"sweep", "toggle"} => DataOf(unit) = op.prev

Reloads ==
  op # Missing =>
    /\ op.ctx \in Forth /\ op.at \in Writing \cup Removing \cup {"sync", "stored"} => loaded = op.prev
    /\ op.at = "restore" /\ op.orig \notin {"needs", "repair", "rollbackfailed"} =>
         Undone \/ Resumable

\* Without failing steps nothing is given up but a forward change.
Smooth ==
  op # Missing =>
    /\ op.at \in {"put", "swapped", "dropped"} /\ ~Pending => op.ret = "ok"
    /\ op.at = "dropped" /\ Pending => Staged(op.tmp) = op.exp
    /\ op.at # "takenback"
    /\ op.at \in {"abort", "aborted"} => jour = Missing \/ jour.phase = "forward"

\* The inodes of foreign bytes are those of foreign bytes.
Marked ==
  /\ unit # Missing /\ unit.ino \in aliens => unit.data = Alien
  /\ \A n \in DOMAIN staged : staged[n].ino \in aliens => staged[n].data = Alien

\* What holds of the directory whatever operation is under way,
World == Lawful /\ (tomb => jour = Missing) /\ (races = 0 => Directory) /\ CrashRecovers /\ Marked /\ RacerPreserved

\* of the operation,
Place == races = 0 => Progress /\ Reloads /\ (faults = 0 => Smooth)
Conduct == Flow /\ Errand /\ Enablement /\ Exchange /\ Journal /\ Place

\* and of its report.
Told == (last # Missing => op = Missing) /\ SuccessMeansLoaded /\ FailureRestores

IInv == TypeOK /\ World /\ Conduct /\ Told

-----------------------------------------------------------------------------
(* Records                                                                    *)

\* What an operation is about; only its beginning sets it.
Same(p, o) ==
  p.kind = o.kind /\ p.want = o.want /\ p.prev = o.prev /\ p.was = o.was /\ p.changed = o.changed

\* What atomic_replace and atomic_remove work on.
Holds(p, o) == p.tmp = o.tmp /\ p.put = o.put /\ p.new = o.new /\ p.exp = o.exp

\* Going on.
LEMMA GoFields ==
  ASSUME op \in Operations, NEW l \in Labels, Go(l)
  PROVE  /\ op' \in Operations /\ op' # Missing /\ op'.at = l /\ op'.ret = op.ret /\ op'.ctx = op.ctx /\ op'.cas = op.cas
         /\ op'.begun = op.begun /\ op'.orig = op.orig /\ op'.err = op.err
         /\ Same(op', op) /\ Holds(op', op)
<1>1. op' \in Operations
  BY DEF Operations, Go, Answer
<1>2. op' # Missing
  BY <1>1, MissingAssumption
<1> QED BY <1>1, <1>2 DEF Operations, Go, Answer, Same, Holds

\* Going on with an answer.
LEMMA AnswerFields ==
  ASSUME op \in Operations, NEW l \in Labels, NEW r \in Results, Answer(l, r)
  PROVE  /\ op' \in Operations /\ op' # Missing /\ op'.at = l /\ op'.ret = r /\ op'.ctx = op.ctx /\ op'.cas = op.cas
         /\ op'.begun = op.begun /\ op'.orig = op.orig /\ op'.err = op.err
         /\ Same(op', op) /\ Holds(op', op)
<1>1. op' \in Operations
  BY DEF Operations, Go, Answer
<1>2. op' # Missing
  BY <1>1, MissingAssumption
<1> QED BY <1>1, <1>2 DEF Operations, Go, Answer, Same, Holds

\* Starting an exchange.
LEMMA CasFields ==
  ASSUME op \in Operations, NEW k \in {"swap", "put", "take", "drop"}, NEW mine \in Ours \cup {Missing},
         NEW theirs \in Ours \cup {Missing}, NEW l \in Labels, Cas(k, mine, theirs, l)
  PROVE  /\ op' \in Operations /\ op' # Missing /\ op'.at = l /\ op'.ret = op.ret /\ op'.ctx = op.ctx
         /\ op'.cas # NoCas /\ op'.cas.kind = k /\ op'.cas.mine = mine /\ op'.cas.theirs = theirs
         /\ ~op'.cas.checked
         /\ op'.begun = op.begun /\ op'.orig = op.orig /\ op'.err = op.err
         /\ Same(op', op) /\ Holds(op', op)
<1> DEFINE c == [kind |-> k, mine |-> mine, theirs |-> theirs, checked |-> FALSE]
<1>1. c \in Exchanges /\ c # NoCas /\ c.kind = k /\ c.mine = mine /\ c.theirs = theirs /\ ~c.checked
  BY DEF Exchanges, NoCas
<1>2. op' = [op EXCEPT !.at = l, !.cas = c]
  BY DEF Cas
<1> HIDE DEF c
<1>3. op' \in Operations /\ op'.cas = c
  BY <1>1, <1>2 DEF Operations
<1>4. op' # Missing
  BY <1>3, MissingAssumption
<1> QED BY <1>1, <1>2, <1>3, <1>4 DEF Operations, Same, Holds

\* The same with the error kept that led to it.
LEMMA UndoFields ==
  ASSUME op \in Operations, NEW c \in Exchanges, NEW l \in Labels,
         op' = [op EXCEPT !.at = l, !.err = op.ret, !.cas = c]
  PROVE  /\ op' \in Operations /\ op' # Missing /\ op'.at = l /\ op'.ret = op.ret /\ op'.ctx = op.ctx
         /\ op'.cas = c /\ op'.begun = op.begun /\ op'.orig = op.orig /\ op'.err = op.ret
         /\ Same(op', op) /\ Holds(op', op)
<1>1. op' \in Operations
  BY DEF Operations
<1>2. op' # Missing
  BY <1>1, MissingAssumption
<1> QED BY <1>1, <1>2 DEF Operations, Same, Holds

\* And with the name the journal gives.
LEMMA RecoveryFields ==
  ASSUME op \in Operations, NEW k \in {"swap", "put", "take", "drop"}, NEW mine \in Ours \cup {Missing},
         NEW theirs \in Ours \cup {Missing}, NEW l \in Labels, jour.temp \in Nat, RecoveryCas(k, mine, theirs, l)
  PROVE  /\ op' \in Operations /\ op' # Missing /\ op'.at = l /\ op'.ret = op.ret /\ op'.ctx = op.ctx
         /\ op'.cas # NoCas /\ op'.cas.kind = k /\ op'.cas.mine = mine /\ op'.cas.theirs = theirs
         /\ ~op'.cas.checked
         /\ op'.begun = op.begun /\ op'.orig = op.orig /\ op'.tmp = jour.temp
         /\ Same(op', op) /\ op'.exp = op.exp
<1> DEFINE c == [kind |-> k, mine |-> mine, theirs |-> theirs, checked |-> FALSE]
<1>1. c \in Exchanges /\ c # NoCas /\ c.kind = k /\ c.mine = mine /\ c.theirs = theirs /\ ~c.checked
  BY DEF Exchanges, NoCas
<1>2. op' = [op EXCEPT !.at = l, !.tmp = jour.temp, !.cas = c]
  BY DEF RecoveryCas
<1> HIDE DEF c
<1>3. op' \in Operations /\ op'.cas = c
  BY <1>1, <1>2 DEF Operations
<1>4. op' # Missing
  BY <1>3, MissingAssumption
<1> QED BY <1>1, <1>2, <1>3, <1>4 DEF Operations, Same

\* Going on in another procedure.
LEMMA ContextFields ==
  ASSUME op \in Operations, NEW l \in Labels, NEW c \in Contexts, op' = [op EXCEPT !.ctx = c, !.at = l]
  PROVE  /\ op' \in Operations /\ op' # Missing /\ op'.at = l /\ op'.ret = op.ret /\ op'.ctx = c /\ op'.cas = op.cas
         /\ op'.begun = op.begun /\ op'.orig = op.orig /\ op'.err = op.err
         /\ Same(op', op) /\ Holds(op', op)
<1>1. op' \in Operations
  BY DEF Operations
<1>2. op' # Missing
  BY <1>1, MissingAssumption
<1> QED BY <1>1, <1>2 DEF Operations, Same, Holds

\* Going on with the error that led to it.
LEMMA OrigFields ==
  ASSUME op \in Operations, NEW l \in Labels, NEW r \in Results, op' = [op EXCEPT !.at = l, !.orig = r]
  PROVE  /\ op' \in Operations /\ op' # Missing /\ op'.at = l /\ op'.ret = op.ret /\ op'.ctx = op.ctx /\ op'.cas = op.cas
         /\ op'.begun = op.begun /\ op'.orig = r /\ op'.err = op.err
         /\ Same(op', op) /\ Holds(op', op)
<1>1. op' \in Operations
  BY DEF Operations
<1>2. op' # Missing
  BY <1>1, MissingAssumption
<1> QED BY <1>1, <1>2 DEF Operations, Same, Holds

USE DEF Recovering, Writing, Published, Taking, Removing, Loading, Clearing, Forth, Back, Main

-----------------------------------------------------------------------------
(* What a step leaves as it was                                               *)

\* A failing step is counted.
LEMMA Faults ==
  ASSUME TypeOK, Fine \/ Fault
  PROVE  faults' \in 0..MaxFaults /\ (faults' = 0 => faults = 0)
  BY UnitAssumption DEF TypeOK, Fine, Fault

\* Nothing in the directory changes, nor in systemd.
LEMMA WorldKept ==
  ASSUME TypeOK, World, Fine \/ Fault, UNCHANGED <<unit, jour, staged, loaded, aliens, races>>,
         tomb' = tomb \/ jour = Missing
  PROVE  World'
<1>1. Lawful' /\ Marked' /\ RacerPreserved'
  BY DEF World, Lawful, Marked, RacerPreserved, DataOf
<1>2. races' = 0 => Directory'
  BY DEF World, Directory, Shape, DataOf, Staged
<1>3. (tomb' => jour' = Missing) /\ CrashRecovers'
  BY Faults DEF World, Directory, CrashRecovers, Recoverable, Staged, DataOf
<1> QED BY <1>1, <1>2, <1>3 DEF World

\* An operation that is under way has not reported.
LEMMA NothingTold ==
  ASSUME IInv, op # Missing, Goes
  PROVE  Told'
<1>1. last' = Missing
  BY DEF IInv, Told, Goes
<1> QED BY <1>1 DEF Told, SuccessMeansLoaded, FailureRestores

\* No operation, nothing to say of it.
LEMMA NoConduct ==
  ASSUME op' = Missing
  PROVE  Conduct'
  BY DEF Conduct, Flow, Errand, Enablement, Exchange, Journal, Place, Progress, Reloads, Smooth

\* A step of the operation alone, or with the snapshot it remembers.
Local == UNCHANGED <<dirVars, sysdVars, snap, aliens, seq, bounds>>

\* A step that changes the operation, and perhaps the snapshot it remembers.
LEMMA SnapStep ==
  ASSUME IInv, op # Missing, UNCHANGED <<dirVars, sysdVars, aliens, seq, bounds>>, snap' \in Snaps \cup {Missing},
         Fine \/ Fault, Goes, op' \in Operations, op'.tmp \in 0..seq, Conduct'
  PROVE  IInv'
<1>1. TypeOK'
  BY Faults DEF IInv, TypeOK, Goes, dirVars, sysdVars, bounds
<1>2. World'
  BY WorldKept DEF IInv, dirVars, sysdVars, bounds
<1> QED BY <1>1, <1>2, NothingTold DEF IInv

\* A step that changes the operation only.
LEMMA LocalStep ==
  ASSUME IInv, op # Missing, Local, Fine \/ Fault, Goes,
         op' \in Operations, op'.tmp \in 0..seq, Conduct'
  PROVE  IInv'
  BY SnapStep DEF IInv, TypeOK, Local

\* The end of an operation, which may be a change of the enablement.
LEMMA EndStep ==
  ASSUME IInv, op # Missing, Fine \/ Fault,
         UNCHANGED <<dirVars, loaded, aliens, seq, bounds>>, enabled' \in BOOLEAN, snap' \in Snaps \cup {Missing},
         op' = Missing, last' \in Reports, SuccessMeansLoaded', FailureRestores'
  PROVE  IInv'
<1>1. TypeOK'
  BY Faults DEF IInv, TypeOK, dirVars, bounds
<1>2. World'
  BY WorldKept DEF IInv, dirVars, bounds
<1>3. Told'
  BY DEF Told
<1> QED BY <1>1, <1>2, <1>3, NoConduct DEF IInv

\* The report of an operation.
LEMMA EndFields ==
  ASSUME op \in Operations,
         NEW r \in Results \cup {"changed", "unchanged", "foreign", "notinstalled", "exists", "rollbackfailed"},
         End(r)
  PROVE  /\ op' = Missing /\ last' \in Reports /\ last' # Missing /\ last'.res = r
         /\ last'.kind = op.kind /\ last'.want = op.want /\ last'.begun = op.begun
         /\ last'.prev = op.prev /\ last'.was = op.was
<1>1. last' \in Reports
  BY DEF End, Reports, Operations
<1> QED BY <1>1, MissingAssumption DEF End

\* An operation that ends before its own work has promised nothing.
LEMMA EarlyEnd ==
  ASSUME IInv, op # Missing, ~op.begun, Fine \/ Fault, UNCHANGED <<dirVars, sysdVars, aliens, seq, bounds>>,
         snap' \in Snaps \cup {Missing}, NEW r \in Results \cup {"foreign"}, End(r)
  PROVE  IInv'
<1>1. op \in Operations /\ enabled \in BOOLEAN
  BY DEF IInv, TypeOK
<1>2. op' = Missing /\ last' \in Reports /\ last' # Missing /\ last'.res = r /\ ~last'.begun
  BY <1>1, EndFields
<1>3. SuccessMeansLoaded' /\ FailureRestores'
  BY <1>2 DEF SuccessMeansLoaded, FailureRestores, Results
<1> QED BY <1>1, <1>2, <1>3, EndStep DEF sysdVars

\* The end of an operation that had begun.
LEMMA MainEnd ==
  ASSUME IInv, op # Missing, op.begun, Fine \/ Fault,
         UNCHANGED <<dirVars, loaded, snap, aliens, seq, bounds>>, enabled' \in BOOLEAN,
         NEW r \in Results \cup {"changed", "unchanged", "foreign", "notinstalled", "exists", "rollbackfailed"}, End(r),
         races = 0 /\ r \in {"changed", "unchanged"} =>
           /\ loaded = DataOf(unit) /\ jour = Missing /\ ~tomb
           /\ op.kind \in {"install", "update", "remove"} => DataOf(unit) = op.want
           /\ op.kind \in {"enable", "disable"} => enabled' = (op.kind = "enable"),
         races = 0 /\ r \notin {"changed", "unchanged", "needs", "repair", "rollbackfailed"} =>
           /\ Undone \/ Resumable
           /\ unit # Missing => enabled' = op.was
  PROVE  IInv'
<1>1. op \in Operations /\ snap \in Snaps \cup {Missing}
  BY DEF IInv, TypeOK
<1>2. /\ op' = Missing /\ last' \in Reports /\ last' # Missing /\ last'.res = r
      /\ last'.kind = op.kind /\ last'.want = op.want /\ last'.prev = op.prev /\ last'.was = op.was
  BY <1>1, EndFields
<1>3. unit' = unit /\ jour' = jour /\ tomb' = tomb /\ loaded' = loaded /\ races' = races /\ snap' = snap
  BY DEF dirVars, bounds
<1>4. SuccessMeansLoaded'
  BY <1>2, <1>3 DEF SuccessMeansLoaded, DataOf
<1>5. FailureRestores'
  BY <1>2, <1>3 DEF FailureRestores, DataOf, Undone, Resumable, Leads
<1> QED BY <1>1, <1>2, <1>3, <1>4, <1>5, EndStep

\* An operation at a label.
LEMMA AtFacts ==
  ASSUME IInv, NEW l, At(l)
  PROVE  op \in Operations /\ op # Missing /\ op.cas = NoCas /\ op.at = l /\ op.tmp \in 0..seq
  BY DEF At, TypeOK, IInv

\* A journal an operation has written leads from what it replaces to what it puts there.
LEMMA PostedLeads ==
  ASSUME IInv, op # Missing, Posted, op.at \in Published \cup Taking \cup {"abort", "aborted"}
  PROVE  Named /\ Phased /\ Leads(Source, Goal) /\ (races = 0 => DataOf(unit) = Source \/ Achieved)
<1>1. op.ctx \in Main /\ DataOf(op.exp) = Source
  BY DEF IInv, Conduct, Flow, Errand
<1>2. op.at \in Writing => DataOf(op.new) = Goal /\ jour.after = op.new
  <2>1. op \in Operations
    BY DEF IInv, TypeOK
  <2>2. op.at \in Writing => op.new # Missing /\ op.new.data = Goal
    BY <2>1, MissingAssumption, UnitAssumption DEF IInv, Conduct, Errand, Operations, Ours
  <2> QED BY <2>2 DEF DataOf, Posted
<1>3. op.at \in Taking => Goal = Missing /\ jour.after = Missing
  BY DEF IInv, Conduct, Errand, Posted
<1>4. Leads(Source, Goal)
  BY <1>1, <1>2, <1>3 DEF Leads, Posted, Named, DataOf
<1>5. races = 0 => unit = jour.before \/ unit = jour.after
  BY <1>4 DEF IInv, World, Directory, Shape, Leads
<1> QED BY <1>4, <1>5 DEF Posted, Named, Achieved, Leads

-----------------------------------------------------------------------------
(* Steps of an operation, one lemma per action                                *)

\* ensure_manager goes on to the recovery or ends the operation.
LEMMA EnsureStep ==
  ASSUME IInv, EnsureManager
  PROVE  IInv'
<1>1. op \in Operations /\ op.cas = NoCas /\ op.at = "ensure" /\ op # Missing /\ op.ctx = "none" /\ ~op.begun
      /\ op.tmp \in 0..seq
  BY DEF EnsureManager, At, TypeOK, IInv, Flow, Conduct
<1>2. CASE Fine /\ Go("recover") /\ Goes
  <2>1. op' \in Operations /\ op' # Missing /\ op'.at = "recover" /\ op'.ctx = "none" /\ op'.cas = NoCas
         /\ ~op'.begun /\ Same(op', op) /\ Holds(op', op)
    BY <1>1, <1>2, GoFields DEF Labels
  <2>2. Flow' /\ Errand' /\ Enablement' /\ Exchange'
    BY <1>1, <2>1 DEF IInv, Conduct, Flow, Errand, Enablement, Exchange, Same
  <2>3. Journal' /\ Place'
    BY <2>1 DEF Journal, Place, Progress, Reloads, Smooth, Pending
  <2> QED BY <1>1, <1>2, <2>1, <2>2, <2>3, LocalStep DEF EnsureManager, Local, Conduct, Holds
<1>3. ASSUME NEW r \in {"cancelled", "command"}, End(r), Fine \/ Fault
      PROVE  IInv'
  BY <1>1, <1>3, EarlyEnd DEF EnsureManager, IInv, TypeOK, Results
<1> QED BY <1>2, <1>3 DEF EnsureManager

-----------------------------------------------------------------------------
(* atomic_replace and atomic_remove                                           *)

\* The journal is on record: the staged file is published.
LEMMA WritePublishesStep ==
  ASSUME IInv, WritePublishes
  PROVE  IInv'
<1>1. op \in Operations /\ op.cas = NoCas /\ op.at = "publishing" /\ op # Missing /\ op.tmp \in 0..seq
  BY AtFacts DEF Decide, Concludes, WritePublishes
<1>2. op.ctx \in {"fwd", "back", "rmback"} /\ op.begun /\ Posted /\ op.new \in Ours /\ op.exp \in Ours \cup {Missing}
      /\ Leads(Source, Goal) /\ Named /\ Phased /\ jour.temp = op.tmp /\ jour.before = op.exp
      /\ jour.after = op.new /\ (races = 0 => DataOf(unit) = Source \/ Achieved)
  BY <1>1, MissingAssumption, PostedLeads
     DEF IInv, Conduct, Flow, Errand, Journal, Operations, Ours, Posted
<1>3. Local /\ Fine /\ Goes
  BY DEF WritePublishes, Decide, Local
<1>4. CASE unit # op.exp /\ Answer("abort", "conflict")
  <2>1. op' \in Operations /\ op' # Missing /\ op'.at = "abort" /\ op'.ctx = op.ctx /\ op'.cas = NoCas
       /\ op'.ret = "conflict" /\ op'.begun = op.begun /\ op'.orig = op.orig /\ Same(op', op) /\ Holds(op', op)
    BY <1>1, <1>2, <1>4, AnswerFields DEF Labels, Results
  <2>2. Flow' /\ Errand' /\ Enablement' /\ Exchange'
    BY <1>1, <1>2, <1>3, <1>4, <2>1
       DEF IInv, Conduct, Flow, Errand, Enablement, Exchange, Same, Holds, Local, dirVars, sysdVars,
            Goal, Source, DataOf, Staged
  <2>3. Posted'
    BY <1>1, <1>2, <1>3, <1>4, <2>1 DEF Posted, Local, dirVars, Named, Phased, Holds
  <2>4. Journal'
    BY <1>1, <1>2, <1>3, <1>4, <2>1, <2>3
       DEF IInv, Conduct, Journal, Local, dirVars, Same, Holds, Named, Leads, Phased, Found, DataOf,
            Goal, Source
  <2>5. Place'
    BY <1>1, <1>2, <1>3, <1>4, <2>1, <2>3
       DEF IInv, Conduct, Place, Progress, Reloads, Smooth, Pending, Local, dirVars, sysdVars,
            bounds, Same, Holds, Staged, Fine, Goal, Source, DataOf, Named, Leads, Achieved
  <2> QED BY <1>1, <1>3, <1>4, <2>1, <2>2, <2>4, <2>5, LocalStep DEF Conduct, Holds
<1>5. CASE unit = op.exp /\ op.exp = Missing /\ Cas("put", op.new, Missing, "put")
  <2> DEFINE m == op.new
  <2> DEFINE t == Missing
  <2>1. op' \in Operations /\ op' # Missing /\ op'.at = "put" /\ op'.ctx = op.ctx /\ op'.cas # NoCas
       /\ op'.cas.kind = "put" /\ op'.cas.mine = m /\ op'.cas.theirs = t /\ ~op'.cas.checked
       /\ op'.ret = op.ret /\ op'.begun = op.begun /\ Same(op', op) /\ Holds(op', op)
    <3>1. m \in Ours \cup {Missing} /\ t \in Ours \cup {Missing} /\ "put" \in Labels
         /\ Cas("put", m, t, "put")
      BY <1>1, <1>2, <1>5 DEF Labels
    <3> HIDE DEF m, t
    <3> QED BY <1>1, <3>1, CasFields
  <2>2. Flow' /\ Errand' /\ Enablement' /\ Exchange'
    BY <1>1, <1>2, <1>3, <1>5, <2>1
       DEF IInv, Conduct, Flow, Errand, Enablement, Exchange, Same, Holds, Local, dirVars, sysdVars,
            Goal, Source, DataOf, Staged
  <2>3. Posted'
    BY <1>1, <1>2, <1>3, <1>5, <2>1 DEF Posted, Local, dirVars, Named, Phased, Holds
  <2>4. Journal'
    BY <1>1, <1>2, <1>3, <1>5, <2>1, <2>3
       DEF IInv, Conduct, Journal, Local, dirVars, Same, Holds, Named, Leads, Phased, Found, DataOf,
            Goal, Source
  <2>5. Place'
    BY <1>1, <1>2, <1>3, <1>5, <2>1, <2>3
       DEF IInv, Conduct, Place, Progress, Reloads, Smooth, Pending, Local, dirVars, sysdVars,
            bounds, Same, Holds, Staged, Fine, Goal, Source, DataOf, Named, Leads, Achieved
  <2> QED BY <1>1, <1>3, <1>5, <2>1, <2>2, <2>4, <2>5, LocalStep DEF Conduct, Holds
<1>6. CASE unit = op.exp /\ op.exp # Missing /\ Cas("swap", op.new, op.exp, "swapped")
  <2> DEFINE m == op.new
  <2> DEFINE t == op.exp
  <2>1. op' \in Operations /\ op' # Missing /\ op'.at = "swapped" /\ op'.ctx = op.ctx /\ op'.cas # NoCas
       /\ op'.cas.kind = "swap" /\ op'.cas.mine = m /\ op'.cas.theirs = t /\ ~op'.cas.checked
       /\ op'.ret = op.ret /\ op'.begun = op.begun /\ Same(op', op) /\ Holds(op', op)
    <3>1. m \in Ours \cup {Missing} /\ t \in Ours \cup {Missing} /\ "swapped" \in Labels
         /\ Cas("swap", m, t, "swapped")
      BY <1>1, <1>2, <1>6 DEF Labels
    <3> HIDE DEF m, t
    <3> QED BY <1>1, <3>1, CasFields
  <2>2. Flow' /\ Errand' /\ Enablement' /\ Exchange'
    BY <1>1, <1>2, <1>3, <1>6, <2>1
       DEF IInv, Conduct, Flow, Errand, Enablement, Exchange, Same, Holds, Local, dirVars, sysdVars,
            Goal, Source, DataOf, Staged
  <2>3. Posted'
    BY <1>1, <1>2, <1>3, <1>6, <2>1 DEF Posted, Local, dirVars, Named, Phased, Holds
  <2>4. Journal'
    BY <1>1, <1>2, <1>3, <1>6, <2>1, <2>3
       DEF IInv, Conduct, Journal, Local, dirVars, Same, Holds, Named, Leads, Phased, Found, DataOf,
            Goal, Source
  <2>5. Place'
    BY <1>1, <1>2, <1>3, <1>6, <2>1, <2>3
       DEF IInv, Conduct, Place, Progress, Reloads, Smooth, Pending, Local, dirVars, sysdVars,
            bounds, Same, Holds, Staged, Fine, Goal, Source, DataOf, Named, Leads, Achieved
  <2> QED BY <1>1, <1>3, <1>6, <2>1, <2>2, <2>4, <2>5, LocalStep DEF Conduct, Holds
<1> QED BY <1>4, <1>5, <1>6 DEF WritePublishes

\* The answer of the rename that publishes a new unit.
LEMMA PutStep ==
  ASSUME IInv, Decide("put"), Fine, Go(IF op.ret = "ok" THEN "sync" ELSE "abort")
  PROVE  IInv'
<1>1. op \in Operations /\ op.cas = NoCas /\ op.at = "put" /\ op # Missing /\ op.tmp \in 0..seq
  BY AtFacts DEF Decide, Concludes
<1>2. op.ctx \in {"fwd", "back", "rmback"} /\ op.begun /\ Posted /\ op.new \in Ours /\ op.exp \in Ours \cup {Missing}
      /\ Leads(Source, Goal) /\ Named /\ Phased /\ jour.temp = op.tmp /\ jour.before = op.exp
      /\ jour.after = op.new /\ (races = 0 => DataOf(unit) = Source \/ Achieved)
  BY <1>1, MissingAssumption, PostedLeads
     DEF IInv, Conduct, Flow, Errand, Journal, Operations, Ours, Posted
<1>3. Local /\ Fine /\ Goes
  BY DEF Decide, Local
<1>4. CASE op.ret = "ok" /\ Go("sync")
  <2>1. op' \in Operations /\ op' # Missing /\ op'.at = "sync" /\ op'.ctx = op.ctx /\ op'.cas = NoCas
       /\ op'.ret = op.ret /\ op'.begun = op.begun /\ op'.orig = op.orig /\ Same(op', op) /\ Holds(op', op)
    BY <1>1, <1>2, <1>4, GoFields DEF Labels, Results
  <2>2. Flow' /\ Errand' /\ Enablement' /\ Exchange'
    BY <1>1, <1>2, <1>3, <1>4, <2>1
       DEF IInv, Conduct, Flow, Errand, Enablement, Exchange, Same, Holds, Local, dirVars, sysdVars,
            Goal, Source, DataOf, Staged
  <2>4. Journal'
    BY <1>1, <1>2, <1>3, <1>4, <2>1
       DEF IInv, Conduct, Journal, Local, dirVars, Same, Holds, Named, Leads, Phased, Found, DataOf,
            Goal, Source
  <2>5. Place'
    BY <1>1, <1>2, <1>3, <1>4, <2>1
       DEF IInv, Conduct, Place, Progress, Reloads, Smooth, Pending, Local, dirVars, sysdVars,
            bounds, Same, Holds, Staged, Fine, Goal, Source, DataOf, Named, Leads, Achieved
  <2> QED BY <1>1, <1>3, <1>4, <2>1, <2>2, <2>4, <2>5, LocalStep DEF Conduct, Holds
<1>5. CASE op.ret # "ok" /\ Go("abort")
  <2>1. op' \in Operations /\ op' # Missing /\ op'.at = "abort" /\ op'.ctx = op.ctx /\ op'.cas = NoCas
       /\ op'.ret = op.ret /\ op'.begun = op.begun /\ op'.orig = op.orig /\ Same(op', op) /\ Holds(op', op)
    BY <1>1, <1>2, <1>5, GoFields DEF Labels, Results
  <2>2. Flow' /\ Errand' /\ Enablement' /\ Exchange'
    BY <1>1, <1>2, <1>3, <1>5, <2>1
       DEF IInv, Conduct, Flow, Errand, Enablement, Exchange, Same, Holds, Local, dirVars, sysdVars,
            Goal, Source, DataOf, Staged
  <2>3. Posted'
    BY <1>1, <1>2, <1>3, <1>5, <2>1 DEF Posted, Local, dirVars, Named, Phased, Holds
  <2>4. Journal'
    BY <1>1, <1>2, <1>3, <1>5, <2>1, <2>3
       DEF IInv, Conduct, Journal, Local, dirVars, Same, Holds, Named, Leads, Phased, Found, DataOf,
            Goal, Source
  <2>5. Place'
    BY <1>1, <1>2, <1>3, <1>5, <2>1, <2>3
       DEF IInv, Conduct, Place, Progress, Reloads, Smooth, Pending, Local, dirVars, sysdVars,
            bounds, Same, Holds, Staged, Fine, Goal, Source, DataOf, Named, Leads, Achieved
  <2> QED BY <1>1, <1>3, <1>5, <2>1, <2>2, <2>4, <2>5, LocalStep DEF Conduct, Holds
<1> QED BY <1>4, <1>5 

\* The answer of the exchange that publishes another content.
LEMMA SwappedStep ==
  ASSUME IInv, Decide("swapped"), Fine,
         IF op.ret = "ok" THEN Cas("drop", op.exp, Missing, "dropped") ELSE Go("abort")
  PROVE  IInv'
<1>1. op \in Operations /\ op.cas = NoCas /\ op.at = "swapped" /\ op # Missing /\ op.tmp \in 0..seq
  BY AtFacts DEF Decide, Concludes
<1>2. op.ctx \in {"fwd", "back", "rmback"} /\ op.begun /\ Posted /\ op.new \in Ours /\ op.exp \in Ours \cup {Missing}
      /\ Leads(Source, Goal) /\ Named /\ Phased /\ jour.temp = op.tmp /\ jour.before = op.exp
      /\ jour.after = op.new /\ (races = 0 => DataOf(unit) = Source \/ Achieved)
  BY <1>1, MissingAssumption, PostedLeads
     DEF IInv, Conduct, Flow, Errand, Journal, Operations, Ours, Posted
<1>3. Local /\ Fine /\ Goes
  BY DEF Decide, Local
<1>4. CASE op.ret = "ok" /\ Cas("drop", op.exp, Missing, "dropped")
  <2> DEFINE m == op.exp
  <2> DEFINE t == Missing
  <2>1. op' \in Operations /\ op' # Missing /\ op'.at = "dropped" /\ op'.ctx = op.ctx /\ op'.cas # NoCas
       /\ op'.cas.kind = "drop" /\ op'.cas.mine = m /\ op'.cas.theirs = t /\ ~op'.cas.checked
       /\ op'.ret = op.ret /\ op'.begun = op.begun /\ Same(op', op) /\ Holds(op', op)
    <3>1. m \in Ours \cup {Missing} /\ t \in Ours \cup {Missing} /\ "dropped" \in Labels
         /\ Cas("drop", m, t, "dropped")
      BY <1>1, <1>2, <1>4 DEF Labels
    <3> HIDE DEF m, t
    <3> QED BY <1>1, <3>1, CasFields
  <2>2. Flow' /\ Errand' /\ Enablement' /\ Exchange'
    BY <1>1, <1>2, <1>3, <1>4, <2>1
       DEF IInv, Conduct, Flow, Errand, Enablement, Exchange, Same, Holds, Local, dirVars, sysdVars,
            Goal, Source, DataOf, Staged
  <2>3. Posted'
    BY <1>1, <1>2, <1>3, <1>4, <2>1 DEF Posted, Local, dirVars, Named, Phased, Holds
  <2>4. Journal'
    BY <1>1, <1>2, <1>3, <1>4, <2>1, <2>3
       DEF IInv, Conduct, Journal, Local, dirVars, Same, Holds, Named, Leads, Phased, Found, DataOf,
            Goal, Source
  <2>5. Place'
    BY <1>1, <1>2, <1>3, <1>4, <2>1, <2>3
       DEF IInv, Conduct, Place, Progress, Reloads, Smooth, Pending, Local, dirVars, sysdVars,
            bounds, Same, Holds, Staged, Fine, Goal, Source, DataOf, Named, Leads, Achieved
  <2> QED BY <1>1, <1>3, <1>4, <2>1, <2>2, <2>4, <2>5, LocalStep DEF Conduct, Holds
<1>5. CASE op.ret # "ok" /\ Go("abort")
  <2>1. op' \in Operations /\ op' # Missing /\ op'.at = "abort" /\ op'.ctx = op.ctx /\ op'.cas = NoCas
       /\ op'.ret = op.ret /\ op'.begun = op.begun /\ op'.orig = op.orig /\ Same(op', op) /\ Holds(op', op)
    BY <1>1, <1>2, <1>5, GoFields DEF Labels, Results
  <2>2. Flow' /\ Errand' /\ Enablement' /\ Exchange'
    BY <1>1, <1>2, <1>3, <1>5, <2>1
       DEF IInv, Conduct, Flow, Errand, Enablement, Exchange, Same, Holds, Local, dirVars, sysdVars,
            Goal, Source, DataOf, Staged
  <2>3. Posted'
    BY <1>1, <1>2, <1>3, <1>5, <2>1 DEF Posted, Local, dirVars, Named, Phased, Holds
  <2>4. Journal'
    BY <1>1, <1>2, <1>3, <1>5, <2>1, <2>3
       DEF IInv, Conduct, Journal, Local, dirVars, Same, Holds, Named, Leads, Phased, Found, DataOf,
            Goal, Source
  <2>5. Place'
    BY <1>1, <1>2, <1>3, <1>5, <2>1, <2>3
       DEF IInv, Conduct, Place, Progress, Reloads, Smooth, Pending, Local, dirVars, sysdVars,
            bounds, Same, Holds, Staged, Fine, Goal, Source, DataOf, Named, Leads, Achieved
  <2> QED BY <1>1, <1>3, <1>5, <2>1, <2>2, <2>4, <2>5, LocalStep DEF Conduct, Holds
<1> QED BY <1>4, <1>5 

\* What was displaced is gone, or the publication is taken back.
LEMMA WriteDroppedStep ==
  ASSUME IInv, WriteDropped
  PROVE  IInv'
<1>1. op \in Operations /\ op.cas = NoCas /\ op.at = "dropped" /\ op # Missing /\ op.tmp \in 0..seq
  BY AtFacts DEF Decide, Concludes, WriteDropped
<1>2. op.ctx \in {"fwd", "back", "rmback"} /\ op.begun /\ Posted /\ op.new \in Ours /\ op.exp \in Ours \cup {Missing}
      /\ Leads(Source, Goal) /\ Named /\ Phased /\ jour.temp = op.tmp /\ jour.before = op.exp
      /\ jour.after = op.new /\ (races = 0 => DataOf(unit) = Source \/ Achieved)
  BY <1>1, MissingAssumption, PostedLeads
     DEF IInv, Conduct, Flow, Errand, Journal, Operations, Ours, Posted
<1>3. Local /\ Fine /\ Goes
  BY DEF WriteDropped, Decide, Local
<1>4. CASE op.ret = "ok" /\ Go("sync")
  <2>1. op' \in Operations /\ op' # Missing /\ op'.at = "sync" /\ op'.ctx = op.ctx /\ op'.cas = NoCas
       /\ op'.ret = op.ret /\ op'.begun = op.begun /\ op'.orig = op.orig /\ Same(op', op) /\ Holds(op', op)
    BY <1>1, <1>2, <1>4, GoFields DEF Labels, Results
  <2>2. Flow' /\ Errand' /\ Enablement' /\ Exchange'
    BY <1>1, <1>2, <1>3, <1>4, <2>1
       DEF IInv, Conduct, Flow, Errand, Enablement, Exchange, Same, Holds, Local, dirVars, sysdVars,
            Goal, Source, DataOf, Staged
  <2>4. Journal'
    BY <1>1, <1>2, <1>3, <1>4, <2>1
       DEF IInv, Conduct, Journal, Local, dirVars, Same, Holds, Named, Leads, Phased, Found, DataOf,
            Goal, Source
  <2>5. Place'
    BY <1>1, <1>2, <1>3, <1>4, <2>1
       DEF IInv, Conduct, Place, Progress, Reloads, Smooth, Pending, Local, dirVars, sysdVars,
            bounds, Same, Holds, Staged, Fine, Goal, Source, DataOf, Named, Leads, Achieved
  <2> QED BY <1>1, <1>3, <1>4, <2>1, <2>2, <2>4, <2>5, LocalStep DEF Conduct, Holds
<1>5. CASE /\ op.ret # "ok"
          /\ op' = [op EXCEPT !.at = "takenback", !.err = op.ret,
                              !.cas = [kind |-> "swap", mine |-> op.exp, theirs |-> op.new, checked |-> FALSE]]
  <2>1. op' \in Operations /\ op' # Missing /\ op'.at = "takenback" /\ op'.ctx = op.ctx /\ op'.cas # NoCas
       /\ op'.cas.kind = "swap" /\ op'.cas.mine = op.exp /\ op'.cas.theirs = op.new /\ ~op'.cas.checked
       /\ op'.ret = op.ret /\ op'.err = op.ret /\ op'.begun = op.begun /\ Same(op', op) /\ Holds(op', op)
    <3> DEFINE c == [kind |-> "swap", mine |-> op.exp, theirs |-> op.new, checked |-> FALSE]
    <3>1. c \in Exchanges /\ c # NoCas /\ c.kind = "swap" /\ c.mine = op.exp /\ c.theirs = op.new /\ ~c.checked
      BY <1>2 DEF Exchanges, NoCas
    <3>2. op' = [op EXCEPT !.at = "takenback", !.err = op.ret, !.cas = c] /\ "takenback" \in Labels
      BY <1>1, <1>2, <1>5 DEF Labels
    <3> HIDE DEF c
    <3> QED BY <1>1, <3>1, <3>2, UndoFields
  <2>2. Flow' /\ Errand' /\ Enablement' /\ Exchange'
    BY <1>1, <1>2, <1>3, <1>5, <2>1
       DEF IInv, Conduct, Flow, Errand, Enablement, Exchange, Same, Holds, Local, dirVars, sysdVars,
            Goal, Source, DataOf, Staged
  <2>3. Posted'
    BY <1>1, <1>2, <1>3, <1>5, <2>1 DEF Posted, Local, dirVars, Named, Phased, Holds
  <2>4. Journal'
    BY <1>1, <1>2, <1>3, <1>5, <2>1, <2>3
       DEF IInv, Conduct, Journal, Local, dirVars, Same, Holds, Named, Leads, Phased, Found, DataOf,
            Goal, Source
  <2>5. Place'
    BY <1>1, <1>2, <1>3, <1>5, <2>1, <2>3
       DEF IInv, Conduct, Place, Progress, Reloads, Smooth, Pending, Local, dirVars, sysdVars,
            bounds, Same, Holds, Staged, Fine, Goal, Source, DataOf, Named, Leads, Achieved
  <2> QED BY <1>1, <1>3, <1>5, <2>1, <2>2, <2>4, <2>5, LocalStep DEF Conduct, Holds
<1> QED BY <1>4, <1>5 DEF WriteDropped

\* The publication is taken back, or it stands and needs a reload.
LEMMA WriteTakenBackStep ==
  ASSUME IInv, WriteTakenBack
  PROVE  IInv'
<1>1. op \in Operations /\ op.cas = NoCas /\ op.at = "takenback" /\ op # Missing /\ op.tmp \in 0..seq
  BY AtFacts DEF Decide, Concludes, WriteTakenBack
<1>2. op.ctx \in {"fwd", "back", "rmback"} /\ op.begun /\ Posted /\ op.new \in Ours /\ op.exp \in Ours \cup {Missing}
      /\ Leads(Source, Goal) /\ Named /\ Phased /\ jour.temp = op.tmp /\ jour.before = op.exp
      /\ jour.after = op.new /\ (races = 0 => DataOf(unit) = Source \/ Achieved) /\ op.err \in Results
  BY <1>1, MissingAssumption, PostedLeads
     DEF IInv, Conduct, Flow, Errand, Journal, Operations, Ours, Posted
<1>3. Local /\ Fine /\ Goes
  BY DEF WriteTakenBack, Decide, Local
<1>4. CASE op.ret = "ok" /\ Answer("abort", op.err)
  <2>1. op' \in Operations /\ op' # Missing /\ op'.at = "abort" /\ op'.ctx = op.ctx /\ op'.cas = NoCas
       /\ op'.ret = op.err /\ op'.begun = op.begun /\ op'.orig = op.orig /\ Same(op', op) /\ Holds(op', op)
    BY <1>1, <1>2, <1>4, AnswerFields, ZenonT(40) DEF Labels, Results
  <2>2. Flow' /\ Errand' /\ Enablement' /\ Exchange'
    BY <1>1, <1>2, <1>3, <1>4, <2>1
       DEF IInv, Conduct, Flow, Errand, Enablement, Exchange, Same, Holds, Local, dirVars, sysdVars,
            Goal, Source, DataOf, Staged
  <2>3. Posted'
    BY <1>1, <1>2, <1>3, <1>4, <2>1 DEF Posted, Local, dirVars, Named, Phased, Holds
  <2>4. Journal'
    BY <1>1, <1>2, <1>3, <1>4, <2>1, <2>3
       DEF IInv, Conduct, Journal, Local, dirVars, Same, Holds, Named, Leads, Phased, Found, DataOf,
            Goal, Source
  <2>5. Place'
    BY <1>1, <1>2, <1>3, <1>4, <2>1, <2>3
       DEF IInv, Conduct, Place, Progress, Reloads, Smooth, Pending, Local, dirVars, sysdVars,
            bounds, Same, Holds, Staged, Fine, Goal, Source, DataOf, Named, Leads, Achieved
  <2> QED BY <1>1, <1>3, <1>4, <2>1, <2>2, <2>4, <2>5, LocalStep DEF Conduct, Holds
<1>5. CASE op.ret # "ok" /\ Answer("stored", "needs")
  <2>1. op' \in Operations /\ op' # Missing /\ op'.at = "stored" /\ op'.ctx = op.ctx /\ op'.cas = NoCas
       /\ op'.ret = "needs" /\ op'.begun = op.begun /\ op'.orig = op.orig /\ Same(op', op) /\ Holds(op', op)
    BY <1>1, <1>2, <1>5, AnswerFields DEF Labels, Results
  <2>2. Flow' /\ Errand' /\ Enablement' /\ Exchange'
    BY <1>1, <1>2, <1>3, <1>5, <2>1
       DEF IInv, Conduct, Flow, Errand, Enablement, Exchange, Same, Holds, Local, dirVars, sysdVars,
            Goal, Source, DataOf, Staged
  <2>4. Journal'
    BY <1>1, <1>2, <1>3, <1>5, <2>1
       DEF IInv, Conduct, Journal, Local, dirVars, Same, Holds, Named, Leads, Phased, Found, DataOf,
            Goal, Source
  <2>5. Place'
    BY <1>1, <1>2, <1>3, <1>5, <2>1
       DEF IInv, Conduct, Place, Progress, Reloads, Smooth, Pending, Local, dirVars, sysdVars,
            bounds, Same, Holds, Staged, Fine, Goal, Source, DataOf, Named, Leads, Achieved
  <2> QED BY <1>1, <1>3, <1>5, <2>1, <2>2, <2>4, <2>5, LocalStep DEF Conduct, Holds
<1> QED BY <1>4, <1>5 DEF WriteTakenBack

\* What was staged is to be removed.
LEMMA AbortStep ==
  ASSUME IInv, Decide("abort"), Fine,
         op' = [op EXCEPT !.at = "aborted", !.err = op.ret,
                          !.cas = [kind |-> "drop", mine |-> op.new, theirs |-> Missing, checked |-> FALSE]]
  PROVE  IInv'
<1>1. op \in Operations /\ op.cas = NoCas /\ op.at = "abort" /\ op # Missing /\ op.tmp \in 0..seq
  BY AtFacts DEF Decide, Concludes
<1>2. op.ctx \in {"fwd", "back", "rmback"} /\ op.begun /\ op.new \in Ours
  BY <1>1, MissingAssumption, PostedLeads
     DEF IInv, Conduct, Flow, Errand, Journal, Operations, Ours, Posted
<1>3. Local /\ Fine /\ Goes
  BY DEF Decide, Local
<1>4. CASE TRUE
  <2>1. op' \in Operations /\ op' # Missing /\ op'.at = "aborted" /\ op'.ctx = op.ctx /\ op'.cas # NoCas
       /\ op'.cas.kind = "drop" /\ op'.cas.mine = op.new /\ op'.cas.theirs = Missing /\ ~op'.cas.checked
       /\ op'.ret = op.ret /\ op'.err = op.ret /\ op'.begun = op.begun /\ Same(op', op) /\ Holds(op', op)
    <3> DEFINE c == [kind |-> "drop", mine |-> op.new, theirs |-> Missing, checked |-> FALSE]
    <3>1. c \in Exchanges /\ c # NoCas /\ c.kind = "drop" /\ c.mine = op.new /\ c.theirs = Missing /\ ~c.checked
      BY <1>2 DEF Exchanges, NoCas
    <3>2. op' = [op EXCEPT !.at = "aborted", !.err = op.ret, !.cas = c] /\ "aborted" \in Labels
      BY <1>1, <1>2, <1>4 DEF Labels
    <3> HIDE DEF c
    <3> QED BY <1>1, <3>1, <3>2, UndoFields, ZenonT(40)
  <2>2. Flow' /\ Errand' /\ Enablement' /\ Exchange'
    BY <1>1, <1>2, <1>3, <1>4, <2>1
       DEF IInv, Conduct, Flow, Errand, Enablement, Exchange, Same, Holds, Local, dirVars, sysdVars,
            Goal, Source, DataOf, Staged
  <2>4. Journal'
    BY <1>1, <1>2, <1>3, <1>4, <2>1
       DEF IInv, Conduct, Journal, Local, dirVars, Same, Holds, Named, Leads, Phased, Found, DataOf,
            Goal, Source, Posted
  <2>5. Place'
    BY <1>1, <1>2, <1>3, <1>4, <2>1
       DEF IInv, Conduct, Place, Progress, Reloads, Smooth, Pending, Local, dirVars, sysdVars,
            bounds, Same, Holds, Staged, Fine, Goal, Source, DataOf, Named, Leads, Achieved, Posted,
            Phased
  <2> QED BY <1>1, <1>3, <1>4, <2>1, <2>2, <2>4, <2>5, LocalStep DEF Conduct, Holds
<1> QED BY <1>4 

\* It has been removed or not: the caller hears of the error before.
LEMMA AbortedStep ==
  ASSUME IInv, Decide("aborted"), Fine, Answer("stored", op.err)
  PROVE  IInv'
<1>1. op \in Operations /\ op.cas = NoCas /\ op.at = "aborted" /\ op # Missing /\ op.tmp \in 0..seq
  BY AtFacts DEF Decide, Concludes
<1>2. op.ctx \in {"fwd", "back", "rmback"} /\ op.begun /\ op.err \in Results /\ op.err \notin {"ok", "needs"}
      /\ (Posted => Leads(Source, Goal) /\ Phased /\ (races = 0 => DataOf(unit) = Source \/ Achieved))
      /\ (~Posted => Found /\ (races = 0 => DataOf(unit) = Source))
  BY <1>1, MissingAssumption, PostedLeads
     DEF IInv, Conduct, Flow, Errand, Journal, Operations, Ours, Posted, Place, Progress
<1>3. Local /\ Fine /\ Goes
  BY DEF Decide, Local
<1>4. CASE TRUE
  <2>1. op' \in Operations /\ op' # Missing /\ op'.at = "stored" /\ op'.ctx = op.ctx /\ op'.cas = NoCas
       /\ op'.ret = op.err /\ op'.begun = op.begun /\ op'.orig = op.orig /\ Same(op', op) /\ Holds(op', op)
    BY <1>1, <1>2, <1>4, AnswerFields, ZenonT(40) DEF Labels, Results
  <2>2. Flow' /\ Errand' /\ Enablement' /\ Exchange'
    BY <1>1, <1>2, <1>3, <1>4, <2>1
       DEF IInv, Conduct, Flow, Errand, Enablement, Exchange, Same, Holds, Local, dirVars, sysdVars,
            Goal, Source, DataOf, Staged
  <2>4. Journal'
    BY <1>1, <1>2, <1>3, <1>4, <2>1
       DEF IInv, Conduct, Journal, Local, dirVars, Same, Holds, Named, Leads, Phased, Found, DataOf,
            Goal, Source
  <2>5. Place'
    BY <1>1, <1>2, <1>3, <1>4, <2>1
       DEF IInv, Conduct, Place, Progress, Reloads, Smooth, Pending, Local, dirVars, sysdVars,
            bounds, Same, Holds, Staged, Fine, Goal, Source, DataOf, Named, Leads, Achieved
  <2> QED BY <1>1, <1>3, <1>4, <2>1, <2>2, <2>4, <2>5, LocalStep DEF Conduct, Holds
<1> QED BY <1>4 

\* The directory is synced.
LEMMA SyncStep ==
  ASSUME IInv, Decide("sync"), Fine \/ Fault, Answer("stored", "ok") \/ Answer("stored", "needs")
  PROVE  IInv'
<1>1. op \in Operations /\ op.cas = NoCas /\ op.at = "sync" /\ op # Missing /\ op.tmp \in 0..seq
  BY AtFacts DEF Decide, Concludes
<1>2. op.ctx \in Main /\ op.begun /\ Named /\ Phased /\ Leads(Source, Goal) /\ (races = 0 => Achieved)
  BY <1>1, MissingAssumption, PostedLeads
     DEF IInv, Conduct, Flow, Errand, Journal, Operations, Ours, Posted, Place, Progress, Leads,
          Named, Achieved
<1>3. Local /\ (Fine \/ Fault) /\ Goes
  BY DEF Decide, Local
<1>4. CASE Answer("stored", "ok")
  <2>1. op' \in Operations /\ op' # Missing /\ op'.at = "stored" /\ op'.ctx = op.ctx /\ op'.cas = NoCas
       /\ op'.ret = "ok" /\ op'.begun = op.begun /\ op'.orig = op.orig /\ Same(op', op) /\ Holds(op', op)
    BY <1>1, <1>2, <1>4, AnswerFields DEF Labels, Results
  <2>2. Flow' /\ Errand' /\ Enablement' /\ Exchange'
    BY <1>1, <1>2, <1>3, <1>4, <2>1
       DEF IInv, Conduct, Flow, Errand, Enablement, Exchange, Same, Holds, Local, dirVars, sysdVars,
            Goal, Source, DataOf, Staged
  <2>4. Journal'
    BY <1>1, <1>2, <1>3, <1>4, <2>1
       DEF IInv, Conduct, Journal, Local, dirVars, Same, Holds, Named, Leads, Phased, Found, DataOf,
            Goal, Source
  <2>5. Place'
    BY <1>1, <1>2, <1>3, <1>4, <2>1
       DEF IInv, Conduct, Place, Progress, Reloads, Smooth, Pending, Local, dirVars, sysdVars,
            bounds, Same, Holds, Staged, Fine, Goal, Source, DataOf, Named, Leads, Achieved
  <2> QED BY <1>1, <1>3, <1>4, <2>1, <2>2, <2>4, <2>5, LocalStep DEF Conduct, Holds
<1>5. CASE Answer("stored", "needs")
  <2>1. op' \in Operations /\ op' # Missing /\ op'.at = "stored" /\ op'.ctx = op.ctx /\ op'.cas = NoCas
       /\ op'.ret = "needs" /\ op'.begun = op.begun /\ op'.orig = op.orig /\ Same(op', op) /\ Holds(op', op)
    BY <1>1, <1>2, <1>5, AnswerFields DEF Labels, Results
  <2>2. Flow' /\ Errand' /\ Enablement' /\ Exchange'
    BY <1>1, <1>2, <1>3, <1>5, <2>1
       DEF IInv, Conduct, Flow, Errand, Enablement, Exchange, Same, Holds, Local, dirVars, sysdVars,
            Goal, Source, DataOf, Staged
  <2>4. Journal'
    BY <1>1, <1>2, <1>3, <1>5, <2>1
       DEF IInv, Conduct, Journal, Local, dirVars, Same, Holds, Named, Leads, Phased, Found, DataOf,
            Goal, Source
  <2>5. Place'
    BY <1>1, <1>2, <1>3, <1>5, <2>1
       DEF IInv, Conduct, Place, Progress, Reloads, Smooth, Pending, Local, dirVars, sysdVars,
            bounds, Same, Holds, Staged, Fine, Goal, Source, DataOf, Named, Leads, Achieved
  <2> QED BY <1>1, <1>3, <1>5, <2>1, <2>2, <2>4, <2>5, LocalStep DEF Conduct, Holds
<1> QED BY <1>4, <1>5 

\* The journal is on record: the unit is moved away.
LEMMA TakeStep ==
  ASSUME IInv, Decide("take"), Fine, Cas("take", op.exp, Missing, "taken")
  PROVE  IInv'
<1>1. op \in Operations /\ op.cas = NoCas /\ op.at = "take" /\ op # Missing /\ op.tmp \in 0..seq
  BY AtFacts DEF Decide, Concludes
<1>2. op.ctx \in {"rm", "back"} /\ op.begun /\ Posted /\ op.exp \in Ours \cup {Missing}
      /\ Leads(Source, Goal) /\ Named /\ Phased /\ jour.temp = op.tmp /\ jour.before = op.exp
      /\ jour.after = Missing /\ (races = 0 => DataOf(unit) = Source \/ Achieved)
  BY <1>1, MissingAssumption, PostedLeads
     DEF IInv, Conduct, Flow, Errand, Journal, Operations, Ours, Posted
<1>3. Local /\ Fine /\ Goes
  BY DEF Decide, Local
<1>4. CASE TRUE
  <2> DEFINE m == op.exp
  <2> DEFINE t == Missing
  <2>1. op' \in Operations /\ op' # Missing /\ op'.at = "taken" /\ op'.ctx = op.ctx /\ op'.cas # NoCas
       /\ op'.cas.kind = "take" /\ op'.cas.mine = m /\ op'.cas.theirs = t /\ ~op'.cas.checked
       /\ op'.ret = op.ret /\ op'.begun = op.begun /\ Same(op', op) /\ Holds(op', op)
    <3>1. m \in Ours \cup {Missing} /\ t \in Ours \cup {Missing} /\ "taken" \in Labels
         /\ Cas("take", m, t, "taken")
      BY <1>1, <1>2, <1>4 DEF Labels
    <3> HIDE DEF m, t
    <3> QED BY <1>1, <3>1, CasFields
  <2>2. Flow' /\ Errand' /\ Enablement' /\ Exchange'
    BY <1>1, <1>2, <1>3, <1>4, <2>1
       DEF IInv, Conduct, Flow, Errand, Enablement, Exchange, Same, Holds, Local, dirVars, sysdVars,
            Goal, Source, DataOf, Staged
  <2>3. Posted'
    BY <1>1, <1>2, <1>3, <1>4, <2>1 DEF Posted, Local, dirVars, Named, Phased, Holds
  <2>4. Journal'
    BY <1>1, <1>2, <1>3, <1>4, <2>1, <2>3
       DEF IInv, Conduct, Journal, Local, dirVars, Same, Holds, Named, Leads, Phased, Found, DataOf,
            Goal, Source
  <2>5. Place'
    BY <1>1, <1>2, <1>3, <1>4, <2>1, <2>3
       DEF IInv, Conduct, Place, Progress, Reloads, Smooth, Pending, Local, dirVars, sysdVars,
            bounds, Same, Holds, Staged, Fine, Goal, Source, DataOf, Named, Leads, Achieved
  <2> QED BY <1>1, <1>3, <1>4, <2>1, <2>2, <2>4, <2>5, LocalStep DEF Conduct, Holds
<1> QED BY <1>4 

\* The unit has been moved away, or the removal fails.
LEMMA TakenStep ==
  ASSUME IInv, Decide("taken"), Fine,
         IF op.ret = "ok" THEN Cas("drop", op.exp, Missing, "rmdropped") ELSE Go("stored")
  PROVE  IInv'
<1>1. op \in Operations /\ op.cas = NoCas /\ op.at = "taken" /\ op # Missing /\ op.tmp \in 0..seq
  BY AtFacts DEF Decide, Concludes
<1>2. op.ctx \in {"rm", "back"} /\ op.begun /\ Posted /\ op.exp \in Ours \cup {Missing}
      /\ Leads(Source, Goal) /\ Named /\ Phased /\ jour.temp = op.tmp /\ jour.before = op.exp
      /\ jour.after = Missing /\ (races = 0 => DataOf(unit) = Source \/ Achieved)
  BY <1>1, MissingAssumption, PostedLeads
     DEF IInv, Conduct, Flow, Errand, Journal, Operations, Ours, Posted
<1>3. Local /\ Fine /\ Goes
  BY DEF Decide, Local
<1>4. CASE op.ret = "ok" /\ Cas("drop", op.exp, Missing, "rmdropped")
  <2> DEFINE m == op.exp
  <2> DEFINE t == Missing
  <2>1. op' \in Operations /\ op' # Missing /\ op'.at = "rmdropped" /\ op'.ctx = op.ctx /\ op'.cas # NoCas
       /\ op'.cas.kind = "drop" /\ op'.cas.mine = m /\ op'.cas.theirs = t /\ ~op'.cas.checked
       /\ op'.ret = op.ret /\ op'.begun = op.begun /\ Same(op', op) /\ Holds(op', op)
    <3>1. m \in Ours \cup {Missing} /\ t \in Ours \cup {Missing} /\ "rmdropped" \in Labels
         /\ Cas("drop", m, t, "rmdropped")
      BY <1>1, <1>2, <1>4 DEF Labels
    <3> HIDE DEF m, t
    <3> QED BY <1>1, <3>1, CasFields
  <2>2. Flow' /\ Errand' /\ Enablement' /\ Exchange'
    BY <1>1, <1>2, <1>3, <1>4, <2>1
       DEF IInv, Conduct, Flow, Errand, Enablement, Exchange, Same, Holds, Local, dirVars, sysdVars,
            Goal, Source, DataOf, Staged
  <2>3. Posted'
    BY <1>1, <1>2, <1>3, <1>4, <2>1 DEF Posted, Local, dirVars, Named, Phased, Holds
  <2>4. Journal'
    BY <1>1, <1>2, <1>3, <1>4, <2>1, <2>3
       DEF IInv, Conduct, Journal, Local, dirVars, Same, Holds, Named, Leads, Phased, Found, DataOf,
            Goal, Source
  <2>5. Place'
    BY <1>1, <1>2, <1>3, <1>4, <2>1, <2>3
       DEF IInv, Conduct, Place, Progress, Reloads, Smooth, Pending, Local, dirVars, sysdVars,
            bounds, Same, Holds, Staged, Fine, Goal, Source, DataOf, Named, Leads, Achieved
  <2> QED BY <1>1, <1>3, <1>4, <2>1, <2>2, <2>4, <2>5, LocalStep DEF Conduct, Holds
<1>5. CASE op.ret # "ok" /\ Go("stored")
  <2>1. op' \in Operations /\ op' # Missing /\ op'.at = "stored" /\ op'.ctx = op.ctx /\ op'.cas = NoCas
       /\ op'.ret = op.ret /\ op'.begun = op.begun /\ op'.orig = op.orig /\ Same(op', op) /\ Holds(op', op)
    BY <1>1, <1>2, <1>5, GoFields DEF Labels, Results
  <2>2. Flow' /\ Errand' /\ Enablement' /\ Exchange'
    BY <1>1, <1>2, <1>3, <1>5, <2>1
       DEF IInv, Conduct, Flow, Errand, Enablement, Exchange, Same, Holds, Local, dirVars, sysdVars,
            Goal, Source, DataOf, Staged
  <2>4. Journal'
    BY <1>1, <1>2, <1>3, <1>5, <2>1
       DEF IInv, Conduct, Journal, Local, dirVars, Same, Holds, Named, Leads, Phased, Found, DataOf,
            Goal, Source
  <2>5. Place'
    BY <1>1, <1>2, <1>3, <1>5, <2>1
       DEF IInv, Conduct, Place, Progress, Reloads, Smooth, Pending, Local, dirVars, sysdVars,
            bounds, Same, Holds, Staged, Fine, Goal, Source, DataOf, Named, Leads, Achieved
  <2> QED BY <1>1, <1>3, <1>5, <2>1, <2>2, <2>4, <2>5, LocalStep DEF Conduct, Holds
<1> QED BY <1>4, <1>5 

\* What was moved away is gone, or is left for the recovery.
LEMMA RmDroppedStep ==
  ASSUME IInv, Decide("rmdropped"), Fine,
         IF op.ret = "ok" THEN Go("sync") ELSE Answer("stored", "needs")
  PROVE  IInv'
<1>1. op \in Operations /\ op.cas = NoCas /\ op.at = "rmdropped" /\ op # Missing /\ op.tmp \in 0..seq
  BY AtFacts DEF Decide, Concludes
<1>2. op.ctx \in {"rm", "back"} /\ op.begun /\ Posted /\ op.exp \in Ours \cup {Missing}
      /\ Leads(Source, Goal) /\ Named /\ Phased /\ jour.temp = op.tmp /\ jour.before = op.exp
      /\ jour.after = Missing /\ (races = 0 => DataOf(unit) = Source \/ Achieved)
  BY <1>1, MissingAssumption, PostedLeads
     DEF IInv, Conduct, Flow, Errand, Journal, Operations, Ours, Posted
<1>3. Local /\ Fine /\ Goes
  BY DEF Decide, Local
<1>4. CASE op.ret = "ok" /\ Go("sync")
  <2>1. op' \in Operations /\ op' # Missing /\ op'.at = "sync" /\ op'.ctx = op.ctx /\ op'.cas = NoCas
       /\ op'.ret = op.ret /\ op'.begun = op.begun /\ op'.orig = op.orig /\ Same(op', op) /\ Holds(op', op)
    BY <1>1, <1>2, <1>4, GoFields DEF Labels, Results
  <2>2. Flow' /\ Errand' /\ Enablement' /\ Exchange'
    BY <1>1, <1>2, <1>3, <1>4, <2>1
       DEF IInv, Conduct, Flow, Errand, Enablement, Exchange, Same, Holds, Local, dirVars, sysdVars,
            Goal, Source, DataOf, Staged
  <2>4. Journal'
    BY <1>1, <1>2, <1>3, <1>4, <2>1
       DEF IInv, Conduct, Journal, Local, dirVars, Same, Holds, Named, Leads, Phased, Found, DataOf,
            Goal, Source
  <2>5. Place'
    BY <1>1, <1>2, <1>3, <1>4, <2>1
       DEF IInv, Conduct, Place, Progress, Reloads, Smooth, Pending, Local, dirVars, sysdVars,
            bounds, Same, Holds, Staged, Fine, Goal, Source, DataOf, Named, Leads, Achieved
  <2> QED BY <1>1, <1>3, <1>4, <2>1, <2>2, <2>4, <2>5, LocalStep DEF Conduct, Holds
<1>5. CASE op.ret # "ok" /\ Answer("stored", "needs")
  <2>1. op' \in Operations /\ op' # Missing /\ op'.at = "stored" /\ op'.ctx = op.ctx /\ op'.cas = NoCas
       /\ op'.ret = "needs" /\ op'.begun = op.begun /\ op'.orig = op.orig /\ Same(op', op) /\ Holds(op', op)
    BY <1>1, <1>2, <1>5, AnswerFields DEF Labels, Results
  <2>2. Flow' /\ Errand' /\ Enablement' /\ Exchange'
    BY <1>1, <1>2, <1>3, <1>5, <2>1
       DEF IInv, Conduct, Flow, Errand, Enablement, Exchange, Same, Holds, Local, dirVars, sysdVars,
            Goal, Source, DataOf, Staged
  <2>4. Journal'
    BY <1>1, <1>2, <1>3, <1>5, <2>1
       DEF IInv, Conduct, Journal, Local, dirVars, Same, Holds, Named, Leads, Phased, Found, DataOf,
            Goal, Source
  <2>5. Place'
    BY <1>1, <1>2, <1>3, <1>5, <2>1
       DEF IInv, Conduct, Place, Progress, Reloads, Smooth, Pending, Local, dirVars, sysdVars,
            bounds, Same, Holds, Staged, Fine, Goal, Source, DataOf, Named, Leads, Achieved
  <2> QED BY <1>1, <1>3, <1>5, <2>1, <2>2, <2>4, <2>5, LocalStep DEF Conduct, Holds
<1> QED BY <1>4, <1>5 

-----------------------------------------------------------------------------
(* Reloading, and the end of the journal                                      *)

\* The journal and the unit are looked at before the reload.
LEMMA ReloadValidateStep ==
  ASSUME IInv, ReloadValidate
  PROVE  IInv'
<1>1. op \in Operations /\ op.cas = NoCas /\ op.at = "reval" /\ op # Missing /\ op.tmp \in 0..seq
  BY AtFacts DEF Decide, Concludes, ReloadValidate
<1>2. op.ctx \in Main \cup {"rec"} /\ (op.ctx \in Forth => Leads(op.prev, op.want) /\ jour.phase = "forward")
      /\ (op.ctx = "rec" => jour = Missing \/ Named \/ Kept) /\ (op.ctx \in Main => op.begun) /\ (op.ctx = "rec" => ~op.begun)
      /\ (races = 0 /\ op.ctx \in Main => Achieved)
  BY <1>1, MissingAssumption, PostedLeads
     DEF IInv, Conduct, Flow, Errand, Journal, Operations, Ours, Posted, Place, Progress
<1>3. Local /\ (Fine \/ Fault) /\ Goes
  BY DEF ReloadValidate, Local, Fine, Fault
<1>4. CASE Fine /\ StillNamed /\ Go("reload")
  <2>0. races = 0 => Resolved(jour)
    <3>1. jour # Missing
      BY <1>4, MissingAssumption DEF IInv, TypeOK, StillNamed, Snaps
    <3>2. op.ctx \in Main /\ races = 0 => Resolved(jour)
      BY <1>2, <3>1 DEF Achieved, Resolved
    <3>3. op.ctx = "rec" => Resolved(jour)
      BY <1>2, <1>4, <3>1 DEF StillNamed, Named, Kept, Resolved
    <3> QED BY <1>2, <3>2, <3>3
  <2>1. op' \in Operations /\ op' # Missing /\ op'.at = "reload" /\ op'.ctx = op.ctx /\ op'.cas = NoCas
       /\ op'.ret = op.ret /\ op'.begun = op.begun /\ op'.orig = op.orig /\ Same(op', op) /\ Holds(op', op)
    BY <1>1, <1>2, <1>4, GoFields DEF Labels, Results
  <2>2. Flow' /\ Errand' /\ Enablement' /\ Exchange'
    BY <1>1, <1>2, <1>3, <1>4, <2>1
       DEF IInv, Conduct, Flow, Errand, Enablement, Exchange, Same, Holds, Local, dirVars, sysdVars,
            Goal, Source, DataOf, Staged
  <2>4. Journal'
    BY <1>1, <1>2, <1>3, <1>4, <2>1
       DEF IInv, Conduct, Journal, Local, dirVars, Same, Holds, Named, Kept, Leads, Phased, Found,
            DataOf, Goal, Source
  <2>5. Place'
    BY <1>1, <1>2, <1>3, <1>4, <2>0, <2>1
       DEF IInv, Conduct, Place, Progress, Reloads, Smooth, Pending, Local, dirVars, sysdVars,
            bounds, Same, Holds, Staged, Fine, Goal, Source, DataOf, Named, Leads, Achieved,
            Resolved
  <2> QED BY <1>1, <1>3, <1>4, <2>1, <2>2, <2>4, <2>5, LocalStep DEF Conduct, Holds
<1>5. CASE Fine /\ ~StillNamed /\ Answer("reloaded", "repair")
  <2>1. op' \in Operations /\ op' # Missing /\ op'.at = "reloaded" /\ op'.ctx = op.ctx /\ op'.cas = NoCas
       /\ op'.ret = "repair" /\ op'.begun = op.begun /\ op'.orig = op.orig /\ Same(op', op) /\ Holds(op', op)
    BY <1>1, <1>2, <1>5, AnswerFields DEF Labels, Results
  <2>2. Flow' /\ Errand' /\ Enablement' /\ Exchange'
    BY <1>1, <1>2, <1>3, <1>5, <2>1
       DEF IInv, Conduct, Flow, Errand, Enablement, Exchange, Same, Holds, Local, dirVars, sysdVars,
            Goal, Source, DataOf, Staged
  <2>4. Journal'
    BY <1>1, <1>2, <1>3, <1>5, <2>1
       DEF IInv, Conduct, Journal, Local, dirVars, Same, Holds, Named, Kept, Leads, Phased, Found,
            DataOf, Goal, Source
  <2>5. Place'
    BY <1>1, <1>2, <1>3, <1>5, <2>1
       DEF IInv, Conduct, Place, Progress, Reloads, Smooth, Pending, Local, dirVars, sysdVars,
            bounds, Same, Holds, Staged, Fine, Goal, Source, DataOf, Named, Leads, Achieved
  <2> QED BY <1>1, <1>3, <1>5, <2>1, <2>2, <2>4, <2>5, LocalStep DEF Conduct, Holds
<1>6. CASE Fault /\ Answer("reloaded", "io")
  <2>1. op' \in Operations /\ op' # Missing /\ op'.at = "reloaded" /\ op'.ctx = op.ctx /\ op'.cas = NoCas
       /\ op'.ret = "io" /\ op'.begun = op.begun /\ op'.orig = op.orig /\ Same(op', op) /\ Holds(op', op)
    BY <1>1, <1>2, <1>6, AnswerFields DEF Labels, Results
  <2>2. Flow' /\ Errand' /\ Enablement' /\ Exchange'
    BY <1>1, <1>2, <1>3, <1>6, <2>1
       DEF IInv, Conduct, Flow, Errand, Enablement, Exchange, Same, Holds, Local, dirVars, sysdVars,
            Goal, Source, DataOf, Staged
  <2>4. Journal'
    BY <1>1, <1>2, <1>3, <1>6, <2>1
       DEF IInv, Conduct, Journal, Local, dirVars, Same, Holds, Named, Kept, Leads, Phased, Found,
            DataOf, Goal, Source
  <2>5. Place'
    BY <1>1, <1>2, <1>3, <1>6, <2>1
       DEF IInv, Conduct, Place, Progress, Reloads, Smooth, Pending, Local, dirVars, sysdVars,
            bounds, Same, Holds, Staged, Fine, Goal, Source, DataOf, Named, Leads, Achieved
  <2> QED BY <1>1, <1>3, <1>6, <2>1, <2>2, <2>4, <2>5, LocalStep DEF Conduct, Holds
<1> QED BY <1>4, <1>5, <1>6 DEF ReloadValidate

\* systemd loads what the directory holds once the journal is resolved.
LEMMA LoadedWorld ==
  ASSUME IInv, Fine \/ Fault, UNCHANGED <<dirVars, aliens, races>>, loaded' = DataOf(unit),
         races = 0 => Resolved(jour)
  PROVE  World' /\ loaded' \in Data \cup {Alien, Missing}
<1>1. Lawful' /\ Marked' /\ RacerPreserved'
  BY DEF IInv, World, Lawful, Marked, RacerPreserved, DataOf, dirVars
<1>2. races' = 0 => Directory'
  BY DEF IInv, World, Lawful, Directory, Shape, DataOf, Staged, dirVars, Resolved
<1>3. (tomb' => jour' = Missing) /\ CrashRecovers'
  BY Faults DEF IInv, World, CrashRecovers, Recoverable, Staged, DataOf, dirVars
<1>4. DataOf(unit) \in Data \cup {Alien, Missing}
  BY DEF IInv, TypeOK, DataOf, Files
<1> QED BY <1>1, <1>2, <1>3, <1>4 DEF World

\* daemon-reload.
LEMMA ReloadStep ==
  ASSUME IInv, Reload
  PROVE  IInv'
<1>1. op \in Operations /\ op.cas = NoCas /\ op.at = "reload" /\ op # Missing /\ op.tmp \in 0..seq
  BY AtFacts DEF Reload
<1>2. op.ctx \in Main \cup {"rec"} /\ (op.ctx \in Forth => Leads(op.prev, op.want) /\ jour.phase = "forward")
      /\ (op.ctx = "rec" => jour = Missing \/ Named \/ Kept) /\ (op.ctx \in Main => op.begun) /\ (op.ctx = "rec" => ~op.begun)
      /\ (races = 0 /\ op.ctx \in Main => Achieved)
      /\ (races = 0 => Resolved(jour))
  BY <1>1, MissingAssumption DEF IInv, Conduct, Flow, Errand, Journal, Place, Progress
<1>3. UNCHANGED <<dirVars, enabled, snap, aliens, seq, bounds>> /\ (Fine \/ Fault) /\ Goes
  BY DEF Reload, Fine, Fault
<1>4. PICK r \in {"ok", "cancelled", "command"} :
        /\ Answer("reloaded", r) /\ loaded' \in {loaded, DataOf(unit)}
        /\ r = "ok" => loaded' = DataOf(unit)
  BY DEF Reload
<1>5. op' \in Operations /\ op' # Missing /\ op'.at = "reloaded" /\ op'.ctx = op.ctx /\ op'.cas = NoCas
     /\ op'.ret = r /\ op'.begun = op.begun /\ op'.orig = op.orig /\ Same(op', op) /\ Holds(op', op)
  BY <1>1, <1>4, AnswerFields DEF Labels, Results
<1>6. Flow' /\ Errand' /\ Enablement' /\ Exchange'
  BY <1>1, <1>2, <1>3, <1>5
     DEF IInv, Conduct, Flow, Errand, Enablement, Exchange, Same, Holds, Local, dirVars, sysdVars,
          Goal, Source, DataOf, Staged
<1>7. Journal'
  BY <1>1, <1>2, <1>3, <1>5
     DEF IInv, Conduct, Journal, Local, dirVars, Same, Holds, Named, Kept, Leads, Phased, Found, DataOf,
          Goal, Source
<1>8. Place'
  BY <1>1, <1>2, <1>3, <1>4, <1>5
     DEF IInv, Conduct, Place, Progress, Reloads, Smooth, Pending, Local, dirVars, sysdVars, bounds,
          Same, Holds, Staged, Fine, Goal, Source, DataOf, Named, Leads, Achieved,
          Resolved
<1>9. World' /\ loaded' \in Data \cup {Alien, Missing}
  <2>1. CASE loaded' = loaded
    BY <1>3, <2>1, WorldKept DEF IInv, dirVars, bounds, TypeOK
  <2>2. CASE loaded' = DataOf(unit)
    BY <1>2, <1>3, <2>2, LoadedWorld DEF bounds
  <2> QED BY <1>4, <2>1, <2>2
<1>10. TypeOK'
  BY <1>1, <1>3, <1>5, <1>9, Faults DEF IInv, TypeOK, Goes, dirVars, bounds, Holds
<1> QED BY <1>1, <1>3, <1>6, <1>7, <1>8, <1>9, <1>10, NothingTold DEF IInv, Conduct

\* The journal becomes a tombstone.
LEMMA ClearBeginsStep ==
  ASSUME IInv, ClearBegins
  PROVE  IInv'
<1>1. op \in Operations /\ op.cas = NoCas /\ op.at = "clear" /\ op # Missing /\ op.tmp \in 0..seq
  BY AtFacts DEF ClearBegins
<1>2. /\ op.ctx \in Main \cup {"rec", "recabort"} /\ (op.begun <=> op.ctx \in Main)
      /\ (races = 0 /\ op.ctx \in Main => DataOf(unit) = Goal /\ loaded = Goal)
      /\ (races = 0 => Resolved(jour) /\ loaded = DataOf(unit))
      /\ (op.ctx \in Forth => Leads(op.prev, op.want) /\ jour.phase = "forward")
      /\ (op.ctx = "recabort" => Kept)
  BY <1>1 DEF IInv, Conduct, Flow, Journal, Place, Progress
<1>3. UNCHANGED <<unit, staged, sysdVars, snap, aliens, seq, bounds>> /\ (Fine \/ Fault) /\ Goes
  BY DEF ClearBegins, Fine, Fault
<1>4. CASE /\ Fine /\ StillNamed /\ Staged(jour.temp) = Missing
           /\ Go("unlink") /\ jour' = Missing /\ tomb' = TRUE
  <2>1. op' \in Operations /\ op' # Missing /\ op'.at = "unlink" /\ op'.ctx = op.ctx /\ op'.cas = NoCas
       /\ op'.begun = op.begun /\ Same(op', op) /\ Holds(op', op)
    BY <1>1, <1>4, GoFields DEF Labels
  <2>2. Flow' /\ Errand' /\ Enablement' /\ Exchange'
    BY <1>1, <1>2, <1>3, <2>1
       DEF IInv, Conduct, Flow, Errand, Enablement, Exchange, Same, Holds, Local, dirVars, sysdVars,
            Goal, Source, DataOf, Staged
  <2>3. snap \in Snaps /\ snap.jour = jour /\ jour # Missing
    BY <1>4, MissingAssumption DEF IInv, TypeOK, StillNamed, Snaps
  <2>4. Parked'
    BY <1>2, <1>3, <1>4, <2>1, <2>3
       DEF IInv, TypeOK, World, Lawful, Parked, Leads, DataOf, Same
  <2>5. Journal'
    BY <1>4, <2>1, <2>4 DEF Journal
  <2>6. Place'
    BY <1>1, <1>2, <1>3, <1>4, <2>1, <2>3
       DEF Place, Progress, Reloads, Smooth, Pending, Goal, Source, Same, DataOf, Staged, Resolved,
            sysdVars, bounds
  <2>7. World'
    BY <1>2, <1>3, <1>4
       DEF IInv, World, Lawful, Marked, RacerPreserved, Directory, CrashRecovers, DataOf, sysdVars,
            bounds
  <2>8. TypeOK'
    BY <1>1, <1>3, <1>4, <2>1, Faults DEF IInv, TypeOK, Goes, sysdVars, bounds, Holds
  <2> QED BY <1>1, <1>3, <2>2, <2>5, <2>6, <2>7, <2>8, NothingTold DEF IInv, Conduct
<1>5. CASE /\ \E r \in {"repair", "io", "conflict", "needs"} : Answer("cleared", r)
           /\ UNCHANGED <<jour, tomb>>
  <2>1. PICK r \in {"repair", "io", "conflict", "needs"} : Answer("cleared", r)
    BY <1>5
  <2>2. op' \in Operations /\ op' # Missing /\ op'.at = "cleared" /\ op'.ctx = op.ctx /\ op'.cas = NoCas
       /\ op'.ret = r /\ op'.begun = op.begun /\ Same(op', op) /\ Holds(op', op)
    BY <1>1, <2>1, AnswerFields DEF Labels, Results
  <2>3. Flow' /\ Errand' /\ Enablement' /\ Exchange'
    BY <1>1, <1>2, <1>3, <2>1, <2>2
       DEF IInv, Conduct, Flow, Errand, Enablement, Exchange, Same, Holds, Local, dirVars, sysdVars,
            Goal, Source, DataOf, Staged
  <2>4. Journal'
    BY <1>1, <1>2, <1>3, <1>5, <2>1, <2>2 DEF Journal, Leads, Kept, DataOf, Same
  <2>5. Place'
    BY <1>1, <1>2, <1>3, <1>5, <2>1, <2>2
       DEF Place, Progress, Reloads, Smooth, Pending, Goal, Source, Same, DataOf, sysdVars, bounds
  <2>6. Local
    BY <1>3, <1>5 DEF Local, dirVars
  <2> QED BY <1>1, <1>3, <2>2, <2>3, <2>4, <2>5, <2>6, LocalStep DEF Conduct, Holds
<1> QED BY <1>4, <1>5 DEF ClearBegins

\* The tombstone goes, stays, or becomes the journal again.
LEMMA ClearUnlinksStep ==
  ASSUME IInv, ClearUnlinks
  PROVE  IInv'
<1>1. op \in Operations /\ op.cas = NoCas /\ op.at = "unlink" /\ op # Missing /\ op.tmp \in 0..seq
  BY AtFacts DEF ClearUnlinks
<1>2. /\ op.ctx \in Main \cup {"rec", "recabort"} /\ (op.begun <=> op.ctx \in Main)
      /\ (races = 0 /\ op.ctx \in Main => DataOf(unit) = Goal /\ loaded = Goal)
      /\ (races = 0 => /\ Resolved(snap.jour) /\ loaded = DataOf(unit)
                       /\ Staged(snap.jour.temp) = Missing)
      /\ Parked /\ jour = Missing
  BY <1>1 DEF IInv, Conduct, Flow, Place, Progress, Journal, Parked
<1>3. UNCHANGED <<unit, staged, sysdVars, aliens, seq, bounds>> /\ (Fine \/ Fault) /\ Goes
  BY DEF ClearUnlinks, Fine, Fault
<1>4. PICK r \in {"ok", "repair", "needs"} :
        /\ Answer("cleared", r) /\ tomb' \in BOOLEAN /\ snap' \in {snap, Missing}
        /\ r = "ok" => tomb' = FALSE /\ jour' = jour
        /\ r = "needs" => jour' = jour
        /\ jour' # jour => jour' = snap.jour /\ tomb' = FALSE /\ Fault
  BY DEF ClearUnlinks, IInv, TypeOK
<1>5. op' \in Operations /\ op' # Missing /\ op'.at = "cleared" /\ op'.ctx = op.ctx /\ op'.cas = NoCas
     /\ op'.ret = r /\ op'.begun = op.begun /\ Same(op', op) /\ Holds(op', op)
  BY <1>1, <1>4, AnswerFields DEF Labels, Results
<1>6. Flow' /\ Errand' /\ Enablement' /\ Exchange'
  BY <1>1, <1>2, <1>3, <1>5
     DEF IInv, Conduct, Flow, Errand, Enablement, Exchange, Same, Holds, Local, dirVars, sysdVars,
          Goal, Source, DataOf, Staged
<1>7. Journal'
  BY <1>1, <1>2, <1>3, <1>4, <1>5 DEF Journal, Parked, Leads, DataOf, Same
<1>8. Place'
  BY <1>1, <1>2, <1>3, <1>4, <1>5
     DEF Place, Progress, Reloads, Smooth, Pending, Goal, Source, Same, DataOf, sysdVars, bounds
<1>9. CASE jour' = jour
  <2>1. World'
    BY <1>2, <1>3, <1>9, WorldKept DEF IInv, sysdVars, bounds
  <2>2. TypeOK'
    BY <1>1, <1>3, <1>4, <1>5, <1>9, Faults DEF IInv, TypeOK, Goes, sysdVars, bounds, Holds
  <2> QED BY <1>1, <1>3, <1>6, <1>7, <1>8, <2>1, <2>2, NothingTold DEF IInv, Conduct
<1>10. CASE jour' # jour
  <2>1. jour' = snap.jour /\ tomb' = FALSE /\ Fault
    BY <1>4, <1>10
  <2>2. snap.jour \in Records /\ snap.jour.temp \in 1..seq
    BY <1>2 DEF Parked, Snaps
  <2>3. Lawful' /\ Marked' /\ RacerPreserved'
    BY <1>2, <1>3, <2>1 DEF IInv, World, Lawful, Marked, RacerPreserved, Parked, DataOf
  <2>4. races' = 0 => Directory'
    BY <1>2, <1>3, <2>1
       DEF IInv, World, Directory, Shape, Resolved, DataOf, Staged, sysdVars, bounds
  <2>5. faults' # 0
    BY <2>1 DEF IInv, TypeOK, Fault
  <2>6. World'
    BY <2>1, <2>3, <2>4, <2>5 DEF World, CrashRecovers
  <2>7. TypeOK'
    BY <1>1, <1>3, <1>4, <1>5, <2>1, <2>2, Faults
       DEF IInv, TypeOK, Goes, sysdVars, bounds, Holds
  <2> QED BY <1>1, <1>3, <1>6, <1>7, <1>8, <2>6, <2>7, NothingTold DEF IInv, Conduct
<1> QED BY <1>9, <1>10

-----------------------------------------------------------------------------
(* Recovery                                                                   *)

\* reload_required: what the journal asks for.
LEMMA ReloadRequiredStep ==
  ASSUME IInv, ReloadRequired
  PROVE  IInv'
<1>1. op \in Operations /\ op.cas = NoCas /\ op.at = "recover" /\ op # Missing /\ op.tmp \in 0..seq
      /\ op.ctx = "none" /\ ~op.begun
  BY AtFacts DEF ReloadRequired, IInv, Conduct, Flow
<1>2. jour # Missing => /\ jour \in Records /\ jour.temp \in 0..seq /\ jour.temp \in Nat
                        /\ jour.before \in Ours \cup {Missing} /\ jour.after \in Ours \cup {Missing}
                        /\ jour.kind \in {"replace", "remove"}
  BY DEF IInv, TypeOK, Records
<1>3. UNCHANGED <<dirVars, sysdVars, aliens, seq, bounds>> /\ (Fine \/ Fault)
  BY DEF ReloadRequired
<1>4. CASE UNCHANGED snap /\ (End("repair") \/ End("io"))
  <2>1. snap' \in Snaps \cup {Missing}
    BY <1>2, <1>4 DEF Remember, Snaps, IInv, TypeOK
  <2> QED BY <1>1, <1>3, <1>4, <2>1, EarlyEnd DEF Results
<1>5. CASE jour = Missing /\ UNCHANGED snap /\ ~tomb /\ Go("begin") /\ Goes
  <2>1. op' \in Operations /\ op' # Missing /\ op'.at = "begin" /\ op'.ctx = op.ctx /\ op'.cas = NoCas
       /\ op'.begun = op.begun /\ Same(op', op) /\ Holds(op', op)
    BY <1>1, <1>5, GoFields DEF Labels, Contexts
  <2>2. Flow' /\ Errand' /\ Enablement' /\ Exchange'
    BY <1>1, <1>2, <1>3, <1>5, <2>1
       DEF IInv, Conduct, Flow, Errand, Enablement, Exchange, Same, sysdVars
  <2>3. Journal' /\ Place'
    BY <1>1, <1>2, <1>3, <1>5, <2>1
       DEF Journal, Place, Progress, Reloads, Smooth, Pending, Named, Remember, dirVars
  <2>4. snap' \in Snaps \cup {Missing}
    BY <1>2, <1>5 DEF Remember, Snaps, IInv, TypeOK
  <2> QED BY <1>1, <1>2, <1>3, <1>5, <2>1, <2>2, <2>3, <2>4, SnapStep DEF Conduct, Holds
<1>6. CASE jour # Missing /\ Remember(jour.after) /\ Go("recheck") /\ Goes
  <2>1. op' \in Operations /\ op' # Missing /\ op'.at = "recheck" /\ op'.ctx = op.ctx /\ op'.cas = NoCas
       /\ op'.begun = op.begun /\ Same(op', op) /\ Holds(op', op)
    BY <1>1, <1>6, GoFields DEF Labels, Contexts
  <2>2. Flow' /\ Errand' /\ Enablement' /\ Exchange'
    BY <1>1, <1>2, <1>3, <1>6, <2>1
       DEF IInv, Conduct, Flow, Errand, Enablement, Exchange, Same, sysdVars
  <2>3. Journal' /\ Place'
    BY <1>1, <1>2, <1>3, <1>6, <2>1
       DEF Journal, Place, Progress, Reloads, Smooth, Pending, Named, Remember, dirVars
  <2>4. snap' \in Snaps \cup {Missing}
    BY <1>2, <1>6 DEF Remember, Snaps, IInv, TypeOK
  <2> QED BY <1>1, <1>2, <1>3, <1>6, <2>1, <2>2, <2>3, <2>4, SnapStep DEF Conduct, Holds
<1>7. CASE jour # Missing /\ Remember(jour.after) /\ RecoveryCas("drop", jour.before, Missing, "recsync") /\ Goes
  <2> DEFINE m == jour.before
  <2> DEFINE t == Missing
  <2>1. op' \in Operations /\ op' # Missing /\ op'.at = "recsync" /\ op'.ctx = op.ctx /\ op'.cas # NoCas
       /\ op'.cas.kind = "drop" /\ op'.cas.mine = m /\ op'.cas.theirs = t /\ ~op'.cas.checked
       /\ op'.begun = op.begun /\ Same(op', op) /\ op'.tmp = jour.temp
    <3>1. m \in Ours \cup {Missing} /\ t \in Ours \cup {Missing} /\ "recsync" \in Labels
         /\ jour.temp \in Nat /\ RecoveryCas("drop", m, t, "recsync")
      BY <1>2, <1>7 DEF Labels
    <3> HIDE DEF m, t
    <3> QED BY <1>1, <3>1, RecoveryFields
  <2>2. Flow' /\ Errand' /\ Enablement' /\ Exchange'
    BY <1>1, <1>2, <1>3, <1>7, <2>1
       DEF IInv, Conduct, Flow, Errand, Enablement, Exchange, Same, dirVars, sysdVars, Goal, Source,
            DataOf
  <2>3. Journal' /\ Place'
    BY <1>1, <1>2, <1>3, <1>7, <2>1
       DEF Journal, Place, Progress, Reloads, Smooth, Pending, Named, Remember, dirVars
  <2>4. snap' \in Snaps
    BY <1>2, <1>7 DEF Remember, Snaps
  <2> QED BY <1>1, <1>2, <1>3, <1>7, <2>1, <2>2, <2>3, <2>4, SnapStep DEF Conduct
<1>8. CASE jour # Missing /\ (Remember(jour.after) \/ Remember(jour.before)) /\ (End("conflict") \/ End("io"))
  <2>1. snap' \in Snaps \cup {Missing}
    BY <1>2, <1>8 DEF Remember, Snaps, IInv, TypeOK
  <2> QED BY <1>1, <1>3, <1>8, <2>1, EarlyEnd DEF Results
<1>9. CASE /\ jour # Missing /\ unit = jour.before /\ jour.phase = "forward" /\ Remember(jour.before)
          /\ op' = [op EXCEPT !.ctx = "recabort", !.at = "clear"] /\ Goes
  <2>1. op' \in Operations /\ op' # Missing /\ op'.at = "clear" /\ op'.ctx = "recabort" /\ op'.cas = NoCas
       /\ op'.begun = op.begun /\ Same(op', op) /\ Holds(op', op)
    BY <1>1, <1>9, ContextFields DEF Labels, Contexts
  <2>2. Flow' /\ Errand' /\ Enablement' /\ Exchange'
    BY <1>1, <1>2, <1>3, <1>9, <2>1
       DEF IInv, Conduct, Flow, Errand, Enablement, Exchange, Same, sysdVars
  <2>3. Journal' /\ Place'
    BY <1>1, <1>2, <1>3, <1>9, <2>1
       DEF IInv, World, Directory, Journal, Place, Progress, Reloads, Smooth, Pending, Kept, Resolved,
            DataOf, Remember, dirVars, sysdVars, bounds
  <2>4. snap' \in Snaps \cup {Missing}
    BY <1>2, <1>9 DEF Remember, Snaps, IInv, TypeOK
  <2> QED BY <1>1, <1>2, <1>3, <1>9, <2>1, <2>2, <2>3, <2>4, SnapStep DEF Conduct, Holds
<1>10. CASE /\ jour # Missing /\ unit = jour.before /\ jour.phase = "forward" /\ Remember(jour.before)
          /\ RecoveryCas("drop", jour.after, Missing, "recaborted") /\ Goes
  <2> DEFINE m == jour.after
  <2> DEFINE t == Missing
  <2>1. op' \in Operations /\ op' # Missing /\ op'.at = "recaborted" /\ op'.ctx = op.ctx /\ op'.cas # NoCas
       /\ op'.cas.kind = "drop" /\ op'.cas.mine = m /\ op'.cas.theirs = t /\ ~op'.cas.checked
       /\ op'.begun = op.begun /\ Same(op', op) /\ op'.tmp = jour.temp
    <3>1. m \in Ours \cup {Missing} /\ t \in Ours \cup {Missing} /\ "recaborted" \in Labels
         /\ jour.temp \in Nat /\ RecoveryCas("drop", m, t, "recaborted")
      BY <1>2, <1>10 DEF Labels
    <3> HIDE DEF m, t
    <3> QED BY <1>1, <3>1, RecoveryFields
  <2>2. Flow' /\ Errand' /\ Enablement' /\ Exchange'
    BY <1>1, <1>2, <1>3, <1>10, <2>1
       DEF IInv, Conduct, Flow, Errand, Enablement, Exchange, Same, dirVars, sysdVars, Goal, Source,
            DataOf
  <2>3. Journal' /\ Place'
    BY <1>1, <1>2, <1>3, <1>10, <2>1
       DEF Journal, Place, Progress, Reloads, Smooth, Pending, Named, Remember, dirVars
  <2>4. snap' \in Snaps
    BY <1>2, <1>10 DEF Remember, Snaps
  <2> QED BY <1>1, <1>2, <1>3, <1>10, <2>1, <2>2, <2>3, <2>4, SnapStep DEF Conduct
<1>11. CASE /\ jour # Missing /\ jour.kind = "replace" /\ Remember(jour.after)
          /\ RecoveryCas("put", jour.after, Missing, "recsync") /\ Goes
  <2> DEFINE m == jour.after
  <2> DEFINE t == Missing
  <2>1. op' \in Operations /\ op' # Missing /\ op'.at = "recsync" /\ op'.ctx = op.ctx /\ op'.cas # NoCas
       /\ op'.cas.kind = "put" /\ op'.cas.mine = m /\ op'.cas.theirs = t /\ ~op'.cas.checked
       /\ op'.begun = op.begun /\ Same(op', op) /\ op'.tmp = jour.temp
    <3>1. m \in Ours \cup {Missing} /\ t \in Ours \cup {Missing} /\ "recsync" \in Labels
         /\ jour.temp \in Nat /\ RecoveryCas("put", m, t, "recsync")
      BY <1>2, <1>11 DEF Labels
    <3> HIDE DEF m, t
    <3> QED BY <1>1, <3>1, RecoveryFields, SMTT(30)
  <2>2. Flow' /\ Errand' /\ Enablement' /\ Exchange'
    BY <1>1, <1>2, <1>3, <1>11, <2>1
       DEF IInv, Conduct, Flow, Errand, Enablement, Exchange, Same, dirVars, sysdVars, Goal, Source,
            DataOf
  <2>3. Journal' /\ Place'
    BY <1>1, <1>2, <1>3, <1>11, <2>1
       DEF Journal, Place, Progress, Reloads, Smooth, Pending, Named, Remember, dirVars
  <2>4. snap' \in Snaps
    BY <1>2, <1>11 DEF Remember, Snaps
  <2> QED BY <1>1, <1>2, <1>3, <1>11, <2>1, <2>2, <2>3, <2>4, SnapStep DEF Conduct
<1>12. CASE /\ jour # Missing /\ jour.kind = "replace" /\ Remember(jour.after)
          /\ RecoveryCas("swap", jour.after, jour.before, "recswapped") /\ Goes
  <2> DEFINE m == jour.after
  <2> DEFINE t == jour.before
  <2>1. op' \in Operations /\ op' # Missing /\ op'.at = "recswapped" /\ op'.ctx = op.ctx /\ op'.cas # NoCas
       /\ op'.cas.kind = "swap" /\ op'.cas.mine = m /\ op'.cas.theirs = t /\ ~op'.cas.checked
       /\ op'.begun = op.begun /\ Same(op', op) /\ op'.tmp = jour.temp
    <3>1. m \in Ours \cup {Missing} /\ t \in Ours \cup {Missing} /\ "recswapped" \in Labels
         /\ jour.temp \in Nat /\ RecoveryCas("swap", m, t, "recswapped")
      BY <1>2, <1>12 DEF Labels
    <3> HIDE DEF m, t
    <3> QED BY <1>1, <3>1, RecoveryFields
  <2>2. Flow' /\ Errand' /\ Enablement' /\ Exchange'
    BY <1>1, <1>2, <1>3, <1>12, <2>1
       DEF IInv, Conduct, Flow, Errand, Enablement, Exchange, Same, dirVars, sysdVars, Goal, Source,
            DataOf
  <2>3. Journal' /\ Place'
    BY <1>1, <1>2, <1>3, <1>12, <2>1
       DEF Journal, Place, Progress, Reloads, Smooth, Pending, Named, Remember, dirVars
  <2>4. snap' \in Snaps
    BY <1>2, <1>12 DEF Remember, Snaps
  <2> QED BY <1>1, <1>2, <1>3, <1>12, <2>1, <2>2, <2>3, <2>4, SnapStep DEF Conduct
<1>13. CASE /\ jour # Missing /\ jour.kind = "remove" /\ Remember(jour.after)
          /\ RecoveryCas("take", jour.before, Missing, "recswapped") /\ Goes
  <2> DEFINE m == jour.before
  <2> DEFINE t == Missing
  <2>1. op' \in Operations /\ op' # Missing /\ op'.at = "recswapped" /\ op'.ctx = op.ctx /\ op'.cas # NoCas
       /\ op'.cas.kind = "take" /\ op'.cas.mine = m /\ op'.cas.theirs = t /\ ~op'.cas.checked
       /\ op'.begun = op.begun /\ Same(op', op) /\ op'.tmp = jour.temp
    <3>1. m \in Ours \cup {Missing} /\ t \in Ours \cup {Missing} /\ "recswapped" \in Labels
         /\ jour.temp \in Nat /\ RecoveryCas("take", m, t, "recswapped")
      BY <1>2, <1>13 DEF Labels
    <3> HIDE DEF m, t
    <3> QED BY <1>1, <3>1, RecoveryFields
  <2>2. Flow' /\ Errand' /\ Enablement' /\ Exchange'
    BY <1>1, <1>2, <1>3, <1>13, <2>1
       DEF IInv, Conduct, Flow, Errand, Enablement, Exchange, Same, dirVars, sysdVars, Goal, Source,
            DataOf
  <2>3. Journal' /\ Place'
    BY <1>1, <1>2, <1>3, <1>13, <2>1
       DEF Journal, Place, Progress, Reloads, Smooth, Pending, Named, Remember, dirVars
  <2>4. snap' \in Snaps
    BY <1>2, <1>13 DEF Remember, Snaps
  <2> QED BY <1>1, <1>2, <1>3, <1>13, <2>1, <2>2, <2>3, <2>4, SnapStep DEF Conduct
<1>14. CASE jour # Missing /\ RecoverCommitted
  BY <1>6, <1>7, <1>8, <1>14 DEF RecoverCommitted
<1>15. CASE jour # Missing /\ RecoverAbort
  BY <1>8, <1>9, <1>10, <1>15 DEF RecoverAbort
<1>16. CASE jour # Missing /\ RecoverRollback
  BY <1>2, <1>6, <1>11, <1>12, <1>13, <1>16 DEF RecoverRollback
<1> QED BY <1>4, <1>5, <1>6, <1>8, <1>14, <1>15, <1>16 DEF ReloadRequired

\* A published change has been completed.
LEMMA RecSyncStep ==
  ASSUME IInv, Concludes("recsync"), Fine, IF op.ret = "ok" THEN Go("recheck") /\ Goes ELSE End(op.ret)
  PROVE  IInv'
<1>1. op \in Operations /\ op.cas = NoCas /\ op.at = "recsync" /\ op # Missing /\ op.tmp \in 0..seq
      /\ op.ctx = "none" /\ ~op.begun /\ op.ret \in Results
  BY AtFacts DEF Concludes, IInv, Conduct, Flow, Operations
<1>2. Named
  BY <1>1 DEF IInv, Conduct, Journal, Place, Progress, TypeOK, Records, Named
<1>3. UNCHANGED <<dirVars, sysdVars, aliens, seq, bounds>> /\ (Fine \/ Fault) /\ snap' = snap /\ snap \in Snaps \cup {Missing}
  BY DEF Concludes, IInv, TypeOK
<1>4. CASE op.ret = "ok" /\ Go("recheck") /\ Goes
  <2>1. op' \in Operations /\ op' # Missing /\ op'.at = "recheck" /\ op'.ctx = op.ctx /\ op'.cas = NoCas
       /\ op'.begun = op.begun /\ Same(op', op) /\ Holds(op', op)
    BY <1>1, <1>4, GoFields DEF Labels, Contexts
  <2>2. Flow' /\ Errand' /\ Enablement' /\ Exchange'
    BY <1>1, <1>2, <1>3, <1>4, <2>1
       DEF IInv, Conduct, Flow, Errand, Enablement, Exchange, Same, sysdVars
  <2>3. Journal' /\ Place'
    BY <1>1, <1>2, <1>3, <1>4, <2>1
       DEF Journal, Place, Progress, Reloads, Smooth, Pending, Named, Remember, dirVars
  <2> QED BY <1>1, <1>2, <1>3, <1>4, <2>1, <2>2, <2>3, SnapStep DEF Conduct, Holds
<1>5. CASE op.ret # "ok" /\ End(op.ret)
  BY <1>1, <1>3, <1>5, EarlyEnd DEF Results
<1> QED BY <1>4, <1>5

\* A rollback has been published.
LEMMA RecSwappedStep ==
  ASSUME IInv, Concludes("recswapped"), Fine,
         IF op.ret = "ok" THEN Cas("drop", jour.before, Missing, "recsync") /\ Goes ELSE End(op.ret)
  PROVE  IInv'
<1>1. op \in Operations /\ op.cas = NoCas /\ op.at = "recswapped" /\ op # Missing /\ op.tmp \in 0..seq
      /\ op.ctx = "none" /\ ~op.begun /\ op.ret \in Results
  BY AtFacts DEF Concludes, IInv, Conduct, Flow, Operations
<1>2. Named /\ op.tmp = jour.temp /\ jour.before \in Ours \cup {Missing}
  BY <1>1 DEF IInv, Conduct, Journal, Place, Progress, TypeOK, Records, Named
<1>3. UNCHANGED <<dirVars, sysdVars, aliens, seq, bounds>> /\ (Fine \/ Fault) /\ snap' = snap /\ snap \in Snaps \cup {Missing}
  BY DEF Concludes, IInv, TypeOK
<1>4. CASE op.ret = "ok" /\ Cas("drop", jour.before, Missing, "recsync") /\ Goes
  <2> DEFINE m == jour.before
  <2> DEFINE t == Missing
  <2>1. op' \in Operations /\ op' # Missing /\ op'.at = "recsync" /\ op'.ctx = op.ctx /\ op'.cas # NoCas
       /\ op'.cas.kind = "drop" /\ op'.cas.mine = m /\ op'.cas.theirs = t /\ ~op'.cas.checked
       /\ op'.begun = op.begun /\ Same(op', op) /\ Holds(op', op)
    <3>1. m \in Ours \cup {Missing} /\ t \in Ours \cup {Missing} /\ "recsync" \in Labels /\ Cas("drop", m, t, "recsync")
      BY <1>2, <1>4 DEF Labels
    <3> HIDE DEF m, t
    <3> QED BY <1>1, <3>1, CasFields
  <2>2. Flow' /\ Errand' /\ Enablement' /\ Exchange'
    BY <1>1, <1>2, <1>3, <1>4, <2>1
       DEF IInv, Conduct, Flow, Errand, Enablement, Exchange, Same, dirVars, sysdVars, Goal, Source,
            DataOf
  <2>3. Journal' /\ Place'
    BY <1>1, <1>2, <1>3, <1>4, <2>1
       DEF Journal, Place, Progress, Reloads, Smooth, Pending, Named, Holds, dirVars
  <2> QED BY <1>1, <1>2, <1>3, <1>4, <2>1, <2>2, <2>3, SnapStep DEF Conduct, Holds
<1>5. CASE op.ret # "ok" /\ End(op.ret)
  BY <1>1, <1>3, <1>5, EarlyEnd DEF Results
<1> QED BY <1>4, <1>5

\* A change that was not published has been given up.
LEMMA RecAbortedStep ==
  ASSUME IInv, Concludes("recaborted"), Fine \/ Fault,
         \/ op.ret = "ok" /\ Goes /\ op' = [op EXCEPT !.ctx = "recabort", !.at = "clear"]
         \/ op.ret # "ok" /\ End(op.ret)
         \/ End("io")
  PROVE  IInv'
<1>1. op \in Operations /\ op.cas = NoCas /\ op.at = "recaborted" /\ op # Missing /\ op.tmp \in 0..seq
      /\ op.ctx = "none" /\ ~op.begun /\ op.ret \in Results
  BY AtFacts DEF Concludes, IInv, Conduct, Flow, Operations
<1>2. Kept /\ (races = 0 => Resolved(jour) /\ loaded = DataOf(unit))
  BY <1>1 DEF IInv, World, Directory, Conduct, Journal, Place, Progress, Kept, Resolved
<1>3. UNCHANGED <<dirVars, sysdVars, aliens, seq, bounds>> /\ (Fine \/ Fault) /\ snap' = snap /\ snap \in Snaps \cup {Missing}
  BY DEF Concludes, IInv, TypeOK
<1>4. CASE op.ret = "ok" /\ op' = [op EXCEPT !.ctx = "recabort", !.at = "clear"] /\ Goes
  <2>1. op' \in Operations /\ op' # Missing /\ op'.at = "clear" /\ op'.ctx = "recabort" /\ op'.cas = NoCas
       /\ op'.begun = op.begun /\ Same(op', op) /\ Holds(op', op)
    BY <1>1, <1>4, ContextFields DEF Labels, Contexts
  <2>2. Flow' /\ Errand' /\ Enablement' /\ Exchange'
    BY <1>1, <1>2, <1>3, <1>4, <2>1
       DEF IInv, Conduct, Flow, Errand, Enablement, Exchange, Same, sysdVars
  <2>3. Journal' /\ Place'
    BY <1>1, <1>2, <1>3, <1>4, <2>1
       DEF bounds, sysdVars, Journal, Place, Progress, Reloads, Smooth, Pending, Kept, Resolved, DataOf, dirVars
  <2> QED BY <1>1, <1>2, <1>3, <1>4, <2>1, <2>2, <2>3, SnapStep DEF Conduct, Holds
<1>5. CASE End("io")
  BY <1>1, <1>3, <1>5, EarlyEnd DEF Results
<1>6. CASE op.ret # "ok" /\ End(op.ret)
  BY <1>1, <1>3, <1>6, EarlyEnd DEF Results
<1> QED BY <1>4, <1>5, <1>6

\* recover_pending_reload refuses foreign bytes, and reloads.
LEMMA RecoveryCheckStep ==
  ASSUME IInv, RecoveryCheck
  PROVE  IInv'
<1>1. op \in Operations /\ op.cas = NoCas /\ op.at = "recheck" /\ op # Missing /\ op.tmp \in 0..seq
      /\ ~op.begun /\ op.ret \in Results
  BY AtFacts DEF Concludes, IInv, Conduct, Flow, Operations, RecoveryCheck
<1>2. jour = Missing \/ Named \/ Kept
  BY <1>1 DEF IInv, Conduct, Journal
<1>3. UNCHANGED <<dirVars, sysdVars, aliens, seq, bounds>> /\ (Fine \/ Fault) /\ snap' = snap /\ snap \in Snaps \cup {Missing}
  BY DEF Concludes, IInv, TypeOK, RecoveryCheck
<1>4. CASE op' = [op EXCEPT !.ctx = "rec", !.at = "reval"] /\ Goes
  <2>1. op' \in Operations /\ op' # Missing /\ op'.at = "reval" /\ op'.ctx = "rec" /\ op'.cas = NoCas
       /\ op'.begun = op.begun /\ Same(op', op) /\ Holds(op', op)
    BY <1>1, <1>4, ContextFields DEF Labels, Contexts
  <2>2. Flow' /\ Errand' /\ Enablement' /\ Exchange'
    BY <1>1, <1>2, <1>3, <1>4, <2>1
       DEF IInv, Conduct, Flow, Errand, Enablement, Exchange, Same, sysdVars
  <2>3. Journal' /\ Place'
    BY <1>1, <1>2, <1>3, <1>4, <2>1
       DEF Journal, Place, Progress, Reloads, Smooth, Pending, Named, Kept, Remember, dirVars
  <2> QED BY <1>1, <1>2, <1>3, <1>4, <2>1, <2>2, <2>3, SnapStep DEF Conduct, Holds
<1>5. CASE End("foreign")
  BY <1>1, <1>3, <1>5, EarlyEnd DEF Results
<1> QED BY <1>4, <1>5 DEF RecoveryCheck

\* The steps of a recovery, together.
LEMMA RecoveryStepStep ==
  ASSUME IInv, RecoveryStep
  PROVE  IInv'
  BY RecSyncStep, RecSwappedStep, RecAbortedStep DEF RecoveryStep

-----------------------------------------------------------------------------
(* The operations of the manager                                              *)

\* install, update, remove, enable, disable and status up to their first change.
LEMMA BeginStep ==
  ASSUME IInv, Begin
  PROVE  IInv'
<1>1. op \in Operations /\ op.cas = NoCas /\ op.at = "begin" /\ op # Missing /\ op.tmp \in 0..seq
  BY AtFacts DEF Begin, Concludes
<1>2. /\ jour = Missing /\ ~tomb /\ ~op.begun /\ ~op.changed /\ enabled \in BOOLEAN
      /\ unit \in Files \cup {Missing} /\ (races = 0 => loaded = DataOf(unit))
      /\ op.want \in Data \cup {Missing} /\ op.put \in Data \cup {Missing}
      /\ (op.want \in Data <=> op.kind \in {"install", "update"})
  BY <1>1 DEF IInv, TypeOK, Conduct, Flow, Errand, Enablement, Journal, World, Directory, Operations
<1>3. Local /\ Fine
  BY DEF Begin, Concludes, Local
<1>4. DataOf(unit) \in Data \cup {Alien, Missing} /\ (DataOf(unit) # Alien => unit \in Ours \cup {Missing})
  BY <1>2 DEF DataOf, Files, Ours
<1>5. ASSUME DataOf(unit) # Alien, Goes, NEW c \in {"none", "fwd"}, NEW w \in Data \cup {Missing}, NEW l \in {"write", "sweep", "toggle"},
             op' = [op EXCEPT !.begun = TRUE, !.prev = DataOf(unit), !.was = enabled, !.exp = unit,
                              !.ctx = c, !.put = w, !.at = l],
             l = "write" => /\ c = "fwd" /\ w = op.want /\ op.kind \in {"install", "update"}
                            /\ DataOf(unit) # op.want,
             l = "sweep" => c = "none" /\ op.kind = "remove" /\ unit = Missing,
             l = "toggle" => c = "none" /\ op.kind \in {"remove", "enable", "disable"} /\ DataOf(unit) \in Data
      PROVE  IInv'
  <2> DEFINE d == DataOf(unit)
  <2> DEFINE b == enabled
  <2> DEFINE u == unit
  <2>1. d \in Data \cup {Missing} /\ c \in Contexts /\ l \in Labels /\ u \in Ours \cup {Missing} /\ b \in BOOLEAN
    BY <1>2, <1>4, <1>5 DEF Contexts, Labels
  <2>2. op' = [op EXCEPT !.begun = TRUE, !.prev = d, !.was = b, !.exp = u, !.ctx = c, !.put = w, !.at = l]
    BY <1>5
  <2> HIDE DEF d, b, u
  <2>3. /\ op' \in Operations /\ op' # Missing /\ op'.at = l /\ op'.ctx = c /\ op'.cas = op.cas
        /\ op'.begun /\ op'.kind = op.kind /\ op'.want = op.want /\ op'.changed = op.changed
        /\ op'.prev = d /\ op'.was = b /\ op'.exp = u /\ op'.put = w /\ op'.tmp = op.tmp
    <3>1. op' \in Operations
      BY <1>1, <2>1, <2>2, ZenonT(40) DEF Operations
    <3>2. op' # Missing
      BY <3>1, MissingAssumption
    <3> QED BY <1>1, <1>5, <2>1, <2>2, <3>1, <3>2, ZenonT(40) DEF Operations
  <2>4. Flow' /\ Errand' /\ Enablement' /\ Exchange'
    BY <1>1, <1>2, <1>3, <1>5, <2>1, <2>3
       DEF d, b, u, Flow, Errand, Enablement, Exchange, Goal, Source, DataOf, Local, sysdVars
  <2>5. Journal'
    BY <1>2, <1>3, <1>5, <2>3 DEF Journal, Found, Local, dirVars
  <2>6. Place'
    BY <1>1, <1>2, <1>3, <1>5, <2>1, <2>3
       DEF d, b, u, Place, Progress, Reloads, Smooth, Pending, DataOf, Local, dirVars, sysdVars,
            bounds
  <2> QED BY <1>1, <1>3, <1>5, <2>3, <2>4, <2>5, <2>6, LocalStep DEF Conduct
<1>6. ASSUME NEW res \in {"foreign", "notinstalled", "unchanged", "exists"}, op' = Missing,
             last' = [kind |-> op.kind, want |-> op.want, res |-> res, begun |-> TRUE,
                      prev |-> DataOf(unit), was |-> enabled],
             res = "unchanged" => /\ op.kind \notin {"remove", "enable", "disable"}
                                  /\ op.kind \in {"install", "update"} => DataOf(unit) = op.want
      PROVE  IInv'
  <2>1. last' \in Reports
    <3> DEFINE d == DataOf(unit)
    <3>1. last' = [kind |-> op.kind, want |-> op.want, res |-> res, begun |-> TRUE, prev |-> d, was |-> enabled]
          /\ d \in Data \cup {Alien, Missing} /\ enabled \in BOOLEAN
      BY <1>2, <1>4, <1>6
    <3> HIDE DEF d
    <3> QED BY <1>1, <1>6, <3>1 DEF Reports, Operations
  <2>2. /\ last' # Missing /\ last'.res = res /\ last'.kind = op.kind /\ last'.want = op.want
        /\ last'.prev = DataOf(unit) /\ last'.was = enabled
    BY <1>6, <2>1, MissingAssumption
  <2>3. SuccessMeansLoaded' /\ FailureRestores'
    BY <1>2, <1>3, <1>6, <2>2
       DEF SuccessMeansLoaded, FailureRestores, Local, dirVars, sysdVars, bounds, DataOf
  <2> QED BY <1>1, <1>2, <1>3, <1>6, <2>1, <2>3, EndStep DEF Local, IInv, TypeOK, sysdVars
<1> DEFINE here == [op EXCEPT !.ctx = "none", !.begun = TRUE, !.prev = DataOf(unit), !.was = enabled, !.exp = unit]
<1>7. here.prev = DataOf(unit) /\ here.was = enabled
  BY <1>1 DEF Operations
<1>8. /\ [here EXCEPT !.ctx = "fwd", !.put = op.want, !.at = "write"]
           = [op EXCEPT !.begun = TRUE, !.prev = DataOf(unit), !.was = enabled, !.exp = unit,
                        !.ctx = "fwd", !.put = op.want, !.at = "write"]
      /\ [here EXCEPT !.at = "sweep"]
           = [op EXCEPT !.begun = TRUE, !.prev = DataOf(unit), !.was = enabled, !.exp = unit,
                        !.ctx = "none", !.put = op.put, !.at = "sweep"]
      /\ [here EXCEPT !.at = "toggle"]
           = [op EXCEPT !.begun = TRUE, !.prev = DataOf(unit), !.was = enabled, !.exp = unit,
                        !.ctx = "none", !.put = op.put, !.at = "toggle"]
  BY <1>1 DEF Operations
<1> HIDE DEF here
<1>9. CASE DataOf(unit) = Alien
  <2>1. unit # Missing /\ DataOf(unit) \notin Data
    BY <1>9, UnitAssumption DEF DataOf
  <2>2. op' = Missing /\ last' = [kind |-> op.kind, want |-> op.want, res |-> "foreign", begun |-> TRUE,
                                 prev |-> DataOf(unit), was |-> enabled]
    BY <1>7, <1>9, <2>1 DEF Begin, here
  <2> QED BY <1>6, <2>2
<1>10. CASE unit = Missing
  <2>1. DataOf(unit) = Missing /\ DataOf(unit) # Alien /\ DataOf(unit) \notin Data
    BY <1>10, UnitAssumption DEF DataOf
  <2>2. CASE op.kind = "install"
    <3>1. Goes /\ op' = [here EXCEPT !.ctx = "fwd", !.put = op.want, !.at = "write"]
      BY <1>10, <2>1, <2>2 DEF Begin, here
    <3> QED BY <1>2, <1>5, <1>8, <2>1, <2>2, <3>1, UnitAssumption
  <2>3. CASE op.kind = "remove"
    <3>1. Goes /\ op' = [here EXCEPT !.at = "sweep"]
      BY <1>10, <2>1, <2>3 DEF Begin, here
    <3> QED BY <1>2, <1>5, <1>8, <1>10, <2>1, <2>3, <3>1
  <2>4. CASE op.kind \notin {"install", "remove"}
    BY <1>6, <1>7, <1>10, <2>1, <2>4 DEF Begin, here
  <2> QED BY <2>2, <2>3, <2>4
<1>11. CASE DataOf(unit) \in Data
  <2>1. unit # Missing /\ DataOf(unit) # Alien /\ DataOf(unit) = unit.data
    BY <1>11, UnitAssumption DEF DataOf
  <2>2. CASE op.kind \in {"install", "update"}
    <3>1. CASE unit.data = op.want
      BY <1>6, <1>7, <1>11, <2>1, <2>2, <3>1 DEF Begin, here
    <3>2. CASE unit.data # op.want /\ op.kind = "install"
      BY <1>6, <1>7, <1>11, <2>1, <2>2, <3>2 DEF Begin, here
    <3>3. CASE unit.data # op.want /\ op.kind # "install"
      BY <1>2, <1>5, <1>8, <1>11, <2>1, <2>2, <3>3 DEF Begin, here
    <3> QED BY <3>1, <3>2, <3>3
  <2>3. CASE op.kind \in {"remove", "enable", "disable"}
    BY <1>2, <1>5, <1>8, <1>11, <2>1, <2>3 DEF Begin, here
  <2>4. CASE op.kind = "status"
    BY <1>6, <1>7, <1>11, <2>1, <2>4 DEF Begin, here
  <2> QED BY <1>1, <2>2, <2>3, <2>4 DEF Operations, Kinds
<1>12. DataOf(unit) = Missing => unit = Missing
  BY <1>2, UnitAssumption DEF DataOf, Files
<1> QED BY <1>4, <1>9, <1>10, <1>11, <1>12

\* A step of the operation that may change the enablement.
LEMMA EnabledStep ==
  ASSUME IInv, op # Missing, UNCHANGED <<dirVars, loaded, snap, aliens, seq, bounds>>, enabled' \in BOOLEAN,
         Fine \/ Fault, Goes, op' \in Operations, op'.tmp \in 0..seq, Conduct'
  PROVE  IInv'
<1>1. TypeOK'
  BY Faults DEF IInv, TypeOK, Goes, dirVars, bounds
<1>2. World'
  BY WorldKept DEF IInv, dirVars, bounds
<1> QED BY <1>1, <1>2, NothingTold DEF IInv

\* The removal of a unit that is not there.
LEMMA SweepStep ==
  ASSUME IInv, Sweep
  PROVE  IInv'
<1>1. op \in Operations /\ op.cas = NoCas /\ op.at = "sweep" /\ op # Missing /\ op.tmp \in 0..seq
  BY AtFacts DEF Sweep
<1>2. /\ op.begun /\ jour = Missing /\ ~tomb /\ op.kind = "remove" /\ op.prev = Missing /\ enabled \in BOOLEAN
      /\ op.want \notin Data /\ (races = 0 => loaded = DataOf(unit) /\ DataOf(unit) = Missing)
  BY <1>1 DEF IInv, TypeOK, Conduct, Flow, Errand, Journal, Place, Progress, World, Directory
<1>3. op.want = Missing /\ (DataOf(unit) = Missing => unit = Missing)
  BY <1>1, <1>2, UnitAssumption DEF IInv, TypeOK, Operations, DataOf, Files
<1>4. PICK r \in {"unchanged", "cancelled", "command"} : End(r) /\ enabled' \in BOOLEAN
  BY <1>2 DEF Sweep
<1> QED BY <1>1, <1>2, <1>3, <1>4, MainEnd DEF Sweep, Results, Undone

\* enable, disable, and the beginning of a removal.
LEMMA ToggleStep ==
  ASSUME IInv, Toggle
  PROVE  IInv'
<1>1. op \in Operations /\ op.cas = NoCas /\ op.at = "toggle" /\ op # Missing /\ op.tmp \in 0..seq
  BY AtFacts DEF Toggle
<1>2. /\ op.begun /\ op.ctx = "none" /\ jour = Missing /\ ~tomb /\ op.kind \in {"remove", "enable", "disable"} /\ op.prev \in Data
      /\ enabled \in BOOLEAN /\ enabled = op.was /\ DataOf(op.exp) = op.prev /\ op.want \notin Data
      /\ (races = 0 => loaded = DataOf(unit) /\ DataOf(unit) = op.prev /\ unit = op.exp)
  BY <1>1
     DEF IInv, TypeOK, Conduct, Flow, Errand, Enablement, Journal, Place, Progress, World, Directory
<1>3. op.want = Missing
  BY <1>1, <1>2 DEF Operations
<1>4. UNCHANGED <<dirVars, loaded, snap, aliens, seq, bounds>> /\ (Fine \/ Fault)
  BY DEF Toggle, Fine, Fault
<1> DEFINE ch == enabled # (op.kind = "enable")
<1>5. CASE op.kind = "remove" /\ enabled' = (op.kind = "enable") /\ Goes
           /\ op' = [op EXCEPT !.ctx = "rm", !.at = "rmfile", !.changed = ch]
  <2>1. ch \in BOOLEAN /\ ch = op.was /\ enabled' = FALSE
    BY <1>2, <1>5
  <2>2. op' = [op EXCEPT !.ctx = "rm", !.at = "rmfile", !.changed = ch] /\ ch \in BOOLEAN
    BY <1>5
  <2> HIDE DEF ch
  <2>3. op' \in Operations /\ op' # Missing /\ op'.at = "rmfile" /\ op'.ctx = "rm" /\ op'.cas = NoCas /\ op'.begun
        /\ op'.kind = op.kind /\ op'.want = op.want /\ op'.prev = op.prev /\ op'.was = op.was /\ op'.changed = ch
        /\ Holds(op', op)
    <3> DEFINE l == "rmfile"
    <3> DEFINE c == "rm"
    <3>1. l \in Labels /\ c \in Contexts /\ op' = [op EXCEPT !.ctx = c, !.at = l, !.changed = ch]
      BY <2>2 DEF Contexts, Labels
    <3>2. op' \in Operations /\ op' # Missing
      <4> HIDE DEF l, c
      <4>1. op' \in Operations
        BY <1>1, <2>2, <3>1 DEF Operations
      <4> QED BY <4>1, MissingAssumption
    <3> QED BY <1>1, <1>2, <2>1, <2>2, <3>2 DEF Operations, Holds
  <2>4. Flow' /\ Errand' /\ Enablement' /\ Exchange'
    BY <1>1, <1>2, <1>3, <1>5, <2>1, <2>3
       DEF Flow, Errand, Enablement, Exchange, Goal, Source, DataOf, Holds
  <2>5. Journal'
    BY <1>2, <1>4, <2>3 DEF Journal, Found, dirVars
  <2>6. Place'
    BY <1>1, <1>2, <1>4, <2>3 DEF Place, Progress, Reloads, Smooth, Pending, dirVars, bounds, Holds
  <2> QED BY <1>1, <1>4, <1>5, <2>1, <2>3, <2>4, <2>5, <2>6, EnabledStep DEF Conduct, Holds
<1>6. ASSUME NEW r \in {"cancelled", "command"}, enabled' \in BOOLEAN, Goes,
             op' = [op EXCEPT !.at = "restore", !.orig = r]
      PROVE  IInv'
  <2>1. op' \in Operations /\ op' # Missing /\ op'.at = "restore" /\ op'.ctx = op.ctx /\ op'.cas = NoCas
        /\ op'.begun = op.begun /\ op'.orig = r /\ Same(op', op) /\ Holds(op', op)
    BY <1>1, <1>6, OrigFields DEF Labels, Results
  <2>2. Flow' /\ Errand' /\ Enablement' /\ Exchange'
    BY <1>1, <1>2, <1>3, <1>6, <2>1
       DEF Flow, Errand, Enablement, Exchange, Goal, Source, DataOf, Same, Holds
  <2>3. Journal' /\ Place'
    BY <1>2, <1>4, <2>1
       DEF Journal, Place, Progress, Reloads, Smooth, Pending, dirVars, bounds, Same, DataOf, Undone
  <2> QED BY <1>1, <1>4, <1>6, <2>1, <2>2, <2>3, EnabledStep DEF Conduct, Holds
<1>7. ASSUME NEW r \in {"changed", "unchanged"}, End(r), enabled' = (op.kind = "enable"), op.kind # "remove"
      PROVE  IInv'
  BY <1>1, <1>2, <1>4, <1>7, MainEnd
<1>8. ASSUME NEW r \in {"cancelled", "command"}, End(r), UNCHANGED enabled
      PROVE  IInv'
  BY <1>1, <1>2, <1>4, <1>8, MainEnd DEF Results, Undone
<1> QED BY <1>2, <1>5, <1>6, <1>7, <1>8 DEF Toggle

\* restore_enablement.
LEMMA RestoreStep ==
  ASSUME IInv, RestoreEnablement
  PROVE  IInv'
<1>1. op \in Operations /\ op.cas = NoCas /\ op.at = "restore" /\ op # Missing /\ op.tmp \in 0..seq
  BY AtFacts DEF RestoreEnablement
<1>2. op.begun /\ op.orig \in Results /\ enabled \in BOOLEAN /\ op.was \in BOOLEAN
  BY <1>1 DEF IInv, TypeOK, Conduct, Flow, Operations
<1>3. races = 0 /\ op.orig \notin {"needs", "repair", "rollbackfailed"} =>
        Undone \/ Resumable
  BY <1>1 DEF IInv, Conduct, Place, Reloads
<1>4. UNCHANGED <<dirVars, loaded, snap, aliens, seq, bounds>> /\ (Fine \/ Fault) /\ enabled' \in BOOLEAN
  BY <1>2 DEF RestoreEnablement, Fine, Fault
<1>5. CASE enabled' = op.was /\ End(op.orig)
  <2> DEFINE r == op.orig
  <2>1. End(r) /\ r \in Results /\ r \notin {"changed", "unchanged"}
        /\ (r \notin {"needs", "repair", "rollbackfailed"} => op.orig \notin {"needs", "repair", "rollbackfailed"})
    BY <1>2, <1>5 DEF Results
  <2> HIDE DEF r
  <2> QED BY <1>1, <1>2, <1>3, <1>4, <1>5, <2>1, MainEnd
<1>6. CASE End("rollbackfailed")
  BY <1>1, <1>2, <1>4, <1>6, MainEnd
<1> QED BY <1>5, <1>6 DEF RestoreEnablement

\* The change is in place: it is loaded next.
LEMMA StartReloadStep ==
  ASSUME IInv, op \in Operations, op # Missing, op.cas = NoCas, op.ctx \in Main, op.begun, Local, Fine, StartReload,
         op.ctx \in Forth => Leads(op.prev, op.want) /\ jour.phase = "forward",
         races = 0 => Achieved
  PROVE  IInv'
<1>1. op' \in Operations /\ op' # Missing /\ op'.at = "reval" /\ op'.ctx = op.ctx /\ op'.cas = NoCas
      /\ op'.begun = op.begun /\ Same(op', op) /\ Holds(op', op)
  BY GoFields DEF StartReload, Labels
<1>2. Flow' /\ Errand' /\ Enablement' /\ Exchange'
  BY <1>1
     DEF IInv, Conduct, Flow, Errand, Enablement, Exchange, Same, Holds, Local, dirVars, sysdVars,
          Goal, Source, DataOf, Staged
<1>3. Journal'
  BY <1>1
     DEF IInv, Conduct, Journal, Local, dirVars, Same, Holds, Named, Leads, Phased, Found, DataOf,
          Goal, Source
<1>4. Place'
  BY <1>1
     DEF IInv, Conduct, Place, Progress, Reloads, Smooth, Pending, Local, dirVars, sysdVars, bounds,
          Same, Holds, Staged, Fine, Goal, Source, DataOf, Named, Leads, Achieved
<1> QED BY <1>1, <1>2, <1>3, <1>4, LocalStep DEF Conduct, Holds, IInv, TypeOK, StartReload

\* The change is in place and is to be taken back.
LEMMA StartRollbackStep ==
  ASSUME IInv, op \in Operations, op # Missing, op.cas = NoCas, op.ctx = "fwd", op.begun, Local, Fine,
         NEW r \in Results, StartRollback(r), Leads(op.prev, op.want), jour.phase = "forward",
         races = 0 => Achieved
  PROVE  IInv'
<1>1. op' \in Operations /\ op' # Missing /\ op'.at = "back" /\ op'.ctx = op.ctx /\ op'.cas = NoCas
      /\ op'.begun = op.begun /\ Same(op', op) /\ Holds(op', op)
  BY OrigFields DEF StartRollback, Labels
<1>2. Flow' /\ Errand' /\ Enablement' /\ Exchange'
  BY <1>1
     DEF IInv, Conduct, Flow, Errand, Enablement, Exchange, Same, Holds, Local, dirVars, sysdVars,
          Goal, Source, DataOf, Staged
<1>3. Journal'
  BY <1>1
     DEF IInv, Conduct, Journal, Local, dirVars, Same, Holds, Named, Leads, Phased, Found, DataOf,
          Goal, Source
<1>4. Place'
  BY <1>1
     DEF IInv, Conduct, Place, Progress, Reloads, Smooth, Pending, Local, dirVars, sysdVars, bounds,
          Same, Holds, Staged, Fine, Goal, Source, DataOf, Named, Leads, Achieved
<1> QED BY <1>1, <1>2, <1>3, <1>4, LocalStep DEF Conduct, Holds, IInv, TypeOK, StartRollback

\* The file is as it was: what is left is the enablement.
LEMMA FailWithStep ==
  ASSUME IInv, op \in Operations, op # Missing, op.cas = NoCas, op.ctx \in {"rm", "back", "rmback"}, op.begun, Local, Fine,
         NEW r \in Results, FailWith(r),
         races = 0 /\ r \notin {"needs", "repair"} =>
           Undone \/ Resumable
  PROVE  IInv'
<1>1. CASE op.changed
  <2>1. op' = [op EXCEPT !.at = "restore", !.orig = r] /\ Goes
    BY <1>1 DEF FailWith
  <2>2. op' \in Operations /\ op' # Missing /\ op'.at = "restore" /\ op'.ctx = op.ctx /\ op'.cas = NoCas
        /\ op'.begun = op.begun /\ op'.orig = r /\ Same(op', op) /\ Holds(op', op)
    BY <2>1, OrigFields DEF Labels
  <2>3. op.ctx \in {"rm", "rmback"}
    BY <1>1 DEF IInv, Conduct, Enablement
  <2>4. Flow' /\ Errand' /\ Enablement' /\ Exchange'
    BY <2>2, <2>3
       DEF IInv, Conduct, Flow, Errand, Enablement, Exchange, Same, Holds, Local, dirVars, sysdVars,
            Goal, Source, DataOf, Staged
  <2>5. Journal'
    BY <2>2
       DEF IInv, Conduct, Journal, Local, dirVars, Same, Holds, Named, Leads, Phased, Found, DataOf,
            Goal, Source
  <2>6. Place'
    BY <2>2
       DEF IInv, Conduct, Place, Progress, Reloads, Smooth, Pending, Local, dirVars, sysdVars,
            bounds, Same, Holds, Staged, Fine, Goal, Source, DataOf, Named, Leads, Achieved,
            Undone, Resumable
  <2> QED BY <2>1, <2>2, <2>4, <2>5, <2>6, LocalStep DEF Conduct, Holds, IInv, TypeOK
<1>2. CASE ~op.changed
  <2>1. End(r) /\ r \notin {"changed", "unchanged"}
    BY <1>2 DEF FailWith, Results
  <2>2. enabled = op.was /\ enabled \in BOOLEAN
    BY <1>2 DEF IInv, TypeOK, Conduct, Enablement, Operations
  <2>3. UNCHANGED <<dirVars, loaded, snap, aliens, seq, bounds>> /\ enabled' = enabled
    BY DEF Local, sysdVars
  <2> QED BY <2>1, <2>2, <2>3, MainEnd
<1> QED BY <1>1, <1>2

\* A removed unit is put back.
LEMMA StartRestoreStep ==
  ASSUME IInv, op \in Operations, op # Missing, op.cas = NoCas, op.ctx = "rm", op.begun, Local, Fine, Goes,
         NEW r \in Results, StartRestore(r), jour = Missing \/ (Leads(op.prev, op.want) /\ jour.phase = "forward"),
         races = 0 => DataOf(unit) = op.want
  PROVE  IInv'
<1>1. op.kind = "remove" /\ op.prev \in Data /\ op.want = Missing /\ (DataOf(unit) = Missing => unit = Missing)
  BY UnitAssumption DEF IInv, TypeOK, Conduct, Errand, Operations, DataOf, Files
<1>2. op' \in Operations /\ op' # Missing /\ op'.at = "write" /\ op'.ctx = "rmback" /\ op'.cas = NoCas
      /\ op'.begun = op.begun /\ Same(op', op) /\ op'.exp = Missing /\ op'.put = op.prev /\ op'.tmp = op.tmp
  <2> DEFINE p == op.prev
  <2>1. p \in Data /\ op' = [op EXCEPT !.ctx = "rmback", !.at = "write", !.exp = Missing, !.put = p, !.orig = r]
    BY <1>1 DEF StartRestore
  <2> HIDE DEF p
  <2>2. op' \in Operations
    BY <2>1, ZenonT(40) DEF Operations, Labels, Contexts
  <2>3. op' # Missing
    BY <2>2, MissingAssumption
  <2>4. op'.put = p
    BY <2>1 DEF Operations
  <2> QED BY <2>1, <2>2, <2>3, <2>4 DEF Operations, Same, p
<1>3. Flow' /\ Errand' /\ Enablement' /\ Exchange'
  BY <1>1, <1>2
     DEF IInv, Conduct, Flow, Errand, Enablement, Exchange, Same, Holds, Local, dirVars, sysdVars,
          Goal, Source, DataOf, Staged
<1>4. Journal'
  BY <1>1, <1>2
     DEF IInv, Conduct, Journal, Local, dirVars, Same, Holds, Named, Leads, Phased, Found, DataOf,
          Goal, Source
<1>5. Place'
  BY <1>1, <1>2
     DEF IInv, Conduct, Place, Progress, Reloads, Smooth, Pending, Local, dirVars, sysdVars, bounds,
          Same, Holds, Staged, Fine, Goal, Source, DataOf, Named, Leads, Achieved
<1> QED BY <1>2, <1>3, <1>4, <1>5, LocalStep DEF Conduct, IInv, TypeOK

\* The end of an operation that leaves the enablement as it is, with a report
\* that promises nothing.
LEMMA PlainEnd ==
  ASSUME IInv, op # Missing, op.begun, Local, Fine, NEW r \in {"needs", "repair", "rollbackfailed"}, End(r)
  PROVE  IInv'
  BY MainEnd DEF IInv, TypeOK, Local, sysdVars, Results

\* What the manager does with the answer of atomic_replace or atomic_remove.
LEMMA StoredStep ==
  ASSUME IInv, Stored
  PROVE  IInv'
<1>1. op \in Operations /\ op.cas = NoCas /\ op.at = "stored" /\ op # Missing /\ op.tmp \in 0..seq
  BY AtFacts DEF Stored, Concludes
<1>2. /\ op.begun /\ op.ctx \in Main /\ op.ret \in Results /\ op.prev # op.want
      /\ (op.ctx \in {"rm", "rmback"} => op.prev \in Data /\ op.want = Missing)
  BY <1>1, UnitAssumption DEF IInv, Conduct, Flow, Errand, Operations
<1>3. /\ op.ctx \in Forth => \/ Leads(op.prev, op.want) /\ jour.phase = "forward"
                             \/ jour = Missing /\ op.ret \notin {"ok", "needs"}
      /\ races = 0 => DataOf(unit) = Source \/ Achieved
      /\ races = 0 /\ op.ctx \in Forth => loaded = op.prev
  BY <1>1 DEF IInv, Conduct, Journal, Place, Progress, Reloads
<1>4. Local /\ Fine
  BY DEF Stored, Concludes, Local
<1>5. op.ctx \in Forth /\ op.ret \in {"ok", "needs"} => Leads(op.prev, op.want) /\ jour.phase = "forward"
  BY <1>3
<1>6. races = 0 /\ DataOf(unit) = Goal => Achieved
  BY <1>2, <1>3 DEF Goal, Source
<1>7. CASE op.ctx = "fwd"
  <2>1. CASE op.ret \notin {"ok", "needs"}
    <3> DEFINE r == op.ret
    <3>1. End(r) /\ r \in Results /\ r \notin {"changed", "unchanged"}
      BY <1>2, <1>7, <2>1 DEF Stored, Results
    <3>2. races = 0 => Undone \/ Resumable
      BY <1>3, <1>7 DEF Source, Achieved, Named, Undone, Resumable
    <3>3. enabled = op.was /\ enabled \in BOOLEAN
      BY <1>1, <1>7 DEF IInv, TypeOK, Conduct, Enablement
    <3>4. UNCHANGED <<dirVars, loaded, snap, aliens, seq, bounds>> /\ enabled' = enabled
      BY <1>4 DEF Local, sysdVars
    <3> HIDE DEF r
    <3> QED BY <1>1, <1>2, <1>4, <3>1, <3>2, <3>3, <3>4, MainEnd
  <2>2. CASE op.ret \in {"ok", "needs"}
    <3>1. CASE DataOf(unit) # op.want
      BY <1>1, <1>2, <1>4, <1>7, <2>2, <3>1, PlainEnd DEF Stored
    <3>2. CASE DataOf(unit) = op.want /\ op.cancelled
      <4>1. StartRollback("cancelled")
        BY <1>7, <2>2, <3>2 DEF Stored
      <4> QED BY <1>1, <1>2, <1>4, <1>5, <1>6, <1>7, <2>2, <3>2, <4>1, StartRollbackStep
         DEF Results, Goal
    <3>3. CASE DataOf(unit) = op.want /\ ~op.cancelled
      <4>1. StartReload
        BY <1>7, <2>2, <3>3 DEF Stored
      <4> QED BY <1>1, <1>2, <1>4, <1>5, <1>6, <1>7, <2>2, <3>3, <4>1, StartReloadStep DEF Goal
    <3> QED BY <3>1, <3>2, <3>3
  <2> QED BY <2>1, <2>2
<1>8. CASE op.ctx = "rm"
  <2>1. CASE op.ret \notin {"ok", "needs"}
    <3> DEFINE r == op.ret
    <3>1. FailWith(r) /\ r \in Results
      BY <1>2, <1>8, <2>1 DEF Stored
    <3>2. races = 0 => Undone \/ Resumable
      BY <1>3, <1>8 DEF Source, Achieved, Named, Undone, Resumable
    <3> HIDE DEF r
    <3> QED BY <1>1, <1>2, <1>4, <1>8, <3>1, <3>2, FailWithStep
  <2>2. CASE op.ret \in {"ok", "needs"}
    <3>1. CASE unit # Missing
      <4>1. FailWith("needs")
        BY <1>8, <2>2, <3>1 DEF Stored
      <4> QED BY <1>1, <1>2, <1>4, <1>8, <4>1, FailWithStep DEF Results
    <3>2. CASE unit = Missing
      <4>1. StartReload
        BY <1>8, <2>2, <3>2 DEF Stored
      <4>2. DataOf(unit) = Goal
        BY <1>2, <1>8, <3>2 DEF Goal, DataOf
      <4> QED BY <1>1, <1>2, <1>4, <1>5, <1>6, <1>8, <2>2, <4>1, <4>2, StartReloadStep
    <3> QED BY <3>1, <3>2
  <2> QED BY <2>1, <2>2
<1>9. CASE op.ctx \in Back
  <2>1. CASE op.ret \in {"ok", "needs"} /\ DataOf(unit) = op.prev
    <3>1. StartReload
      BY <1>9, <2>1 DEF Stored
    <3> QED BY <1>1, <1>2, <1>4, <1>6, <1>9, <2>1, <3>1, StartReloadStep DEF Goal
  <2>2. CASE ~(op.ret \in {"ok", "needs"} /\ DataOf(unit) = op.prev)
    <3>1. End("rollbackfailed")
      BY <1>9, <2>2 DEF Stored
    <3> QED BY <1>1, <1>2, <1>4, <3>1, PlainEnd
  <2> QED BY <2>1, <2>2
<1> QED BY <1>2, <1>7, <1>8, <1>9

\* And with the answer of the reload.
LEMMA ReloadedStep ==
  ASSUME IInv, Reloaded
  PROVE  IInv'
<1>1. op \in Operations /\ op.cas = NoCas /\ op.at = "reloaded" /\ op # Missing /\ op.tmp \in 0..seq
  BY AtFacts DEF Reloaded, Concludes
<1>2. /\ op.ctx \in Main \cup {"rec"} /\ (op.begun <=> op.ctx \in Main) /\ op.ret \in Results
      /\ (op.ctx \in Forth => Leads(op.prev, op.want) /\ jour.phase = "forward")
      /\ (races = 0 /\ op.ctx \in Main => Achieved)
      /\ (races = 0 /\ op.ret = "ok" => Resolved(jour) /\ loaded = DataOf(unit))
  BY <1>1 DEF IInv, Conduct, Flow, Operations, Journal, Place, Progress
<1>3. Local /\ Fine
  BY DEF Reloaded, Concludes, Local
<1>4. CASE op.ret = "ok"
  <2>1. Go("clear") /\ Goes
    BY <1>4 DEF Reloaded
  <2>2. op' \in Operations /\ op' # Missing /\ op'.at = "clear" /\ op'.ctx = op.ctx /\ op'.cas = NoCas
        /\ op'.begun = op.begun /\ Same(op', op) /\ Holds(op', op)
    BY <1>1, <2>1, GoFields DEF Labels
  <2>3. Flow' /\ Errand' /\ Enablement' /\ Exchange'
    BY <1>1, <1>2, <1>3, <2>2
       DEF IInv, Conduct, Flow, Errand, Enablement, Exchange, Same, Holds, Local, dirVars, sysdVars,
            Goal, Source, DataOf, Staged
  <2>4. Journal'
    BY <1>1, <1>2, <1>3, <2>2
       DEF IInv, Conduct, Journal, Local, dirVars, Same, Holds, Named, Leads, Phased, Found, DataOf,
            Goal, Source
  <2>5. Place'
    BY <1>1, <1>2, <1>3, <1>4, <2>2
       DEF IInv, Conduct, Place, Progress, Reloads, Smooth, Pending, Local, dirVars, sysdVars,
            bounds, Same, Holds, Staged, Fine, Goal, Source, DataOf, Named, Leads, Achieved,
            Resolved
  <2> QED BY <1>1, <1>3, <2>1, <2>2, <2>3, <2>4, <2>5, LocalStep DEF Conduct, Holds
<1>5. CASE op.ret # "ok" /\ op.ctx = "rec"
  <2> DEFINE r == op.ret
  <2>1. End(r) /\ r \in Results
    BY <1>2, <1>5 DEF Reloaded
  <2> HIDE DEF r
  <2> QED BY <1>1, <1>2, <1>3, <1>5, <2>1, EarlyEnd DEF Local, IInv, TypeOK
<1>6. CASE op.ret = "repair" /\ op.ctx \in Forth
  BY <1>1, <1>2, <1>3, <1>6, PlainEnd DEF Reloaded
<1>7. CASE op.ret \notin {"ok", "repair"} /\ op.ctx = "fwd"
  <2> DEFINE r == op.ret
  <2>1. StartRollback(r) /\ r \in Results
    BY <1>2, <1>7 DEF Reloaded
  <2> HIDE DEF r
  <2> QED BY <1>1, <1>2, <1>3, <1>7, <2>1, StartRollbackStep
<1>8. CASE op.ret \notin {"ok", "repair"} /\ op.ctx = "rm"
  <2> DEFINE r == op.ret
  <2>1. StartRestore(r) /\ Goes /\ r \in Results
    BY <1>2, <1>8 DEF Reloaded
  <2>2. races = 0 => DataOf(unit) = op.want
    BY <1>2, <1>8 DEF Achieved, Goal
  <2> HIDE DEF r
  <2> QED BY <1>1, <1>2, <1>3, <1>8, <2>1, <2>2, StartRestoreStep
<1>9. CASE op.ret # "ok" /\ op.ctx \in Back
  <2>1. End("rollbackfailed")
    BY <1>9 DEF Reloaded
  <2> QED BY <1>1, <1>2, <1>3, <1>9, <2>1, PlainEnd
<1> QED BY <1>2, <1>4, <1>5, <1>6, <1>7, <1>8, <1>9

\* And with the answer of clear_reload_required.
LEMMA ClearedStep ==
  ASSUME IInv, Cleared
  PROVE  IInv'
<1>1. op \in Operations /\ op.cas = NoCas /\ op.at = "cleared" /\ op # Missing /\ op.tmp \in 0..seq
  BY AtFacts DEF Cleared, Concludes
<1>2. /\ op.ctx \in Main \cup {"rec", "recabort"} /\ (op.begun <=> op.ctx \in Main)
      /\ op.ret \in {"ok", "repair", "needs", "io", "conflict"} /\ op.orig \in Results
      /\ (op.ret = "ok" => jour = Missing /\ ~tomb)
      /\ (op.ctx \in Forth => jour = Missing \/ (Leads(op.prev, op.want) /\ jour.phase = "forward"))
      /\ (op.ctx \in Forth /\ op.ret \in {"io", "conflict"} => jour # Missing)
      /\ (op.ctx = "recabort" /\ op.ret = "needs" => jour = Missing \/ Kept)
      /\ (races = 0 /\ op.ctx \in Main => DataOf(unit) = Goal /\ loaded = Goal)
      /\ (races = 0 /\ jour = Missing => loaded = DataOf(unit))
  BY <1>1 DEF IInv, Conduct, Flow, Errand, Operations, Journal, Place, Progress, World, Directory
<1>3. Local /\ Fine
  BY DEF Cleared, Concludes, Local
<1>4. CASE op.ret = "ok" /\ op.ctx \in {"rec", "recabort"}
  <2>1. Go("begin") /\ Goes
    BY <1>4 DEF Cleared
  <2>2. op' \in Operations /\ op' # Missing /\ op'.at = "begin" /\ op'.ctx = op.ctx /\ op'.cas = NoCas
        /\ op'.begun = op.begun /\ Same(op', op) /\ Holds(op', op)
    BY <1>1, <2>1, GoFields DEF Labels
  <2>3. Flow' /\ Errand' /\ Enablement' /\ Exchange'
    BY <1>1, <1>2, <1>3, <1>4, <2>2
       DEF IInv, Conduct, Flow, Errand, Enablement, Exchange, Same, Holds, Local, dirVars, sysdVars,
            Goal, Source, DataOf, Staged
  <2>4. Journal'
    BY <1>1, <1>2, <1>3, <1>4, <2>2
       DEF IInv, Conduct, Journal, Local, dirVars, Same, Holds, Named, Leads, Phased, Found, DataOf,
            Goal, Source
  <2>5. Place'
    BY <1>1, <1>2, <1>3, <1>4, <2>2
       DEF IInv, Conduct, Place, Progress, Reloads, Smooth, Pending, Local, dirVars, sysdVars,
            bounds, Same, Holds, Staged, Fine, Goal, Source, DataOf, Named, Leads, Achieved
  <2> QED BY <1>1, <1>3, <2>1, <2>2, <2>3, <2>4, <2>5, LocalStep DEF Conduct, Holds
<1>5. CASE op.ret = "ok" /\ op.ctx \in Forth
  <2>1. End("changed")
    BY <1>5 DEF Cleared
  <2>2. op.kind \in {"install", "update", "remove"} /\ Goal = op.want
    BY <1>1, <1>5 DEF IInv, Conduct, Errand, Goal
  <2>3. UNCHANGED <<dirVars, loaded, snap, aliens, seq, bounds>> /\ enabled' \in BOOLEAN
    BY <1>3 DEF Local, sysdVars, IInv, TypeOK
  <2> QED BY <1>1, <1>2, <1>3, <1>5, <2>1, <2>2, <2>3, MainEnd
<1>6. CASE op.ret = "ok" /\ op.ctx \in Back
  <2> DEFINE r == op.orig
  <2>1. FailWith(r) /\ r \in Results
    BY <1>2, <1>6 DEF Cleared
  <2>2. races = 0 => Undone
    BY <1>2, <1>6 DEF Goal, Undone
  <2> HIDE DEF r
  <2> QED BY <1>1, <1>2, <1>3, <1>6, <2>1, <2>2, FailWithStep
<1>7. CASE op.ret # "ok" /\ (op.ctx = "rec" \/ (op.ctx = "recabort" /\ op.ret # "needs"))
  <2> DEFINE r == op.ret
  <2>1. End(r) /\ r \in Results
    BY <1>2, <1>7 DEF Cleared, Results
  <2> HIDE DEF r
  <2> QED BY <1>1, <1>2, <1>3, <1>7, <2>1, EarlyEnd DEF Local, IInv, TypeOK
<1>8. CASE op.ret \in {"needs", "repair"} /\ op.ctx = "fwd"
  <2> DEFINE r == op.ret
  <2>1. End(r) /\ r \in {"needs", "repair"}
    BY <1>8 DEF Cleared
  <2> HIDE DEF r
  <2> QED BY <1>1, <1>2, <1>3, <1>8, <2>1, PlainEnd
<1>9. CASE op.ret = "repair" /\ op.ctx = "rm"
  <2>1. End("repair")
    BY <1>9 DEF Cleared
  <2> QED BY <1>1, <1>2, <1>3, <1>9, <2>1, PlainEnd
<1>10. CASE op.ret \notin {"ok", "repair"} /\ op.ctx = "rm"
  <2> DEFINE r == op.ret
  <2>1. StartRestore(r) /\ Goes /\ r \in Results
    BY <1>2, <1>10 DEF Cleared, Results
  <2>2. races = 0 => DataOf(unit) = op.want
    BY <1>2, <1>10 DEF Goal
  <2> HIDE DEF r
  <2> QED BY <1>1, <1>2, <1>3, <1>10, <2>1, <2>2, StartRestoreStep
<1>11. CASE op.ret # "ok" /\ op.ctx \in Back
  <2>1. End("rollbackfailed")
    BY <1>11 DEF Cleared
  <2> QED BY <1>1, <1>2, <1>3, <1>11, <2>1, PlainEnd
<1>12. CASE op.ret \in {"io", "conflict"} /\ op.ctx = "fwd"
  <2> DEFINE r == op.ret
  <2>1. End(r) /\ r \in Results /\ r \notin {"changed", "unchanged"}
    BY <1>12 DEF Cleared, Results
  <2>2. Leads(op.prev, op.want) /\ op.prev # op.want /\ Goal = op.want
    BY <1>1, <1>2, <1>12 DEF IInv, Conduct, Errand, Goal
  <2>3. races = 0 => Resumable
    BY <1>2, <1>12, <2>2 DEF IInv, World, Directory, Shape, Resumable, Leads
  <2>4. enabled = op.was /\ enabled \in BOOLEAN
    BY <1>1, <1>12 DEF IInv, TypeOK, Conduct, Enablement
  <2>5. UNCHANGED <<dirVars, loaded, snap, aliens, seq, bounds>> /\ enabled' = enabled
    BY <1>3 DEF Local, sysdVars
  <2> HIDE DEF r
  <2> QED BY <1>1, <1>2, <1>3, <1>12, <2>1, <2>3, <2>4, <2>5, MainEnd
<1>13. CASE op.ret = "needs" /\ op.ctx = "recabort"
  <2>1. Go("recheck") /\ Goes
    BY <1>13 DEF Cleared
  <2>2. op' \in Operations /\ op' # Missing /\ op'.at = "recheck" /\ op'.ctx = op.ctx /\ op'.cas = NoCas
        /\ op'.begun = op.begun /\ Same(op', op) /\ Holds(op', op)
    BY <1>1, <2>1, GoFields DEF Labels
  <2>3. Flow' /\ Errand' /\ Enablement' /\ Exchange'
    BY <1>1, <1>2, <1>3, <1>13, <2>2
       DEF IInv, Conduct, Flow, Errand, Enablement, Exchange, Same, Local, sysdVars
  <2>4. Journal' /\ Place'
    BY <1>2, <1>3, <1>13, <2>2
       DEF Journal, Place, Progress, Reloads, Smooth, Pending, Kept, Local, dirVars
  <2> QED BY <1>1, <1>3, <2>1, <2>2, <2>3, <2>4, LocalStep DEF Conduct, Holds
<1> QED BY <1>2, <1>4, <1>5, <1>6, <1>7, <1>8, <1>9, <1>10, <1>11, <1>12, <1>13

\* rollback_file starts the reverse change.
LEMMA RollbackFileStep ==
  ASSUME IInv, RollbackFile
  PROVE  IInv'
<1>1. op \in Operations /\ op.cas = NoCas /\ op.at = "back" /\ op # Missing /\ op.tmp \in 0..seq
  BY AtFacts DEF RollbackFile, Concludes
<1>2. /\ op.begun /\ op.ctx = "fwd" /\ op.kind \in {"install", "update"} /\ op.prev # op.want
      /\ op.want \in Data /\ op.prev \in Data \cup {Missing} /\ Leads(op.prev, op.want) /\ jour.phase = "forward"
  BY <1>1 DEF IInv, Conduct, Flow, Errand, Journal, Operations
<1>3. Local /\ Fine
  BY DEF RollbackFile, Concludes, Local
<1>4. CASE DataOf(unit) # op.want
  BY <1>1, <1>2, <1>3, <1>4, PlainEnd DEF RollbackFile
<1>5. CASE DataOf(unit) = op.want
  <2>1. unit \in Ours
    BY <1>2, <1>5, UnitAssumption DEF IInv, TypeOK, DataOf, Files, Ours
  <2> DEFINE p == op.prev
  <2> DEFINE u == unit
  <2> DEFINE l == IF op.prev = Missing THEN "rmfile" ELSE "write"
  <2>2. op' = [op EXCEPT !.ctx = "back", !.exp = u, !.put = p, !.at = l] /\ Goes
        /\ u \in Ours /\ p \in Data \cup {Missing} /\ l \in Labels
    BY <1>2, <1>5, <2>1 DEF RollbackFile, Labels
  <2> HIDE DEF p, u, l
  <2>3. op' \in Operations /\ op' # Missing /\ op'.at = l /\ op'.ctx = "back" /\ op'.cas = NoCas
        /\ op'.begun = op.begun /\ Same(op', op) /\ op'.exp = u /\ op'.put = p /\ op'.tmp = op.tmp
    <3>1. op' \in Operations
      BY <1>1, <2>2 DEF Operations, Contexts
    <3>2. op' # Missing
      BY <3>1, MissingAssumption
    <3> QED BY <1>1, <2>2, <3>1, <3>2 DEF Operations, Same
  <2>4. Flow' /\ Errand' /\ Enablement' /\ Exchange'
    BY <1>1, <1>2, <1>3, <1>5, <2>2, <2>3, UnitAssumption
       DEF p, u, l, IInv, Conduct, Flow, Errand, Enablement, Exchange, Same, Local, dirVars,
            sysdVars, Goal, Source, DataOf
  <2>5. Journal'
    BY <1>1, <1>2, <1>3, <2>3 DEF l, Journal, Local, dirVars, Same, Leads, Found, DataOf
  <2>6. Place'
    BY <1>1, <1>2, <1>3, <2>3
       DEF u, l, Place, Progress, Reloads, Smooth, Pending, Local, dirVars, bounds
  <2> QED BY <1>1, <1>3, <2>2, <2>3, <2>4, <2>5, <2>6, LocalStep DEF Conduct
<1> QED BY <1>4, <1>5

-----------------------------------------------------------------------------
(* Staging a file and writing the journal                                     *)

\* Going on with an answer and a staging name.
LEMMA NameFields ==
  ASSUME op \in Operations, NEW l \in Labels, NEW r \in Results, NEW t \in Nat,
         op' = [op EXCEPT !.at = l, !.ret = r, !.tmp = t]
  PROVE  /\ op' \in Operations /\ op' # Missing /\ op'.at = l /\ op'.ret = r /\ op'.ctx = op.ctx /\ op'.cas = op.cas
         /\ op'.begun = op.begun /\ op'.tmp = t /\ op'.put = op.put /\ op'.new = op.new /\ op'.exp = op.exp
         /\ Same(op', op)
<1>1. op' \in Operations
  BY DEF Operations
<1>2. op' # Missing
  BY <1>1, MissingAssumption
<1> QED BY <1>1, <1>2 DEF Operations, Same

\* atomic_replace is given up before the journal: nothing has changed.
LEMMA GivenUp ==
  ASSUME IInv, op \in Operations, op # Missing, op.cas = NoCas, op.at \in {"write", "rmfile"},
         UNCHANGED <<dirVars, sysdVars, snap, aliens, bounds>>, seq' \in Nat, seq <= seq', Fine \/ Fault, Goes,
         op' \in Operations, op' # Missing, op'.at = "stored", op'.ctx = op.ctx, op'.cas = NoCas,
         op'.begun = op.begun, op'.exp = op.exp, Same(op', op), op'.tmp \in 0..seq', op'.ret \notin {"ok", "needs"}
  PROVE  IInv'
<1>1. op.ctx \in Main /\ op.begun
  BY DEF IInv, Conduct, Flow
<1>2. Flow' /\ Errand' /\ Enablement' /\ Exchange'
  BY <1>1 DEF IInv, Conduct, Flow, Errand, Enablement, Exchange, Same, sysdVars, Goal, Source, DataOf
<1>3. Journal'
  BY <1>1 DEF IInv, Conduct, Journal, dirVars, Same, Leads, Found, DataOf
<1>4. races = 0 => DataOf(unit) = Source
  BY <1>1 DEF IInv, Conduct, Place, Progress, Errand
<1>5. Place'
  BY <1>1, <1>4
     DEF IInv, Conduct, Place, Progress, Reloads, Smooth, Pending, dirVars, sysdVars, bounds, Same,
          Source, DataOf
<1>6. World'
  BY WorldKept DEF IInv, dirVars, sysdVars, bounds
<1>7. TypeOK'
  <2>1. DOMAIN staged \subseteq 1..seq' /\ aliens \subseteq 1..seq' /\ (jour # Missing => jour.temp \in 1..seq')
    BY DEF IInv, TypeOK, Records
  <2>2. (unit # Missing => unit.ino <= seq') /\ \A i \in DOMAIN staged : staged[i].ino <= seq'
    BY DEF IInv, TypeOK, Files
  <2> QED BY <2>1, <2>2, Faults DEF IInv, TypeOK, Goes, dirVars, sysdVars, bounds
<1> QED BY <1>2, <1>3, <1>5, <1>6, <1>7, NothingTold DEF IInv, Conduct

\* A new file under a name that was never given out.
LEMMA WriteStep ==
  ASSUME IInv, Write
  PROVE  IInv'
<1>1. op \in Operations /\ op.cas = NoCas /\ op.at = "write" /\ op # Missing /\ op.tmp \in 0..seq
  BY AtFacts DEF Write
<1>2. op.ctx \in {"fwd", "back", "rmback"} /\ op.begun /\ op.put = Goal /\ op.put \in Data /\ DataOf(op.exp) = Source /\ Found
  BY <1>1 DEF IInv, Conduct, Flow, Errand, Journal
<1>3. UNCHANGED <<unit, jour, tomb, sysdVars, snap, aliens, bounds>> /\ (Fine \/ Fault) /\ Goes
  BY DEF Write, Fine, Fault
<1>4. seq \in Nat
  BY DEF IInv, TypeOK
<1>5. ASSUME NEW r \in {"cancelled", "conflict", "io"}, Answer("stored", r), UNCHANGED <<staged, seq>>
      PROVE  IInv'
  <2>1. op' \in Operations /\ op' # Missing /\ op'.at = "stored" /\ op'.ctx = op.ctx /\ op'.cas = NoCas
        /\ op'.ret = r /\ op'.begun = op.begun /\ Same(op', op) /\ Holds(op', op)
    BY <1>1, <1>5, AnswerFields DEF Labels, Results
  <2>2. op'.tmp \in 0..seq' /\ seq' = seq /\ op'.exp = op.exp
    BY <1>1, <1>5, <2>1 DEF Holds
  <2> QED BY <1>1, <1>3, <1>4, <1>5, <2>1, <2>2, GivenUp DEF dirVars
<1> DEFINE n == seq + 1
<1> DEFINE file == [ino |-> n, data |-> op.put]
<1>6. CASE /\ unit = op.exp /\ op' = [op EXCEPT !.at = "publish", !.tmp = n, !.new = file]
           /\ staged' = WithStaged(n, file) /\ seq' = n
  <2>1. file \in Ours /\ file \in Files /\ file.ino = n /\ file.data \in Data /\ n \in Nat /\ n # 0 /\ file # Missing
    BY <1>2, <1>4, MissingAssumption DEF Ours, Files
  <2>2. op' = [op EXCEPT !.at = "publish", !.tmp = n, !.new = file] /\ staged' = WithStaged(n, file)
    BY <1>6
  <2>3. n \notin DOMAIN staged /\ n \notin aliens /\ (jour # Missing => jour.temp # n)
    BY <1>4 DEF IInv, TypeOK
  <2>4. file = [ino |-> n, data |-> op.put]
    OBVIOUS
  <2> HIDE DEF file
  <2>5. op' \in Operations /\ op' # Missing /\ op'.at = "publish" /\ op'.ctx = op.ctx /\ op'.cas = NoCas
        /\ op'.begun = op.begun /\ op'.tmp = n /\ op'.new = file /\ op'.put = op.put /\ op'.exp = op.exp /\ Same(op', op)
    <3> HIDE DEF n
    <3>1. op' \in Operations
      BY <1>1, <2>1, <2>2, ZenonT(40) DEF Operations, Labels
    <3>2. op' # Missing
      BY <3>1, MissingAssumption
    <3> QED BY <1>1, <2>1, <2>2, <3>1, <3>2 DEF Operations, Same
  <2>6. /\ DOMAIN staged' = DOMAIN staged \cup {n} /\ staged'[n] = file
        /\ \A i \in DOMAIN staged : staged'[i] = staged[i]
    BY <2>2, <2>3 DEF WithStaged
  <2>7. TypeOK'
    <3>1. staged' \in [DOMAIN staged' -> Files] /\ DOMAIN staged' \subseteq 1..n
      <4>1. \A i \in DOMAIN staged : staged[i] \in Files
        BY DEF IInv, TypeOK
      <4>2. staged' = [i \in DOMAIN staged' |-> staged'[i]]
        BY <2>2 DEF WithStaged
      <4> QED BY <1>4, <2>1, <2>6, <4>1, <4>2 DEF IInv, TypeOK
    <3>2. \A i \in DOMAIN staged' : staged'[i].ino <= n
      BY <1>4, <2>1, <2>6 DEF IInv, TypeOK, Files
    <3>3. /\ unit' # Missing => unit'.ino <= n
          /\ jour' # Missing => jour'.temp \in 1..n
          /\ aliens' \subseteq 1..n /\ op'.tmp \in 0..n
      BY <1>3, <1>4, <2>1, <2>5 DEF IInv, TypeOK, Files, Records
    <3> QED BY <1>3, <1>6, <2>1, <2>5, <3>1, <3>2, <3>3, Faults DEF IInv, TypeOK, Goes, sysdVars, bounds
  <2>8. jour # Missing => Staged(jour.temp)' = Staged(jour.temp)
    BY <1>3, <2>3, <2>6 DEF Staged
  <2>9. World'
    <3>1. Lawful'
      BY <1>3 DEF IInv, World, Lawful, DataOf
    <3>2. races' = 0 => Directory'
      BY <1>3, <2>8 DEF IInv, World, Directory, Shape, DataOf, sysdVars, bounds
    <3>3. (tomb' => jour' = Missing) /\ CrashRecovers'
      BY <1>3, <2>8, Faults DEF IInv, World, CrashRecovers, Recoverable, DataOf, sysdVars, bounds
    <3>4. Marked'
      BY <1>3, <2>1, <2>3, <2>6 DEF IInv, World, Marked
    <3>5. RacerPreserved'
      BY <1>3, <2>6 DEF IInv, World, RacerPreserved
    <3> QED BY <3>1, <3>2, <3>3, <3>4, <3>5 DEF World
  <2>10. Flow' /\ Errand' /\ Enablement' /\ Exchange'
    BY <1>1, <1>2, <1>3, <2>1, <2>4, <2>5
       DEF IInv, Conduct, Flow, Errand, Enablement, Exchange, Same, sysdVars, Goal, Source, DataOf
  <2>11. Journal'
    BY <1>1, <1>2, <1>3, <2>3, <2>5 DEF Journal, Found, Leads, Same, DataOf
  <2>12. Staged(op.tmp)' = file
    BY <2>5, <2>6 DEF Staged
  <2>13. Place'
    BY <1>1, <1>2, <1>3, <1>6, <2>5, <2>12
       DEF IInv, Conduct, Place, Progress, Reloads, Smooth, Pending, Same, sysdVars, bounds
  <2> QED BY <1>1, <1>3, <2>7, <2>9, <2>10, <2>11, <2>13, NothingTold DEF IInv, Conduct
<1> QED BY <1>5, <1>6 DEF Write

\* The journal goes on record before anything is published.
LEMMA PublishWorld ==
  ASSUME IInv, op \in Operations, op # Missing, Fine \/ Fault, UNCHANGED <<unit, staged, loaded, aliens, races>>,
         NEW k \in {"replace", "remove"}, NEW t \in Nat, NEW a \in Ours \cup {Missing}, NEW ph,
         ph = (IF jour = Missing THEN "forward" ELSE "rollback"), jour' = Record(ph, k, t, op.exp, a),
         ~tomb', DataOf(op.exp) # DataOf(a), k = "remove" <=> a = Missing,
         races = 0 => unit = op.exp /\ Staged(t) = a
  PROVE  /\ World' /\ jour' \in Records /\ jour' # Missing /\ jour'.phase = ph /\ jour'.kind = k
         /\ jour'.temp = t /\ jour'.before = op.exp /\ jour'.after = a
<1>1. op.exp \in Ours \cup {Missing}
  BY DEF Operations
<1> DEFINE e == op.exp
<1>2. e \in Ours \cup {Missing} /\ jour' = Record(ph, k, t, e, a)
  BY <1>1
<1>3. ph \in {"forward", "rollback"}
  OBVIOUS
<1>4. /\ jour' \in Records /\ jour'.phase = ph /\ jour'.kind = k
      /\ jour'.temp = t /\ jour'.before = op.exp /\ jour'.after = a
  <2>1. e = op.exp
    OBVIOUS
  <2> HIDE DEF e
  <2>2. /\ jour' \in Records /\ jour'.phase = ph /\ jour'.kind = k
        /\ jour'.temp = t /\ jour'.before = e /\ jour'.after = a
    BY <1>2, <1>3 DEF Record, Records
  <2> QED BY <2>1, <2>2
<1>5. jour' # Missing
  BY <1>4, MissingAssumption
<1>6. Lawful'
  BY <1>4 DEF Lawful, DataOf
<1>7. Staged(jour.temp)' = Staged(t)
  BY <1>4 DEF Staged
<1>8. races' = 0 => Directory'
  <2> SUFFICES ASSUME races' = 0
               PROVE  Directory'
    OBVIOUS
  <2>1. unit = op.exp /\ Staged(t) = a /\ Directory
    BY DEF IInv, World
  <2>2. Shape'
    BY <1>4, <1>7, <2>1 DEF Shape
  <2>3. ph = "forward" => loaded = DataOf(unit)
    BY <2>1 DEF Directory
  <2> QED BY <1>4, <1>5, <2>1, <2>2, <2>3 DEF Directory, DataOf
<1>9. CrashRecovers' /\ (tomb' => jour' = Missing)
  BY <1>4, <1>7, Faults DEF IInv, World, CrashRecovers, Recoverable
<1>10. Marked' /\ RacerPreserved'
  BY DEF IInv, World, Marked, RacerPreserved
<1> QED BY <1>4, <1>5, <1>6, <1>8, <1>9, <1>10 DEF World

\* atomic_replace writes its record.
LEMMA WriteJournalStep ==
  ASSUME IInv, WriteJournal
  PROVE  IInv'
<1>1. op \in Operations /\ op.cas = NoCas /\ op.at = "publish" /\ op # Missing /\ op.tmp \in 0..seq
  BY AtFacts DEF WriteJournal
<1>2. /\ op.ctx \in {"fwd", "back", "rmback"} /\ op.begun /\ op.put = Goal /\ op.put \in Data
      /\ op.new = [ino |-> op.tmp, data |-> op.put] /\ op.tmp # 0 /\ DataOf(op.exp) = Source /\ Source # Goal
      /\ Found /\ (jour # Missing => jour.temp # op.tmp) /\ (races = 0 => unit = op.exp /\ Staged(op.tmp) = op.new)
      /\ (races = 0 /\ op.ctx \in Forth => loaded = op.prev)
  BY <1>1, UnitAssumption
     DEF IInv, Conduct, Flow, Errand, Journal, Place, Progress, Reloads, Goal, Source, Operations
<1>3. op.new \in Ours /\ op.new # Missing /\ DataOf(op.new) = Goal /\ op.tmp \in Nat /\ op.tmp \in 1..seq /\ op.exp \in Ours \cup {Missing}
      /\ op.new \in Ours \cup {Missing}
  BY <1>1, <1>2, MissingAssumption DEF Ours, DataOf, Operations, IInv, TypeOK
<1>4. UNCHANGED <<unit, tomb, staged, sysdVars, aliens, seq, bounds>> /\ (Fine \/ Fault) /\ Goes
  BY DEF WriteJournal, Publish, Fine, Fault
<1> DEFINE Moves(l, r) == /\ op' \in Operations /\ op' # Missing /\ op'.at = l /\ op'.ctx = op.ctx /\ op'.cas = NoCas
                          /\ op'.ret = r /\ op'.begun = op.begun /\ Same(op', op) /\ Holds(op', op)
<1>5. ASSUME NEW r \in {"cancelled", "repair", "conflict", "io"}, Moves("abort", r), UNCHANGED <<jour, snap>>
      PROVE  IInv'
  <2>1. Local
    BY <1>4, <1>5 DEF Local, dirVars
  <2>2. Flow' /\ Errand' /\ Enablement' /\ Exchange'
    BY <1>1, <1>2, <1>5, <2>1
       DEF IInv, Conduct, Flow, Errand, Enablement, Exchange, Same, Holds, Local, dirVars, sysdVars,
            Goal, Source, DataOf, Staged
  <2>3. Journal'
    BY <1>1, <1>2, <1>5, <2>1 DEF Journal, Local, dirVars, Same, Holds, Leads, Found, DataOf
  <2>4. Place'
    BY <1>1, <1>2, <1>5, <2>1
       DEF Place, Progress, Reloads, Smooth, Pending, Local, dirVars, sysdVars, bounds, Same, Holds,
            Found, Leads
  <2> QED BY <1>1, <1>4, <1>5, <2>1, <2>2, <2>3, <2>4, LocalStep DEF Conduct, Holds
<1> DEFINE ph == IF jour = Missing THEN "forward" ELSE "rollback"
<1>6. ASSUME NEW l \in {"publishing", "stored"}, NEW r \in {"ok", "needs"}, Moves(l, r), ~tomb,
             jour' = Record(ph, "replace", op.tmp, op.exp, op.new),
             l = "publishing" => r = "ok" /\ snap' = [jour |-> jour', expect |-> op.new],
             l = "stored" => r = "needs" /\ snap' = snap
      PROVE  IInv'
  <2> DEFINE t == op.tmp
  <2> DEFINE a == op.new
  <2>1. /\ World' /\ jour' \in Records /\ jour' # Missing /\ jour'.phase = ph /\ jour'.kind = "replace"
        /\ jour'.temp = t /\ jour'.before = op.exp /\ jour'.after = a
    <3>1. t \in Nat /\ a \in Ours \cup {Missing} /\ a # Missing /\ DataOf(op.exp) # DataOf(a)
          /\ (races = 0 => unit = op.exp /\ Staged(t) = a) /\ jour' = Record(ph, "replace", t, op.exp, a)
      BY <1>2, <1>3, <1>6
    <3>2. UNCHANGED <<unit, staged, loaded, aliens, races>> /\ ~tomb'
      BY <1>4, <1>6 DEF sysdVars, bounds
    <3> HIDE DEF t, a
    <3> QED BY <1>1, <1>4, <3>1, <3>2, PublishWorld
  <2>2. snap' \in Snaps \cup {Missing}
    <3>1. CASE l = "stored"
      BY <1>6, <3>1 DEF IInv, TypeOK
    <3>2. CASE l = "publishing"
      <4> DEFINE j == jour'
      <4>1. j \in Records /\ a \in Ours /\ snap' = [jour |-> j, expect |-> a]
        BY <1>3, <1>6, <2>1, <3>2
      <4> HIDE DEF j, a
      <4> QED BY <4>1 DEF Snaps
    <3> QED BY <3>1, <3>2
  <2>3. TypeOK'
    BY <1>1, <1>3, <1>4, <1>6, <2>1, <2>2, Faults DEF IInv, TypeOK, Goes, sysdVars, bounds, Holds
  <2>4. Flow' /\ Errand' /\ Enablement' /\ Exchange'
    BY <1>1, <1>2, <1>4, <1>6
       DEF IInv, Conduct, Flow, Errand, Enablement, Exchange, Same, Holds, sysdVars, Goal, Source,
            DataOf
  <2>5. Leads(op.prev, op.want)' \/ op.ctx \notin Forth
    BY <1>2, <1>3, <1>6, <2>1 DEF Leads, DataOf, Same, Source, Goal
  <2>6. /\ op.ctx \in Forth => ph = "forward"
        /\ op.ctx = "back" => ph = "rollback"
    BY <1>2 DEF Found, Leads
  <2>7. Journal'
    <3>1. CASE l = "publishing"
      <4>1. Named' /\ Phased' /\ Posted'
        BY <1>1, <1>2, <1>6, <2>1, <2>6, <3>1 DEF Named, Phased, Posted, Holds
      <4> QED BY <1>6, <3>1, <4>1 DEF Journal
    <3>2. CASE l = "stored"
      BY <1>6, <2>1, <2>5, <2>6, <3>2 DEF Journal, Same
    <3> QED BY <3>1, <3>2
  <2>8. Place'
    <3>1. races = 0 => Staged(op.tmp)' = op.new /\ unit' = op.exp /\ DataOf(unit') = Source
      BY <1>2, <1>4, <1>6 DEF Staged, Holds
    <3>2. loaded' = loaded /\ races' = races /\ Source' = Source
      BY <1>2, <1>4, <1>6 DEF sysdVars, bounds, Source, Same
    <3>3. CASE l = "publishing"
      BY <1>1, <1>2, <1>6, <3>1, <3>2, <3>3 DEF Place, Progress, Reloads, Smooth, Pending, Same, Holds
    <3>4. CASE l = "stored"
      BY <1>1, <1>2, <1>6, <3>1, <3>2, <3>4
         DEF Place, Progress, Reloads, Smooth, Pending, Same, Holds, DataOf
    <3> QED BY <3>3, <3>4
  <2> QED BY <1>1, <1>4, <2>1, <2>3, <2>4, <2>7, <2>8, NothingTold DEF IInv, Conduct
<1> HIDE DEF ph
<1>7. CASE Answer("abort", "cancelled") /\ UNCHANGED <<jour, snap>>
  <2>1. Moves("abort", "cancelled")
    BY <1>1, <1>7, AnswerFields DEF Labels, Results
  <2> QED BY <1>5, <1>7, <2>1
<1>8. CASE Publish("replace", op.tmp, op.new, "publishing", "abort")
  <2> DEFINE t == op.tmp
  <2> DEFINE goes(l, r) == op' = [op EXCEPT !.at = l, !.ret = r, !.tmp = t]
  <2>1. ASSUME NEW l \in {"abort", "publishing", "stored"}, NEW r \in {"repair", "conflict", "io", "ok", "needs"}, goes(l, r)
        PROVE  Moves(l, r)
    <3>1. t \in Nat /\ t = op.tmp /\ l \in Labels /\ r \in Results /\ op' = [op EXCEPT !.at = l, !.ret = r, !.tmp = t]
      BY <1>3, <2>1 DEF Labels, Results
    <3> HIDE DEF t
    <3>2. /\ op' \in Operations /\ op' # Missing /\ op'.at = l /\ op'.ret = r /\ op'.ctx = op.ctx /\ op'.cas = op.cas
          /\ op'.begun = op.begun /\ op'.tmp = t /\ op'.put = op.put /\ op'.new = op.new /\ op'.exp = op.exp
          /\ Same(op', op)
      BY <1>1, <3>1, NameFields
    <3> QED BY <1>1, <3>1, <3>2 DEF Holds
  <2>2. \/ \E r \in {"repair", "conflict", "io"} : goes("abort", r) /\ UNCHANGED <<jour, snap>>
        \/ /\ goes("publishing", "ok") /\ ~tomb /\ jour' = Record(ph, "replace", op.tmp, op.exp, op.new)
           /\ snap' = [jour |-> Record(ph, "replace", op.tmp, op.exp, op.new), expect |-> op.new]
        \/ /\ goes("stored", "needs") /\ ~tomb /\ jour' = Record(ph, "replace", op.tmp, op.exp, op.new)
           /\ UNCHANGED snap
    <3>1. tomb => jour = Missing
      BY DEF IInv, World
    <3> QED BY <1>8, <3>1 DEF Publish, ph
  <2> HIDE DEF goes
  <2>3. CASE \E r \in {"repair", "conflict", "io"} : goes("abort", r) /\ UNCHANGED <<jour, snap>>
    BY <1>5, <2>1, <2>3
  <2>4. CASE /\ goes("publishing", "ok") /\ ~tomb /\ jour' = Record(ph, "replace", op.tmp, op.exp, op.new)
             /\ snap' = [jour |-> Record(ph, "replace", op.tmp, op.exp, op.new), expect |-> op.new]
    <3>1. snap' = [jour |-> jour', expect |-> op.new]
      BY <2>4
    <3> QED BY <1>6, <2>1, <2>4, <3>1
  <2>5. CASE goes("stored", "needs") /\ ~tomb /\ jour' = Record(ph, "replace", op.tmp, op.exp, op.new) /\ UNCHANGED snap
    BY <1>6, <2>1, <2>5
  <2> QED BY <2>2, <2>3, <2>4, <2>5
<1> QED BY <1>7, <1>8 DEF WriteJournal

\* atomic_remove writes its record.
LEMMA RemoveJournalStep ==
  ASSUME IInv, RemoveJournal
  PROVE  IInv'
<1>1. op \in Operations /\ op.cas = NoCas /\ op.at = "rmfile" /\ op # Missing /\ op.tmp \in 0..seq
  BY AtFacts DEF RemoveJournal
<1>2. /\ op.ctx \in {"rm", "back"} /\ op.begun /\ Goal = Missing /\ DataOf(op.exp) = Source /\ Source # Goal
      /\ Found /\ (races = 0 => unit = op.exp) /\ (races = 0 /\ op.ctx \in Forth => loaded = op.prev)
  BY <1>1, UnitAssumption
     DEF IInv, Conduct, Flow, Errand, Journal, Place, Progress, Reloads, Goal, Source, Operations
<1>3. UNCHANGED <<unit, tomb, staged, sysdVars, aliens, bounds>> /\ (Fine \/ Fault) /\ Goes
  BY DEF RemoveJournal, Publish, Fine, Fault
<1>4. seq \in Nat /\ seq + 1 \in Nat /\ seq <= seq + 1 /\ seq + 1 \in 0..(seq + 1) /\ seq + 1 \in 1..(seq + 1)
  BY DEF IInv, TypeOK
<1>5. Staged(seq + 1) = Missing
  BY <1>4 DEF IInv, TypeOK, Staged
<1> DEFINE t == seq + 1
<1> DEFINE Moves(l, r) == /\ op' \in Operations /\ op' # Missing /\ op'.at = l /\ op'.ctx = op.ctx /\ op'.cas = NoCas
                          /\ op'.ret = r /\ op'.begun = op.begun /\ Same(op', op) /\ op'.exp = op.exp /\ op'.tmp = t
<1> DEFINE ph == IF jour = Missing THEN "forward" ELSE "rollback"
<1>6. ASSUME NEW l \in {"take", "stored"}, NEW r \in {"ok", "needs"}, Moves(l, r), seq' = t, ~tomb,
             jour' = Record(ph, "remove", t, op.exp, Missing),
             l = "take" => r = "ok" /\ snap' = [jour |-> jour', expect |-> Missing],
             l = "stored" => r = "needs" /\ snap' = snap
      PROVE  IInv'
  <2>1. /\ World' /\ jour' \in Records /\ jour' # Missing /\ jour'.phase = ph /\ jour'.kind = "remove"
        /\ jour'.temp = t /\ jour'.before = op.exp /\ jour'.after = Missing
    <3>1. t \in Nat /\ DataOf(op.exp) # DataOf(Missing)
          /\ (races = 0 => unit = op.exp /\ Staged(t) = Missing) /\ jour' = Record(ph, "remove", t, op.exp, Missing)
      BY <1>2, <1>4, <1>5, <1>6 DEF DataOf
    <3>2. UNCHANGED <<unit, staged, loaded, aliens, races>> /\ ~tomb'
      BY <1>3, <1>6 DEF sysdVars, bounds
    <3> HIDE DEF t
    <3> QED BY <1>1, <1>3, <3>1, <3>2, PublishWorld
  <2>2. snap' \in Snaps \cup {Missing}
    <3>1. CASE l = "stored"
      BY <1>6, <3>1 DEF IInv, TypeOK
    <3>2. CASE l = "take"
      <4> DEFINE j == jour'
      <4>1. j \in Records /\ snap' = [jour |-> j, expect |-> Missing]
        BY <1>6, <2>1, <3>2
      <4> HIDE DEF j
      <4> QED BY <4>1 DEF Snaps
    <3> QED BY <3>1, <3>2
  <2>3. TypeOK'
    <3>1. DOMAIN staged \subseteq 1..t /\ aliens \subseteq 1..t
      BY <1>4 DEF IInv, TypeOK
    <3>2. (unit # Missing => unit.ino <= t) /\ \A i \in DOMAIN staged : staged[i].ino <= t
      BY <1>4 DEF IInv, TypeOK, Files
    <3>3. jour'.temp \in 1..t /\ op'.tmp \in 0..t /\ t \in Nat
      BY <1>4, <1>6, <2>1
    <3> HIDE DEF t
    <3> QED BY <1>3, <1>6, <2>1, <2>2, <3>1, <3>2, <3>3, Faults DEF IInv, TypeOK, Goes, sysdVars, bounds
  <2> HIDE DEF t
  <2>4. Flow' /\ Errand' /\ Enablement' /\ Exchange'
    BY <1>1, <1>2, <1>3, <1>6
       DEF IInv, Conduct, Flow, Errand, Enablement, Exchange, Same, sysdVars, Goal, Source, DataOf
  <2>5. Leads(op.prev, op.want)' \/ op.ctx \notin Forth
    BY <1>2, <1>6, <2>1 DEF Leads, DataOf, Same, Source, Goal
  <2>6. /\ op.ctx \in Forth => ph = "forward"
        /\ op.ctx = "back" => ph = "rollback"
    BY <1>2 DEF Found, Leads
  <2>7. Journal'
    <3>1. CASE l = "take"
      <4>1. Named' /\ Phased' /\ Posted'
        BY <1>1, <1>2, <1>6, <2>1, <2>6, <3>1 DEF Named, Phased, Posted
      <4> QED BY <1>6, <3>1, <4>1 DEF Journal
    <3>2. CASE l = "stored"
      BY <1>6, <2>1, <2>5, <2>6, <3>2 DEF Journal, Same
    <3> QED BY <3>1, <3>2
  <2>8. Place'
    <3>1. races = 0 => unit' = op.exp /\ DataOf(unit') = Source
      BY <1>2, <1>3, <1>6
    <3>2. loaded' = loaded /\ races' = races /\ Source' = Source
      BY <1>2, <1>3, <1>6 DEF sysdVars, bounds, Source, Same
    <3>3. CASE l = "take"
      BY <1>1, <1>2, <1>6, <3>1, <3>2, <3>3 DEF Place, Progress, Reloads, Smooth, Pending, Same
    <3>4. CASE l = "stored"
      BY <1>1, <1>2, <1>6, <3>1, <3>2, <3>4 DEF Place, Progress, Reloads, Smooth, Pending, Same, DataOf
    <3> QED BY <3>3, <3>4
  <2> QED BY <1>1, <1>3, <2>1, <2>3, <2>4, <2>7, <2>8, NothingTold DEF IInv, Conduct
<1> HIDE DEF ph
<1>7. CASE Answer("stored", "cancelled") /\ UNCHANGED <<jour, snap, seq>>
  <2>1. op' \in Operations /\ op' # Missing /\ op'.at = "stored" /\ op'.ctx = op.ctx /\ op'.cas = NoCas
        /\ op'.ret = "cancelled" /\ op'.begun = op.begun /\ Same(op', op) /\ Holds(op', op)
    BY <1>1, <1>7, AnswerFields DEF Labels, Results
  <2>2. op'.tmp \in 0..seq' /\ seq' = seq /\ seq <= seq' /\ op'.exp = op.exp
    BY <1>1, <1>4, <1>7, <2>1 DEF Holds
  <2> QED BY <1>1, <1>3, <1>4, <1>7, <2>1, <2>2, GivenUp DEF dirVars
<1>8. CASE Publish("remove", t, Missing, "take", "stored") /\ seq' = t
  <2> DEFINE goes(l, r) == op' = [op EXCEPT !.at = l, !.ret = r, !.tmp = t]
  <2>1. ASSUME NEW l \in {"take", "stored"}, NEW r \in {"repair", "conflict", "io", "ok", "needs"}, goes(l, r)
        PROVE  Moves(l, r)
    <3>1. t \in Nat /\ l \in Labels /\ r \in Results /\ op' = [op EXCEPT !.at = l, !.ret = r, !.tmp = t]
      BY <1>4, <2>1 DEF Labels, Results
    <3> HIDE DEF t
    <3>2. /\ op' \in Operations /\ op' # Missing /\ op'.at = l /\ op'.ret = r /\ op'.ctx = op.ctx /\ op'.cas = op.cas
          /\ op'.begun = op.begun /\ op'.tmp = t /\ op'.put = op.put /\ op'.new = op.new /\ op'.exp = op.exp
          /\ Same(op', op)
      BY <1>1, <3>1, NameFields
    <3> QED BY <1>1, <3>1, <3>2
  <2>2. \/ \E r \in {"repair", "conflict", "io"} : goes("stored", r) /\ UNCHANGED <<jour, snap>>
        \/ /\ goes("take", "ok") /\ ~tomb /\ jour' = Record(ph, "remove", t, op.exp, Missing)
           /\ snap' = [jour |-> Record(ph, "remove", t, op.exp, Missing), expect |-> Missing]
        \/ /\ goes("stored", "needs") /\ ~tomb /\ jour' = Record(ph, "remove", t, op.exp, Missing)
           /\ UNCHANGED snap
    <3>1. tomb => jour = Missing
      BY DEF IInv, World
    <3> QED BY <1>8, <3>1 DEF Publish, ph
  <2> HIDE DEF goes
  <2>3. CASE \E r \in {"repair", "conflict", "io"} : goes("stored", r) /\ UNCHANGED <<jour, snap>>
    <3>1. PICK r \in {"repair", "conflict", "io"} : goes("stored", r)
      BY <2>3
    <3>2. Moves("stored", r)
      BY <2>1, <3>1
    <3>3. op'.tmp \in 0..seq' /\ seq' \in Nat /\ seq <= seq'
      BY <1>4, <1>8, <3>2
    <3>4. UNCHANGED <<dirVars, sysdVars, snap, aliens, bounds>>
      BY <1>3, <2>3 DEF dirVars
    <3> HIDE DEF t
    <3> QED BY <1>1, <1>3, <3>2, <3>3, <3>4, GivenUp
  <2>4. CASE /\ goes("take", "ok") /\ ~tomb /\ jour' = Record(ph, "remove", t, op.exp, Missing)
             /\ snap' = [jour |-> Record(ph, "remove", t, op.exp, Missing), expect |-> Missing]
    <3>1. snap' = [jour |-> jour', expect |-> Missing]
      BY <2>4
    <3> QED BY <1>6, <1>8, <2>1, <2>4, <3>1
  <2>5. CASE goes("stored", "needs") /\ ~tomb /\ jour' = Record(ph, "remove", t, op.exp, Missing) /\ UNCHANGED snap
    BY <1>6, <1>8, <2>1, <2>5
  <2> QED BY <2>2, <2>3, <2>4, <2>5
<1> QED BY <1>7, <1>8 DEF RemoveJournal

-----------------------------------------------------------------------------
(* The exchange primitives                                                    *)

\* The primitive under way and its names.
LEMMA CasFacts ==
  ASSUME IInv, op # Missing, op.cas # NoCas
  PROVE  /\ op \in Operations /\ op.tmp \in 0..seq
         /\ op.at \in {"put", "swapped", "dropped", "takenback", "aborted", "taken", "rmdropped",
                       "recsync", "recswapped", "recaborted"}
         /\ op.cas.kind \in {"swap", "put", "take", "drop"}
         /\ op.cas.mine \in Ours \cup {Missing} /\ op.cas.theirs \in Ours \cup {Missing}
         /\ op.at # "aborted" => jour # Missing /\ op.tmp = jour.temp /\ op.tmp \in 1..seq
         /\ op.cas.kind \in {"swap", "take"} => op.at # "aborted"
         /\ op.at \in Writing => jour = Missing \/ (Posted /\ jour.after = op.new /\ jour.before = op.exp) \/ (op.at = "aborted" /\ jour.temp # op.tmp)
<1>1. op \in Operations /\ op.tmp \in 0..seq
  BY DEF IInv, TypeOK
<1>2. op.cas \in Exchanges
  BY <1>1 DEF Operations
<1>3. op.cas.mine \in Ours \cup {Missing} /\ op.cas.theirs \in Ours \cup {Missing}
  BY <1>2 DEF Exchanges
<1>4. /\ op.at \in {"put", "swapped", "dropped", "takenback", "aborted", "taken", "rmdropped",
                    "recsync", "recswapped", "recaborted"}
      /\ op.cas.kind \in {"swap", "put", "take", "drop"}
      /\ op.cas.kind \in {"swap", "take"} => op.at # "aborted"
  BY DEF IInv, Conduct, Exchange
<1>5. op.at # "aborted" => jour # Missing /\ op.tmp = jour.temp
  BY <1>4 DEF IInv, Conduct, Journal, Posted, Named
<1>6. jour # Missing => jour.temp \in 1..seq
  BY DEF IInv, TypeOK
<1>7. op.at \in Writing => jour = Missing \/ (Posted /\ jour.after = op.new /\ jour.before = op.exp) \/ (op.at = "aborted" /\ jour.temp # op.tmp)
  BY <1>4 DEF IInv, Conduct, Journal, Posted
<1> QED BY <1>1, <1>3, <1>4, <1>5, <1>6, <1>7

\* A primitive returns.
LEMMA ReturnFields ==
  ASSUME op \in Operations, NEW r \in Results, CasReturns(r)
  PROVE  /\ op' \in Operations /\ op' # Missing /\ op'.at = op.at /\ op'.ret = r /\ op'.ctx = op.ctx /\ op'.cas = NoCas
         /\ op'.begun = op.begun /\ op'.orig = op.orig /\ op'.err = op.err
         /\ Same(op', op) /\ Holds(op', op)
<1> DEFINE c == NoCas
<1>1. c \in Exchanges
  BY DEF NoCas, Exchanges
<1>2. op' = [op EXCEPT !.cas = c, !.ret = r]
  BY DEF CasReturns
<1> HIDE DEF c
<1>3. op' \in Operations
  BY <1>1, <1>2 DEF Operations
<1>4. op' # Missing
  BY <1>3, MissingAssumption
<1>5. op'.cas = c
  BY <1>1, <1>2 DEF Operations
<1> QED BY <1>2, <1>3, <1>4, <1>5 DEF Operations, Same, Holds, c

\* What its caller finds then.
LEMMA ReturnConduct ==
  ASSUME IInv, op # Missing, op.cas # NoCas, NEW r \in {"ok", "repair", "conflict", "io"}, CasReturns(r),
         UNCHANGED <<jour, tomb, sysdVars, snap, seq, bounds>>, Fine \/ Fault,
         races = 0 =>
           /\ op.at = "put" /\ r = "ok" => unit' = op.new
           /\ op.at = "swapped" /\ r = "ok" => unit' = op.new /\ Staged(op.tmp)' = op.exp
           /\ op.at = "dropped" => unit' = op.new
           /\ op.at = "taken" /\ r = "ok" => unit' = Missing
           /\ op.at = "rmdropped" => unit' = Missing
           /\ op.at = "aborted" => Posted \/ unit' = op.exp
           /\ op.at = "recaborted" => unit' = jour.before
           /\ faults' = 0 /\ op.at \in {"put", "swapped", "dropped"} => r = "ok"
  PROVE  Conduct' /\ op' \in Operations /\ op'.tmp = op.tmp /\ op' # Missing
<1>1. op \in Operations /\ op.at \in {"put", "swapped", "dropped", "takenback", "aborted", "taken", "rmdropped",
                                      "recsync", "recswapped", "recaborted"}
  BY CasFacts
<1>2. op' \in Operations /\ op' # Missing /\ op'.at = op.at /\ op'.ret = r /\ op'.ctx = op.ctx /\ op'.cas = NoCas
      /\ op'.begun = op.begun /\ op'.orig = op.orig /\ op'.err = op.err /\ Same(op', op) /\ Holds(op', op)
  BY <1>1, ReturnFields DEF Results
<1>3. Flow' /\ Errand' /\ Enablement' /\ Exchange'
  BY <1>1, <1>2
     DEF IInv, Conduct, Flow, Errand, Enablement, Exchange, Same, Holds, sysdVars, Goal, Source,
          DataOf
<1>4. Posted => Posted'
  BY <1>1, <1>2 DEF Posted, Named, Phased, Holds
<1>5. Found => Found'
  BY <1>2 DEF Found, Leads, DataOf, Same
<1>6. Journal'
  BY <1>1, <1>2, <1>4, <1>5 DEF IInv, Conduct, Journal, Named, Holds
<1>7. races' = races /\ loaded' = loaded /\ (faults' = 0 => faults = 0)
  BY Faults DEF bounds, sysdVars, IInv
<1>8. races = 0 => Progress'
  BY <1>1, <1>2, <1>4 DEF Progress, Pending, Holds
<1>9. races = 0 => Reloads'
  BY <1>1, <1>2, <1>7 DEF IInv, Conduct, Place, Reloads, Same
<1>10. races = 0 /\ faults' = 0 => Smooth'
  BY <1>1, <1>2, <1>7 DEF IInv, Conduct, Place, Smooth, Pending
<1> QED BY <1>2, <1>3, <1>6, <1>7, <1>8, <1>9, <1>10 DEF Conduct, Place, Holds

\* Without failing steps what a primitive is about is there.
LEMMA ExactWhenSmooth ==
  ASSUME IInv, op # Missing, op.cas # NoCas, races = 0, faults = 0, op.at \in {"put", "swapped", "dropped"}
  PROVE  Exact(op.cas) /\ Renamable(op.cas)
<1>1. CASE op.at = "put"
  BY <1>1 DEF IInv, Conduct, Exchange, Place, Progress, Pending, Errand, Exact, Renamable
<1>2. CASE op.at = "swapped"
  BY <1>2 DEF IInv, Conduct, Exchange, Place, Progress, Pending, Errand, Exact, Renamable
<1>3. CASE op.at = "dropped"
  BY <1>3 DEF IInv, Conduct, Exchange, Place, Smooth, Pending, Errand, Exact, Renamable
<1> QED BY <1>1, <1>2, <1>3

\* Nothing was moved.
LEMMA ReturnStep ==
  ASSUME IInv, op # Missing, op.cas # NoCas, NEW r \in {"conflict", "io"}, CasReturns(r), Local, Goes, Fine \/ Fault,
         races = 0 /\ faults' = 0 => op.at \notin {"put", "swapped", "dropped"}
  PROVE  IInv'
<1>1. Conduct' /\ op' \in Operations /\ op'.tmp = op.tmp
  <2>1. unit' = unit /\ UNCHANGED <<jour, tomb, sysdVars, snap, seq, bounds>>
    BY DEF Local, dirVars
  <2>2. races = 0 => /\ op.at = "dropped" => unit = op.new
                     /\ op.at = "rmdropped" => unit = Missing
                     /\ op.at = "aborted" => Posted \/ unit = op.exp
                     /\ op.at = "recaborted" => unit = jour.before
    BY DEF IInv, Conduct, Place, Progress
  <2> QED BY <2>1, <2>2, ReturnConduct
<1>2. op.tmp \in 0..seq
  BY CasFacts
<1> QED BY <1>1, <1>2, LocalStep

\* Both names are inspected.
LEMMA CasCheckStep ==
  ASSUME IInv, CasCheck
  PROVE  IInv'
<1>1. /\ op \in Operations /\ op.tmp \in 0..seq /\ op # Missing /\ op.cas # NoCas
      /\ op.at \in {"put", "swapped", "dropped", "takenback", "aborted", "taken", "rmdropped",
                    "recsync", "recswapped", "recaborted"}
      /\ op.cas.kind \in {"swap", "put", "take", "drop"}
  BY CasFacts DEF CasCheck
<1>2. Local /\ Goes /\ (Fine \/ Fault)
  BY DEF CasCheck, Local, Fine, Fault
<1>3. CASE Exact(op.cas) /\ op' = [op EXCEPT !.cas.checked = TRUE]
  <2> DEFINE c == [op.cas EXCEPT !.checked = TRUE]
  <2>1. op.cas \in Exchanges
    BY <1>1 DEF Operations
  <2>2. c \in Exchanges /\ c.kind = op.cas.kind /\ c.mine = op.cas.mine /\ c.theirs = op.cas.theirs /\ c.checked
    BY <2>1 DEF Exchanges
  <2>3. c # NoCas
    BY <2>2 DEF NoCas
  <2>4. op' = [op EXCEPT !.cas = c]
    BY <1>3
  <2> HIDE DEF c
  <2>5. op' \in Operations
    BY <1>1, <2>2, <2>4 DEF Operations
  <2>6. op' # Missing
    BY <2>5, MissingAssumption
  <2>7. /\ op'.at = op.at /\ op'.ret = op.ret /\ op'.ctx = op.ctx /\ op'.cas = c
        /\ op'.begun = op.begun /\ op'.orig = op.orig /\ op'.err = op.err /\ Same(op', op) /\ Holds(op', op)
    BY <1>1, <2>2, <2>4, <2>5 DEF Operations, Same, Holds
  <2>8. Flow' /\ Errand' /\ Enablement'
    BY <1>1, <1>2, <2>6, <2>7
       DEF IInv, Conduct, Flow, Errand, Enablement, Same, Holds, Local, sysdVars, Goal, Source,
            DataOf
  <2>9. Staged(op.tmp)' = Staged(op.tmp) /\ unit' = unit /\ jour' = jour /\ op'.tmp = op.tmp /\ op'.new = op.new /\ op'.exp = op.exp
    BY <1>2, <2>7 DEF Local, dirVars, Staged, Holds
  <2>10. Exchange'
    <3>1. Staged(op.tmp) = IF op.cas.kind = "take" THEN Missing ELSE op.cas.mine
      BY <1>1, <1>3 DEF Exact
    <3> QED BY <1>1, <2>2, <2>7, <2>9, <3>1 DEF IInv, Conduct, Exchange
  <2>11. Posted => Posted'
    BY <1>1, <1>2, <2>7 DEF Posted, Named, Phased, Holds, Local, dirVars
  <2>12. Found => Found'
    BY <1>2, <2>7 DEF Found, Leads, DataOf, Same, Local, dirVars
  <2>13. Journal'
    BY <1>1, <1>2, <2>7, <2>11, <2>12 DEF IInv, Conduct, Journal, Named, Holds, Local, dirVars
  <2>14. Exact(op.cas)'
    BY <1>1, <1>3, <2>2, <2>7, <2>9 DEF Exact
  <2>15. Place'
    <3>1. races' = races /\ loaded' = loaded /\ (faults' = 0 => faults = 0)
      BY <1>2, Faults DEF Local, bounds, sysdVars, IInv
    <3>2. races = 0 => Progress'
      BY <1>1, <2>2, <2>3, <2>7, <2>9, <2>11, <2>14 DEF IInv, Conduct, Place, Progress, Pending
    <3>3. races = 0 => Reloads'
      BY <1>1, <2>7, <3>1 DEF IInv, Conduct, Place, Reloads, Same
    <3>4. races = 0 /\ faults' = 0 => Smooth'
      BY <1>1, <2>3, <2>7, <2>9, <3>1 DEF IInv, Conduct, Place, Smooth, Pending
    <3> QED BY <3>1, <3>2, <3>3, <3>4 DEF Place
  <2> QED BY <1>1, <1>2, <2>5, <2>8, <2>9, <2>10, <2>13, <2>15, LocalStep DEF Conduct
<1>4. CASE ~Exact(op.cas) /\ Fine /\ CasReturns("conflict")
  <2>1. races = 0 /\ faults' = 0 => op.at \notin {"put", "swapped", "dropped"}
    BY <1>1, <1>4, ExactWhenSmooth DEF Fine
  <2> QED BY <1>1, <1>2, <1>4, <2>1, ReturnStep
<1>5. CASE Fault /\ CasReturns("io")
  <2>1. faults' # 0
    BY <1>5 DEF Fault, IInv, TypeOK
  <2> QED BY <1>1, <1>2, <1>5, <2>1, ReturnStep
<1> QED BY <1>3, <1>4, <1>5 DEF CasCheck

\* The directory after a rename out of a staging name,
LEMMA UnstagedFacts ==
  ASSUME TypeOK, NEW n, staged' = Unstaged(n)
  PROVE  /\ DOMAIN staged' = DOMAIN staged \ {n} /\ \A i \in DOMAIN staged' : staged'[i] = staged[i]
         /\ staged' \in [DOMAIN staged' -> Files] /\ DOMAIN staged' \subseteq 1..seq
         /\ \A i \in DOMAIN staged' : staged'[i].ino <= seq
<1>1. DOMAIN staged' = DOMAIN staged \ {n} /\ \A i \in DOMAIN staged' : staged'[i] = staged[i]
  BY DEF Unstaged
<1>2. staged' = [i \in DOMAIN staged' |-> staged'[i]]
  BY DEF Unstaged
<1>3. \A i \in DOMAIN staged : staged[i] \in Files /\ staged[i].ino <= seq
  BY DEF TypeOK
<1> QED BY <1>1, <1>2, <1>3 DEF TypeOK

\* and into one.
LEMMA StagedFacts ==
  ASSUME TypeOK, NEW n \in 1..seq, NEW f \in Files, f.ino <= seq, staged' = PutStaged(n, f)
  PROVE  /\ DOMAIN staged' = DOMAIN staged \cup {n} /\ staged'[n] = f
         /\ \A i \in DOMAIN staged' : i # n => staged'[i] = staged[i]
         /\ staged' \in [DOMAIN staged' -> Files] /\ DOMAIN staged' \subseteq 1..seq
         /\ \A i \in DOMAIN staged' : staged'[i].ino <= seq
<1>0. staged' = WithStaged(n, f)
  BY MissingAssumption DEF PutStaged
<1>1. /\ DOMAIN staged' = DOMAIN staged \cup {n} /\ staged'[n] = f
      /\ \A i \in DOMAIN staged' : i # n => staged'[i] = staged[i]
  BY <1>0 DEF WithStaged
<1>2. staged' = [i \in DOMAIN staged' |-> staged'[i]]
  BY <1>0 DEF WithStaged
<1>3. \A i \in DOMAIN staged : staged[i] \in Files /\ staged[i].ino <= seq
  BY DEF TypeOK
<1> QED BY <1>1, <1>2, <1>3 DEF TypeOK

\* What a rename does to the names, whoever's files they hold: no file is lost
\* but one that was inspected under the staging name.
LEMMA RenamedFiles ==
  ASSUME IInv, op # Missing, op.cas # NoCas, op.cas.checked, Renamable(op.cas), UNCHANGED aliens,
         CASE op.cas.kind = "swap" -> unit' = Staged(op.tmp) /\ staged' = PutStaged(op.tmp, unit)
           [] op.cas.kind = "put"  -> unit' = Staged(op.tmp) /\ staged' = Unstaged(op.tmp)
           [] op.cas.kind = "take" -> unit' = Missing /\ staged' = PutStaged(op.tmp, unit)
           [] op.cas.kind = "drop" -> staged' = Unstaged(op.tmp) /\ UNCHANGED unit
  PROVE  /\ unit' \in Files \cup {Missing} /\ (unit' # Missing => unit'.ino <= seq)
         /\ staged' \in [DOMAIN staged' -> Files] /\ DOMAIN staged' \subseteq 1..seq
         /\ \A i \in DOMAIN staged' : staged'[i].ino <= seq
         /\ Marked' /\ RacerPreserved'
         /\ \A i : i # op.tmp => (i \in DOMAIN staged' <=> i \in DOMAIN staged) /\ (i \in DOMAIN staged => staged'[i] = staged[i])
         /\ op.cas.kind \in {"swap", "take"} => op.tmp \in DOMAIN staged' /\ staged'[op.tmp] = unit
         /\ op.cas.kind \in {"put", "drop"} => op.tmp \notin DOMAIN staged'
         /\ op.cas.kind \in {"swap", "put"} => unit' = op.cas.mine
         /\ op.cas.kind = "take" => unit' = Missing
         /\ op.cas.kind = "drop" => unit' = unit
<1>1. TypeOK /\ Marked /\ RacerPreserved
  BY DEF IInv, World
<1>2. /\ op.cas.kind \in {"swap", "put", "take", "drop"} /\ op.cas.mine \in Ours \cup {Missing}
      /\ (op.cas.kind \in {"swap", "take"} => op.tmp \in 1..seq)
  BY CasFacts
<1>3. Staged(op.tmp) = IF op.cas.kind = "take" THEN Missing ELSE op.cas.mine
  BY DEF IInv, Conduct, Exchange
<1>4. \A i \in DOMAIN staged : staged[i] \in Files /\ staged[i] # Missing /\ staged[i].ino <= seq
  BY <1>1, MissingAssumption DEF TypeOK
<1>5. Staged(op.tmp) \in Files \cup {Missing} /\ (Staged(op.tmp) # Missing => Staged(op.tmp).ino <= seq)
      /\ (Staged(op.tmp) # Missing => op.tmp \in DOMAIN staged /\ Staged(op.tmp) = staged[op.tmp])
  BY <1>4 DEF Staged
<1>6. unit \in Files \cup {Missing} /\ (unit # Missing => unit.ino <= seq)
  BY <1>1 DEF TypeOK
<1> DEFINE n == op.tmp
<1> DEFINE f == unit
<1>7. CASE op.cas.kind \in {"swap", "take"}
  <2>1. unit # Missing /\ staged' = PutStaged(n, f) /\ f \in Files /\ f.ino <= seq /\ n \in 1..seq
    BY <1>2, <1>6, <1>7 DEF Renamable
  <2>2. /\ DOMAIN staged' = DOMAIN staged \cup {n} /\ staged'[n] = f
        /\ \A i \in DOMAIN staged' : i # n => staged'[i] = staged[i]
        /\ staged' \in [DOMAIN staged' -> Files] /\ DOMAIN staged' \subseteq 1..seq
        /\ \A i \in DOMAIN staged' : staged'[i].ino <= seq
    <3> HIDE DEF n, f
    <3> QED BY <1>1, <2>1, StagedFacts
  <2>3. /\ op.cas.kind = "swap" => unit' = Staged(op.tmp) /\ unit' = op.cas.mine
        /\ op.cas.kind = "take" => unit' = Missing /\ Staged(op.tmp) = Missing
    BY <1>3, <1>7
  <2>4. Marked'
    <3>1. unit' # Missing /\ unit'.ino \in aliens => unit'.data = Alien
      BY <1>1, <1>5, <1>7, <2>3 DEF Marked
    <3>2. \A i \in DOMAIN staged' : staged'[i].ino \in aliens => staged'[i].data = Alien
      BY <1>1, <2>1, <2>2 DEF Marked
    <3> QED BY <3>1, <3>2 DEF Marked
  <2>5. RacerPreserved'
    <3> SUFFICES ASSUME NEW i \in aliens
                 PROVE  (unit' # Missing /\ unit'.ino = i) \/ \E k \in DOMAIN staged' : staged'[k].ino = i
      BY DEF RacerPreserved
    <3>1. CASE unit # Missing /\ unit.ino = i
      BY <2>2, <3>1
    <3>2. ASSUME NEW k \in DOMAIN staged, staged[k].ino = i
          PROVE  (unit' # Missing /\ unit'.ino = i) \/ \E j \in DOMAIN staged' : staged'[j].ino = i
      <4>1. CASE k # n
        BY <2>2, <3>2, <4>1
      <4>2. CASE k = n
        BY <1>4, <1>7, <2>3, <3>2, <4>2 DEF Staged
      <4> QED BY <4>1, <4>2
    <3> QED BY <1>1, <3>1, <3>2 DEF RacerPreserved
  <2>6. unit' \in Files \cup {Missing} /\ (unit' # Missing => unit'.ino <= seq)
    BY <1>5, <1>7, <2>3
  <2> QED BY <1>7, <2>2, <2>3, <2>4, <2>5, <2>6
<1>8. CASE op.cas.kind \in {"put", "drop"}
  <2>1. staged' = Unstaged(n)
    BY <1>8
  <2>2. /\ DOMAIN staged' = DOMAIN staged \ {n} /\ \A i \in DOMAIN staged' : staged'[i] = staged[i]
        /\ staged' \in [DOMAIN staged' -> Files] /\ DOMAIN staged' \subseteq 1..seq
        /\ \A i \in DOMAIN staged' : staged'[i].ino <= seq
    <3> HIDE DEF n
    <3> QED BY <1>1, <2>1, UnstagedFacts
  <2>3. /\ op.cas.kind = "put" => unit = Missing /\ unit' = Staged(op.tmp) /\ unit' = op.cas.mine
        /\ op.cas.kind = "drop" => unit' = unit /\ Staged(op.tmp) = op.cas.mine
    BY <1>3, <1>8 DEF Renamable
  <2>4. Marked'
    <3>1. unit' # Missing /\ unit'.ino \in aliens => unit'.data = Alien
      BY <1>1, <1>5, <1>8, <2>3 DEF Marked
    <3>2. \A i \in DOMAIN staged' : staged'[i].ino \in aliens => staged'[i].data = Alien
      BY <1>1, <2>2 DEF Marked
    <3> QED BY <3>1, <3>2 DEF Marked
  <2>5. RacerPreserved'
    <3> SUFFICES ASSUME NEW i \in aliens
                 PROVE  (unit' # Missing /\ unit'.ino = i) \/ \E k \in DOMAIN staged' : staged'[k].ino = i
      BY DEF RacerPreserved
    <3>1. CASE unit # Missing /\ unit.ino = i
      BY <1>8, <2>3, <3>1
    <3>2. ASSUME NEW k \in DOMAIN staged, staged[k].ino = i
          PROVE  (unit' # Missing /\ unit'.ino = i) \/ \E j \in DOMAIN staged' : staged'[j].ino = i
      <4>1. CASE k # n
        BY <2>2, <3>2, <4>1
      <4>2. CASE k = n
        <5>1. staged[k] = op.cas.mine /\ staged[k] # Missing
          BY <1>3, <1>4, <1>8, <4>2 DEF Staged
        <5>2. staged[k].data = Alien
          BY <1>1, <3>2 DEF Marked
        <5>3. staged[k].data \in Data
          BY <1>2, <5>1 DEF Ours
        <5> QED BY <5>2, <5>3, UnitAssumption
      <4> QED BY <4>1, <4>2
    <3> QED BY <1>1, <3>1, <3>2 DEF RacerPreserved
  <2>6. unit' \in Files \cup {Missing} /\ (unit' # Missing => unit'.ino <= seq)
    BY <1>5, <1>6, <1>8, <2>3
  <2> QED BY <1>8, <2>2, <2>3, <2>4, <2>5, <2>6
<1> QED BY <1>2, <1>7, <1>8

\* When nobody interfered a rename finishes the transaction on record, takes its
\* publication back, or removes what was staged for it.
LEMMA RenamedDirectory ==
  ASSUME IInv, op # Missing, op.cas # NoCas, op.cas.checked, Renamable(op.cas), UNCHANGED <<aliens, jour, loaded>>,
         CASE op.cas.kind = "swap" -> unit' = Staged(op.tmp) /\ staged' = PutStaged(op.tmp, unit)
           [] op.cas.kind = "put"  -> unit' = Staged(op.tmp) /\ staged' = Unstaged(op.tmp)
           [] op.cas.kind = "take" -> unit' = Missing /\ staged' = PutStaged(op.tmp, unit)
           [] op.cas.kind = "drop" -> staged' = Unstaged(op.tmp) /\ UNCHANGED unit,
         races = 0
  PROVE  Directory' /\ (faults = 0 /\ jour # Missing => Recoverable')
<1> DEFINE at(i) == IF i \in DOMAIN staged' THEN staged'[i] ELSE Missing
<1>1. /\ op.cas.kind \in {"swap", "take"} => at(op.tmp) = unit /\ unit # Missing
      /\ op.cas.kind \in {"put", "drop"} => at(op.tmp) = Missing
      /\ op.cas.kind \in {"swap", "put"} => unit' = op.cas.mine
      /\ op.cas.kind = "take" => unit' = Missing
      /\ op.cas.kind = "drop" => unit' = unit
      /\ \A i : i # op.tmp => at(i) = Staged(i)
  BY RenamedFiles DEF Staged, Renamable
<1>2. Staged(jour.temp)' = at(jour.temp)
  BY DEF Staged
<1> HIDE DEF at
<1>3. Exact(op.cas) /\ Directory /\ Lawful /\ jour \in Records \cup {Missing}
  BY DEF IInv, TypeOK, World, Conduct, Place, Progress, Pending
<1>4. /\ op \in Operations /\ op.cas.kind \in {"swap", "put", "take", "drop"}
      /\ op.at \in {"put", "swapped", "dropped", "takenback", "aborted", "taken", "rmdropped",
                    "recsync", "recswapped", "recaborted"}
      /\ op.at # "aborted" => jour # Missing /\ op.tmp = jour.temp
  BY CasFacts
<1>5. jour # Missing => /\ jour.before # jour.after /\ jour.before \in Ours \cup {Missing} /\ jour.after \in Ours \cup {Missing}
                        /\ DataOf(jour.before) # Alien /\ DataOf(jour.after) # Alien
  BY <1>3, UnitAssumption DEF Lawful, Records, Ours, DataOf
<1>6. CASE jour # Missing /\ unit' = jour.after /\ at(jour.temp) \in {Missing, jour.before}
  <2>1. Shape' /\ Recoverable'
    BY <1>2, <1>6 DEF Shape, Recoverable
  <2> QED BY <1>5, <1>6, <2>1 DEF Directory, DataOf
<1>7. CASE op.at \in {"put", "swapped", "dropped"}
  <2>1. /\ jour.before = op.exp /\ jour.after = op.new
        /\ op.at = "put" => op.cas.kind = "put" /\ op.cas.mine = op.new
        /\ op.at = "swapped" => op.cas.kind = "swap" /\ op.cas.mine = op.new /\ op.cas.theirs = op.exp
        /\ op.at = "dropped" => op.cas.kind = "drop" /\ unit = op.new
    BY <1>7 DEF IInv, Conduct, Journal, Posted, Exchange, Place, Progress
  <2>2. unit' = jour.after /\ at(op.tmp) \in {Missing, jour.before}
    BY <1>1, <1>3, <1>7, <2>1 DEF Exact
  <2> QED BY <1>4, <1>6, <1>7, <2>2
<1>8. CASE op.at \in {"taken", "rmdropped"}
  <2>1. /\ jour.before = op.exp /\ jour.after = Missing
        /\ op.at = "taken" => op.cas.kind = "take" /\ op.cas.mine = op.exp
        /\ op.at = "rmdropped" => op.cas.kind = "drop" /\ unit = Missing
    BY <1>8 DEF IInv, Conduct, Journal, Posted, Exchange, Place, Progress
  <2>2. unit' = jour.after /\ at(op.tmp) \in {Missing, jour.before}
    BY <1>1, <1>3, <1>8, <2>1 DEF Exact
  <2> QED BY <1>4, <1>6, <1>8, <2>2
<1>9. CASE op.at = "recswapped"
  <2>1. \/ op.cas.kind = "swap" /\ op.cas.mine = jour.after /\ op.cas.theirs = jour.before
        \/ op.cas.kind = "take" /\ op.cas.mine = jour.before /\ jour.after = Missing
    BY <1>3, <1>4, <1>9 DEF IInv, Conduct, Exchange, Lawful
  <2>2. unit' = jour.after /\ at(op.tmp) \in {Missing, jour.before}
    BY <1>1, <1>3, <2>1 DEF Exact
  <2> QED BY <1>4, <1>6, <1>9, <2>2
<1>10. CASE op.at = "recsync"
  <2>1. \/ op.cas.kind = "put" /\ op.cas.mine = jour.after
        \/ op.cas.kind = "drop" /\ op.cas.mine = jour.before
    BY <1>10 DEF IInv, Conduct, Exchange
  <2>2. CASE op.cas.kind = "put" /\ op.cas.mine = jour.after
    BY <1>1, <1>4, <1>6, <1>10, <2>2
  <2>3. CASE op.cas.kind = "drop" /\ op.cas.mine = jour.before
    <3>1. Staged(jour.temp) = jour.before /\ at(jour.temp) = Missing /\ unit' = unit /\ jour # Missing
      BY <1>1, <1>3, <1>4, <1>10, <2>3 DEF Exact
    <3>2. CASE unit = jour.after
      BY <1>6, <3>1, <3>2
    <3>3. CASE unit # jour.after
      <4>1. jour.before = Missing
        BY <1>3, <1>5, <3>1, <3>3 DEF Directory, Shape
      <4>2. Staged(jour.temp)' = Staged(jour.temp)
        BY <1>2, <3>1, <4>1
      <4>3. Directory'
        BY <1>3, <3>1, <4>2 DEF Directory, Shape, DataOf
      <4>4. faults = 0 => Recoverable'
        BY <3>1, <4>2 DEF IInv, World, CrashRecovers, Recoverable
      <4> QED BY <4>3, <4>4
    <3> QED BY <3>2, <3>3
  <2> QED BY <2>1, <2>2, <2>3
<1>11. CASE op.at = "recaborted"
  <2>1. jour.phase = "forward" /\ unit = jour.before /\ op.cas.kind = "drop"
    BY <1>11 DEF IInv, Conduct, Journal, Exchange, Place, Progress
  <2>2. unit' = unit /\ at(jour.temp) = Missing
    BY <1>1, <1>4, <1>11, <2>1
  <2>3. Shape' /\ Recoverable'
    BY <1>2, <2>1, <2>2 DEF Shape, Recoverable
  <2> QED BY <1>3, <1>4, <1>11, <2>1, <2>2, <2>3 DEF Directory, DataOf
<1>12. CASE op.at = "takenback"
  <2>1. /\ Posted /\ jour.before = op.exp /\ jour.after = op.new /\ jour.kind = "replace"
        /\ op.cas.kind = "swap" /\ op.cas.mine = op.exp /\ op.cas.theirs = op.new /\ op.exp # Missing /\ faults # 0
    BY <1>12 DEF IInv, Conduct, Journal, Posted, Exchange, Errand, Place, Smooth
  <2>2. unit' = jour.before /\ at(jour.temp) = jour.after
    BY <1>1, <1>3, <1>4, <1>12, <2>1 DEF Exact
  <2>3. Shape'
    BY <1>2, <1>3, <1>4, <1>12, <2>1, <2>2 DEF Shape, Records
  <2>4. jour.phase = "forward" => loaded = DataOf(jour.before)
    <3>1. op.ctx \in {"fwd", "back"} /\ DataOf(op.exp) = Source
      BY <1>12, <2>1 DEF IInv, Conduct, Flow, Errand
    <3>2. jour.phase = "forward" => op.ctx = "fwd"
      BY <2>1, <3>1 DEF Posted, Phased
    <3>3. op.ctx = "fwd" => loaded = op.prev /\ Source = op.prev
      BY <1>12 DEF IInv, Conduct, Place, Reloads, Source
    <3> QED BY <2>1, <3>1, <3>2, <3>3
  <2> QED BY <1>4, <1>5, <1>12, <2>1, <2>2, <2>3, <2>4 DEF Directory, DataOf
<1>13. CASE op.at = "aborted"
  <2>1. op.cas.kind = "drop" /\ op.cas.mine = op.new /\ unit' = unit /\ Staged(op.tmp) = op.new
    BY <1>1, <1>3, <1>13 DEF IInv, Conduct, Exchange, Exact
  <2>2. op.new # Missing
    BY <1>13, <1>4, MissingAssumption, UnitAssumption DEF IInv, Conduct, Errand, Operations, Ours
  <2>3. CASE jour = Missing
    BY <1>3, <2>1, <2>3 DEF Directory, DataOf
  <2>4. CASE jour # Missing /\ jour.temp # op.tmp
    <3>1. Staged(jour.temp)' = Staged(jour.temp)
      BY <1>1, <1>2, <2>4
    <3>2. Directory'
      BY <1>3, <2>1, <2>4, <3>1 DEF Directory, Shape, DataOf
    <3>3. faults = 0 => Recoverable'
      BY <2>1, <2>4, <3>1 DEF IInv, World, CrashRecovers, Recoverable
    <3> QED BY <3>2, <3>3
  <2>5. CASE jour # Missing /\ jour.temp = op.tmp
    <3>1. Posted /\ jour.after = op.new /\ jour.kind = "replace"
      BY <1>13, <2>5 DEF IInv, Conduct, Journal, Posted
    <3>2. Staged(jour.temp) = jour.after /\ at(jour.temp) = Missing
      BY <1>1, <2>1, <2>5, <3>1
    <3>3. unit = jour.before
      BY <1>3, <1>5, <2>2, <2>5, <3>1, <3>2 DEF Directory, Shape
    <3>4. Shape'
      BY <1>2, <1>3, <2>1, <2>5, <3>1, <3>2, <3>3 DEF Shape, Records
    <3>5. faults = 0 => jour.phase = "forward"
      BY <1>13, <2>5 DEF IInv, Conduct, Place, Smooth
    <3>6. faults = 0 => Recoverable'
      BY <1>2, <2>1, <3>2, <3>3, <3>5 DEF Recoverable
    <3> QED BY <1>3, <2>1, <2>5, <3>3, <3>4, <3>6 DEF Directory, DataOf
  <2> QED BY <2>3, <2>4, <2>5
<1> QED BY <1>4, <1>7, <1>8, <1>9, <1>10, <1>11, <1>12, <1>13

\* One rename moves what is there by then.
LEMMA CasRenameStep ==
  ASSUME IInv, CasRename
  PROVE  IInv'
<1>1. /\ op \in Operations /\ op.tmp \in 0..seq /\ op # Missing /\ op.cas # NoCas /\ op.cas.checked
      /\ op.at \in {"put", "swapped", "dropped", "takenback", "aborted", "taken", "rmdropped",
                    "recsync", "recswapped", "recaborted"}
      /\ op.cas.kind \in {"swap", "put", "take", "drop"}
  BY CasFacts DEF CasRename
<1>2. Goes /\ UNCHANGED <<jour, tomb, sysdVars, snap, aliens, seq, bounds>> /\ (Fine \/ Fault)
  BY DEF CasRename, Fine, Fault
<1>3. races = 0 => Exact(op.cas)
  BY <1>1 DEF IInv, Conduct, Place, Progress, Pending
<1>4. ASSUME (~Renamable(op.cas) /\ Fine) \/ Fault, CasReturns("conflict"), UNCHANGED <<unit, staged>>
      PROVE  IInv'
  <2>1. Local
    BY <1>2, <1>4 DEF Local, dirVars
  <2>2. races = 0 /\ faults' = 0 => op.at \notin {"put", "swapped", "dropped"}
    <3>1. CASE Fault
      BY <3>1 DEF Fault, IInv, TypeOK
    <3>2. CASE ~Renamable(op.cas) /\ Fine
      BY <1>1, <3>2, ExactWhenSmooth DEF Fine
    <3> QED BY <1>4, <3>1, <3>2
  <2> QED BY <1>1, <1>2, <1>4, <2>1, <2>2, ReturnStep
<1>5. ASSUME Renamable(op.cas), NEW r \in {"ok", "repair", "io"}, CasReturns(r),
             faults' = 0 /\ Exact(op.cas) => r = "ok",
             CASE op.cas.kind = "swap" -> unit' = Staged(op.tmp) /\ staged' = PutStaged(op.tmp, unit)
               [] op.cas.kind = "put"  -> unit' = Staged(op.tmp) /\ staged' = Unstaged(op.tmp)
               [] op.cas.kind = "take" -> unit' = Missing /\ staged' = PutStaged(op.tmp, unit)
               [] op.cas.kind = "drop" -> staged' = Unstaged(op.tmp) /\ UNCHANGED unit
      PROVE  IInv'
  <2>1. /\ unit' \in Files \cup {Missing} /\ (unit' # Missing => unit'.ino <= seq)
        /\ staged' \in [DOMAIN staged' -> Files] /\ DOMAIN staged' \subseteq 1..seq
        /\ \A i \in DOMAIN staged' : staged'[i].ino <= seq
        /\ Marked' /\ RacerPreserved'
        /\ op.cas.kind \in {"swap", "take"} => op.tmp \in DOMAIN staged' /\ staged'[op.tmp] = unit
        /\ op.cas.kind \in {"swap", "put"} => unit' = op.cas.mine
        /\ op.cas.kind = "take" => unit' = Missing
        /\ op.cas.kind = "drop" => unit' = unit
    BY <1>1, <1>2, <1>5, RenamedFiles
  <2>2. op'.tmp = op.tmp
    BY <1>1, <1>5, ReturnFields DEF Results, Holds
  <2>3. Conduct' /\ op' \in Operations
    <3>1. races = 0 /\ faults' = 0 => r = "ok"
      BY <1>3, <1>5
    <3>2. op.cas.kind = "swap" => Staged(op.tmp)' = unit
      BY <2>1, <2>2 DEF Staged
    <3>3. CASE op.at \in {"put", "swapped", "takenback", "taken", "recsync", "recswapped"}
      <4>1. /\ op.at = "put" => op.cas.kind = "put" /\ op.cas.mine = op.new
            /\ op.at = "swapped" => op.cas.kind = "swap" /\ op.cas.mine = op.new /\ op.cas.theirs = op.exp
            /\ op.at = "taken" => op.cas.kind = "take"
        BY <1>1 DEF IInv, Conduct, Exchange
      <4>2. races = 0 => /\ op.at = "put" => unit' = op.new
                         /\ op.at = "swapped" => unit' = op.new /\ Staged(op.tmp)' = op.exp
                         /\ op.at = "taken" => unit' = Missing
        BY <1>3, <2>1, <3>2, <4>1 DEF Exact
      <4> QED BY <1>1, <1>2, <1>5, <3>1, <3>3, <4>2, ReturnConduct
    <3>4. CASE op.at \in {"dropped", "rmdropped", "aborted", "recaborted"}
      <4>1. op.cas.kind = "drop"
        BY <1>1, <3>4 DEF IInv, Conduct, Exchange
      <4>2. unit' = unit
        BY <2>1, <4>1
      <4>3. races = 0 => /\ op.at = "dropped" => unit = op.new
                         /\ op.at = "rmdropped" => unit = Missing
                         /\ op.at = "aborted" => Posted \/ unit = op.exp
                         /\ op.at = "recaborted" => unit = jour.before
        BY <1>1 DEF IInv, Conduct, Place, Progress
      <4> QED BY <1>1, <1>2, <1>5, <3>1, <3>4, <4>2, <4>3, ReturnConduct
    <3> QED BY <1>1, <3>3, <3>4
  <2>4. World'
    <3>1. loaded' = loaded /\ races' = races /\ (faults' = 0 => faults = 0)
      BY <1>2, Faults DEF sysdVars, bounds, IInv
    <3>2. races = 0 => Directory' /\ (faults = 0 /\ jour # Missing => Recoverable')
      BY <1>1, <1>2, <1>5, <3>1, RenamedDirectory
    <3>3. Lawful'
      BY <1>2 DEF IInv, World, Lawful, DataOf
    <3>4. (tomb' => jour' = Missing) /\ CrashRecovers'
      BY <1>2, <3>1, <3>2 DEF IInv, World, Directory, CrashRecovers
    <3> QED BY <2>1, <3>1, <3>2, <3>3, <3>4 DEF World
  <2>5. TypeOK'
    BY <1>1, <1>2, <2>1, <2>2, <2>3, Faults DEF IInv, TypeOK, Goes, sysdVars, bounds
  <2> QED BY <1>1, <1>2, <2>3, <2>4, <2>5, NothingTold DEF IInv
<1>6. CASE Renamable(op.cas) /\ (\/ Fine /\ CasReturns(IF Exact(op.cas) THEN "ok" ELSE "repair")
                                 \/ Fault /\ CasReturns(IF op.cas.kind = "swap" THEN "repair" ELSE "io"))
           /\ CASE op.cas.kind = "swap" -> unit' = Staged(op.tmp) /\ staged' = PutStaged(op.tmp, unit)
                [] op.cas.kind = "put"  -> unit' = Staged(op.tmp) /\ staged' = Unstaged(op.tmp)
                [] op.cas.kind = "take" -> unit' = Missing /\ staged' = PutStaged(op.tmp, unit)
                [] op.cas.kind = "drop" -> staged' = Unstaged(op.tmp) /\ UNCHANGED unit
  <2>1. CASE Fine /\ CasReturns(IF Exact(op.cas) THEN "ok" ELSE "repair")
    <3>1. CASE Exact(op.cas)
      BY <1>5, <1>6, <2>1, <3>1
    <3>2. CASE ~Exact(op.cas)
      BY <1>5, <1>6, <2>1, <3>2
    <3> QED BY <3>1, <3>2
  <2>2. CASE Fault /\ CasReturns(IF op.cas.kind = "swap" THEN "repair" ELSE "io")
    <3>1. faults' # 0
      BY <2>2 DEF Fault, IInv, TypeOK
    <3>2. CASE op.cas.kind = "swap"
      BY <1>5, <1>6, <2>2, <3>1, <3>2
    <3>3. CASE op.cas.kind # "swap"
      BY <1>5, <1>6, <2>2, <3>1, <3>3
    <3> QED BY <3>2, <3>3
  <2> QED BY <1>6, <2>1, <2>2
<1> QED BY <1>4, <1>6 DEF CasRename

-----------------------------------------------------------------------------
(* The beginning and the end of operations, and the other process             *)

\* An operation takes the lock.
LEMMA StartStep ==
  ASSUME IInv, NEW kind \in Kinds, NEW want \in Data \cup {Missing}, Start(kind, want),
         want \in Data <=> kind \in {"install", "update"}
  PROVE  IInv'
<1>1. op' = NewOp(kind, want) /\ last' = Missing /\ Fine /\ UNCHANGED <<dirVars, sysdVars, snap, aliens, seq, crashes, races>>
  BY DEF Start, Fine
<1>2. op' \in Operations
  <2> DEFINE c == NoCas
  <2>1. c \in Exchanges
    BY DEF NoCas, Exchanges
  <2>2. op' = [kind |-> kind, want |-> want, at |-> "ensure", ctx |-> "none", ret |-> "ok",
               prev |-> Missing, was |-> FALSE, begun |-> FALSE, changed |-> FALSE,
               cancelled |-> FALSE, orig |-> "ok", err |-> "ok", tmp |-> 0, put |-> Missing,
               new |-> Missing, exp |-> Missing, cas |-> c]
    BY <1>1 DEF NewOp
  <2> HIDE DEF c
  <2> QED BY <2>1, <2>2 DEF Operations, Labels, Contexts, Results
<1>3. op' # Missing
  BY <1>2, MissingAssumption
<1>4. /\ op'.at = "ensure" /\ op'.ctx = "none" /\ ~op'.begun /\ ~op'.changed /\ op'.cas = NoCas /\ op'.tmp = 0
      /\ op'.kind = kind /\ op'.want = want
  BY <1>1 DEF NewOp
<1>5. Flow' /\ Errand' /\ Enablement' /\ Exchange' /\ Journal' /\ Place'
  BY <1>4 DEF Flow, Errand, Enablement, Exchange, Journal, Place, Progress, Reloads, Smooth, Pending
<1>6. World'
  BY <1>1, WorldKept DEF IInv, dirVars, sysdVars
<1>7. ops' \in 0..MaxOps /\ op'.tmp \in 0..seq
  BY <1>4, UnitAssumption DEF Start, IInv, TypeOK
<1>8. TypeOK'
  BY <1>1, <1>2, <1>7, Faults DEF IInv, TypeOK, dirVars, sysdVars
<1>9. Told'
  BY <1>1 DEF Told, SuccessMeansLoaded, FailureRestores
<1> QED BY <1>5, <1>6, <1>8, <1>9 DEF IInv, Conduct

\* Nothing changes that the operation looks at.
LEMMA SameConduct ==
  ASSUME IInv, op # Missing, op' # Missing, Fine, UNCHANGED <<dirVars, sysdVars, snap, seq, races>>,
         op'.at = op.at, op'.ctx = op.ctx, op'.ret = op.ret, op'.begun = op.begun, op'.orig = op.orig,
         op'.err = op.err, op'.cas = op.cas, Same(op', op), Holds(op', op)
  PROVE  Conduct'
<1>1. Flow' /\ Errand' /\ Enablement'
  BY DEF IInv, Conduct, Flow, Errand, Enablement, Same, Holds, sysdVars, Goal, Source, DataOf
<1>2. Staged(op.tmp)' = Staged(op.tmp) /\ unit' = unit /\ jour' = jour /\ snap' = snap /\ tomb' = tomb
  BY DEF dirVars, Staged, Holds
<1>3. Exchange'
  BY <1>2 DEF IInv, Conduct, Exchange, Holds
<1>4. /\ (Posted => Posted') /\ (Found => Found') /\ (Named <=> Named') /\ (Phased => Phased')
      /\ (Kept => Kept') /\ (Parked => Parked')
  BY <1>2 DEF Posted, Found, Named, Phased, Kept, Parked, Leads, DataOf, Same, Holds
<1>5. Source' = Source /\ Goal' = Goal
  BY DEF Source, Goal, Same
<1>6. Journal'
  BY <1>2, <1>4, <1>5 DEF IInv, Conduct, Journal, Leads, DataOf, Same, Holds
<1>7. Exact(op.cas)' <=> Exact(op.cas)
  BY <1>2 DEF Exact
<1>8. races = 0 => Progress'
  BY <1>2, <1>4, <1>5, <1>7
     DEF IInv, Conduct, Place, Progress, Pending, Achieved, Resolved, DataOf, Staged, Same, Holds,
          dirVars, sysdVars
<1>9. races = 0 => Reloads' /\ (faults = 0 => Smooth')
  BY <1>2, <1>5
     DEF IInv, Conduct, Place, Reloads, Smooth, Pending, Undone, Resumable, Leads, DataOf, Same,
          Holds, sysdVars
<1> QED BY <1>1, <1>3, <1>6, <1>8, <1>9 DEF Conduct, Place, Fine

\* The caller cancels.
LEMMA CancelStep ==
  ASSUME IInv, Cancel
  PROVE  IInv'
<1>1. op \in Operations /\ op # Missing /\ op.tmp \in 0..seq /\ op' = [op EXCEPT !.cancelled = TRUE]
  BY DEF Cancel, IInv, TypeOK
<1>2. op' \in Operations
  BY <1>1 DEF Operations
<1>3. op' # Missing
  BY <1>2, MissingAssumption
<1>4. /\ op'.at = op.at /\ op'.ctx = op.ctx /\ op'.ret = op.ret /\ op'.begun = op.begun /\ op'.orig = op.orig
      /\ op'.err = op.err /\ op'.cas = op.cas /\ Same(op', op) /\ Holds(op', op)
  BY <1>1, <1>2 DEF Operations, Same, Holds
<1>5. Local /\ Goes /\ Fine
  BY DEF Cancel, Local, Goes, Fine
<1>6. Conduct'
  BY <1>1, <1>3, <1>4, <1>5, SameConduct DEF Local, bounds
<1> QED BY <1>1, <1>2, <1>4, <1>5, <1>6, LocalStep DEF Holds

\* The process dies.
LEMMA CrashStep ==
  ASSUME IInv, Crash
  PROVE  IInv'
<1>1. op' = Missing /\ last' = Missing /\ snap' = Missing /\ Fine /\ UNCHANGED <<dirVars, sysdVars, aliens, seq, ops, races>>
  BY DEF Crash, Fine
<1>2. World'
  BY <1>1, WorldKept DEF IInv, dirVars, sysdVars
<1>3. crashes' \in 0..MaxCrashes
  BY UnitAssumption DEF Crash, IInv, TypeOK
<1>4. TypeOK'
  BY <1>1, <1>3, Faults DEF IInv, TypeOK, dirVars, sysdVars
<1>5. Told'
  BY <1>1 DEF Told, SuccessMeansLoaded, FailureRestores
<1> QED BY <1>1, <1>2, <1>4, <1>5, NoConduct DEF IInv

\* Another program writes or removes the unit.
LEMMA RaceStep ==
  ASSUME IInv, Race
  PROVE  IInv'
<1>1. /\ UNCHANGED <<jour, tomb, staged, sysdVars, snap, op, last, faults, ops, crashes>>
      /\ races' \in 0..MaxRaces /\ races' # 0
  BY UnitAssumption DEF Race, IInv, TypeOK
<1>2. seq \in Nat /\ aliens \subseteq 1..seq /\ (unit # Missing => unit.ino <= seq) /\ unit \in Files \cup {Missing}
      /\ (\A n \in DOMAIN staged : staged[n].ino \in Nat /\ staged[n].ino <= seq)
  BY DEF IInv, TypeOK, Files
<1>3. Conduct'
  <2>1. Flow' /\ Errand' /\ Enablement' /\ Exchange'
    BY <1>1
       DEF IInv, Conduct, Flow, Errand, Enablement, Exchange, sysdVars, Goal, Source, DataOf, Staged
  <2>2. seq' \in Nat /\ seq <= seq'
    BY <1>2 DEF Race
  <2>3. Parked => Parked'
    BY <1>1, <1>2, <2>2 DEF Parked, DataOf
  <2>4. Journal'
    BY <1>1, <2>3
       DEF IInv, Conduct, Journal, Named, Kept, Found, Posted, Phased, Leads, DataOf, Goal, Source
  <2>5. Place'
    BY <1>1 DEF Place
  <2> QED BY <2>1, <2>4, <2>5 DEF Conduct
<1>4. Told'
  BY <1>1 DEF IInv, Told, SuccessMeansLoaded, FailureRestores
<1>5. Lawful' /\ (tomb' => jour' = Missing) /\ (races' = 0 => Directory') /\ CrashRecovers'
  BY <1>1 DEF IInv, World, Lawful, DataOf, CrashRecovers
<1>6. ASSUME NEW d \in Data \cup {Alien}, unit' = [ino |-> seq + 1, data |-> d], seq' = seq + 1,
             aliens' = (aliens \ (IF unit = Missing THEN {} ELSE {unit.ino})) \cup (IF d = Alien THEN {seq + 1} ELSE {})
      PROVE  IInv'
  <2>1. unit' \in Files /\ unit' # Missing /\ unit'.ino = seq + 1 /\ unit'.data = d /\ seq' \in Nat
    BY <1>2, <1>6, MissingAssumption DEF Files
  <2>2. TypeOK'
    <3>1. DOMAIN staged \subseteq 1..(seq + 1) /\ aliens' \subseteq 1..(seq + 1) /\ (jour # Missing => jour.temp \in 1..(seq + 1))
          /\ (op # Missing => op.tmp \in 0..(seq + 1))
      BY <1>2, <1>6 DEF IInv, TypeOK, Records
    <3>2. \A n \in DOMAIN staged : staged[n].ino <= seq + 1
      BY <1>2
    <3>3. unit' \in Files \cup {Missing} /\ unit'.ino <= seq + 1
      BY <1>2, <2>1
    <3> QED BY <1>1, <1>2, <1>6, <2>1, <3>1, <3>2, <3>3 DEF IInv, TypeOK, sysdVars
  <2>3. Marked'
    <3>1. seq + 1 \in aliens' => d = Alien
      BY <1>2, <1>6
    <3>2. \A n \in DOMAIN staged : staged[n].ino \in aliens' => staged[n].ino \in aliens
      BY <1>2, <1>6
    <3> QED BY <1>1, <2>1, <3>1, <3>2 DEF IInv, World, Marked
  <2>4. RacerPreserved'
    <3> SUFFICES ASSUME NEW i \in aliens'
                 PROVE  (unit' # Missing /\ unit'.ino = i) \/ \E n \in DOMAIN staged' : staged'[n].ino = i
      BY DEF RacerPreserved
    <3>1. CASE i = seq + 1
      BY <2>1, <3>1
    <3>2. CASE i # seq + 1
      <4>1. i \in aliens /\ ~(unit # Missing /\ unit.ino = i)
        BY <1>6, <3>2
      <4> QED BY <1>1, <4>1 DEF IInv, World, RacerPreserved
    <3> QED BY <3>1, <3>2
  <2> QED BY <1>3, <1>4, <1>5, <2>2, <2>3, <2>4 DEF IInv, World
<1>7. ASSUME unit # Missing, unit' = Missing, seq' = seq, aliens' = aliens \ {unit.ino}
      PROVE  IInv'
  <2>1. TypeOK'
    BY <1>1, <1>2, <1>7 DEF IInv, TypeOK, sysdVars
  <2>2. Marked'
    BY <1>1, <1>7 DEF IInv, World, Marked
  <2>3. RacerPreserved'
    BY <1>1, <1>7 DEF IInv, World, RacerPreserved
  <2> QED BY <1>3, <1>4, <1>5, <2>1, <2>2, <2>3 DEF IInv, World
<1> QED BY <1>6, <1>7 DEF Race

\* Nothing happens.
LEMMA StutterStep ==
  ASSUME IInv, UNCHANGED vars
  PROVE  IInv'
<1>1. UNCHANGED <<dirVars, sysdVars, snap, op, last, aliens, seq, bounds>> /\ Fine
  BY DEF vars, Fine
<1>2. TypeOK'
  BY <1>1, Faults DEF IInv, TypeOK, dirVars, sysdVars, bounds
<1>3. World'
  BY <1>1, WorldKept DEF IInv, dirVars, sysdVars, bounds
<1>4. Conduct'
  <2>1. CASE op = Missing
    BY <1>1, <2>1, NoConduct
  <2>2. CASE op # Missing
    <3>1. Same(op', op) /\ Holds(op', op)
      BY <1>1 DEF Same, Holds
    <3> QED BY <1>1, <2>2, <3>1, SameConduct DEF bounds
  <2> QED BY <2>1, <2>2
<1>5. Told'
  BY <1>1 DEF IInv, Told, SuccessMeansLoaded, FailureRestores, DataOf, dirVars, sysdVars, bounds
<1> QED BY <1>2, <1>3, <1>4, <1>5 DEF IInv

\* The initial states: the unit is loaded and nothing is under way.
LEMMA Initially ==
  ASSUME Init
  PROVE  IInv
<1>1. TypeOK
  <2>1. unit \in Files \cup {Missing} /\ (unit # Missing => unit.ino <= seq)
    BY DEF Init, Files
  <2>2. loaded \in Data \cup {Alien, Missing}
    BY DEF Init, DataOf
  <2>3. staged \in [DOMAIN staged -> Files] /\ DOMAIN staged = {}
    BY DEF Init
  <2>4. enabled \in BOOLEAN /\ tomb \in BOOLEAN
    BY DEF Init
  <2>5. seq \in Nat /\ aliens \subseteq 1..seq /\ DOMAIN staged \subseteq 1..seq
        /\ ops \in 0..MaxOps /\ faults \in 0..MaxFaults /\ crashes \in 0..MaxCrashes /\ races \in 0..MaxRaces
    BY <2>3, UnitAssumption DEF Init
  <2>6. jour = Missing /\ snap = Missing /\ op = Missing /\ last = Missing
    BY DEF Init
  <2> QED BY <2>1, <2>2, <2>3, <2>4, <2>5, <2>6 DEF TypeOK
<1>2. World
  <2>1. DataOf(unit) # Alien
    BY UnitAssumption DEF Init, DataOf
  <2>2. DOMAIN staged = {}
    BY DEF Init
  <2> QED BY <2>1, <2>2 DEF Init, World, Lawful, Directory, CrashRecovers, Marked, RacerPreserved
<1>3. Conduct
  BY DEF Init, Conduct, Flow, Errand, Enablement, Exchange, Journal, Place, Progress, Reloads, Smooth
<1>4. Told
  BY DEF Init, Told, SuccessMeansLoaded, FailureRestores
<1> QED BY <1>1, <1>2, <1>3, <1>4 DEF IInv

\* Every step preserves the invariant.
LEMMA Inductive ==
  ASSUME IInv, [Next]_vars
  PROVE  IInv'
<1>1. CASE \E kind \in {"install", "update"}, d \in Data : Start(kind, d)
  BY <1>1, StartStep DEF Kinds
<1>2. CASE \E kind \in Kinds \ {"install", "update"} : Start(kind, Missing)
  BY <1>2, StartStep, UnitAssumption
<1>3. CASE Steps
  <2>1. CASE EnsureManager \/ ReloadRequired \/ RecoveryStep \/ RecoveryCheck
    BY <2>1, EnsureStep, ReloadRequiredStep, RecoveryStepStep, RecoveryCheckStep
  <2>2. CASE CasCheck \/ CasRename
    BY <2>2, CasCheckStep, CasRenameStep
  <2>3. CASE ReloadValidate \/ Reload \/ ClearBegins \/ ClearUnlinks
    BY <2>3, ReloadValidateStep, ReloadStep, ClearBeginsStep, ClearUnlinksStep
  <2>4. CASE Write \/ WriteJournal \/ WritePublishes
    BY <2>4, WriteStep, WriteJournalStep, WritePublishesStep
  <2>5. CASE WriteSwapped
    BY <2>5, PutStep, SwappedStep DEF WriteSwapped
  <2>6. CASE WriteDropped \/ WriteTakenBack
    BY <2>6, WriteDroppedStep, WriteTakenBackStep
  <2>7. CASE WriteAbort
    BY <2>7, AbortStep, AbortedStep DEF WriteAbort
  <2>8. CASE Sync
    BY <2>8, SyncStep DEF Sync
  <2>9. CASE RemoveJournal \/ RemoveTakes
    BY <2>9, RemoveJournalStep, TakeStep, TakenStep, RmDroppedStep DEF RemoveTakes
  <2>10. CASE Begin \/ Sweep \/ Toggle \/ RestoreEnablement
    BY <2>10, BeginStep, SweepStep, ToggleStep, RestoreStep
  <2>11. CASE Stored \/ Reloaded \/ Cleared \/ RollbackFile
    BY <2>11, StoredStep, ReloadedStep, ClearedStep, RollbackFileStep
  <2> QED BY <1>3, <2>1, <2>2, <2>3, <2>4, <2>5, <2>6, <2>7, <2>8, <2>9, <2>10, <2>11 DEF Steps
<1>4. CASE Cancel \/ Crash \/ Race
  BY <1>4, CancelStep, CrashStep, RaceStep
<1>5. CASE UNCHANGED vars
  BY <1>5, StutterStep
<1> QED BY <1>1, <1>2, <1>3, <1>4, <1>5 DEF Next

-----------------------------------------------------------------------------
(* Theorems                                                                   *)

\* The invariant holds in every reachable state.
THEOREM Invariance == Spec => []IInv
<1>1. Init => IInv
  BY Initially
<1>2. IInv /\ [Next]_vars => IInv'
  BY Inductive
<1> QED BY <1>1, <1>2, PTL DEF Spec

\* The state has its type: the names and inodes in use were given out, and the
\* journal, the snapshot and the operation are records of their kinds.
THEOREM TypeCorrect == Spec => []TypeOK
<1>1. IInv => TypeOK
  BY DEF IInv
<1> QED BY <1>1, Invariance, PTL

\* Whatever step processes died at or were cancelled at, the journal they left
\* says what reload_required has to finish or undo; a tombstone they left, which
\* makes reload_required answer RepairRequired from then on, stands for a change
\* that is over and loaded.
THEOREM CrashesRecover == Spec => []CrashRecovers
<1>1. IInv => CrashRecovers
  BY DEF IInv, World
<1> QED BY <1>1, Invariance, PTL

\* An operation that reports success has left the unit as asked, loaded, and no
\* journal.
THEOREM SuccessLoaded == Spec => []SuccessMeansLoaded
<1>1. IInv => SuccessMeansLoaded
  BY DEF IInv, Told
<1> QED BY <1>1, Invariance, PTL

\* An operation that reports a plain failure has changed nothing, or, when
\* clear_reload_required failed after the reload, has left the journal of its own
\* change, which is in place, for the next one to finish.
THEOREM FailureIsUndone == Spec => []FailureRestores
<1>1. IInv => FailureRestores
  BY DEF IInv, Told
<1> QED BY <1>1, Invariance, PTL

\* exchange_exact and remove_exact never delete bytes of another process.
THEOREM RacersPreserved == Spec => []RacerPreserved
<1>1. IInv => RacerPreserved
  BY DEF IInv, World
<1> QED BY <1>1, Invariance, PTL

-----------------------------------------------------------------------------
(* The abstract transaction                                                   *)

\* The transaction on record, as the refinement mapping reads it off the journal.
Txn ==
  IF OnRecord = Missing THEN Missing
  ELSE [from |-> DataOf(OnRecord.before), to |-> DataOf(OnRecord.after),
        undo |-> OnRecord.phase = "rollback"]

\* A record is a transaction.
LEMMA TxnFields ==
  ASSUME IInv, NEW j, j = OnRecord, j # Missing
  PROVE  /\ Txn # Missing /\ Txn.from = DataOf(j.before) /\ Txn.to = DataOf(j.after)
         /\ Txn.undo = (j.phase = "rollback")
<1>1. j \in Records
  <2>1. CASE op # Missing /\ op.at = "unlink"
    BY <2>1 DEF IInv, Conduct, Journal, Parked, Snaps, OnRecord
  <2>2. CASE ~(op # Missing /\ op.at = "unlink")
    BY <2>2 DEF IInv, TypeOK, OnRecord
  <2> QED BY <2>1, <2>2
<1>2. j.before \in Ours \cup {Missing} /\ j.after \in Ours \cup {Missing}
  BY <1>1 DEF Records
<1> DEFINE f == DataOf(j.before)
<1> DEFINE t == DataOf(j.after)
<1> DEFINE u == j.phase = "rollback"
<1>3. f \in Data \cup {Missing} /\ t \in Data \cup {Missing} /\ u \in BOOLEAN
  BY <1>2 DEF DataOf, Ours
<1>4. Txn = [from |-> f, to |-> t, undo |-> u]
  BY DEF Txn
<1> HIDE DEF f, t, u
<1>5. Txn \in Transactions /\ Txn.from = f /\ Txn.to = t /\ Txn.undo = u
  BY <1>3, <1>4 DEF Transactions
<1> QED BY <1>5, MissingAssumption DEF f, t, u

\* No record, no transaction.
LEMMA NoTxn ==
  ASSUME OnRecord = Missing
  PROVE  Txn = Missing
  BY DEF Txn

\* Away from the unlink the journal is what is on record.
LEMMA JournalCounts ==
  ASSUME op = Missing \/ op.at # "unlink"
  PROVE  OnRecord = jour
  BY DEF OnRecord

\* The mapping, without the substitution.
LEMMA Mapped ==
  /\ Transaction!Begin <=> /\ Txn = Missing
                           /\ \E c \in (Data \cup {Missing}) \ {DataOf(unit)} :
                                Txn' = [from |-> DataOf(unit), to |-> c, undo |-> FALSE]
                           /\ UNCHANGED <<DataOf(unit), loaded, races = 0>>
  /\ Transaction!Commit <=> /\ Txn # Missing /\ DataOf(unit) = Txn.from
                            /\ DataOf(unit)' = Txn.to
                            /\ UNCHANGED <<loaded, Txn, races = 0>>
  /\ Transaction!TakeBack <=> /\ Txn # Missing /\ DataOf(unit) = Txn.to
                              /\ DataOf(unit)' = Txn.from
                              /\ UNCHANGED <<loaded, Txn, races = 0>>
  /\ Transaction!Undo <=> /\ Txn # Missing /\ ~Txn.undo /\ DataOf(unit) = Txn.to
                          /\ Txn' = [from |-> Txn.to, to |-> Txn.from, undo |-> TRUE]
                          /\ UNCHANGED <<DataOf(unit), loaded, races = 0>>
  /\ Transaction!Reload <=> /\ Txn # Missing /\ DataOf(unit) = Txn.to /\ loaded' = DataOf(unit)
                            /\ UNCHANGED <<DataOf(unit), Txn, races = 0>>
  /\ Transaction!Finish <=> /\ Txn # Missing /\ loaded = DataOf(unit)
                            /\ Txn.undo => DataOf(unit) = Txn.to
                            /\ Txn' = Missing
                            /\ UNCHANGED <<DataOf(unit), loaded, races = 0>>
  /\ Transaction!Interfere <=> (races = 0)' = FALSE
  /\ UNCHANGED Transaction!vars <=> UNCHANGED <<DataOf(unit), loaded, Txn, races = 0>>
  BY
     DEF Transaction!Begin, Transaction!Commit, Transaction!TakeBack, Transaction!Undo,
          Transaction!Reload,
         Transaction!Finish, Transaction!Interfere, Transaction!vars, Transaction!Contents, Txn

\* A step that leaves the unit, what is on record and systemd alone is not seen.
LEMMA Unseen ==
  ASSUME UNCHANGED <<unit, loaded, races>>, OnRecord' = OnRecord
  PROVE  UNCHANGED Transaction!vars
<1>1. UNCHANGED <<DataOf(unit), loaded, Txn, races = 0>>
  BY DEF DataOf, Txn
<1> QED BY <1>1, Mapped

\* Only the rename that makes the journal a tombstone leads to the unlink, and
\* only the unlink leaves it.
LEMMA Elsewhere ==
  ASSUME IInv, Steps, ~ClearBegins, ~ClearUnlinks
  PROVE  OnRecord = jour /\ OnRecord' = jour'
<1>1. op # Missing /\ op.at # "unlink"
  <2>1. CASE CasCheck \/ CasRename
    BY <2>1 DEF CasCheck, CasRename, IInv, Conduct, Exchange
  <2>2. CASE EnsureManager \/ ReloadRequired \/ RecoveryStep \/ RecoveryCheck \/ Begin
    BY <2>2 DEF EnsureManager, ReloadRequired, RecoveryStep, RecoveryCheck, Begin, Concludes, At
  <2>3. CASE ReloadValidate \/ Reload \/ Write \/ WriteJournal \/ RemoveJournal \/ RemoveTakes
    BY <2>3 DEF ReloadValidate, Reload, Write, WriteJournal, RemoveJournal, RemoveTakes, Decide, At
  <2>4. CASE WritePublishes \/ WriteSwapped \/ WriteDropped \/ WriteTakenBack \/ WriteAbort \/ Sync
    BY <2>4 DEF WritePublishes, WriteSwapped, WriteDropped, WriteTakenBack, WriteAbort, Sync, Decide, At
  <2>5. CASE Sweep \/ Toggle \/ RestoreEnablement \/ Stored \/ Reloaded \/ Cleared \/ RollbackFile
    BY <2>5 DEF Sweep, Toggle, RestoreEnablement, Stored, Reloaded, Cleared, RollbackFile, Concludes, At
  <2> QED BY <2>1, <2>2, <2>3, <2>4, <2>5 DEF Steps
<1>2. op \in Operations
  BY <1>1 DEF IInv, TypeOK
<1>3. op' = Missing \/ op'.at # "unlink"
  <2> USE <1>1, <1>2 DEF Operations, Go, Answer, End
  <2>1. CASE CasCheck \/ CasRename
    BY <2>1 DEF CasCheck, CasRename, CasReturns
  <2>2. CASE EnsureManager
    BY <2>2 DEF EnsureManager
  <2>3. CASE ReloadRequired
    BY <2>3 DEF ReloadRequired, RecoverCommitted, RecoverAbort, RecoverRollback, RecoveryCas
  <2>4. CASE RecoveryStep \/ RecoveryCheck
    BY <2>4 DEF RecoveryStep, RecoveryCheck, Cas
  <2>5. CASE Begin
    <3> DEFINE here == [op EXCEPT !.ctx = "none", !.begun = TRUE, !.prev = DataOf(unit),
                                  !.was = enabled, !.exp = unit]
    <3>1. unit \in Files \cup {Missing} /\ op.kind \in Kinds
      BY DEF IInv, TypeOK
    <3>2. \/ DataOf(unit) = Alien \/ unit = Missing \/ (unit # Missing /\ DataOf(unit) \in Data)
      BY <3>1 DEF DataOf, Files
    <3>3. \/ op' = Missing
          \/ op' = [here EXCEPT !.ctx = "fwd", !.put = op.want, !.at = "write"]
          \/ op' = [here EXCEPT !.at = "sweep"]
          \/ op' = [here EXCEPT !.at = "toggle"]
      <4>1. CASE DataOf(unit) = Alien
        BY <2>5, <4>1, UnitAssumption DEF Begin, DataOf
      <4>2. CASE unit = Missing
        BY <2>5, <4>2, UnitAssumption DEF Begin, DataOf
      <4>3. CASE unit # Missing /\ DataOf(unit) \in Data
        BY <2>5, <3>1, <4>3, UnitAssumption DEF Begin, Kinds
      <4> QED BY <3>2, <4>1, <4>2, <4>3
    <3> QED BY <3>3
  <2>6. CASE ReloadValidate \/ Reload
    BY <2>6 DEF ReloadValidate, Reload
  <2>7. CASE Write
    BY <2>7 DEF Write
  <2>8. CASE WriteJournal
    BY <2>8 DEF WriteJournal, Publish
  <2>9. CASE WritePublishes \/ WriteSwapped
    BY <2>9 DEF WritePublishes, WriteSwapped, Cas
  <2>10. CASE WriteDropped \/ WriteTakenBack \/ WriteAbort \/ Sync
    BY <2>10 DEF WriteDropped, WriteTakenBack, WriteAbort, Sync
  <2>11. CASE RemoveJournal
    BY <2>11 DEF RemoveJournal, Publish
  <2>12. CASE RemoveTakes
    BY <2>12 DEF RemoveTakes, Cas
  <2>13. CASE Sweep \/ RestoreEnablement
    BY <2>13 DEF Sweep, RestoreEnablement
  <2>14. CASE Toggle
    BY <2>14 DEF Toggle
  <2>15. CASE Stored
    <3>1. op.ctx \in Main
      BY <2>15 DEF Stored, Concludes, At, IInv, Conduct, Flow
    <3> QED BY <2>15, <3>1 DEF Stored, FailWith, StartReload, StartRollback
  <2>16. CASE Reloaded
    <3>1. op.ctx \in Main \cup {"rec"}
      BY <2>16 DEF Reloaded, Concludes, At, IInv, Conduct, Flow
    <3> QED BY <2>16, <3>1 DEF Reloaded, StartRollback, StartRestore
  <2>17. CASE Cleared
    <3>1. op.ctx \in Main \cup {"rec", "recabort"}
      BY <2>17 DEF Cleared, Concludes, At, IInv, Conduct, Flow
    <3> QED BY <2>17, <3>1 DEF Cleared, FailWith, StartRestore
  <2>18. CASE RollbackFile
    BY <2>18 DEF RollbackFile
  <2> QED BY <2>1, <2>2, <2>3, <2>4, <2>5, <2>6, <2>7, <2>8, <2>9, <2>10, <2>11, <2>12, <2>13, <2>14,
             <2>15, <2>16, <2>17, <2>18 DEF Steps
<1> QED BY <1>1, <1>3 DEF OnRecord

\* A write of another process ends the promise.
LEMMA Interferes ==
  ASSUME races' # 0
  PROVE  Transaction!Next
<1>1. (races = 0)' = FALSE
  OBVIOUS
<1> QED BY <1>1, Mapped DEF Transaction!Next

\* A record of a replacement or a removal begins a transaction, or the reverse of
\* the one whose outcome is in place.
LEMMA RecordRefines ==
  ASSUME IInv, IInv', races = 0, UNCHANGED <<unit, loaded, races>>, op \in Operations, op # Missing,
         op.at \in {"publish", "rmfile"},
         NEW k \in {"replace", "remove"}, NEW t \in Nat, NEW a \in Ours \cup {Missing}, DataOf(a) = Goal,
         NEW ph, ph = (IF jour = Missing THEN "forward" ELSE "rollback"), jour' = Record(ph, k, t, op.exp, a),
         jour = Missing \/ jour.phase = "forward"
  PROVE  Transaction!Next
<1>1. unit = op.exp /\ DataOf(op.exp) = Source /\ Found /\ op.ctx \in Main
  <2>1. op.ctx \in Main
    BY DEF IInv, Conduct, Flow
  <2>2. unit = op.exp
    BY DEF IInv, Conduct, Place, Progress
  <2>3. DataOf(op.exp) = Source
    BY <2>1 DEF IInv, Conduct, Errand
  <2>4. Found
    BY DEF IInv, Conduct, Journal
  <2> QED BY <2>1, <2>2, <2>3, <2>4
<1>2. jour' \in Records /\ jour' # Missing /\ jour'.phase = ph /\ jour'.before = op.exp /\ jour'.after = a
  <2> DEFINE e == op.exp
  <2>1. e \in Ours \cup {Missing} /\ jour' = Record(ph, k, t, e, a) /\ ph \in {"forward", "rollback"}
    BY DEF Operations
  <2>2. e = op.exp
    OBVIOUS
  <2> HIDE DEF e
  <2>3. jour' \in Records /\ jour'.phase = ph /\ jour'.before = e /\ jour'.after = a
    BY <2>1 DEF Record, Records
  <2> QED BY <2>2, <2>3, MissingAssumption
<1>8. OnRecord = jour /\ OnRecord' = jour'
  <2>1. op.at # "unlink"
    OBVIOUS
  <2>2. op' = Missing \/ op'.at # "unlink"
    BY <1>2 DEF IInv, Conduct, Journal, Parked
  <2> QED BY <2>1, <2>2 DEF OnRecord
<1> DEFINE f == DataOf(unit)
<1> DEFINE g == DataOf(a)
<1>3. Txn' = [from |-> f, to |-> g, undo |-> (ph = "rollback")] /\ f # g
  <2>1. DataOf(jour.before)' = f /\ DataOf(jour.after)' = g
    BY <1>1, <1>2 DEF DataOf
  <2>2. f # g
    BY <1>2, <2>1 DEF IInv, World, Lawful
  <2>3. Txn' = [from |-> DataOf(jour.before)', to |-> DataOf(jour.after)', undo |-> (jour'.phase = "rollback")]
    BY <1>2, <1>8 DEF Txn, DataOf
  <2> QED BY <1>2, <2>1, <2>2, <2>3
<1>4. g \in Data \cup {Missing}
  BY DEF DataOf, Ours
<1>5. UNCHANGED <<DataOf(unit), loaded, races = 0>>
  BY DEF DataOf
<1>6. CASE jour = Missing
  <2>1. Txn = Missing
    BY <1>6, <1>8, NoTxn
  <2>2. Txn' = [from |-> f, to |-> g, undo |-> FALSE]
    <3>1. (ph = "rollback") = FALSE
      BY <1>6
    <3> QED BY <1>3, <3>1
  <2>3. g \in (Data \cup {Missing}) \ {f}
    BY <1>3, <1>4
  <2> HIDE DEF g
  <2>4. \E c \in (Data \cup {Missing}) \ {f} : Txn' = [from |-> f, to |-> c, undo |-> FALSE]
    BY <2>2, <2>3
  <2>5. Transaction!Begin
    BY <1>5, <2>1, <2>4, Mapped
  <2> QED BY <2>5 DEF Transaction!Next
<1>7. CASE jour # Missing
  <2>1. Leads(op.prev, op.want) /\ op.ctx \in Back
    BY <1>1, <1>7 DEF Found
  <2>2. Txn # Missing /\ Txn.from = g /\ Txn.to = f /\ ~Txn.undo
    BY <1>1, <1>7, <1>8, <2>1, TxnFields DEF Leads, Goal, Source
  <2>3. Txn' = [from |-> f, to |-> g, undo |-> TRUE]
    <3>1. (ph = "rollback") = TRUE
      BY <1>7
    <3> QED BY <1>3, <3>1
  <2>4. Transaction!Undo
    BY <1>5, <2>2, <2>3, Mapped
  <2> QED BY <2>4 DEF Transaction!Next
<1> QED BY <1>6, <1>7

\* WriteJournal begins a transaction or its reverse.
LEMMA WriteJournalRefines ==
  ASSUME IInv, IInv', races = 0, WriteJournal
  PROVE  [Transaction!Next]_(Transaction!vars)
<1>1. op \in Operations /\ op # Missing /\ op.at = "publish" /\ op.tmp \in 0..seq
  BY AtFacts DEF WriteJournal
<1>2. UNCHANGED <<unit, loaded, races>>
  BY DEF WriteJournal, sysdVars, bounds
<1>3. op.new \in Ours \cup {Missing} /\ DataOf(op.new) = Goal /\ op.tmp \in Nat
  <2>1. op.put = Goal /\ op.new = [ino |-> op.tmp, data |-> op.put] /\ op.tmp \in Nat
        /\ op.put \in Data /\ op.new \in Ours \cup {Missing}
    BY <1>1 DEF IInv, Conduct, Errand, TypeOK, Operations
  <2>2. op.new \in Ours
    BY <2>1 DEF Ours
  <2> QED BY <2>1, <2>2, MissingAssumption DEF DataOf
<1> DEFINE ph == IF jour = Missing THEN "forward" ELSE "rollback"
<1>4. \/ UNCHANGED jour
      \/ /\ jour' = Record(ph, "replace", op.tmp, op.exp, op.new)
         /\ jour = Missing \/ jour.phase = "forward"
  BY DEF WriteJournal, Publish
<1>5. CASE UNCHANGED jour
  <2>1. ~ClearBegins /\ ~ClearUnlinks /\ Steps
    BY <1>1 DEF ClearBegins, ClearUnlinks, At, Steps
  <2> QED BY <1>2, <1>5, <2>1, Elsewhere, Unseen
<1>6. CASE /\ jour' = Record(ph, "replace", op.tmp, op.exp, op.new)
           /\ jour = Missing \/ jour.phase = "forward"
  <2> DEFINE t == op.tmp
  <2> DEFINE a == op.new
  <2>1. t \in Nat /\ a \in Ours \cup {Missing} /\ DataOf(a) = Goal /\ jour' = Record(ph, "replace", t, op.exp, a)
    BY <1>3, <1>6
  <2>2. ph = (IF jour = Missing THEN "forward" ELSE "rollback")
    OBVIOUS
  <2> HIDE DEF t, a, ph
  <2>3. Transaction!Next
    BY <1>1, <1>2, <1>6, <2>1, <2>2, RecordRefines
  <2> QED BY <2>3
<1> QED BY <1>4, <1>5, <1>6

\* So does RemoveJournal.
LEMMA RemoveJournalRefines ==
  ASSUME IInv, IInv', races = 0, RemoveJournal
  PROVE  [Transaction!Next]_(Transaction!vars)
<1>1. op \in Operations /\ op # Missing /\ op.at = "rmfile"
  BY AtFacts DEF RemoveJournal
<1>2. UNCHANGED <<unit, loaded, races>>
  BY DEF RemoveJournal, sysdVars, bounds
<1>3. DataOf(Missing) = Goal /\ seq + 1 \in Nat
  BY <1>1 DEF IInv, Conduct, Errand, TypeOK, DataOf
<1> DEFINE ph == IF jour = Missing THEN "forward" ELSE "rollback"
<1>4. \/ UNCHANGED jour
      \/ /\ jour' = Record(ph, "remove", seq + 1, op.exp, Missing)
         /\ jour = Missing \/ jour.phase = "forward"
  BY DEF RemoveJournal, Publish
<1>5. CASE UNCHANGED jour
  <2>1. ~ClearBegins /\ ~ClearUnlinks /\ Steps
    BY <1>1 DEF ClearBegins, ClearUnlinks, At, Steps
  <2> QED BY <1>2, <1>5, <2>1, Elsewhere, Unseen
<1>6. CASE /\ jour' = Record(ph, "remove", seq + 1, op.exp, Missing)
           /\ jour = Missing \/ jour.phase = "forward"
  <2> DEFINE t == seq + 1
  <2>1. t \in Nat /\ jour' = Record(ph, "remove", t, op.exp, Missing)
    BY <1>3, <1>6
  <2>2. ph = (IF jour = Missing THEN "forward" ELSE "rollback")
    OBVIOUS
  <2> HIDE DEF t, ph
  <2>3. Transaction!Next
    BY <1>1, <1>2, <1>3, <1>6, <2>1, <2>2, RecordRefines
  <2> QED BY <2>3
<1> QED BY <1>4, <1>5, <1>6

\* A rename commits the transaction, takes it back, or moves no unit.
LEMMA CasRenameRefines ==
  ASSUME IInv, IInv', races = 0, CasRename
  PROVE  [Transaction!Next]_(Transaction!vars)
<1>1. UNCHANGED <<jour, loaded, races>>
  BY DEF CasRename, sysdVars, bounds
<1>2. Directory /\ Directory'
  BY <1>1 DEF IInv, World
<1>3. OnRecord = jour /\ UNCHANGED <<loaded, Txn, races = 0>>
  <2>1. ~ClearBegins /\ ~ClearUnlinks /\ Steps
    BY DEF CasRename, ClearBegins, ClearUnlinks, At, Steps
  <2>2. OnRecord = jour /\ OnRecord' = OnRecord
    BY <1>1, <2>1, Elsewhere
  <2> QED BY <1>1, <2>2 DEF Txn, DataOf
<1>4. CASE DataOf(unit)' = DataOf(unit)
  <2>1. UNCHANGED <<DataOf(unit), loaded, Txn, races = 0>>
    BY <1>3, <1>4
  <2> QED BY <2>1, Mapped
<1>5. CASE jour = Missing
  <2>1. DataOf(unit)' = DataOf(unit)
    <3>1. DataOf(unit)' = loaded' /\ DataOf(unit) = loaded
      BY <1>1, <1>2, <1>5 DEF Directory
    <3> QED BY <1>1, <3>1
  <2> QED BY <1>4, <2>1
<1>6. CASE jour # Missing /\ DataOf(unit)' # DataOf(unit)
  <2>1. unit \in {jour.before, jour.after} /\ unit' \in {jour.before, jour.after}
    <3>1. Shape /\ Shape'
      BY <1>1, <1>2, <1>6 DEF Directory
    <3> QED BY <1>1, <3>1 DEF Shape
  <2>2. Txn # Missing /\ Txn.from = DataOf(jour.before) /\ Txn.to = DataOf(jour.after)
    BY <1>3, <1>6, TxnFields
  <2>3. DataOf(unit)' = DataOf(unit')
    BY DEF DataOf
  <2>4. CASE unit = jour.before /\ unit' = jour.after
    <3>1. Transaction!Commit
      BY <1>3, <2>2, <2>3, <2>4, Mapped
    <3> QED BY <3>1 DEF Transaction!Next
  <2>5. CASE unit = jour.after /\ unit' = jour.before
    <3>1. Transaction!TakeBack
      BY <1>3, <2>2, <2>3, <2>5, Mapped
    <3> QED BY <3>1 DEF Transaction!Next
  <2> QED BY <1>6, <2>1, <2>3, <2>4, <2>5
<1> QED BY <1>4, <1>5, <1>6

\* daemon-reload loads the outcome of the transaction on record, or what systemd
\* had loaded when the record is of a change that was not published.
LEMMA ReloadRefines ==
  ASSUME IInv, races = 0, Reload
  PROVE  [Transaction!Next]_(Transaction!vars)
<1>1. op # Missing /\ op.at = "reload"
  BY DEF Reload, At
<1>2. UNCHANGED <<unit, jour, races>> /\ (loaded' = loaded \/ loaded' = DataOf(unit))
  BY DEF Reload, dirVars, bounds
<1>3. OnRecord = jour /\ OnRecord' = OnRecord
  <2>1. ~ClearBegins /\ ~ClearUnlinks /\ Steps
    BY <1>1 DEF ClearBegins, ClearUnlinks, At, Steps
  <2> QED BY <1>2, <2>1, Elsewhere
<1>4. jour # Missing /\ (unit = jour.after \/ (unit = jour.before /\ jour.phase = "forward"))
  BY <1>1 DEF IInv, Conduct, Place, Progress, Resolved
<1>5. CASE loaded' = loaded
  BY <1>2, <1>3, <1>5, Unseen
<1>6. CASE loaded' = DataOf(unit) /\ unit = jour.after
  <2>1. UNCHANGED <<DataOf(unit), Txn, races = 0>>
    BY <1>2, <1>3 DEF Txn, DataOf
  <2>2. Txn # Missing /\ Txn.to = DataOf(jour.after)
    BY <1>3, <1>4, TxnFields
  <2>3. Transaction!Reload
    BY <1>6, <2>1, <2>2, Mapped
  <2> QED BY <2>3 DEF Transaction!Next
<1>7. CASE loaded' = DataOf(unit) /\ unit = jour.before /\ jour.phase = "forward"
  <2>1. loaded = DataOf(unit)
    BY <1>4, <1>7 DEF IInv, World, Directory
  <2> QED BY <1>5, <1>7, <2>1
<1> QED BY <1>2, <1>4, <1>5, <1>6, <1>7

\* The rename to the tombstone leaves the transaction on record, which is now
\* the one the store remembers.
LEMMA ClearBeginsRefines ==
  ASSUME IInv, IInv', ClearBegins
  PROVE  UNCHANGED Transaction!vars
<1>1. op \in Operations /\ op # Missing /\ op.at = "clear"
  BY AtFacts DEF ClearBegins
<1>2. UNCHANGED <<unit, loaded, races>> /\ UNCHANGED snap
  BY DEF ClearBegins, sysdVars, bounds
<1>3. OnRecord' = OnRecord
  <2>1. CASE Go("unlink") /\ StillNamed
    <3>1. op' # Missing /\ op'.at = "unlink"
      BY <1>1, <2>1, GoFields DEF Labels
    <3> QED BY <1>1, <1>2, <2>1, <3>1 DEF OnRecord, StillNamed
  <2>2. CASE UNCHANGED jour /\ \E r \in {"repair", "io", "conflict", "needs"} : Answer("cleared", r)
    <3>1. op' # Missing /\ op'.at = "cleared"
      BY <1>1, <2>2, AnswerFields DEF Labels, Results
    <3> QED BY <1>1, <2>2, <3>1 DEF OnRecord
  <2> QED BY <2>1, <2>2 DEF ClearBegins
<1> QED BY <1>2, <1>3, Unseen

\* What the unlink finds: the outcome is loaded, or a forward change has changed
\* nothing.  Without the record the transaction is over.
LEMMA Finishes ==
  ASSUME IInv, races = 0, op # Missing, op.at = "unlink", UNCHANGED <<unit, loaded, races>>, OnRecord' = Missing
  PROVE  Transaction!Next
<1> DEFINE j == snap.jour
<1>1. OnRecord = j /\ j \in Records /\ j # Missing
  BY MissingAssumption DEF IInv, Conduct, Journal, Parked, Snaps, OnRecord
<1>2. loaded = DataOf(unit) /\ (unit = j.after \/ j.phase = "forward")
  BY DEF IInv, Conduct, Place, Progress, Resolved
<1>3. Txn # Missing /\ Txn.to = DataOf(j.after) /\ Txn.undo = (j.phase = "rollback")
  <2> HIDE DEF j
  <2> QED BY <1>1, TxnFields
<1>4. Txn.undo => DataOf(unit) = Txn.to
  BY <1>2, <1>3
<1>5. Txn' = Missing
  BY DEF Txn
<1>6. UNCHANGED <<DataOf(unit), loaded, races = 0>>
  BY DEF DataOf
<1>7. Transaction!Finish
  BY <1>2, <1>3, <1>4, <1>5, <1>6, Mapped
<1> QED BY <1>7 DEF Transaction!Next

\* The tombstone goes or stays, or the journal gets its name back.
LEMMA ClearUnlinksRefines ==
  ASSUME IInv, races = 0, ClearUnlinks
  PROVE  [Transaction!Next]_(Transaction!vars)
<1>1. op \in Operations /\ op # Missing /\ op.at = "unlink" /\ jour = Missing
  <2>1. op \in Operations /\ op # Missing /\ op.at = "unlink"
    BY AtFacts DEF ClearUnlinks
  <2> QED BY <2>1 DEF IInv, Conduct, Journal, Parked
<1>2. UNCHANGED <<unit, loaded, races>> /\ (jour' = jour \/ jour' = snap.jour)
      /\ \E r \in {"ok", "repair", "needs"} : Answer("cleared", r)
  BY DEF ClearUnlinks, sysdVars, bounds
<1>3. op'.at = "cleared"
  BY <1>1, <1>2, AnswerFields DEF Labels, Results
<1>4. OnRecord' = jour' /\ OnRecord = snap.jour
  BY <1>1, <1>3 DEF OnRecord
<1>5. CASE jour' = jour
  <2>1. Transaction!Next
    BY <1>1, <1>2, <1>4, <1>5, Finishes
  <2> QED BY <2>1
<1>6. CASE jour' = snap.jour
  <2>1. UNCHANGED Transaction!vars
    BY <1>2, <1>4, <1>6, Unseen
  <2> QED BY <2>1
<1> QED BY <1>2, <1>5, <1>6

\* A process that dies before the unlink leaves a transaction that is over.
LEMMA CrashRefines ==
  ASSUME IInv, races = 0, Crash
  PROVE  [Transaction!Next]_(Transaction!vars)
<1>1. op # Missing /\ op' = Missing /\ UNCHANGED <<unit, jour, loaded, races>>
  BY DEF Crash, dirVars, sysdVars
<1>2. OnRecord' = jour
  BY <1>1 DEF OnRecord
<1>3. CASE op.at = "unlink"
  <2>1. jour = Missing
    BY <1>1, <1>3 DEF IInv, Conduct, Journal, Parked
  <2>2. Transaction!Next
    BY <1>1, <1>2, <1>3, <2>1, Finishes
  <2> QED BY <2>2
<1>4. CASE op.at # "unlink"
  <2>1. OnRecord' = OnRecord
    BY <1>2, <1>4 DEF OnRecord
  <2>2. UNCHANGED Transaction!vars
    BY <1>1, <2>1, Unseen
  <2> QED BY <2>2
<1> QED BY <1>3, <1>4

\* A start, a cancellation and a stutter are not seen.
LEMMA QuietRefines ==
  ASSUME IInv,
         \/ \E kind \in Kinds, d \in Data \cup {Missing} : Start(kind, d)
         \/ Cancel \/ UNCHANGED vars
  PROVE  UNCHANGED Transaction!vars
<1> USE DEF dirVars, sysdVars, bounds
<1>1. UNCHANGED <<unit, jour, loaded, races, snap>>
  BY DEF Start, Cancel, vars
<1>2. OnRecord' = OnRecord
  <2>1. CASE \E kind \in Kinds, d \in Data \cup {Missing} : Start(kind, d)
    <3>1. PICK kind \in Kinds, d \in Data \cup {Missing} : op = Missing /\ op' = NewOp(kind, d)
      BY <2>1 DEF Start
    <3>2. op'.at = "ensure"
      BY <3>1 DEF NewOp
    <3> QED BY <1>1, <3>1, <3>2 DEF OnRecord
  <2>2. CASE Cancel
    <3>1. op \in Operations /\ op # Missing /\ op' = [op EXCEPT !.cancelled = TRUE]
      BY <2>2 DEF Cancel, IInv, TypeOK
    <3>2. op' \in Operations /\ op'.at = op.at
      BY <3>1 DEF Operations
    <3>3. op' # Missing
      BY <3>2, MissingAssumption
    <3> QED BY <1>1, <3>1, <3>2, <3>3 DEF OnRecord
  <2>3. CASE UNCHANGED vars
    BY <1>1, <2>3 DEF OnRecord, vars
  <2> QED BY <2>1, <2>2, <2>3
<1> QED BY <1>1, <1>2, Unseen

\* Every other step of an operation leaves the unit, the journal and systemd alone.
LEMMA OtherSteps ==
  ASSUME Steps, ~CasRename, ~Reload, ~ClearBegins, ~ClearUnlinks, ~WriteJournal, ~RemoveJournal
  PROVE  UNCHANGED <<unit, jour, loaded, races>>
<1> USE DEF dirVars, sysdVars, bounds
<1>1. CASE EnsureManager \/ ReloadRequired
  BY <1>1 DEF EnsureManager, ReloadRequired
<1>2. CASE RecoveryStep \/ RecoveryCheck \/ Begin \/ Stored \/ Reloaded \/ Cleared \/ RollbackFile
  BY <1>2 DEF RecoveryStep, RecoveryCheck, Begin, Stored, Reloaded, Cleared, RollbackFile, Concludes
<1>3. CASE CasCheck \/ ReloadValidate \/ Write
  BY <1>3 DEF CasCheck, ReloadValidate, Write
<1>4. CASE WritePublishes \/ WriteSwapped \/ WriteDropped \/ WriteTakenBack \/ WriteAbort \/ Sync \/ RemoveTakes
  BY <1>4
     DEF WritePublishes, WriteSwapped, WriteDropped, WriteTakenBack, WriteAbort, Sync, RemoveTakes,
          Decide
<1>5. CASE Sweep \/ Toggle \/ RestoreEnablement
  BY <1>5 DEF Sweep, Toggle, RestoreEnablement
<1> QED BY <1>1, <1>2, <1>3, <1>4, <1>5 DEF Steps

\* Every step is a step of the abstract transaction or is not seen by it.
LEMMA StepRefines ==
  ASSUME IInv, IInv', [Next]_vars
  PROVE  [Transaction!Next]_(Transaction!vars)
<1> DEFINE Visible == CasRename \/ Reload \/ ClearBegins \/ ClearUnlinks \/ WriteJournal \/ RemoveJournal
<1>1. CASE races' # 0
  BY <1>1, Interferes
<1>2. CASE races' = 0 /\ Race
  BY <1>2 DEF Race, IInv, TypeOK
<1>3. CASE races' = 0 /\ Steps
  <2>1. races' = races
    <3>1. CASE Visible
      BY <3>1 DEF CasRename, Reload, ClearBegins, ClearUnlinks, WriteJournal, RemoveJournal, bounds
    <3>2. CASE ~Visible
      BY <1>3, <3>2, OtherSteps
    <3> QED BY <3>1, <3>2
  <2>2. races = 0
    BY <1>3, <2>1
  <2>3. CASE Visible
    BY <2>2, <2>3, CasRenameRefines, ReloadRefines, ClearBeginsRefines, ClearUnlinksRefines,
       WriteJournalRefines, RemoveJournalRefines
  <2>4. CASE ~Visible
    <3>1. UNCHANGED <<unit, jour, loaded, races>>
      BY <1>3, <2>4, OtherSteps
    <3>2. OnRecord' = OnRecord
      BY <1>3, <2>4, <3>1, Elsewhere
    <3> QED BY <3>1, <3>2, Unseen
  <2> QED BY <2>3, <2>4
<1>4. CASE races' = 0 /\ Crash
  <2>1. races = 0
    BY <1>4 DEF Crash
  <2> QED BY <1>4, <2>1, CrashRefines
<1>5. CASE \/ \E kind \in {"install", "update"}, d \in Data : Start(kind, d)
           \/ \E kind \in Kinds \ {"install", "update"} : Start(kind, Missing)
           \/ Cancel \/ UNCHANGED vars
  <2>1. \/ \E kind \in Kinds, d \in Data \cup {Missing} : Start(kind, d)
        \/ Cancel \/ UNCHANGED vars
    BY <1>5 DEF Kinds
  <2> QED BY <2>1, QuietRefines
<1> QED BY <1>1, <1>2, <1>3, <1>4, <1>5 DEF Next

\* The manager and its store implement the abstract transaction: while nobody else
\* edits the directory the unit changes only as a whole and on record, systemd
\* loads only the outcome of a transaction, and the record goes only when the two
\* agree - at every failing step, in every crash and through every recovery.  The
\* rename of the journal to its tombstone is not the end of the record yet: until
\* the unlink the store can still put the journal back.
THEOREM Refinement == Spec => Implements
<1>1. Init => Transaction!Init
  <2> SUFFICES ASSUME Init
               PROVE  Transaction!Init
    OBVIOUS
  <2>1. DataOf(unit) \in Data \cup {Missing}
    <3>1. CASE unit = Missing
      BY <3>1 DEF DataOf
    <3>2. CASE \E d \in Data : unit = [ino |-> 0, data |-> d]
      <4>1. PICK d \in Data : unit = [ino |-> 0, data |-> d]
        BY <3>2
      <4>2. unit.data = d
        BY <4>1
      <4> QED BY <4>2 DEF DataOf
    <3> QED BY <3>1, <3>2 DEF Init
  <2>2. loaded = DataOf(unit) /\ OnRecord = Missing /\ (races = 0) = TRUE
    BY DEF Init, OnRecord
  <2> QED BY <2>1, <2>2 DEF Transaction!Init, Transaction!Contents
<1>2. IInv /\ IInv' /\ [Next]_vars => [Transaction!Next]_(Transaction!vars)
  BY StepRefines
<1> QED BY <1>1, <1>2, Invariance, PTL DEF Spec, Implements, Transaction!Spec

=============================================================================
