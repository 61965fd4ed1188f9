--------------------------- MODULE UnitTransaction ---------------------------
(***************************************************************************)
(* What the user-unit manager promises while nobody else edits the unit    *)
(* directory (freedesktop/src/systemd_user.rs): the unit file changes only *)
(* as a whole, inside one transaction that is on record before the change, *)
(* and the record goes only when systemd has loaded what the file holds.   *)
(* Crashes and failed steps are not visible here: they only delay a step.  *)
(***************************************************************************)
CONSTANTS Data, Missing

VARIABLES
  unit,    \* the content of the unit file, or Missing
  loaded,  \* the content systemd has loaded, or Missing
  txn,     \* Missing, or the transaction on record
  alone    \* nobody else has touched the directory

vars == <<unit, loaded, txn, alone>>

Contents == Data \cup {Missing}

Init == /\ unit \in Contents /\ loaded = unit
        /\ txn = Missing /\ alone = TRUE

Begin == /\ txn = Missing
         /\ \E c \in Contents \ {unit} : txn' = [from |-> unit, to |-> c, undo |-> FALSE]
         /\ UNCHANGED <<unit, loaded, alone>>

Commit == /\ txn # Missing /\ unit = txn.from
          /\ unit' = txn.to
          /\ UNCHANGED <<loaded, txn, alone>>

\* A commit whose leftovers cannot be removed is taken back at once.
TakeBack == /\ txn # Missing /\ unit = txn.to
            /\ unit' = txn.from
            /\ UNCHANGED <<loaded, txn, alone>>

\* Rolling back is the reverse transaction.
Undo == /\ txn # Missing /\ ~txn.undo /\ unit = txn.to
        /\ txn' = [from |-> txn.to, to |-> txn.from, undo |-> TRUE]
        /\ UNCHANGED <<unit, loaded, alone>>

\* systemd only ever loads the outcome of the transaction on record.
Reload == /\ txn # Missing /\ unit = txn.to
          /\ loaded' = unit
          /\ UNCHANGED <<unit, txn, alone>>

\* Either the outcome is loaded, or a forward transaction has changed nothing.
Finish == /\ txn # Missing /\ loaded = unit
          /\ txn.undo => unit = txn.to
          /\ txn' = Missing
          /\ UNCHANGED <<unit, loaded, alone>>

\* Once somebody else edits the directory nothing is promised here.
Interfere == alone' = FALSE

Next == Begin \/ Commit \/ TakeBack \/ Undo \/ Reload \/ Finish \/ Interfere

Spec == Init /\ [][Next]_vars
=============================================================================
