--------------------------- MODULE MigrationLedger ---------------------------
(***************************************************************************)
(* What the migration runner promises a schema whose migrations are DML:   *)
(* a ledger of recorded migrations, and the changes they stand for, that   *)
(* move together.  A migration is applied and recorded in one step, and    *)
(* reverted and struck off in one step.                                    *)
(***************************************************************************)
EXTENDS Integers

CONSTANT Migration

VARIABLES
    recorded,   \* the migrations the history table records
    effect      \* how often the changes of each one are in the database

ledger == <<recorded, effect>>

Init ==
    /\ recorded = {}
    /\ effect = [m \in Migration |-> 0]

Apply(m) ==
    /\ m \notin recorded
    /\ recorded' = recorded \cup {m}
    /\ effect' = [effect EXCEPT ![m] = 1]

Revert(m) ==
    /\ m \in recorded
    /\ recorded' = recorded \ {m}
    /\ effect' = [effect EXCEPT ![m] = 0]

Next == \E m \in Migration : Apply(m) \/ Revert(m)

Spec == Init /\ [][Next]_ledger
=============================================================================
