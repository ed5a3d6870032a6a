--------------------------- MODULE TransactionUnit ---------------------------
(***************************************************************************)
(* What withTransaction promises when its calls follow each other: the     *)
(* statements of an action become permanent together or not at all, and    *)
(* all of them if the call returns Right.  If it returns Left they are     *)
(* undone; but a failing commit may have been done, and when the commit or *)
(* the rollback did not reach the server they are in limbo, together, and  *)
(* become permanent with the next call that commits.                       *)
(***************************************************************************)
CONSTANTS
    Units,      \* the calls of withTransaction
    Statements

VARIABLES
    writes,     \* the statements each has executed
    durable,    \* the statements that are permanent
    limbo,      \* those of returned calls that are neither permanent nor undone
    result      \* what each has returned

unitVars == <<writes, durable, limbo, result>>

Init ==
    /\ writes = [x \in Units |-> {}] /\ durable = {} /\ limbo = {}
    /\ result = [x \in Units |-> "none"]

Write(x, w) ==
    /\ result[x] = "none" /\ w \notin UNION {writes[y] : y \in Units}
    /\ writes' = [writes EXCEPT ![x] = @ \union {w}] /\ UNCHANGED <<durable, limbo, result>>

Return(x, r) == result[x] = "none" /\ result' = [result EXCEPT ![x] = r] /\ UNCHANGED writes

\* The commit is done, and reported or not.
Finish(x) ==
    /\ Return(x, "Right") \/ Return(x, "Left")
    /\ durable' = durable \union limbo \union writes[x] /\ limbo' = {}

Undo(x) == Return(x, "Left") /\ limbo' = {} /\ UNCHANGED durable

Suspend(x) == Return(x, "Left") /\ limbo' = limbo \union writes[x] /\ UNCHANGED durable

\* The session ends.
Forget == limbo' = {} /\ UNCHANGED <<writes, durable, result>>

Next ==
    \/ \E x \in Units :
          Finish(x) \/ Undo(x) \/ Suspend(x) \/ \E w \in Statements : Write(x, w)
    \/ Forget

Spec == Init /\ [][Next]_unitVars

=============================================================================
