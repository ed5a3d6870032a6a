----------------------------- MODULE Transaction -----------------------------
(***************************************************************************)
(* Oracle.Transaction: calls of withTransaction on one connection, one     *)
(* after the other or one inside the action of another, with statements,   *)
(* commits and rollbacks that fail and sessions that are lost.             *)
(*                                                                         *)
(* A session has one transaction, begun by the first statement after a     *)
(* commit or a rollback; withTransaction marks no beginning of its own.    *)
(* Statements are numbered, and so are the calls of withTransaction.       *)
(***************************************************************************)
EXTENDS Integers, Sequences, FiniteSets, Functions

CONSTANTS
    MaxUnits,           \* bound: calls of withTransaction
    MaxWrites,          \* bound: statements
    MaxDepth,           \* how deep the calls are nested
    CommitFailures,     \* what a failing commit may leave: "undone", "open" or "done"
    RollbackFailures    \* what a failing rollback may leave: "open"

ASSUME BoundAssumption == {MaxUnits, MaxWrites, MaxDepth} \subseteq Nat
ASSUME FailureAssumption ==
    CommitFailures \subseteq {"undone", "open", "done"} /\ RollbackFailures \subseteq {"open"}

VARIABLES
    pc,         \* action, commit or rollback
    alive,      \* the session exists
    stack,      \* the calls of withTransaction that run, the innermost first
    begun,      \* calls so far
    outer,      \* the calls in whose action another was begun
    path,       \* for each statement the calls it was executed in
    open,       \* the statements of the session's transaction
    durable,    \* the statements that are permanent
    result,     \* what a call has returned
    doubt       \* calls that returned Left with their commit done or nothing undone

program == <<stack, begun, outer, path, result, doubt>>
vars == <<pc, alive, program, open, durable>>

Units == 1..MaxUnits
WritesOf(x) == {w \in DOMAIN path : x \in path[w]}

Init ==
    /\ pc = "action" /\ alive = FALSE /\ stack = <<>> /\ begun = 0 /\ outer = {} /\ path = <<>>
    /\ open = {} /\ durable = {} /\ result = [x \in Units |-> "none"] /\ doubt = {}

---------------------------------------------------------------------------
Connect ==
    /\ stack = <<>> /\ ~alive /\ alive' = TRUE
    /\ UNCHANGED <<pc, program, open, durable>>

\* The connection is closed, which rolls its transaction back.
Disconnect ==
    /\ stack = <<>> /\ alive /\ alive' = FALSE /\ open' = {}
    /\ UNCHANGED <<pc, program, durable>>

\* The session is lost; the server rolls back.
Lose ==
    /\ stack /= <<>> /\ alive /\ alive' = FALSE /\ open' = {}
    /\ UNCHANGED <<pc, program, durable>>

\* withTransaction is called, by the program or by the action of another call.
Begin ==
    /\ pc = "action" /\ begun < MaxUnits /\ Len(stack) < MaxDepth
    /\ stack = <<>> => alive
    /\ begun' = begun + 1 /\ stack' = <<begun'>> \o stack /\ outer' = outer \union Range(stack)
    /\ UNCHANGED <<pc, alive, path, open, durable, result, doubt>>

\* The action executes a statement.
Write ==
    /\ pc = "action" /\ stack /= <<>> /\ alive /\ Len(path) < MaxWrites
    /\ path' = Append(path, Range(stack)) /\ open' = open \union {Len(path')}
    /\ UNCHANGED <<pc, alive, stack, begun, outer, durable, result, doubt>>

\* The innermost action returns.
ActionRight ==
    /\ pc = "action" /\ stack /= <<>> /\ pc' = "commit"
    /\ UNCHANGED <<alive, program, open, durable>>

ActionLeft ==
    /\ pc = "action" /\ stack /= <<>> /\ pc' = "rollback"
    /\ UNCHANGED <<alive, program, open, durable>>

\* The innermost call returns to its caller, whose action goes on.
Return(r) ==
    /\ pc' = "action" /\ stack' = Tail(stack) /\ result' = [result EXCEPT ![Head(stack)] = r]
    /\ UNCHANGED <<alive, begun, outer, path>>

Doubtful == doubt' = doubt \union {Head(stack)}

\* MUTANT of Commit: the transaction is not over when it is permanent.
CommitKeeps ==
    /\ pc = "commit" /\ alive /\ Return("Right")
    /\ durable' = durable \union open /\ UNCHANGED <<open, doubt>>

Commit ==
    /\ pc = "commit" /\ alive /\ Return("Right")
    /\ durable' = durable \union open /\ open' = {} /\ UNCHANGED doubt

\* MUTANT of CommitFails: the result of the commit is not looked at.
CommitIgnored ==
    /\ pc = "commit" /\ Return("Right")
    /\ \/ ~alive /\ UNCHANGED <<open, durable, doubt>>
       \/ alive /\ "undone" \in CommitFailures /\ open' = {} /\ UNCHANGED <<durable, doubt>>
       \/ alive /\ "open" \in CommitFailures /\ Doubtful /\ UNCHANGED <<open, durable>>
       \/ /\ alive /\ "done" \in CommitFailures /\ Doubtful
          /\ durable' = durable \union open /\ open' = {}

\* The commit fails: there is no session, or the server rolls back, or it has
\* not got to it, or it has done it (only clearing the transaction handle, or
\* the answer, failed).  No rollback follows.
CommitFails ==
    /\ pc = "commit" /\ Return("Left")
    /\ \/ ~alive /\ UNCHANGED <<open, durable, doubt>>
       \/ alive /\ "undone" \in CommitFailures /\ open' = {} /\ UNCHANGED <<durable, doubt>>
       \/ alive /\ "open" \in CommitFailures /\ Doubtful /\ UNCHANGED <<open, durable>>
       \/ /\ alive /\ "done" \in CommitFailures /\ Doubtful
          /\ durable' = durable \union open /\ open' = {}

\* MUTANT of Rollback: it is left to the next commit or rollback.
RollbackLater ==
    /\ pc = "rollback" /\ alive /\ Return("Left")
    /\ UNCHANGED <<open, durable, doubt>>

Rollback ==
    /\ pc = "rollback" /\ alive /\ Return("Left")
    /\ open' = {} /\ UNCHANGED <<durable, doubt>>

\* The rollback fails, which is ignored.
RollbackFails ==
    /\ pc = "rollback" /\ Return("Left") /\ UNCHANGED <<open, durable>>
    /\ IF alive THEN "open" \in RollbackFailures /\ Doubtful ELSE UNCHANGED doubt

Next ==
    \/ Connect \/ Disconnect \/ Lose \/ Begin \/ Write \/ ActionRight \/ ActionLeft
    \/ Commit \/ CommitFails \/ Rollback \/ RollbackFails

Spec == Init /\ [][Next]_vars

---------------------------------------------------------------------------
\* Types; and a statement is never both permanent and part of the session's
\* transaction, which is empty without a session.
TypeOK ==
    /\ pc \in {"action", "commit", "rollback"} /\ alive \in BOOLEAN
    /\ begun \in 0..MaxUnits /\ stack \in Seq(1..begun) /\ path \in Seq(SUBSET Units)
    /\ open \union durable \subseteq DOMAIN path /\ open \cap durable = {}
    /\ open /= {} => alive
    /\ result \in [Units -> {"none", "Left", "Right"}] /\ doubt \union outer \subseteq 1..begun

\* A call that contains no other and has returned Left has left nothing that
\* is ever permanent, whatever later calls on the connection commit, unless
\* its own commit or rollback failed with the session alive.
NothingOf(S) == \A x \in S : result[x] = "Left" => WritesOf(x) \cap durable = {}
LeftIsNothing == NothingOf(Units \ (outer \union doubt))

\* "If the action returns Left -> rollback is performed": nothing of it is
\* ever permanent.
LeftIsUndone == NothingOf(Units \ outer)

\* "Grouping several statements into one transaction provides: atomicity": at
\* no time is a part of what a call has done permanent, and all of it is when
\* it has returned Right - of the calls that contain no others.
Atomic(x) ==
    /\ WritesOf(x) \subseteq durable \/ WritesOf(x) \cap durable = {}
    /\ result[x] = "Right" => WritesOf(x) \subseteq durable
InnermostAtomic == \A x \in Units \ outer : Atomic(x)

\* What returned calls have left in the session's transaction.
LeftOpen == {w \in open : \A x \in path[w] : result[x] /= "none"}

\* As long as the calls follow each other they implement the transactions of
\* TransactionUnit.
Promise ==
    INSTANCE TransactionUnit WITH
        Statements <- 1..MaxWrites, writes <- [x \in Units |-> WritesOf(x)], limbo <- LeftOpen
RefinesUnit == Promise!Init /\ [][outer' = {} => Promise!Next]_(Promise!unitVars)

=============================================================================
