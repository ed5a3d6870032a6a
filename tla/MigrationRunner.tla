--------------------------- MODULE MigrationRunner ---------------------------
(***************************************************************************)
(* Oracle.Migration.Runner: sessions, each with a connection of its own,   *)
(* that call runMigrations, rollbackMigration and the three inspecting     *)
(* operations against one Oracle schema.                                   *)
(*                                                                         *)
(* The committed database is the history table idris_oracle_migrations     *)
(* (table, history) and, for every migration, how often its up action is   *)
(* in effect (ups: executions of up less executions of down).  A session   *)
(* sees the committed database and its own open transaction (work, ins,    *)
(* del, own).                                                              *)
(*                                                                         *)
(* The server is external to the repository and modelled as the runner     *)
(* uses it: statements are atomic, version is a PRIMARY KEY, an INSERT or  *)
(* a DELETE waits for another transaction's uncommitted row of that key,   *)
(* and DDL commits the transaction it is executed in.  A migration in Data *)
(* changes rows (its up and down take part in the transaction); any other  *)
(* one creates and drops an object (its up and down commit by themselves,  *)
(* and fail if the object already, or no longer, exists).                  *)
(***************************************************************************)
EXTENDS Integers, FiniteSets

CONSTANTS
    Session,        \* callers, each with one connection
    Rollbackers,    \* the sessions that may call rollbackMigration
    Version,        \* migrationversion of every migration in play
    Data,           \* the versions whose up and down are plain DML
    MigrationSets,  \* the lists of migrations callers supply, as sets
    Careful,        \* the sessions whose caller rolls back or disconnects on a Left
    MaxFaults       \* bound: failing calls and lost sessions in a behaviour

ASSUME SessionAssumption == Rollbackers \subseteq Session
ASSUME VersionAssumption == Version \subseteq Int /\ Data \subseteq Version
\* Lists of migrations and of history rows are finite, so a list that is not
\* empty has a first version and a last.
ASSUME FirstAssumption ==
    \A M \in SUBSET Version : M /= {} => \E v \in M : \A w \in M : v <= w
ASSUME LastAssumption ==
    \A M \in SUBSET Version : M /= {} => \E v \in M : \A w \in M : w <= v
ASSUME SetsAssumption == MigrationSets \subseteq SUBSET Version
ASSUME CarefulAssumption == Careful \subseteq Session
ASSUME FaultsAssumption == MaxFaults \in Nat

VARIABLES
    table,      \* committed: idris_oracle_migrations exists
    history,    \* committed: the versions it records
    ups,        \* committed: executions of up in effect, per version
    app,        \* committed: sessions whose own application work is in
    work,       \* open transaction: executions of up, less of down, per version
    ins, del,   \* open transaction: history rows inserted, deleted
    own,        \* open transaction: there is work of the application in it
    pc,         \* where every session is
    op,         \* the operation it is in, or returned from last
    answer,     \* what that operation returned
    supplied,   \* the migrations it was given
    todo,       \* pending migrations, or the one being rolled back
    faults      \* failures so far

db == <<table, history, ups, app>>
tx == <<work, ins, del, own>>
call == <<op, supplied>>
vars == <<table, history, ups, app, work, ins, del, own, pc, op, answer, supplied, todo, faults>>

Ops == {"run", "rollback", "inspect"}

PCs == {"idle", "check", "create", "list", "up", "record", "commit",
        "down", "remove", "commitDown", "left"}

NoWork == [v \in Version |-> 0]

TypeOK ==
    /\ table \in BOOLEAN
    /\ history \in SUBSET Version
    /\ ups \in [Version -> Int]
    /\ app \in SUBSET Session
    /\ work \in [Session -> [Version -> Int]]
    /\ ins \in [Session -> SUBSET Version]
    /\ del \in [Session -> SUBSET Version]
    /\ own \in [Session -> BOOLEAN]
    /\ pc \in [Session -> PCs]
    /\ op \in [Session -> Ops]
    /\ answer \in [Session -> {"none", "right", "left"}]
    /\ supplied \in [Session -> SUBSET Version]
    /\ todo \in [Session -> SUBSET Version]
    /\ faults \in Nat

Init ==
    /\ table = FALSE
    /\ history = {}
    /\ ups = NoWork
    /\ app = {}
    /\ work = [s \in Session |-> NoWork]
    /\ ins = [s \in Session |-> {}]
    /\ del = [s \in Session |-> {}]
    /\ own = [s \in Session |-> FALSE]
    /\ pc = [s \in Session |-> "idle"]
    /\ op = [s \in Session |-> "inspect"]
    /\ answer = [s \in Session |-> "none"]
    /\ supplied = [s \in Session |-> {}]
    /\ todo = [s \in Session |-> {}]
    /\ faults = 0

-----------------------------------------------------------------------------
(* The server. *)

\* The history rows session s reads: committed rows and its own changes.
HistoryOf(s) == (history \cup ins[s]) \ del[s]

\* A new, empty transaction.
NewTx(s) ==
    /\ work' = [work EXCEPT ![s] = NoWork]
    /\ ins' = [ins EXCEPT ![s] = {}]
    /\ del' = [del EXCEPT ![s] = {}]
    /\ own' = [own EXCEPT ![s] = FALSE]

\* The committed database once the transaction of s is committed.
CommitTx(s) ==
    /\ history' = HistoryOf(s)
    /\ ups' = [v \in Version |-> ups[v] + work[s][v]]
    /\ app' = IF own[s] THEN app \cup {s} ELSE app
    /\ NewTx(s)

RollbackTx(s) ==
    /\ NewTx(s)
    /\ UNCHANGED db

\* Another transaction holds an uncommitted row with key v.
RowLocked(s, v) == \E t \in Session \ {s} : v \in ins[t] \cup del[t]

Fault == faults < MaxFaults /\ faults' = faults + 1

\* Mutant of Return: the place is set to the result.
ReturnNowhere(s, result) ==
    /\ pc' = [pc EXCEPT ![s] = result]
    /\ answer' = [answer EXCEPT ![s] = result]

\* The operation of s returns: Right ends it, Left leaves its transaction to
\* the caller.
Return(s, result) ==
    /\ pc' = [pc EXCEPT ![s] = IF result = "right" THEN "idle" ELSE "left"]
    /\ answer' = [answer EXCEPT ![s] = result]

Goto(s, label) ==
    /\ pc' = [pc EXCEPT ![s] = label]
    /\ UNCHANGED answer

-----------------------------------------------------------------------------
(* The caller. *)

Call(s) ==
    /\ pc[s] = "idle"
    /\ \E o \in Ops, M \in MigrationSets :
          /\ o = "rollback" => s \in Rollbackers
          /\ op' = [op EXCEPT ![s] = o]
          /\ supplied' = [supplied EXCEPT ![s] = M]
    /\ pc' = [pc EXCEPT ![s] = "check"]
    /\ answer' = [answer EXCEPT ![s] = "none"]
    /\ todo' = [todo EXCEPT ![s] = {}]
    /\ UNCHANGED <<db, tx, faults>>

\* The caller executes statements of its own on the connection.
AppWork(s) ==
    /\ pc[s] = "idle"
    /\ own' = [own EXCEPT ![s] = TRUE]
    /\ UNCHANGED <<db, work, ins, del, pc, call, answer, todo, faults>>

\* The caller commits: work of its own or, when it carried on after a Left,
\* whatever the operation left in the transaction.
AppCommit(s) ==
    /\ pc[s] = "idle"
    /\ CommitTx(s)
    /\ UNCHANGED <<table, pc, call, answer, todo, faults>>

\* rollback, or the disconnect of withConnection, after a Left.
CleanUp(s) ==
    /\ pc[s] = "left"
    /\ RollbackTx(s)
    /\ pc' = [pc EXCEPT ![s] = "idle"]
    /\ UNCHANGED <<call, answer, todo, faults>>

\* A caller that ignores the Left and keeps using the connection.
CarryOn(s) ==
    /\ s \notin Careful
    /\ pc[s] = "left"
    /\ pc' = [pc EXCEPT ![s] = "idle"]
    /\ UNCHANGED <<db, tx, call, answer, todo, faults>>

\* The process dies or the session is lost: the server rolls back.
Lost(s) ==
    /\ pc[s] /= "idle"
    /\ Fault
    /\ RollbackTx(s)
    /\ pc' = [pc EXCEPT ![s] = "idle"]
    /\ answer' = [answer EXCEPT ![s] = "left"]
    /\ UNCHANGED <<call, todo>>

-----------------------------------------------------------------------------
(* ensureMigrationTable and listAppliedMigrations. *)

\* Any statement of the runner may fail; nothing of it is then in effect.
StatementFails(s) ==
    /\ pc[s] \in {"check", "create", "list", "record", "remove"}
    /\ Fault
    /\ Return(s, "left")
    /\ UNCHANGED <<db, tx, call, todo>>

CheckTable(s) ==
    /\ pc[s] = "check"
    /\ Goto(s, IF table THEN "list" ELSE "create")
    /\ UNCHANGED <<db, tx, call, todo, faults>>

\* CREATE TABLE is DDL: it commits the open transaction, and fails if another
\* session has created the table since CheckTable.
CreateTable(s) ==
    /\ pc[s] = "create"
    /\ CommitTx(s)
    /\ table' = TRUE
    /\ IF table THEN Return(s, "left") ELSE Goto(s, "list")
    /\ UNCHANGED <<call, todo, faults>>

\* isMigrationApplied: the record is found by its version alone.
Pending(M, recorded) == {v \in M : v \notin recorded}

Latest(recorded) == CHOOSE v \in recorded : \A w \in recorded : w <= v

ListApplied(s) ==
    /\ pc[s] = "list"
    /\ op[s] = "inspect"
    /\ Return(s, "right")
    /\ UNCHANGED <<db, tx, call, todo, faults>>

ListForRun(s) ==
    /\ pc[s] = "list"
    /\ op[s] = "run"
    /\ LET pending == Pending(supplied[s], HistoryOf(s)) IN
          /\ todo' = [todo EXCEPT ![s] = pending]
          /\ IF pending = {} THEN Return(s, "right") ELSE Goto(s, "up")
    /\ UNCHANGED <<db, tx, call, faults>>

\* Nothing applied, or no definition of the latest one, is an error.
ListForRollback(s) ==
    /\ pc[s] = "list"
    /\ op[s] = "rollback"
    /\ IF HistoryOf(s) /= {} /\ Latest(HistoryOf(s)) \in supplied[s]
       THEN /\ todo' = [todo EXCEPT ![s] = {Latest(HistoryOf(s))}]
            /\ Goto(s, "down")
       ELSE /\ Return(s, "left")
            /\ UNCHANGED todo
    /\ UNCHANGED <<db, tx, call, faults>>

-----------------------------------------------------------------------------
(* runPending: up, record, commit, in ascending order of version. *)

\* Mutant of Head: the pending migrations are left in descending order.
HeadUnsorted(s) == CHOOSE v \in todo[s] : \A w \in todo[s] : w <= v

\* The head of the list pendingMigrations sorted.
Head(s) == CHOOSE v \in todo[s] : \A w \in todo[s] : v <= w

\* up or down of a migration in Data: rows of the transaction, all of them or,
\* when it fails half-way, some of them.
ChangeRows(s, v, change) ==
    /\ work' = [work EXCEPT ![s][v] = @ + change]
    /\ UNCHANGED <<db, ins, del, own>>

\* up or down of any other migration: DDL, committed by itself.
ChangeObject(s, v, change) ==
    /\ history' = HistoryOf(s)
    /\ ups' = [w \in Version |-> ups[w] + work[s][w]
                                 + IF w = v THEN change ELSE 0]
    /\ app' = IF own[s] THEN app \cup {s} ELSE app
    /\ NewTx(s)
    /\ UNCHANGED table

\* Mutant of Up: the changes are committed before the migration is recorded.
UpCommitted(s) ==
    /\ pc[s] = "up"
    /\ ups[Head(s)] <= 0
    /\ ChangeObject(s, Head(s), 1)
    /\ Goto(s, "record")
    /\ UNCHANGED <<call, todo, faults>>

Up(s) ==
    /\ pc[s] = "up"
    /\ IF Head(s) \in Data
       THEN ChangeRows(s, Head(s), 1)
       ELSE ups[Head(s)] <= 0 /\ ChangeObject(s, Head(s), 1)
    /\ Goto(s, "record")
    /\ UNCHANGED <<call, todo, faults>>

\* Mutant of UpFails: the Left is dropped and the migration recorded.
UpFailureIgnored(s) ==
    /\ pc[s] = "up"
    /\ Fault
    /\ UNCHANGED <<db, tx>>
    /\ Goto(s, "record")
    /\ UNCHANGED <<call, todo>>

\* up returns Left: having changed nothing or, one of its statements of several
\* having failed, with part of its changes in the transaction.
UpFails(s) ==
    /\ pc[s] = "up"
    /\ Fault
    /\ \/ UNCHANGED <<db, tx>>
       \/ Head(s) \in Data /\ ChangeRows(s, Head(s), 1)
    /\ Return(s, "left")
    /\ UNCHANGED <<call, todo>>

\* The object exists already: DDL commits, then fails.
UpExists(s) ==
    /\ pc[s] = "up"
    /\ Head(s) \notin Data
    /\ ups[Head(s)] > 0
    /\ ChangeObject(s, Head(s), 0)
    /\ Return(s, "left")
    /\ UNCHANGED <<call, todo, faults>>

\* Mutant of RecordMigration: a refused INSERT is tried again.
RecordUntilDone(s) ==
    /\ pc[s] = "record"
    /\ ~RowLocked(s, Head(s))
    /\ Head(s) \notin HistoryOf(s)
    /\ ins' = [ins EXCEPT ![s] = @ \cup {Head(s)}]
    /\ Goto(s, "commit")
    /\ UNCHANGED <<db, work, del, own, call, todo, faults>>

\* recordMigration: the INSERT waits for a row lock; the primary key refuses a
\* version that is already recorded.
RecordMigration(s) ==
    /\ pc[s] = "record"
    /\ ~RowLocked(s, Head(s))
    /\ IF Head(s) \in HistoryOf(s)
       THEN /\ Return(s, "left")
            /\ UNCHANGED tx
       ELSE /\ ins' = [ins EXCEPT ![s] = @ \cup {Head(s)}]
            /\ UNCHANGED <<work, del, own>>
            /\ Goto(s, "commit")
    /\ UNCHANGED <<db, call, todo, faults>>

Commit(s) ==
    /\ pc[s] = "commit"
    /\ CommitTx(s)
    /\ todo' = [todo EXCEPT ![s] = @ \ {Head(s)}]
    /\ IF todo'[s] = {} THEN Return(s, "right") ELSE Goto(s, "up")
    /\ UNCHANGED <<table, call, faults>>

-----------------------------------------------------------------------------
(* rollback of rollbackMigration: down, remove the record, commit. *)

\* Mutant of Down: the changes are committed before the record is removed.
DownCommitted(s) ==
    /\ pc[s] = "down"
    /\ ups[Head(s)] > 0
    /\ ChangeObject(s, Head(s), -1)
    /\ Goto(s, "remove")
    /\ UNCHANGED <<call, todo, faults>>

Down(s) ==
    /\ pc[s] = "down"
    /\ IF Head(s) \in Data
       THEN ChangeRows(s, Head(s), -1)
       ELSE ups[Head(s)] > 0 /\ ChangeObject(s, Head(s), -1)
    /\ Goto(s, "remove")
    /\ UNCHANGED <<call, todo, faults>>

DownFails(s) ==
    /\ pc[s] = "down"
    /\ Fault
    /\ \/ UNCHANGED <<db, tx>>
       \/ Head(s) \in Data /\ ChangeRows(s, Head(s), -1)
    /\ Return(s, "left")
    /\ UNCHANGED <<call, todo>>

DownMissing(s) ==
    /\ pc[s] = "down"
    /\ Head(s) \notin Data
    /\ ups[Head(s)] <= 0
    /\ ChangeObject(s, Head(s), 0)
    /\ Return(s, "left")
    /\ UNCHANGED <<call, todo, faults>>

\* removeMigrationRecord: a DELETE that finds no row succeeds all the same.
RemoveMigrationRecord(s) ==
    /\ pc[s] = "remove"
    /\ \A t \in Session \ {s} : Head(s) \notin del[t]
    /\ del' = [del EXCEPT ![s] = @ \cup ({Head(s)} \cap HistoryOf(s))]
    /\ Goto(s, "commitDown")
    /\ UNCHANGED <<db, work, ins, own, call, todo, faults>>

CommitDown(s) ==
    /\ pc[s] = "commitDown"
    /\ CommitTx(s)
    /\ Return(s, "right")
    /\ UNCHANGED <<table, call, todo, faults>>

\* Mutant of CommitFails: the Left of commit is dropped.
CommitFailureIgnored(s) ==
    /\ pc[s] \in {"commit", "commitDown"}
    /\ Fault
    /\ RollbackTx(s) /\ UNCHANGED table
    /\ Return(s, "right")
    /\ UNCHANGED <<call, todo>>

\* commit returns Left: the server refused the transaction and rolled it back,
\* the session was lost with the answer after the commit had taken place, or
\* the call failed before the server acted and the transaction is still open.
CommitFails(s) ==
    /\ pc[s] \in {"commit", "commitDown"}
    /\ Fault
    /\ \/ RollbackTx(s) /\ UNCHANGED table
       \/ CommitTx(s) /\ UNCHANGED table
       \/ UNCHANGED <<db, tx>>
    /\ Return(s, "left")
    /\ UNCHANGED <<call, todo>>

-----------------------------------------------------------------------------
Step(s) ==
    \/ CheckTable(s) \/ CreateTable(s) \/ StatementFails(s)
    \/ ListApplied(s) \/ ListForRun(s) \/ ListForRollback(s)
    \/ Up(s) \/ UpFails(s) \/ UpExists(s) \/ RecordMigration(s) \/ Commit(s)
    \/ Down(s) \/ DownFails(s) \/ DownMissing(s)
    \/ RemoveMigrationRecord(s) \/ CommitDown(s) \/ CommitFails(s)

Caller(s) ==
    Call(s) \/ AppWork(s) \/ AppCommit(s) \/ CleanUp(s) \/ CarryOn(s) \/ Lost(s)

Next == \E s \in Session : Step(s) \/ Caller(s)

Spec == Init /\ [][Next]_vars

\* A session's calls are synchronous and each returns; the bracket around the
\* connection cleans up after a Left.  Nothing obliges a caller to call again,
\* to do work of its own or to fail.  The server queues the sessions that wait
\* for a row, so the one waiting is served in the end: strong fairness there.
Fairness ==
    \A s \in Session :
       /\ WF_vars(Step(s)) /\ WF_vars(CleanUp(s))
       /\ SF_vars(RecordMigration(s)) /\ SF_vars(RemoveMigrationRecord(s))

FairSpec == Spec /\ Fairness

-----------------------------------------------------------------------------
(* Properties. *)

\* runMigrations: the history never records a migration whose changes are not
\* in the database, whatever fails, whoever runs at the same time and however
\* the callers treat a Left.  (While nobody calls rollbackMigration.)
HistoryNeverAhead == \A v \in history : ups[v] >= 1

\* With callers that clean up and one session that rolls back, a migration made
\* of DML is in effect exactly once when it is recorded and not at all when it
\* is not: up, INSERT and COMMIT are one transaction, and so are down, DELETE
\* and COMMIT.
DataExactlyOnce == \A v \in Data : ups[v] = IF v \in history THEN 1 ELSE 0

\* The DML migrations of the runner, seen as the ledger of MigrationLedger.
Ledger == INSTANCE MigrationLedger
    WITH Migration <- Data,
         recorded <- history \cap Data,
         effect <- [v \in Data |-> ups[v]]

\* Under the same conditions the runner implements the ledger: in no state, not
\* even between the statements of two interleaved sessions or after a lost one,
\* is a record in the database without its changes or the other way round.
RefinesLedger == Ledger!Spec

\* The versions session s was given that are smaller than v.
Smaller(s, v) == {w \in supplied[s] : w < v}

\* "Execute all pending migrations in ascending version order": a runner records
\* a version it was given only after every smaller one it was given, though
\* another session may be running the same list; and what a careful caller's
\* runner commits, it commits after all those are committed.  (The transaction
\* of a caller who carried on after a failing commit holds several records,
\* which are committed together.)
Ascends ==
    /\ \A s \in Session : \A v \in ins'[s] \ ins[s] :
          v \in supplied[s] /\ Smaller(s, v) \subseteq HistoryOf(s)
    /\ \A v \in history' \ history : \E s \in Session :
          /\ v \in ins[s]
          /\ s \in Careful => v \in supplied[s] /\ Smaller(s, v) \subseteq history

AscendingOrder == [][Ascends]_vars

\* A runMigrations that returned Right has left every migration it was given
\* recorded in the committed history (while nobody rolls back).  A caller who
\* carries on after a Left gets less: when a commit failed and left its
\* transaction open, the next runMigrations reads the uncommitted record as one
\* already applied, finds nothing to do and returns Right, with nothing
\* committed.  For such a caller Right counts the records of its own open
\* transaction.
SuccessMeansRecorded ==
    \A s \in Session :
       pc[s] = "idle" /\ op[s] = "run" /\ answer[s] = "right"
          => supplied[s] \subseteq history \cup (IF s \in Careful THEN {} ELSE ins[s])

\* Every operation returns: no session waits for ever on another one's row lock.
OperationReturns ==
    \A s \in Session : pc[s] /= "idle" ~> pc[s] = "idle"

=============================================================================
