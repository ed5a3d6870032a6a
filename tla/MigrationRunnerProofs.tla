------------------------ MODULE MigrationRunnerProofs ------------------------
(***************************************************************************)
(* Theorems about MigrationRunner, for every set of sessions, versions and *)
(* migration lists and every number of faults.                             *)
(***************************************************************************)
EXTENDS MigrationRunner, TLAPS

-----------------------------------------------------------------------------
(* Type correctness. *)

\* The places at which an operation has a migration in hand.
WorkPCs == {"up", "record", "commit", "down", "remove", "commitDown"}

\* The type invariant, and that a session at work has a migration in hand.
Typed ==
    /\ TypeOK
    /\ \A s \in Session : pc[s] \in WorkPCs => todo[s] /= {}

\* The migration in hand is the least of those left to do (the head of the list
\* pendingMigrations sorted).
LEMMA HeadIsLeast ==
    ASSUME TypeOK, NEW s \in Session, todo[s] /= {}
    PROVE  /\ Head(s) \in todo[s]
           /\ Head(s) \in Version
           /\ \A w \in todo[s] : Head(s) <= w
<1>1. todo[s] \in SUBSET Version
  BY DEF TypeOK
<1>2. \E v \in todo[s] : \A w \in todo[s] : v <= w
  BY <1>1, FirstAssumption
<1> QED
  BY <1>1, <1>2 DEF Head

\* What a session reads of the history table are versions.
LEMMA HistoryOfType ==
    ASSUME TypeOK, NEW s \in Session
    PROVE  HistoryOf(s) \in SUBSET Version
BY DEF TypeOK, HistoryOf

\* The part of the type invariant about the open transactions.
TxTyped ==
    /\ work \in [Session -> [Version -> Int]]
    /\ ins \in [Session -> SUBSET Version]
    /\ del \in [Session -> SUBSET Version]
    /\ own \in [Session -> BOOLEAN]

\* And the part about the committed database.
DbTyped ==
    /\ table \in BOOLEAN
    /\ history \in SUBSET Version
    /\ ups \in [Version -> Int]
    /\ app \in SUBSET Session

\* A new transaction keeps the former.
LEMMA NewTxType ==
    ASSUME TypeOK, NEW s \in Session, NewTx(s)
    PROVE  TxTyped'
<1>1. NoWork \in [Version -> Int]
  BY DEF NoWork
<1> QED
  BY <1>1 DEF NewTx, TypeOK, TxTyped

\* Committing a transaction keeps both.
LEMMA CommitTxType ==
    ASSUME TypeOK, NEW s \in Session, CommitTx(s), table' \in BOOLEAN
    PROVE  DbTyped' /\ TxTyped'
<1>1. history' \in SUBSET Version
  BY HistoryOfType DEF CommitTx
<1>2. ups' \in [Version -> Int]
  BY DEF CommitTx, TypeOK
<1>3. app' \in SUBSET Session
  BY DEF CommitTx, TypeOK
<1>4. TxTyped'
  BY NewTxType DEF CommitTx
<1> QED
  BY <1>1, <1>2, <1>3, <1>4 DEF DbTyped

\* So does a migration's DDL.
LEMMA ChangeObjectType ==
    ASSUME TypeOK, NEW s \in Session, NEW v \in Version, NEW c \in Int,
           ChangeObject(s, v, c)
    PROVE  DbTyped' /\ TxTyped'
<1>1. history' \in SUBSET Version
  BY HistoryOfType DEF ChangeObject
<1>2. ups' \in [Version -> Int]
  BY DEF ChangeObject, TypeOK
<1>3. app' \in SUBSET Session
  BY DEF ChangeObject, TypeOK
<1>4. TxTyped'
  BY NewTxType DEF ChangeObject
<1> QED
  BY <1>1, <1>2, <1>3, <1>4 DEF DbTyped, ChangeObject, TypeOK

\* And its DML.
LEMMA ChangeRowsType ==
    ASSUME TypeOK, NEW s \in Session, NEW v \in Version, NEW c \in Int,
           ChangeRows(s, v, c)
    PROVE  DbTyped' /\ TxTyped'
<1>1. work' \in [Session -> [Version -> Int]]
  BY DEF ChangeRows, TypeOK
<1> QED
  BY <1>1 DEF ChangeRows, TypeOK, TxTyped, DbTyped, db

\* The rest of the type invariant: where the sessions are.
PlaceTyped ==
    /\ pc \in [Session -> PCs]
    /\ op \in [Session -> Ops]
    /\ answer \in [Session -> {"none", "right", "left"}]
    /\ supplied \in [Session -> SUBSET Version]
    /\ todo \in [Session -> SUBSET Version]
    /\ faults \in Nat

LEMMA TypeParts == TypeOK <=> DbTyped /\ TxTyped /\ PlaceTyped
BY DEF TypeOK, DbTyped, TxTyped, PlaceTyped

\* The part of Typed that is about the places of the sessions.
Placed ==
    /\ PlaceTyped
    /\ \A s \in Session : pc[s] \in WorkPCs => todo[s] /= {}

\* Every step keeps that part.
LEMMA PlacedInductive == Typed /\ [Next]_vars => Placed'
<1> SUFFICES ASSUME Typed, [Next]_vars
             PROVE  Placed'
  OBVIOUS
<1> USE DEF Typed, TypeOK, PlaceTyped, Placed, WorkPCs, PCs
<1>1. ASSUME NEW s \in Session, Call(s) PROVE Placed'
  BY <1>1, SetsAssumption DEF Call, Ops, tx, db
<1>2. ASSUME NEW s \in Session, AppWork(s) PROVE Placed'
  BY <1>2 DEF AppWork, call
<1>3. ASSUME NEW s \in Session, AppCommit(s) PROVE Placed'
  BY <1>3 DEF AppCommit, call
<1>4. ASSUME NEW s \in Session, CleanUp(s) PROVE Placed'
  BY <1>4 DEF CleanUp, call
<1>5. ASSUME NEW s \in Session, CarryOn(s) PROVE Placed'
  BY <1>5 DEF CarryOn, call
<1>6. ASSUME NEW s \in Session, Lost(s) PROVE Placed'
  BY <1>6, FaultsAssumption DEF Lost, Fault, call
<1>7. ASSUME NEW s \in Session, CheckTable(s) PROVE Placed'
  BY <1>7 DEF CheckTable, Goto, call
<1>8. ASSUME NEW s \in Session, CreateTable(s) PROVE Placed'
  BY <1>8 DEF CreateTable, Goto, Return, call
<1>9. ASSUME NEW s \in Session, StatementFails(s) PROVE Placed'
  BY <1>9, FaultsAssumption DEF StatementFails, Fault, Return, call
<1>10. ASSUME NEW s \in Session, ListApplied(s) PROVE Placed'
  BY <1>10 DEF ListApplied, Return, call
<1>11. ASSUME NEW s \in Session, ListForRun(s) PROVE Placed'
  BY <1>11 DEF ListForRun, Pending, Return, Goto, call
<1>12. ASSUME NEW s \in Session, ListForRollback(s) PROVE Placed'
  <2> DEFINE found == HistoryOf(s) /= {} /\ Latest(HistoryOf(s)) \in supplied[s]
  <2>1. CASE found
    <3>1. todo' = [todo EXCEPT ![s] = {Latest(HistoryOf(s))}]
      BY <1>12, <2>1 DEF ListForRollback
    <3>2. todo' \in [Session -> SUBSET Version]
      BY <2>1, <3>1
    <3> QED
      BY <1>12, <2>1, <3>1, <3>2 DEF ListForRollback, Goto, call
  <2>2. CASE ~found
    BY <1>12, <2>2 DEF ListForRollback, Return, call
  <2> QED
    BY <2>1, <2>2
<1>13. ASSUME NEW s \in Session, Up(s) PROVE Placed'
  BY <1>13 DEF Up, Goto, call
<1>14. ASSUME NEW s \in Session, UpFails(s) PROVE Placed'
  BY <1>14, FaultsAssumption DEF UpFails, Fault, Return, call
<1>15. ASSUME NEW s \in Session, UpExists(s) PROVE Placed'
  BY <1>15 DEF UpExists, Return, call
<1>16. ASSUME NEW s \in Session, RecordMigration(s) PROVE Placed'
  BY <1>16 DEF RecordMigration, Return, Goto, call
<1>17. ASSUME NEW s \in Session, Commit(s) PROVE Placed'
  BY <1>17 DEF Commit, Return, Goto, call
<1>18. ASSUME NEW s \in Session, Down(s) PROVE Placed'
  BY <1>18 DEF Down, Goto, call
<1>19. ASSUME NEW s \in Session, DownFails(s) PROVE Placed'
  BY <1>19, FaultsAssumption DEF DownFails, Fault, Return, call
<1>20. ASSUME NEW s \in Session, DownMissing(s) PROVE Placed'
  BY <1>20 DEF DownMissing, Return, call
<1>21. ASSUME NEW s \in Session, RemoveMigrationRecord(s) PROVE Placed'
  BY <1>21 DEF RemoveMigrationRecord, Goto, call
<1>22. ASSUME NEW s \in Session, CommitDown(s) PROVE Placed'
  BY <1>22 DEF CommitDown, Return, call
<1>23. ASSUME NEW s \in Session, CommitFails(s) PROVE Placed'
  BY <1>23, FaultsAssumption DEF CommitFails, Fault, Return, call
<1>24. ASSUME UNCHANGED vars PROVE Placed'
  BY <1>24 DEF vars
<1> QED
  BY <1>1, <1>2, <1>3, <1>4, <1>5, <1>6, <1>7, <1>8, <1>9, <1>10, <1>11, <1>12,
     <1>13, <1>14, <1>15, <1>16, <1>17, <1>18, <1>19, <1>20, <1>21, <1>22,
     <1>23, <1>24
     DEF Next, Step, Caller

\* Every step keeps the type invariant.
LEMMA TypedInductive == Typed /\ [Next]_vars => Typed'
<1> SUFFICES ASSUME Typed, [Next]_vars
             PROVE  DbTyped' /\ TxTyped'
  BY PlacedInductive DEF Typed, Placed, TypeOK, DbTyped, TxTyped, PlaceTyped
<1>a. TypeOK /\ DbTyped /\ TxTyped
  BY TypeParts DEF Typed
<1>b. \A s \in Session : pc[s] \in WorkPCs => todo[s] /= {}
  BY DEF Typed
<1> USE <1>a, <1>b DEF WorkPCs
<1>1. ASSUME NEW s \in Session, Call(s) PROVE DbTyped' /\ TxTyped'
  BY <1>1 DEF Call, DbTyped, TxTyped, db, tx
<1>2. ASSUME NEW s \in Session, AppWork(s) PROVE DbTyped' /\ TxTyped'
  BY <1>2 DEF AppWork, DbTyped, TxTyped, db
<1>3. ASSUME NEW s \in Session, AppCommit(s) PROVE DbTyped' /\ TxTyped'
  BY <1>3, CommitTxType DEF AppCommit, DbTyped
<1>4. ASSUME NEW s \in Session, CleanUp(s) PROVE DbTyped' /\ TxTyped'
  BY <1>4, NewTxType DEF CleanUp, RollbackTx, DbTyped, db
<1>5. ASSUME NEW s \in Session, CarryOn(s) PROVE DbTyped' /\ TxTyped'
  BY <1>5 DEF CarryOn, DbTyped, TxTyped, db, tx
<1>6. ASSUME NEW s \in Session, Lost(s) PROVE DbTyped' /\ TxTyped'
  BY <1>6, NewTxType DEF Lost, RollbackTx, DbTyped, db
<1>7. ASSUME NEW s \in Session, CheckTable(s) PROVE DbTyped' /\ TxTyped'
  BY <1>7 DEF CheckTable, DbTyped, TxTyped, db, tx
<1>8. ASSUME NEW s \in Session, CreateTable(s) PROVE DbTyped' /\ TxTyped'
  BY <1>8, CommitTxType DEF CreateTable, DbTyped
<1>9. ASSUME NEW s \in Session, StatementFails(s) PROVE DbTyped' /\ TxTyped'
  BY <1>9 DEF StatementFails, DbTyped, TxTyped, db, tx
<1>10. ASSUME NEW s \in Session, ListApplied(s) PROVE DbTyped' /\ TxTyped'
  BY <1>10 DEF ListApplied, DbTyped, TxTyped, db, tx
<1>11. ASSUME NEW s \in Session, ListForRun(s) PROVE DbTyped' /\ TxTyped'
  BY <1>11 DEF ListForRun, DbTyped, TxTyped, db, tx
<1>12. ASSUME NEW s \in Session, ListForRollback(s) PROVE DbTyped' /\ TxTyped'
  BY <1>12 DEF ListForRollback, DbTyped, TxTyped, db, tx
<1>13. ASSUME NEW s \in Session, Up(s) PROVE DbTyped' /\ TxTyped'
  <2>1. Head(s) \in Version
    BY <1>13, HeadIsLeast DEF Up
  <2> QED
    BY <1>13, <2>1, ChangeRowsType, ChangeObjectType DEF Up
<1>14. ASSUME NEW s \in Session, UpFails(s) PROVE DbTyped' /\ TxTyped'
  <2>1. Head(s) \in Version
    BY <1>14, HeadIsLeast DEF UpFails
  <2> QED
    BY <1>14, <2>1, ChangeRowsType DEF UpFails, DbTyped, TxTyped, db, tx
<1>15. ASSUME NEW s \in Session, UpExists(s) PROVE DbTyped' /\ TxTyped'
  <2>1. Head(s) \in Version
    BY <1>15, HeadIsLeast DEF UpExists
  <2> QED
    BY <1>15, <2>1, ChangeObjectType DEF UpExists
<1>16. ASSUME NEW s \in Session, RecordMigration(s) PROVE DbTyped' /\ TxTyped'
  <2>1. Head(s) \in Version
    BY <1>16, HeadIsLeast DEF RecordMigration
  <2> QED
    BY <1>16, <2>1 DEF RecordMigration, DbTyped, TxTyped, db, tx
<1>17. ASSUME NEW s \in Session, Commit(s) PROVE DbTyped' /\ TxTyped'
  BY <1>17, CommitTxType DEF Commit, DbTyped
<1>18. ASSUME NEW s \in Session, Down(s) PROVE DbTyped' /\ TxTyped'
  <2>1. Head(s) \in Version
    BY <1>18, HeadIsLeast DEF Down
  <2> QED
    BY <1>18, <2>1, ChangeRowsType, ChangeObjectType DEF Down
<1>19. ASSUME NEW s \in Session, DownFails(s) PROVE DbTyped' /\ TxTyped'
  <2>1. Head(s) \in Version
    BY <1>19, HeadIsLeast DEF DownFails
  <2> QED
    BY <1>19, <2>1, ChangeRowsType DEF DownFails, DbTyped, TxTyped, db, tx
<1>20. ASSUME NEW s \in Session, DownMissing(s) PROVE DbTyped' /\ TxTyped'
  <2>1. Head(s) \in Version
    BY <1>20, HeadIsLeast DEF DownMissing
  <2> QED
    BY <1>20, <2>1, ChangeObjectType DEF DownMissing
<1>21. ASSUME NEW s \in Session, RemoveMigrationRecord(s) PROVE DbTyped' /\ TxTyped'
  BY <1>21, HistoryOfType DEF RemoveMigrationRecord, DbTyped, TxTyped, db
<1>22. ASSUME NEW s \in Session, CommitDown(s) PROVE DbTyped' /\ TxTyped'
  BY <1>22, CommitTxType DEF CommitDown, DbTyped
<1>23. ASSUME NEW s \in Session, CommitFails(s) PROVE DbTyped' /\ TxTyped'
  <2>1. CASE RollbackTx(s) /\ UNCHANGED table
    BY <2>1, NewTxType DEF RollbackTx, DbTyped, db
  <2>2. CASE CommitTx(s) /\ UNCHANGED table
    BY <2>2, CommitTxType DEF DbTyped
  <2>3. CASE UNCHANGED <<db, tx>>
    BY <2>3 DEF DbTyped, TxTyped, db, tx
  <2> QED
    BY <1>23, <2>1, <2>2, <2>3 DEF CommitFails
<1>24. ASSUME UNCHANGED vars PROVE DbTyped' /\ TxTyped'
  BY <1>24 DEF vars, DbTyped, TxTyped
<1> QED
  BY <1>1, <1>2, <1>3, <1>4, <1>5, <1>6, <1>7, <1>8, <1>9, <1>10, <1>11, <1>12,
     <1>13, <1>14, <1>15, <1>16, <1>17, <1>18, <1>19, <1>20, <1>21, <1>22,
     <1>23, <1>24
     DEF Next, Step, Caller

\* The empty initial state satisfies it.
LEMMA InitTyped == Init => Typed
<1> SUFFICES ASSUME Init PROVE Typed
  OBVIOUS
<1>1. NoWork \in [Version -> Int]
  BY DEF NoWork
<1> QED
  BY <1>1 DEF Init, Typed, TypeOK, WorkPCs, Ops, PCs

\* Every reachable state of the runner is type correct.
THEOREM TypeCorrect == Spec => []TypeOK
<1>1. Typed => TypeOK
  BY DEF Typed
<1> QED
  BY <1>1, InitTyped, TypedInductive, PTL DEF Spec

-----------------------------------------------------------------------------
(* What one session does leaves the others alone. *)

\* What a step of s leaves unchanged of another session t.
Same(t) ==
    /\ pc'[t] = pc[t] /\ op'[t] = op[t] /\ answer'[t] = answer[t]
    /\ supplied'[t] = supplied[t] /\ todo'[t] = todo[t]
    /\ work'[t] = work[t] /\ ins'[t] = ins[t] /\ del'[t] = del[t]

\* A session's place and transaction are its own.
LEMMA OthersSame ==
    ASSUME TypeOK, NEW s \in Session, Step(s) \/ Caller(s), NEW t \in Session, t /= s
    PROVE  Same(t)
<1> USE DEF Same, TypeOK, NewTx, db, tx, call
<1>1. CASE Call(s)
  BY <1>1 DEF Call
<1>2. CASE AppWork(s)
  BY <1>2 DEF AppWork
<1>3. CASE AppCommit(s)
  BY <1>3 DEF AppCommit, CommitTx
<1>4. CASE CleanUp(s)
  BY <1>4 DEF CleanUp, RollbackTx
<1>5. CASE CarryOn(s)
  BY <1>5 DEF CarryOn
<1>6. CASE Lost(s)
  BY <1>6 DEF Lost, RollbackTx
<1>7. CASE CheckTable(s)
  BY <1>7 DEF CheckTable, Goto
<1>8. CASE CreateTable(s)
  BY <1>8 DEF CreateTable, Goto, Return, CommitTx
<1>9. CASE StatementFails(s)
  BY <1>9 DEF StatementFails, Return
<1>10. CASE ListApplied(s)
  BY <1>10 DEF ListApplied, Return
<1>11. CASE ListForRun(s)
  BY <1>11 DEF ListForRun, Goto, Return
<1>12. CASE ListForRollback(s)
  BY <1>12 DEF ListForRollback, Goto, Return
<1>13. CASE Up(s)
  BY <1>13 DEF Up, Goto, ChangeRows, ChangeObject
<1>14. CASE UpFails(s)
  BY <1>14 DEF UpFails, Return, ChangeRows
<1>15. CASE UpExists(s)
  BY <1>15 DEF UpExists, Return, ChangeObject
<1>16. CASE RecordMigration(s)
  BY <1>16 DEF RecordMigration, Goto, Return
<1>17. CASE Commit(s)
  BY <1>17 DEF Commit, Goto, Return, CommitTx
<1>18. CASE Down(s)
  BY <1>18 DEF Down, Goto, ChangeRows, ChangeObject
<1>19. CASE DownFails(s)
  BY <1>19 DEF DownFails, Return, ChangeRows
<1>20. CASE DownMissing(s)
  BY <1>20 DEF DownMissing, Return, ChangeObject
<1>21. CASE RemoveMigrationRecord(s)
  BY <1>21 DEF RemoveMigrationRecord, Goto
<1>22. CASE CommitDown(s)
  BY <1>22 DEF CommitDown, Return, CommitTx
<1>23. CASE CommitFails(s)
  BY <1>23 DEF CommitFails, Return, CommitTx, RollbackTx
<1> QED
  BY <1>1, <1>2, <1>3, <1>4, <1>5, <1>6, <1>7, <1>8, <1>9, <1>10, <1>11, <1>12,
     <1>13, <1>14, <1>15, <1>16, <1>17, <1>18, <1>19, <1>20, <1>21, <1>22,
     <1>23
     DEF Step, Caller

\* So is its migration in hand.
LEMMA HeadSame ==
    ASSUME NEW t \in Session, todo'[t] = todo[t]
    PROVE  Head(t)' = Head(t)
BY DEF Head

-----------------------------------------------------------------------------
(* The history is never ahead of the changes, while nobody rolls back. *)

\* Nobody is rolling back, and no execution of up has been taken back.
NoRollback(s) ==
    /\ op[s] /= "rollback"
    /\ pc[s] \notin {"down", "remove", "commitDown"}
    /\ del[s] = {}
    /\ \A v \in Version : work[s][v] >= 0

\* Once up has been executed for the migration in hand, its changes are in the
\* database or in the transaction; a record that waits to be committed waits
\* together with them.
InHand(s) ==
    /\ pc[s] \in {"record", "commit"} => ups[Head(s)] + work[s][Head(s)] >= 1
    /\ \A v \in ins[s] : ups[v] + work[s][v] >= 1

\* The inductive invariant.
AheadInv ==
    /\ \A s \in Session : NoRollback(s) /\ InHand(s)
    /\ \A v \in Version : ups[v] >= 0
    /\ HistoryNeverAhead

\* The step of one session keeps it.
LEMMA AheadStep ==
    ASSUME Rollbackers = {}, Typed, AheadInv,
           NEW s \in Session, Step(s) \/ Caller(s), Typed'
    PROVE  AheadInv'
<1> USE DEF AheadInv, NoRollback, InHand, HistoryNeverAhead
<1>a. TypeOK /\ TypeOK'
  BY DEF Typed
<1>b. pc[s] \in WorkPCs => todo[s] /= {} /\ Head(s) \in Version
  BY <1>a, HeadIsLeast DEF Typed
<1>c. pc'[s] \in WorkPCs => Head(s)' \in Version
  <2>1. TypeOK' /\ (pc'[s] \in WorkPCs => todo'[s] /= {})
    BY DEF Typed
  <2>2. TypeOK' /\ todo'[s] /= {} => Head(s)' \in Version
    BY FirstAssumption DEF TypeOK, Head
  <2> QED
    BY <2>1, <2>2
<1>d. \A t \in Session \ {s} : Same(t) /\ Head(t)' = Head(t)
  BY <1>a, OthersSame, HeadSame DEF Same
<1>e. \A t \in Session : pc[t] \in {"record", "commit"} => Head(t) \in Version
  BY <1>a, HeadIsLeast DEF Typed, WorkPCs
<1>1. SUFFICES /\ \A v \in Version : ups'[v] >= ups[v]
               /\ \A v \in history' : ups'[v] >= 1
               /\ NoRollback(s)'
               /\ InHand(s)'
  <2>a. (\A v \in Version : ups[v] >= 0)' /\ HistoryNeverAhead'
    BY <1>1, <1>a DEF TypeOK
  <2> SUFFICES ASSUME NEW t \in Session, t /= s
               PROVE  NoRollback(t)' /\ InHand(t)'
    BY <1>1, <2>a
  <2>1. Same(t) /\ Head(t)' = Head(t)
    BY <1>d
  <2>2. NoRollback(t)'
    BY <2>1 DEF Same
  <2>3. pc'[t] \in {"record", "commit"} => ups'[Head(t)] + work'[t][Head(t)] >= 1
    <3> SUFFICES ASSUME pc[t] \in {"record", "commit"}
                 PROVE  ups'[Head(t)] + work[t][Head(t)] >= 1
      BY <2>1 DEF Same
    <3>1. Head(t) \in Version /\ ups[Head(t)] + work[t][Head(t)] >= 1
      BY <1>e
    <3>2. ups'[Head(t)] >= ups[Head(t)]
      BY <1>1, <3>1
    <3> QED
      BY <1>a, <3>1, <3>2 DEF TypeOK
  <2>4. \A v \in ins'[t] : ups'[v] + work'[t][v] >= 1
    <3> SUFFICES ASSUME NEW v \in ins[t] PROVE ups'[v] + work[t][v] >= 1
      BY <2>1 DEF Same
    <3>1. v \in Version /\ ups[v] + work[t][v] >= 1
      BY <1>a DEF TypeOK
    <3>2. ups'[v] >= ups[v]
      BY <1>1, <3>1
    <3> QED
      BY <1>a, <3>1, <3>2 DEF TypeOK
  <2> QED
    BY <2>1, <2>2, <2>3, <2>4 DEF Same
\* The transaction is committed, by itself or with the DDL of one more up.
<1>2. ASSUME history' = HistoryOf(s), NewTx(s),
             \A v \in Version : ups'[v] >= ups[v] + work[s][v]
      PROVE  /\ \A v \in Version : ups'[v] >= ups[v]
             /\ \A v \in history' : ups'[v] >= 1
             /\ work'[s] = NoWork /\ ins'[s] = {} /\ del'[s] = {}
  <2>1. \A v \in Version : ups'[v] >= ups[v]
    BY <1>2, <1>a DEF TypeOK
  <2>2. \A v \in ins[s] : ups'[v] >= 1
    <3> TAKE v \in ins[s]
    <3>1. v \in Version /\ ups[v] \in Int /\ work[s][v] \in Int /\ ups'[v] \in Int
      BY <1>a DEF TypeOK
    <3>2. ups[v] + work[s][v] >= 1 /\ ups'[v] >= ups[v] + work[s][v]
      BY <1>2, <3>1
    <3> QED
      BY <3>1, <3>2
  <2>3. \A v \in history : ups'[v] >= 1
    BY <2>1, <1>a DEF TypeOK
  <2> QED
    BY <1>2, <2>1, <2>2, <2>3, <1>a DEF HistoryOf, NewTx, TypeOK
<1>3. CommitTx(s) => \A v \in Version : ups'[v] >= ups[v] + work[s][v]
  BY <1>a DEF CommitTx, TypeOK
<1>4. CommitTx(s) => /\ \A v \in Version : ups'[v] >= ups[v]
                     /\ \A v \in history' : ups'[v] >= 1
                     /\ work'[s] = NoWork /\ ins'[s] = {} /\ del'[s] = {}
  BY <1>2, <1>3 DEF CommitTx
<1>5. ASSUME NEW v \in Version, NEW n \in {0, 1}, ChangeObject(s, v, n)
      PROVE  /\ \A w \in Version : ups'[w] >= ups[w]
             /\ ups'[v] >= ups[v] + n
             /\ \A w \in history' : ups'[w] >= 1
             /\ work'[s] = NoWork /\ ins'[s] = {} /\ del'[s] = {}
  <2>1. \A w \in Version : ups'[w] >= ups[w] + work[s][w]
    BY <1>5, <1>a DEF ChangeObject, TypeOK
  <2>2. ups'[v] >= ups[v] + n
    BY <1>5, <1>a DEF ChangeObject, TypeOK
  <2> QED
    BY <1>2, <1>5, <2>1, <2>2 DEF ChangeObject
<1>6. UNCHANGED db => (\A v \in Version : ups'[v] >= ups[v]) /\ \A v \in history' : ups'[v] >= 1
  BY <1>a DEF db, TypeOK
<1>7. NewTx(s) => work'[s] = NoWork /\ ins'[s] = {} /\ del'[s] = {}
  BY <1>a DEF NewTx, TypeOK
<1>8. \A v \in Version : NoWork[v] = 0
  BY DEF NoWork
<1>9. todo'[s] = todo[s] => Head(s)' = Head(s)
  BY HeadSame
<1> USE <1>a
<1>10. CASE Call(s)
  BY <1>10, <1>6 DEF Call, TypeOK, tx, Ops
<1>11. CASE AppWork(s)
  BY <1>11, <1>6, <1>9 DEF AppWork, call, TypeOK
<1>12. CASE AppCommit(s)
  BY <1>12, <1>4, <1>8, <1>9 DEF AppCommit, call
<1>13. CASE CleanUp(s)
  BY <1>13, <1>6, <1>7, <1>8 DEF CleanUp, RollbackTx, call, TypeOK
<1>14. CASE CarryOn(s)
  BY <1>14, <1>6 DEF CarryOn, call, tx, TypeOK
<1>15. CASE Lost(s)
  BY <1>15, <1>6, <1>7, <1>8 DEF Lost, RollbackTx, call, TypeOK
<1>16. CASE CheckTable(s)
  BY <1>16, <1>6 DEF CheckTable, Goto, call, tx, TypeOK
<1>17. CASE CreateTable(s)
  BY <1>17, <1>4, <1>8 DEF CreateTable, Goto, Return, call, TypeOK
<1>18. CASE StatementFails(s)
  BY <1>18, <1>6 DEF StatementFails, Return, call, tx, TypeOK
<1>19. CASE ListApplied(s)
  BY <1>19, <1>6 DEF ListApplied, Return, call, tx, TypeOK
<1>20. CASE ListForRun(s)
  BY <1>20, <1>6 DEF ListForRun, Goto, Return, call, tx, TypeOK
<1>21. CASE Up(s)
  <2>1. CASE Head(s) \in Data
    <3>1. ChangeRows(s, Head(s), 1) /\ Head(s) \in Version /\ Head(s)' = Head(s)
      BY <1>21, <2>1, <1>9, <1>b DEF Up, WorkPCs
    <3>2. /\ work'[s][Head(s)] = work[s][Head(s)] + 1
          /\ \A v \in Version \ {Head(s)} : work'[s][v] = work[s][v]
      BY <3>1 DEF ChangeRows, TypeOK
    <3>3. ups' = ups /\ ins' = ins /\ del'[s] = {} /\ UNCHANGED db
      BY <1>21, <3>1 DEF ChangeRows, db, Up
    <3>4. pc'[s] = "record" /\ op'[s] /= "rollback"
      BY <1>21 DEF Up, Goto, call, TypeOK
    <3>5. \A v \in Version : work'[s][v] >= 0
      <4> TAKE v \in Version
      <4>1. work[s][v] \in Int /\ work[s][v] >= 0
        BY DEF TypeOK
      <4>2. CASE v = Head(s)
        BY <3>2, <4>1, <4>2
      <4>3. CASE v /= Head(s)
        BY <3>2, <4>1, <4>3
      <4> QED
        BY <4>2, <4>3
    <3>7. NoRollback(s)'
      BY <3>3, <3>4, <3>5
    <3>6. InHand(s)'
      <4>1. ups[Head(s)] \in Int /\ ups[Head(s)] >= 0 /\ work[s][Head(s)] \in Int
            /\ work[s][Head(s)] >= 0
        BY <3>1 DEF TypeOK
      <4>2. ups'[Head(s)'] + work'[s][Head(s)'] >= 1
        BY <3>1, <3>2, <3>3, <4>1
      <4>3. \A v \in ins[s] : ups[v] + work'[s][v] >= 1
        <5> TAKE v \in ins[s]
        <5>1. v \in Version /\ ups[v] \in Int /\ work[s][v] \in Int /\ ups[v] + work[s][v] >= 1
          BY DEF TypeOK
        <5>2. CASE v = Head(s)
          BY <3>2, <5>1, <5>2
        <5>3. CASE v /= Head(s)
          BY <3>2, <5>1, <5>3
        <5> QED
          BY <5>2, <5>3
      <4> QED
        BY <3>3, <4>2, <4>3
    <3> QED
      BY <3>3, <3>6, <3>7, <1>6
  <2>2. CASE Head(s) \notin Data
    BY <1>21, <2>2, <1>5, <1>8, <1>9, <1>b DEF Up, Goto, call, TypeOK, WorkPCs
  <2> QED
    BY <2>1, <2>2
<1>22. CASE UpFails(s)
  <2>1. \A v \in Version : work'[s][v] >= 0
    <3>1. CASE UNCHANGED tx
      BY <3>1 DEF tx
    <3>2. CASE ChangeRows(s, Head(s), 1)
      <4>1. Head(s) \in Version
        BY <1>22, <1>b DEF UpFails, WorkPCs
      <4>2. /\ work'[s][Head(s)] = work[s][Head(s)] + 1
            /\ \A v \in Version \ {Head(s)} : work'[s][v] = work[s][v]
        BY <3>2, <4>1 DEF ChangeRows, TypeOK
      <4> TAKE v \in Version
      <4>3. work[s][v] \in Int /\ work[s][v] >= 0
        BY DEF TypeOK
      <4>4. CASE v = Head(s)
        BY <4>2, <4>3, <4>4
      <4>5. CASE v /= Head(s)
        BY <4>2, <4>3, <4>5
      <4> QED
        BY <4>4, <4>5
    <3> QED
      BY <1>22, <3>1, <3>2 DEF UpFails
  <2>2. ins' = ins /\ del' = del /\ UNCHANGED db
    BY <1>22 DEF UpFails, ChangeRows, tx, db
  <2>3. \A v \in Version : work'[s][v] \in Int /\ work'[s][v] >= work[s][v]
    <3> TAKE v \in Version
    <3>1. CASE UNCHANGED tx
      BY <3>1 DEF tx, TypeOK
    <3>2. CASE ChangeRows(s, Head(s), 1)
      BY <3>2, <1>22, <1>b DEF ChangeRows, TypeOK, UpFails, WorkPCs
    <3> QED
      BY <1>22, <3>1, <3>2 DEF UpFails
  <2>4. \A v \in ins[s] : ups'[v] + work'[s][v] >= 1
    <3> TAKE v \in ins[s]
    <3>1. v \in Version /\ ups[v] \in Int /\ work[s][v] \in Int /\ ups[v] + work[s][v] >= 1
      BY DEF TypeOK
    <3>2. ups'[v] = ups[v]
      BY <2>2 DEF db
    <3> QED
      BY <2>3, <3>1, <3>2
  <2>5. pc'[s] = "left" /\ op' = op
    BY <1>22 DEF UpFails, Return, call, TypeOK
  <2> QED
    BY <2>1, <2>2, <2>4, <2>5, <1>6
<1>23. CASE UpExists(s)
  BY <1>23, <1>5, <1>8, <1>b DEF UpExists, Return, call, TypeOK, WorkPCs
<1>24. CASE RecordMigration(s)
  <2>1. op' = op /\ del' = del /\ work' = work /\ ups' = ups /\ UNCHANGED db
    BY <1>24 DEF RecordMigration, call, tx, db
  <2>2. Head(s)' = Head(s) /\ Head(s) \in Version /\ ups[Head(s)] + work[s][Head(s)] >= 1
    BY <1>24, <1>9, <1>b DEF RecordMigration, WorkPCs
  <2>3. ins'[s] \subseteq ins[s] \cup {Head(s)}
    BY <1>24 DEF RecordMigration, tx, TypeOK
  <2>4. pc'[s] \in {"left", "commit"}
    BY <1>24 DEF RecordMigration, Return, Goto, TypeOK
  <2> QED
    BY <2>1, <2>2, <2>3, <2>4, <1>6
<1>25. CASE Commit(s)
  BY <1>25, <1>4, <1>8 DEF Commit, Return, Goto, call, TypeOK
<1>26. CASE CommitFails(s)
  <2>1. pc'[s] = "left" /\ op' = op
    BY <1>26 DEF CommitFails, Return, call, TypeOK
  <2>2. CASE CommitTx(s)
    BY <2>1, <2>2, <1>4, <1>8
  <2>3. CASE RollbackTx(s)
    BY <2>1, <2>3, <1>6, <1>7, <1>8 DEF RollbackTx
  <2>4. CASE UNCHANGED <<db, tx>>
    BY <2>1, <2>4, <1>6 DEF tx, db
  <2> QED
    BY <1>26, <2>2, <2>3, <2>4 DEF CommitFails
<1>27. ~(ListForRollback(s) \/ Down(s) \/ DownFails(s) \/ DownMissing(s)
         \/ RemoveMigrationRecord(s) \/ CommitDown(s))
  BY DEF ListForRollback, Down, DownFails, DownMissing, RemoveMigrationRecord, CommitDown
<1> QED
  BY <1>10, <1>11, <1>12, <1>13, <1>14, <1>15, <1>16, <1>17, <1>18, <1>19, <1>20,
     <1>21, <1>22, <1>23, <1>24, <1>25, <1>26, <1>27 DEF Step, Caller

\* While nobody calls rollbackMigration, the history records no migration whose
\* changes are not in the database: however many sessions run the migrations at
\* once, whatever statement or commit fails, whichever session is lost, and
\* also when a caller goes on after a Left without a rollback.
THEOREM HistoryBacked ==
    ASSUME Rollbackers = {}
    PROVE  Spec => []HistoryNeverAhead
<1>1. Init => AheadInv
  BY DEF Init, AheadInv, NoRollback, InHand, HistoryNeverAhead, NoWork
<1>2. Typed /\ AheadInv /\ [Next]_vars => AheadInv'
  <2> SUFFICES ASSUME Typed, AheadInv, [Next]_vars PROVE AheadInv'
    OBVIOUS
  <2>1. Typed'
    BY TypedInductive
  <2>2. ASSUME NEW s \in Session, Step(s) \/ Caller(s) PROVE AheadInv'
    BY <2>1, <2>2, AheadStep
  <2>3. CASE UNCHANGED vars
    <3>1. \A s \in Session : Head(s)' = Head(s)
      BY <2>3, HeadSame DEF vars
    <3> QED
      BY <2>3, <3>1 DEF vars, AheadInv, NoRollback, InHand, HistoryNeverAhead
  <2> QED
    BY <2>2, <2>3 DEF Next
<1>3. AheadInv => HistoryNeverAhead
  BY DEF AheadInv
<1> QED
  BY <1>1, <1>2, <1>3, InitTyped, TypedInductive, PTL DEF Spec

-----------------------------------------------------------------------------
(* Ascending order, and what Right means, while nobody rolls back. *)

\* What a runner was given and no longer has to do is in the history it reads;
\* the transaction of a careful caller's session holds at most the record of the
\* migration in hand, and after a Left until the caller has cleaned up.
InOrder(s) ==
    /\ op[s] /= "rollback"
    /\ pc[s] \notin {"down", "remove", "commitDown"}
    /\ del[s] = {}
    /\ todo[s] \subseteq supplied[s]
    /\ pc[s] \in WorkPCs => supplied[s] \ todo[s] \subseteq history \cup ins[s]
    /\ pc[s] \in WorkPCs => op[s] = "run"
    /\ pc[s] = "commit" => Head(s) \in ins[s]
    /\ s \in Careful /\ pc[s] \notin {"commit", "left"} => ins[s] = {}
    /\ s \in Careful /\ pc[s] = "commit" => ins[s] = {Head(s)}
    /\ pc[s] = "left" => answer[s] = "left"

\* What Right means to the caller of s.
RightMeans(s) ==
    pc[s] = "idle" /\ op[s] = "run" /\ answer[s] = "right"
       => supplied[s] \subseteq history \cup (IF s \in Careful THEN {} ELSE ins[s])

\* The inductive invariant.
OrderInv ==
    /\ \A s \in Session : InOrder(s)
    /\ SuccessMeansRecorded

\* The step of one session keeps OrderInv, and ascends.
LEMMA OrderStep ==
    ASSUME Rollbackers = {}, Typed, OrderInv,
           NEW s \in Session, Step(s) \/ Caller(s)
    PROVE  OrderInv' /\ Ascends
<1> USE DEF OrderInv, InOrder, RightMeans
<1>a. TypeOK /\ (pc[s] \in WorkPCs => todo[s] /= {})
  BY DEF Typed
<1>b. pc[s] \in WorkPCs => /\ Head(s) \in todo[s]
                           /\ Head(s) \in Version
                           /\ \A w \in todo[s] : Head(s) <= w
  BY <1>a, HeadIsLeast
<1>c. \A t \in Session \ {s} : Same(t) /\ Head(t)' = Head(t)
  BY <1>a, OthersSame, HeadSame DEF Same
<1>d. todo'[s] = todo[s] => Head(s)' = Head(s)
  BY HeadSame
<1>e. RightMeans(s)
  BY DEF SuccessMeansRecorded
<1>1. SUFFICES /\ history \subseteq history'
               /\ Ascends
               /\ InOrder(s)'
               /\ RightMeans(s)'
  <2>1. ASSUME NEW t \in Session, t /= s PROVE InOrder(t)' /\ RightMeans(t)'
    <3>1. InOrder(t) /\ RightMeans(t) /\ Same(t) /\ Head(t)' = Head(t)
      BY <1>c, <2>1 DEF SuccessMeansRecorded
    <3>2. InOrder(t)'
      BY <1>1, <3>1 DEF Same
    <3>3. RightMeans(t)'
      BY <1>1, <3>1 DEF Same
    <3> QED
      BY <3>2, <3>3
  <2>2. \A t \in Session : InOrder(t)' /\ RightMeans(t)'
    BY <1>1, <2>1
  <2> QED
    BY <1>1, <2>2 DEF SuccessMeansRecorded
\* The other sessions insert nothing.
<1>f. \A t \in Session \ {s} : ins'[t] = ins[t]
  BY <1>c DEF Same
\* The history grows by the records of the transaction of s.
<1>2. ASSUME history' = HistoryOf(s), ins'[s] = {}, pc[s] /= "left"
      PROVE  /\ history \subseteq history'
             /\ Ascends
             /\ history' = history \cup ins[s]
  <2>1. history' = history \cup ins[s]
    BY <1>2 DEF HistoryOf
  <2>2. ASSUME NEW v \in ins[s], s \in Careful
        PROVE  v \in supplied[s] /\ Smaller(s, v) \subseteq history
    <3>1. pc[s] = "commit" /\ ins[s] = {v} /\ v = Head(s)
      BY <1>2, <2>2
    <3>2. \A w \in todo[s] : ~(w < v)
      BY <3>1, <1>a, <1>b, VersionAssumption DEF WorkPCs, TypeOK
    <3>3. supplied[s] \ todo[s] \subseteq history \cup {v}
      BY <3>1 DEF WorkPCs
    <3>4. ~(v < v)
      BY <2>2, <1>a, VersionAssumption DEF TypeOK
    <3>5. v \in supplied[s]
      BY <3>1, <1>b DEF WorkPCs
    <3> QED
      BY <3>2, <3>3, <3>4, <3>5 DEF Smaller
  <2> QED
    BY <2>1, <2>2, <1>2, <1>f DEF Ascends
<1>3. ASSUME UNCHANGED db, ins'[s] \subseteq ins[s]
      PROVE  history \subseteq history' /\ Ascends /\ history' = history
  BY <1>3, <1>f DEF db, Ascends
<1>4. NewTx(s) => ins'[s] = {} /\ del'[s] = {}
  BY <1>a DEF NewTx, TypeOK
<1> USE <1>a, <1>e
<1>5. CASE Call(s)
  BY <1>5, <1>3 DEF Call, TypeOK, tx, Ops, WorkPCs
<1>6. CASE AppWork(s)
  BY <1>6, <1>3 DEF AppWork, call, WorkPCs
<1>7. CASE AppCommit(s)
  BY <1>7, <1>2, <1>4 DEF AppCommit, CommitTx, call, WorkPCs
<1>8. CASE CleanUp(s)
  BY <1>8, <1>3, <1>4 DEF CleanUp, RollbackTx, call, TypeOK, WorkPCs
<1>9. CASE CarryOn(s)
  BY <1>9, <1>3 DEF CarryOn, call, tx, TypeOK, WorkPCs
<1>10. CASE Lost(s)
  BY <1>10, <1>3, <1>4 DEF Lost, RollbackTx, call, TypeOK, WorkPCs
<1>11. CASE CheckTable(s)
  BY <1>11, <1>3 DEF CheckTable, Goto, call, tx, TypeOK, WorkPCs
<1>12. CASE CreateTable(s)
  BY <1>12, <1>2, <1>4 DEF CreateTable, CommitTx, Goto, Return, call, TypeOK, WorkPCs
<1>13. CASE StatementFails(s)
  BY <1>13, <1>3 DEF StatementFails, Return, call, tx, TypeOK, WorkPCs
<1>14. CASE ListApplied(s)
  BY <1>14, <1>3 DEF ListApplied, Return, call, tx, TypeOK, WorkPCs
<1>15. CASE ListForRun(s)
  <2>1. HistoryOf(s) = history \cup ins[s] /\ UNCHANGED <<db, tx, op, supplied>>
    BY <1>15 DEF ListForRun, HistoryOf, call
  <2>2. todo'[s] = supplied[s] \ (history \cup ins[s])
    BY <1>15, <2>1 DEF ListForRun, Pending, TypeOK
  <2>3. /\ pc'[s] = IF todo'[s] = {} THEN "idle" ELSE "up"
        /\ s \in Careful => ins[s] = {}
    BY <1>15, <2>1, <2>2 DEF ListForRun, Goto, Return, TypeOK, Pending
  <2> QED
    BY <1>15, <1>3, <2>1, <2>2, <2>3 DEF ListForRun, tx, WorkPCs
<1>16. CASE Up(s)
  <2>1. CASE Head(s) \in Data
    BY <1>16, <2>1, <1>3, <1>d DEF Up, ChangeRows, Goto, call, TypeOK, WorkPCs, db
  <2>2. CASE Head(s) \notin Data
    BY <1>16, <2>2, <1>2, <1>4, <1>d DEF Up, ChangeObject, Goto, call, TypeOK, WorkPCs
  <2> QED
    BY <2>1, <2>2
<1>17. CASE UpFails(s)
  BY <1>17, <1>3 DEF UpFails, ChangeRows, Return, call, tx, TypeOK, WorkPCs, db
<1>18. CASE UpExists(s)
  BY <1>18, <1>2, <1>4 DEF UpExists, ChangeObject, Return, call, TypeOK, WorkPCs
<1>19. CASE RecordMigration(s)
  <2>1. CASE Head(s) \in HistoryOf(s)
    BY <1>19, <2>1, <1>3 DEF RecordMigration, Return, call, tx, TypeOK, WorkPCs
  <2>2. CASE Head(s) \notin HistoryOf(s)
    <3>1. /\ pc[s] = "record" /\ pc'[s] = "commit"
          /\ ins'[s] = ins[s] \cup {Head(s)} /\ Head(s)' = Head(s)
          /\ UNCHANGED <<db, del, op, supplied, todo, answer>>
      BY <1>19, <2>2, <1>d DEF RecordMigration, Goto, call, TypeOK
    <3>2. Head(s) \in supplied[s] /\ Smaller(s, Head(s)) \subseteq HistoryOf(s)
      <4>1. \A w \in todo[s] : ~(w < Head(s))
        <5> DEFINE h == Head(s)
        <5>1. h \in Int /\ \A w \in todo[s] : w \in Int /\ h <= w
          BY <3>1, <1>a, <1>b, VersionAssumption DEF WorkPCs, TypeOK
        <5> HIDE DEF h
        <5>2. \A w \in todo[s] : ~(w < h)
          BY <5>1
        <5> QED
          BY <5>2 DEF h
      <4>2. supplied[s] \ todo[s] \subseteq HistoryOf(s)
        BY <3>1 DEF WorkPCs, HistoryOf
      <4> QED
        BY <3>1, <4>1, <4>2, <1>b DEF WorkPCs, Smaller
    <3>3. Ascends
      BY <3>1, <3>2, <1>f DEF Ascends, db
    <3>4. InOrder(s)'
      BY <3>1 DEF WorkPCs, db
    <3> QED
      BY <3>1, <3>3, <3>4 DEF db
  <2> QED
    BY <2>1, <2>2
<1>20. CASE Commit(s)
  <2>1. CommitTx(s) /\ ins'[s] = {} /\ history' = history \cup ins[s]
    BY <1>20, <1>2, <1>4 DEF Commit, CommitTx
  <2>2. todo'[s] = todo[s] \ {Head(s)} /\ Head(s) \in ins[s] /\ supplied' = supplied /\ op' = op
    BY <1>20 DEF Commit, call, TypeOK
  <2>3. supplied[s] \ todo'[s] \subseteq history'
    BY <1>20, <2>1, <2>2 DEF Commit, WorkPCs
  <2> QED
    BY <1>20, <1>2, <1>4, <2>1, <2>2, <2>3 DEF Commit, CommitTx, Return, Goto, call, TypeOK, WorkPCs
<1>21. CASE CommitFails(s)
  BY <1>21, <1>2, <1>3, <1>4 DEF CommitFails, CommitTx, RollbackTx, Return, call, tx, TypeOK, WorkPCs
<1>22. ~(ListForRollback(s) \/ Down(s) \/ DownFails(s) \/ DownMissing(s)
         \/ RemoveMigrationRecord(s) \/ CommitDown(s))
  BY DEF ListForRollback, Down, DownFails, DownMissing, RemoveMigrationRecord, CommitDown
<1> QED
  BY <1>5, <1>6, <1>7, <1>8, <1>9, <1>10, <1>11, <1>12, <1>13, <1>14, <1>15,
     <1>16, <1>17, <1>18, <1>19, <1>20, <1>21, <1>22 DEF Step, Caller

\* The first state is in order, and a stuttering step keeps the order.
LEMMA OrderNext ==
    ASSUME Rollbackers = {}
    PROVE  /\ Init => OrderInv
           /\ Typed /\ OrderInv /\ [Next]_vars => OrderInv' /\ Ascends
<1>1. Init => OrderInv
  BY DEF Init, OrderInv, InOrder, SuccessMeansRecorded, WorkPCs
<1>2. ASSUME Typed, OrderInv, NEW s \in Session, Step(s) \/ Caller(s)
      PROVE  OrderInv' /\ Ascends
  BY <1>2, OrderStep
<1>3. ASSUME OrderInv, UNCHANGED vars PROVE OrderInv' /\ Ascends
  <2>1. \A s \in Session : Head(s)' = Head(s)
    BY <1>3, HeadSame DEF vars
  <2> QED
    BY <1>3, <2>1 DEF vars, OrderInv, InOrder, SuccessMeansRecorded, Ascends
<1> QED
  BY <1>1, <1>2, <1>3 DEF Next

\* A runner records a version only after all the smaller ones it was given, also
\* when other sessions are running the same or shorter lists; a careful caller's
\* runner commits them in that order too.
THEOREM AppliedInOrder ==
    ASSUME Rollbackers = {}
    PROVE  Spec => AscendingOrder
<1>1. /\ Init => OrderInv
      /\ Typed /\ OrderInv /\ [Next]_vars => OrderInv'
      /\ Typed /\ OrderInv /\ [Next]_vars => Ascends
  BY OrderNext
<1> QED
  BY <1>1, InitTyped, TypedInductive, PTL DEF Spec, AscendingOrder

\* When runMigrations has returned Right to a careful caller, everything it was
\* given is recorded and committed; to a caller who carried on after a commit
\* that failed, it is recorded, committed or in the session's transaction.
THEOREM RightIsRecorded ==
    ASSUME Rollbackers = {}
    PROVE  Spec => []SuccessMeansRecorded
<1>1. OrderInv => SuccessMeansRecorded
  BY DEF OrderInv
<1>2. /\ Init => OrderInv
      /\ Typed /\ OrderInv /\ [Next]_vars => OrderInv'
  BY OrderNext
<1> QED
  BY <1>1, <1>2, InitTyped, TypedInductive, PTL DEF Spec

-----------------------------------------------------------------------------
(* Migrations made of DML: recorded and in effect, or neither. *)

\* At most one session rolls migrations back.
SingleRollbacker == \A r, t \in Rollbackers : r = t

\* Exactly what the open transaction of a session holds at each place: nothing
\* outside an operation and while it reads, the changes of the migration in hand
\* once up or down is through, its record when only the commit is missing.
Exact(s) ==
    /\ op[s] = "rollback" => s \in Rollbackers
    /\ pc[s] \in {"down", "remove", "commitDown"}
          => op[s] = "rollback" /\ Head(s) \in history
    /\ pc[s] \in {"idle", "check", "create", "list", "up", "down"}
          => \A v \in Data : work[s][v] = 0
    /\ pc[s] \in {"record", "commit"}
          => \A v \in Data : work[s][v] = IF v = Head(s) THEN 1 ELSE 0
    /\ pc[s] \in {"remove", "commitDown"}
          => \A v \in Data : work[s][v] = IF v = Head(s) THEN -1 ELSE 0
    /\ pc[s] /= "left"
          => /\ ins[s] = IF pc[s] = "commit" THEN {Head(s)} ELSE {}
             /\ del[s] = IF pc[s] = "commitDown" THEN {Head(s)} ELSE {}
    /\ pc[s] = "commit" => Head(s) \notin history

\* The primary key: no two transactions hold a record of the same version.
KeysApart ==
    \A s, t \in Session :
       s /= t /\ pc[s] = "commit" /\ pc[t] = "commit" => Head(s) /= Head(t)

\* The inductive invariant.
ExactInv ==
    /\ \A s \in Session : Exact(s)
    /\ KeysApart
    /\ DataExactlyOnce

\* The three things a step can do to the records and the changes in Data.
Quiet == history' = history /\ \A v \in Data : ups'[v] = ups[v]

Applied(s) ==
    /\ pc[s] = "commit"
    /\ history' = history \cup {Head(s)}
    /\ \A v \in Data : ups'[v] = IF v = Head(s) THEN ups[v] + 1 ELSE ups[v]

Reverted(s) ==
    /\ pc[s] = "commitDown"
    /\ history' = history \ {Head(s)}
    /\ \A v \in Data : ups'[v] = IF v = Head(s) THEN ups[v] - 1 ELSE ups[v]

\* The step of one session does one of them, and keeps ExactInv.
LEMMA ExactStep ==
    ASSUME Careful = Session, SingleRollbacker, Typed, ExactInv,
           NEW s \in Session, Step(s) \/ Caller(s)
    PROVE  ExactInv' /\ (Quiet \/ Applied(s) \/ Reverted(s))
<1> USE DEF Exact
<1>a. TypeOK /\ Exact(s) /\ (pc[s] \in WorkPCs => todo[s] /= {})
  BY DEF Typed, ExactInv
<1>b. pc[s] \in WorkPCs => Head(s) \in Version
  BY <1>a, HeadIsLeast
<1>c. \A t \in Session \ {s} : Same(t) /\ Head(t)' = Head(t)
  BY <1>a, OthersSame, HeadSame DEF Same
<1>d. todo'[s] = todo[s] => Head(s)' = Head(s)
  BY HeadSame
<1>e. Data \subseteq Version /\ DataExactlyOnce
  BY VersionAssumption DEF ExactInv
<1>1. SUFFICES /\ Quiet \/ Applied(s) \/ Reverted(s)
               /\ Exact(s)'
               /\ pc'[s] = "commit" => \A t \in Session \ {s} :
                     pc[t] = "commit" => Head(s)' /= Head(t)
  <2>1. DataExactlyOnce'
    <3>1. CASE Quiet
      BY <3>1, <1>e DEF Quiet, DataExactlyOnce
    <3>2. CASE Applied(s)
      BY <3>2, <1>a, <1>e DEF Applied, DataExactlyOnce
    <3>3. CASE Reverted(s)
      BY <3>3, <1>a, <1>e DEF Reverted, DataExactlyOnce
    <3> QED
      BY <1>1, <3>1, <3>2, <3>3
  <2>2. KeysApart'
    BY <1>1, <1>c DEF KeysApart, Same, ExactInv
  <2>3. ASSUME NEW t \in Session, t /= s PROVE Exact(t)'
    <3>1. Exact(t) /\ Same(t) /\ Head(t)' = Head(t)
      BY <2>3, <1>c DEF ExactInv
    <3>2. pc[t] \in {"down", "remove", "commitDown"} => Head(t) \in history'
      BY <1>1, <1>a, <3>1, <2>3 DEF Quiet, Applied, Reverted, SingleRollbacker
    <3>3. pc[t] = "commit" => Head(t) \notin history'
      BY <1>1, <1>a, <3>1, <2>3 DEF Quiet, Applied, Reverted, KeysApart, ExactInv
    <3> QED
      BY <3>1, <3>2, <3>3 DEF Same
  <2>4. ASSUME NEW t \in Session PROVE Exact(t)'
    <3>1. CASE t = s
      BY <1>1, <3>1
    <3>2. CASE t /= s
      BY <2>3, <3>2
    <3> QED
      BY <3>1, <3>2
  <2> HIDE DEF Exact
  <2> QED
    BY <1>1, <2>1, <2>2, <2>4 DEF ExactInv
\* What committing does, place by place.
<1> DEFINE Clean == pc[s] \in {"idle", "check", "create", "list", "up", "down"}
<1>2. ASSUME Clean, CommitTx(s) PROVE Quiet
  BY <1>2, <1>a, <1>e DEF Quiet, CommitTx, HistoryOf, TypeOK
<1>3. ASSUME Clean, NEW v \in Version \ Data, NEW c \in Int, ChangeObject(s, v, c)
      PROVE  Quiet
  BY <1>3, <1>a, <1>e DEF Quiet, ChangeObject, HistoryOf, TypeOK
<1>4. ASSUME pc[s] = "commit", CommitTx(s) PROVE Applied(s)
  BY <1>4, <1>a, <1>e DEF Applied, CommitTx, HistoryOf, TypeOK
<1>5. ASSUME pc[s] = "commitDown", CommitTx(s) PROVE Reverted(s)
  BY <1>5, <1>a, <1>e DEF Reverted, CommitTx, HistoryOf, TypeOK
<1>6. UNCHANGED db => Quiet
  BY DEF db, Quiet
<1>7. NewTx(s) => (\A v \in Data : work'[s][v] = 0) /\ ins'[s] = {} /\ del'[s] = {}
  BY <1>a, <1>e DEF NewTx, TypeOK, NoWork
<1> USE <1>a
<1>8. CASE Call(s)
  BY <1>8, <1>6, SessionAssumption DEF Call, TypeOK, tx, Ops
<1>9. CASE AppWork(s)
  BY <1>9, <1>6, <1>d DEF AppWork, call
<1>10. CASE AppCommit(s)
  BY <1>10, <1>2, <1>7 DEF AppCommit, CommitTx, call
<1>11. CASE CleanUp(s)
  BY <1>11, <1>6, <1>7 DEF CleanUp, RollbackTx, call, TypeOK
<1>12. CASE Lost(s)
  BY <1>12, <1>6, <1>7 DEF Lost, RollbackTx, call, TypeOK
<1>13. CASE CheckTable(s)
  BY <1>13, <1>6 DEF CheckTable, Goto, call, tx, TypeOK
<1>14. CASE CreateTable(s)
  BY <1>14, <1>2, <1>7 DEF CreateTable, CommitTx, Goto, Return, call, TypeOK
<1>15. CASE StatementFails(s)
  BY <1>15, <1>6 DEF StatementFails, Return, call, tx, TypeOK
<1>16. CASE ListApplied(s)
  BY <1>16, <1>6 DEF ListApplied, Return, call, tx, TypeOK
<1>17. CASE ListForRun(s)
  BY <1>17, <1>6 DEF ListForRun, Goto, Return, call, tx, TypeOK
<1>18. CASE ListForRollback(s)
  <2> DEFINE l == Latest(HistoryOf(s))
             found == HistoryOf(s) /= {} /\ l \in supplied[s]
  <2>1. CASE found
    <3>1. l \in HistoryOf(s)
      BY <2>1, HistoryOfType, LastAssumption DEF Latest
    <3>2. l \in history /\ l \in Version
      BY <1>18, <3>1, HistoryOfType DEF HistoryOf, ListForRollback
    <3>3. todo'[s] = {l} /\ pc'[s] = "down" /\ op' = op /\ UNCHANGED <<db, tx>>
      BY <1>18, <2>1 DEF ListForRollback, Goto, call, TypeOK
    <3>4. Head(s)' = l
      BY <3>2, <3>3, VersionAssumption DEF Head
    <3> QED
      BY <1>18, <3>2, <3>3, <3>4, <1>6 DEF ListForRollback, tx, db
  <2>2. CASE ~found
    BY <1>18, <2>2, <1>6 DEF ListForRollback, Return, call, tx, TypeOK
  <2> QED
    BY <2>1, <2>2
\* up and down of a migration in Data change the transaction and nothing else.
<1>19. ASSUME NEW c \in Int, Head(s) \in Data, ChangeRows(s, Head(s), c),
              \A v \in Data : work[s][v] = 0
       PROVE  \A v \in Data : work'[s][v] = IF v = Head(s) THEN c ELSE 0
  <2>1. /\ work'[s][Head(s)] = work[s][Head(s)] + c
        /\ \A v \in Version \ {Head(s)} : work'[s][v] = work[s][v]
    BY <1>19, <1>e DEF ChangeRows, TypeOK
  <2> QED
    BY <1>19, <1>e, <2>1
<1>20. CASE Up(s)
  <2>1. Head(s)' = Head(s) /\ Head(s) \in Version
    BY <1>20, <1>b, <1>d DEF Up, WorkPCs
  <2>2. CASE Head(s) \in Data
    <3>1. ChangeRows(s, Head(s), 1) /\ UNCHANGED <<db, ins, del>>
      BY <1>20, <2>2 DEF Up, ChangeRows, db
    <3>2. \A v \in Data : work'[s][v] = IF v = Head(s) THEN 1 ELSE 0
      BY <1>19, <1>20, <2>2, <3>1 DEF Up
    <3> QED
      BY <1>20, <2>1, <3>1, <3>2, <1>6 DEF Up, Goto, call, TypeOK
  <2>3. CASE Head(s) \notin Data
    <3>1. ChangeObject(s, Head(s), 1) /\ NewTx(s)
      BY <1>20, <2>3 DEF Up, ChangeObject
    <3>2. \A v \in Data : v /= Head(s)
      BY <2>3
    <3> QED
      BY <1>20, <2>1, <2>3, <3>1, <3>2, <1>3, <1>7 DEF Up, Goto, call, TypeOK
  <2> QED
    BY <2>2, <2>3
<1>21. CASE UpFails(s)
  BY <1>21, <1>6 DEF UpFails, ChangeRows, Return, call, tx, db, TypeOK
<1>22. CASE UpExists(s)
  <2>1. ChangeObject(s, Head(s), 0) /\ NewTx(s) /\ Head(s) \in Version \ Data
    BY <1>22, <1>b DEF UpExists, ChangeObject, WorkPCs
  <2> QED
    BY <1>22, <2>1, <1>3, <1>7 DEF UpExists, Return, call, TypeOK
<1>23. CASE RecordMigration(s)
  <2>1. CASE Head(s) \in HistoryOf(s)
    BY <1>23, <2>1, <1>6 DEF RecordMigration, Return, call, tx, TypeOK
  <2>2. CASE Head(s) \notin HistoryOf(s)
    <3>1. Head(s)' = Head(s) /\ Head(s) \in Version
      BY <1>23, <1>b, <1>d DEF RecordMigration, WorkPCs
    <3>2. Head(s) \notin history
      BY <1>23, <2>2 DEF HistoryOf, RecordMigration
    <3>3. pc'[s] = "commit" /\ op' = op /\ UNCHANGED <<db, work, del>>
      BY <1>23, <2>2 DEF RecordMigration, Goto, call, TypeOK
    <3>4. ins'[s] = {Head(s)}
      BY <1>23, <2>2 DEF RecordMigration, TypeOK
    <3>5. \A t \in Session \ {s} : pc[t] = "commit" => Head(s) /= Head(t)
      BY <1>23 DEF RecordMigration, RowLocked, ExactInv
    <3> QED
      BY <1>23, <3>1, <3>2, <3>3, <3>4, <3>5, <1>6 DEF RecordMigration, db
  <2> QED
    BY <2>1, <2>2
<1>24. CASE Commit(s)
  BY <1>24, <1>4, <1>7 DEF Commit, CommitTx, Return, Goto, call, TypeOK
<1>25. CASE Down(s)
  <2>1. Head(s)' = Head(s) /\ Head(s) \in Version
    BY <1>25, <1>b, <1>d DEF Down, WorkPCs
  <2>2. CASE Head(s) \in Data
    <3>1. ChangeRows(s, Head(s), -1) /\ UNCHANGED <<db, ins, del>>
      BY <1>25, <2>2 DEF Down, ChangeRows, db
    <3>2. \A v \in Data : work'[s][v] = IF v = Head(s) THEN -1 ELSE 0
      BY <1>19, <1>25, <2>2, <3>1 DEF Down
    <3> QED
      BY <1>25, <2>1, <3>1, <3>2, <1>6 DEF Down, Goto, call, db, TypeOK
  <2>3. CASE Head(s) \notin Data
    <3>1. ChangeObject(s, Head(s), -1) /\ NewTx(s)
      BY <1>25, <2>3 DEF Down, ChangeObject
    <3>2. Quiet
      BY <1>25, <2>1, <2>3, <3>1, <1>3 DEF Down
    <3> QED
      BY <1>25, <2>1, <2>3, <3>1, <3>2, <1>7 DEF Down, Goto, call, Quiet, TypeOK
  <2> QED
    BY <2>2, <2>3
<1>26. CASE DownFails(s)
  BY <1>26, <1>6 DEF DownFails, ChangeRows, Return, call, tx, db, TypeOK
<1>27. CASE DownMissing(s)
  <2>1. ChangeObject(s, Head(s), 0) /\ NewTx(s) /\ Head(s) \in Version \ Data
    BY <1>27, <1>b DEF DownMissing, ChangeObject, WorkPCs
  <2> QED
    BY <1>27, <2>1, <1>3, <1>7 DEF DownMissing, Return, call, TypeOK
<1>28. CASE RemoveMigrationRecord(s)
  <2>1. Head(s)' = Head(s) /\ Head(s) \in HistoryOf(s)
    BY <1>28, <1>d DEF RemoveMigrationRecord, HistoryOf
  <2>2. del'[s] = {Head(s)}
    BY <1>28, <2>1 DEF RemoveMigrationRecord, TypeOK
  <2> QED
    BY <1>28, <2>1, <2>2, <1>6 DEF RemoveMigrationRecord, Goto, call, db, TypeOK
<1>29. CASE CommitDown(s)
  BY <1>29, <1>5, <1>7 DEF CommitDown, CommitTx, Return, call, TypeOK
<1>30. CASE CommitFails(s)
  BY <1>30, <1>4, <1>5, <1>6, <1>7 DEF CommitFails, CommitTx, RollbackTx, Return, call, TypeOK
<1>31. ~CarryOn(s)
  BY DEF CarryOn
<1> QED
  BY <1>8, <1>9, <1>10, <1>11, <1>12, <1>13, <1>14, <1>15, <1>16, <1>17, <1>18,
     <1>19, <1>20, <1>21, <1>22, <1>23, <1>24, <1>25, <1>26, <1>27, <1>28, <1>29,
     <1>30, <1>31 DEF Step, Caller

\* The invariant is inductive, stuttering steps included.
LEMMA ExactNext ==
    ASSUME Careful = Session, SingleRollbacker
    PROVE  /\ Init => ExactInv
           /\ Typed /\ ExactInv /\ [Next]_vars
                 => ExactInv' /\ (Quiet \/ \E s \in Session : Applied(s) \/ Reverted(s))
<1>1. ASSUME Init PROVE ExactInv
  <2>1. \A s \in Session : /\ pc[s] = "idle" /\ op[s] = "inspect"
                           /\ ins[s] = {} /\ del[s] = {}
                           /\ \A v \in Data : work[s][v] = 0
    BY <1>1, VersionAssumption DEF Init, NoWork
  <2>2. DataExactlyOnce
    BY <1>1, VersionAssumption DEF Init, NoWork, DataExactlyOnce
  <2> QED
    BY <2>1, <2>2 DEF ExactInv, Exact, KeysApart
<1>2. ASSUME Typed, ExactInv, NEW s \in Session, Step(s) \/ Caller(s)
      PROVE  ExactInv' /\ (Quiet \/ Applied(s) \/ Reverted(s))
  BY <1>2, ExactStep
<1>3. ASSUME ExactInv, UNCHANGED vars PROVE ExactInv' /\ Quiet
  <2>1. \A s \in Session : Head(s)' = Head(s)
    BY <1>3, HeadSame DEF vars
  <2> QED
    BY <1>3, <2>1 DEF vars, ExactInv, Exact, KeysApart, DataExactlyOnce, Quiet
<1> QED
  BY <1>1, <1>2, <1>3 DEF Next

\* With callers that clean up after a Left and a single session that rolls
\* back, a migration made of DML is in effect exactly once when it is recorded
\* and not at all when it is not, whatever fails and however sessions interleave.
THEOREM ExactlyOnce ==
    ASSUME Careful = Session, SingleRollbacker
    PROVE  Spec => []DataExactlyOnce
<1>1. /\ Init => ExactInv
      /\ Typed /\ ExactInv /\ [Next]_vars => ExactInv'
  BY ExactNext
<1>2. ExactInv => DataExactlyOnce
  BY DEF ExactInv
<1> QED
  BY <1>1, <1>2, InitTyped, TypedInductive, PTL DEF Spec

\* The runner implements the ledger of MigrationLedger: every step records a
\* migration together with its changes, strikes one off together with them, or
\* leaves both as they are.
THEOREM ImplementsLedger ==
    ASSUME Careful = Session, SingleRollbacker
    PROVE  Spec => RefinesLedger
<1>1. Init => Ledger!Init
  BY VersionAssumption DEF Init, Ledger!Init, NoWork
<1>2. Typed /\ ExactInv /\ [Next]_vars => [Ledger!Next]_(Ledger!ledger)
  <2> SUFFICES ASSUME Typed, ExactInv, [Next]_vars
               PROVE  [Ledger!Next]_(Ledger!ledger)
    OBVIOUS
  <2>a. DataExactlyOnce /\ (\A s \in Session : Exact(s)) /\ ups \in [Version -> Int]
    BY DEF ExactInv, Typed, TypeOK
  <2>b. Quiet \/ \E s \in Session : Applied(s) \/ Reverted(s)
    BY ExactNext
  <2>1. CASE Quiet
    BY <2>1 DEF Quiet, Ledger!ledger
  <2>2. ASSUME NEW s \in Session, Applied(s) PROVE [Ledger!Next]_(Ledger!ledger)
    <3>1. Head(s) \notin history
      BY <2>2, <2>a DEF Exact, Applied
    <3>2. CASE Head(s) \in Data
      <4>1. history' \cap Data = (history \cap Data) \cup {Head(s)}
        BY <2>2, <3>2 DEF Applied
      <4>2. \A v \in Data : ups'[v] = IF v = Head(s) THEN 1 ELSE ups[v]
        BY <2>2, <2>a, <3>1, <3>2 DEF Applied, DataExactlyOnce
      <4>3. [v \in Data |-> ups'[v]] = [[v \in Data |-> ups[v]] EXCEPT ![Head(s)] = 1]
        BY <4>2
      <4> QED
        BY <3>1, <3>2, <4>1, <4>3 DEF Ledger!Next, Ledger!Apply
    <3>3. CASE Head(s) \notin Data
      BY <2>2, <3>3 DEF Applied, Ledger!ledger
    <3> QED
      BY <3>2, <3>3
  <2>3. ASSUME NEW s \in Session, Reverted(s) PROVE [Ledger!Next]_(Ledger!ledger)
    <3>1. Head(s) \in history
      BY <2>3, <2>a DEF Exact, Reverted
    <3>2. CASE Head(s) \in Data
      <4>1. history' \cap Data = (history \cap Data) \ {Head(s)}
        BY <2>3, <3>2 DEF Reverted
      <4>2. \A v \in Data : ups'[v] = IF v = Head(s) THEN 0 ELSE ups[v]
        BY <2>3, <2>a, <3>1, <3>2 DEF Reverted, DataExactlyOnce
      <4>3. [v \in Data |-> ups'[v]] = [[v \in Data |-> ups[v]] EXCEPT ![Head(s)] = 0]
        BY <4>2
      <4> QED
        BY <3>1, <3>2, <4>1, <4>3 DEF Ledger!Next, Ledger!Revert
    <3>3. CASE Head(s) \notin Data
      BY <2>3, <3>3 DEF Reverted, Ledger!ledger
    <3> QED
      BY <3>2, <3>3
  <2> QED
    BY <2>b, <2>1, <2>2, <2>3
<1>3. /\ Init => ExactInv
      /\ Typed /\ ExactInv /\ [Next]_vars => ExactInv'
  BY ExactNext
<1> QED
  BY <1>1, <1>2, <1>3, InitTyped, TypedInductive, PTL DEF Spec, RefinesLedger, Ledger!Spec
=============================================================================
