# Verification of idris2-oracle

idris2-oracle binds Oracle's ODPI-C client to Idris2. An application calls the Idris modules under `src/src/Oracle`; those
call the C shim `src/support/extra.c` through the FFI; the shim calls ODPI-C (`src/support/dpi*.c`, vendored), which keeps
handles counted by references, buffers rows, records errors, and talks to the server through OCI.

This directory holds TLA+ models of the parts in which something can go wrong that a unit test would hardly reach, the
TLC configurations that check them, and theorems checked by TLAPS. `PROJECT.json` lists for every definition the lines of
code it stands for.

## 1. Inventory

| part | state | operations | interacts with | what is hard | what makes it correct |
|---|---|---|---|---|---|
| migration runner (`Migration/Runner.idr`) | history table, place in the run, the caller's open transaction | runMigrations, rollbackMigration, pendingMigrations, listAppliedMigrations, migrationStatus | queries and commit on the caller's connection; other runners through the schema | concurrent runners, loss between up, INSERT and COMMIT, DDL that commits by itself, row locks | the history never claims what is not there; Right means recorded; ascending order; DML migrations exactly once; every call returns |
| transactions (`Transaction.idr`) | the session's transaction | commit, rollback, withTransaction | every statement on the connection | failing commit or rollback, nested calls, loss of the session | all or nothing; nothing after Left |
| statements, queries, decoding (`Statement.idr`, `Query.idr`, `Internal/Decode.idr`) | the statement handle, the rows so far | prepare, bind, execute, fetch, decode; queryRaw, query_, queryOne, queryExactlyOne, queryJSON, queryJSONList, execute_ | the shim, one call after the other; `g_last_error` | a failure at each of some ten calls, two of them fetching the error by a second call | Right is the whole answer; a failure is reported with its own error; the statement is released once |
| error reporting (`extra.c`, `Error.idr`, `dpiError.c`, `dpiGlobal.c`) | error buffers per thread, the static `g_last_error` and `g_has_error` | oracle_capture_error, oracle_capture_last_error, get_error_code, get_error_message, getLastError | every failing call of every thread | one cell for all threads, filled and read in pieces; a message that is a pointer into another thread's buffer | Left carries the operation's own error; never an old one |
| native handles (`dpiConn.c`, `dpiStmt.c`, `dpiVar.c`, `dpiLob.c`, `dpiGen.c`) | reference counts, bind and query variables, row buffers, lists of open handles | create, prepare, bind, execute, fetch, decode, release, disconnect | the bracket functions of the Idris side | release in any order, cascades of releases, error paths between allocation and release, borrowed LOB handles | counts equal references; nothing freed is used; nothing is left at the end |
| statements of ODPI-C (`dpiStmt.c`) | row buffer, array size, position; bind variables, cached handle, batch errors | execute, define, fetch, fetchRows, scroll, setFetchArraySize; bind, executeMany, getBatchErrors, close | variables, OCI's callbacks, the statement cache | three counters that must stay in step over executions, refills, resizings and scrolls; pointers into the stack of earlier calls; a second attempt with stale metadata | the rows served are those due and fit; errors are of the current call; a refused statement is not cached |
| variables and types (`dpiVar.c`, `dpiOracleType.c`, `dpiData.c`) | buffers per variable: OCI's arrays, externalData, chunks, LOBs and other handles, rows of DML returning | setFrom*, bind, convertToLob, in and out callbacks, getReturnedData, fetch, read | statements, LOBs, objects | values in pieces, conversion after a value was set, buffers reused by the next execution, failing allocations | what is sent is what was set; what is read is what was written; what the caller keeps stays |
| connections, session pools (`dpiConn.c`, `dpiPool.c`) | session handle, dead flag, transaction handle, open children | create, acquire, ping, commit, rollback, tpc*, close, pool close | OCI's session pool, the wrappers of OCI | sessions that die, several closers, a session given back with work in it | a session in the pool is clean and given back once; a death is noticed |
| OCI wrappers (`dpiOci.c`) | the loaded library | some 160 functions | all of ODPI-C | which of them look at the status, and which find out that a session is dead | |
| library context (`Context.idr`, `extra.c`, `dpiContext.c`, `dpiGlobal.c`, `dpiEnv.c`) | `g_context`, the mutex, thread key, OCI environment, the loaded library | initContext, dpiContext_create, exit | the first connect of every thread | two first calls at once, each step failing, errors left by an earlier attempt | set up before use, once, freed once; the reason reported is one's own |
| error handle pool (`dpiHandlePool.c`) | a ring of OCI error handles | acquire, release | every public function of ODPI-C | a ring that is full looks empty; it grows while it wraps around | no handle is used by two calls or lost |
| handle lists, objects, LOBs (`dpiHandleList.c`, `dpiObject.c`, `dpiLob.c`) | an array of slots of open handles | add, remove; create, share, close, free | the closing of the connection, without the list's mutex | threads that create, close and free what the closing is going through | nothing is closed twice; what is open is listed; nothing outlives the connection |
| queues (`dpiQueue.c`, `dpiMsgProps.c`) | a buffer with message properties per element | enqOne, enqMany, deqOne, deqMany, release | OCI's AQ calls | a buffer kept for the next call, growth, a failure in the middle | each message is handed over once, in order, and stays as it is |
| subscriptions (`dpiSubscr.c`) | registration, its mutex, references | create, unsubscribe, release, the callback | OCI's notification thread | a callback that passes its check before unsubscribing gets in | quiet after unsubscribe; freed once, and not while the callback runs |
| LOB text codec (`Internal/Hex.idr`, `Internal/Lob.idr`, `FFI/Raw.idr`, the byte functions of `extra.c`) | none | hexEncode, hexDecode, bind, read | bindOne, decodeColumn, the server's conversion | a byte 0 in what C takes for a string; digits of two writers | what was bound is what is read; reading never fails over the text |
| value types, SQL builders (`Types/*.idr`, `Internal/Query.idr`, `Internal/JSONQuery.idr`) | none | pure functions | | | |
| SODA, object types, JSON, vectors, rowids (`dpiSoda*.c`, `dpiObject*.c`, `dpiJson.c`, `dpiVector.c`, `dpiRowid.c`) | handles of their own | the rest of ODPI-C | not called by the Idris library | | |

The hazards in `PROJECT.json` are listed at the lines where they bite, with the properties that watch them or the reason
why none does.

## 2. Modules and how they correspond to the code

Every module has one action per call or per step another actor can observe, and names it after the function it models.

**MigrationRunner** (abstract: **MigrationLedger**; proofs: **MigrationRunnerProofs**; instances: **MCMigrationRunner**).
A session is an application with one connection. `pc` follows the calls of `Runner.idr`: `check`, `create`
(ensureMigrationTable), `list` (listAppliedMigrations, from which pendingMigrations computes `todo`), then for a run
`up`, `record`, `commit` per migration, and for a rollback `down`, `remove`, `commitDown`. The database is external: the
committed history (`history`) and how often each migration's changes are in effect (`ups`), and per session the open
transaction. A migration is either DML (part of the transaction) or DDL (commits by itself, fails if the object is
there). Callers may have work of their own open on the connection and may be lost. A commit that fails may have reached the server or not, and may leave
the session alive with its transaction open. Callers in `Careful` roll back after a Left; the others go on as they please.

**Transaction** (abstract: **TransactionUnit**). Calls of withTransaction on one connection, numbered, after each other or in
the action of another call (`stack`). `open` is the session's transaction, `durable` what is permanent. A failing commit may have been
undone by the server, may not have reached it, or may have been done although its answer was an error; a failing rollback is
ignored, as in the code. TransactionUnit is what the calls promise when they follow each other: finished as a whole,
undone as a whole, or, after a failing commit or rollback, in limbo as a whole until the next commit.

(Proofs: **TransactionProofs**.)

**QueryPipeline** (proofs: **QueryPipelineProofs**). One operation of `Query.idr` as the sequence of calls it makes: prepare, bind per parameter, execute, then per row
fetch, column count, and per column metadata, value, and the reads of LOBs; then the release of the bracket and what the
operation makes of the rows. Each call succeeds or fails; a failure is numbered and left in `lastError`. Results, their
rows and the kinds of their cells are chosen by the server.

**ErrorChannel** (proofs: **LibraryProofs**). Threads whose operations fail, field by field: the buffer of ODPI-C, the
`dpiErrorInfo` on the stack, the clearing and filling of `g_last_error`, the two reads. `turns` says whether
the program lets one operation run at a time; the library itself does nothing of the kind. oracle_connect captures a structure
it has only zeroed, which is `NoInfo`.

**OdpiHandles** (proofs: **OdpiHandlesProofs**). The handles of one connection, their counts, and every decrement of a cascade as a step of its own
(`pending` is the stack of decrements to come; an entry may be None, the NULL that dpiGen__setRefCount's callers test for,
which `Skip` passes over). Between calls the caller binds, executes, fetches, releases and disconnects in
any order. With LobColumn every row of a buffer has a LOB handle; with NonNullLobs the decoder gives back the LOB it only
borrowed; with DefineMayFail an OCI define or the copying of a bound value may fail. ReExecute is `dpiStmt__reExecute`, which binds every variable
again without giving up the reference the statement had: `extra` counts what nobody owns any more.

**StmtCursor** (proofs: **StatementProofs**). The row buffer of a query. A row is `<<execution, number>>`, so that a row of an
earlier execution or of a wrong place shows. `due` is the number of the row the next fetch must serve; `served` what the last call
handed out. Execute, define, setFetchArraySize, fetch, fetchRows and scroll in its six modes are called in any order, and fetches fail.
`due` is counted from the rows handed out and from what each scroll was asked for (`AskedFor`), never from where the statement thinks it
is. The seven cases in which the code serves other rows are recorded by name in `quirks`. In five of them (`Strayed`) it is rowCount or the
server's position that has gone wrong, and nothing is promised until a scroll names a row by its number or the statement is executed again.

**StmtExecution** (proofs: **StatementProofs**). One statement through bind, execute, executeMany and close, numbered by `call`: which call's `dpiError` each
variable points at, the callbacks OCI makes, the second attempt of `dpiStmt__reExecute`, batch errors read one by one, and
what happens to the handle in the statement cache. The second attempt may fail at each of its steps: reading the SQL (`SqlUnread`), preparing it or giving up
the old handle (`NotPrepared`), binding or transferring again (`NotRebound`).

**VarTypes** is the table of types as functions: what a described column is taken for, which pairs of an Oracle and a native type
are accepted, whether a value lies in the buffer, in chunks or behind a handle. **VarBuffers** (proofs: **StatementProofs**) uses it for the
buffers of one variable. Values are sequences of pieces, numbered when they are written, so that pieces of two
values cannot be mistaken for one.

**ByteText** (proofs: **QueryPipelineProofs**). One RAW or BLOB column: the digits `Hex.idr` and `extra.c` write and read, the C string they travel
in, and the server, which converts a VARCHAR into bytes (external). Others write the column, too. Texts are sequences of character codes.

**HandlePool** (proofs: **HandleProofs**). The ring of error handles with its two positions and the frame of a public
call around it; each operation runs under the pool's mutex and is one step.

**HandleList** (proofs: **HandleProofs**). The slots of a connection's list, and objects or LOBs that are created, shared, closed
and released by threads while one of them closes the connection and goes through the list without the list's mutex.

**ReferenceCount** (proofs: **HandleProofs**). The count of one handle under several threads: what `dpiGen__setRefCount` does as the steps it
is compiled to, with the environment's mutex around them when that is threaded. OdpiHandles has many handles and one thread.
References are counted as tokens (`holding`), so that the count can be compared with them.

**OciCalls** is a table: for each wrapper of an OCI function, what it does with a bad status. **Session** (proofs:
**ConnectionProofs**) calls through it. It has the
connections of a pool, standalone and external ones, the sessions they hold, the ping on acquiring, the two-phase calls, the
noticing of a dead session, and the closing of connections and of the pool by several threads. A closing is loud or quiet
(`propagateErrors`): a rollback that fails makes a loud one drop the session, and passes for done in a quiet one, by the release of
the last reference. `failed` and `unrolled` of a session are there for the properties: how many calls have failed in it because it is
down, and whether the work it has in the pool is what a quiet closing could not roll back. IdleIsClean names that exception;
DeathNoticed says that a session that is down fails one call only, whatever connections have it, which takes the wrapper that looks,
the check of every later call, and the closing that drops it. It is of calls that follow each other on a connection; two under way in
two threads may both fail. A session that is down is found out by a call, by a rollback, or by the server's status; a closing that
calls nothing (`unseen`) gives it back as good.

**LibraryContext** (proofs: **LibraryProofs**). Threads that connect for the first time: the search for the library, the initialisation of ODPI-C with
each of its steps failing, the contexts of the shim, the error buffers, and exit.

**AqQueue**. The buffer of a queue with OCI's arrays and the message properties in it; messages come from other sessions, and
allocations and OCI calls fail. **Subscription** (proofs: **ConnectionProofs**). Registering, OCI's callback on its own thread, unsubscribing and
releasing, at the granularity of the subscription's mutex.

**MCQuery** and **MCLibrary** sum up modules that share no state: a variable `part` chooses the one a behaviour is of, and the variables
of the others stay in one initial state. Each part is explored in full and the parts are independent, so one run
of the sum says what a run of each would. The parts of MCQuery are `operation` (QueryPipeline), `cursor` (StmtCursor), `execution` (StmtExecution),
`buffers` (VarBuffers) and `bytes` (ByteText); those of MCLibrary are `errors` (ErrorChannel), `handles` (HandlePool), `sessions` (Session), `library`
(LibraryContext), `lists` (HandleList), `queue` (AqQueue), `subscription` (Subscription) and
`count` (ReferenceCount). That a behaviour of the sum is one of every part is a theorem of each (section 4).

## 3. Runs

| run | instance | what it shows |
|---|---|---|
| `migration_concurrent` | 2 sessions, 2 versions (one DML, one DDL), the full list and the list without the newest, 2 faults, one careful and one careless caller | HistoryNeverAhead, SuccessMeansRecorded, AscendingOrder |
| `migration_rollback` | 2 sessions of which one rolls back, 2 DML versions, 2 faults, careful callers | DataExactlyOnce; the runner implements MigrationLedger |
| `migration_returns` | 2 sessions, 2 versions, 1 fault, fairness | OperationReturns |
| `transaction_calls` | 4 calls up to 3 deep, 5 statements, all outcomes of failures | InnermostAtomic, LeftIsNothing; flat calls implement TransactionUnit |
| `transaction_rollback` | 2 calls, a failing rollback | *violation*: what a Left undid by a failing rollback becomes permanent |
| `query_operations` | five parts, see below; 1.2 million states | operation: RightIsWhole, CheckedIsReported, LeftIsOwn; cursor: RowsAreRight; execution: ErrorsAreCurrent, CacheIsSound; buffers: BoundIsSet, ColumnsAreRead, KeptIsUnchanged; bytes: BytesComeBack |
| `query_clob_read` | one CLOB | *violation*: a failing read becomes a value |
| `error_channel` | eight parts, see below; 0.67 million states | errors: LeftIsOwn with turns, NeverStale always; handles: PoolIsSound; sessions: IdleIsClean, DeathNoticed, ReleasedOnce; library: SetUpOnce, ReasonIsOwnOrInherited; lists: ListsAreKept; queue: HandedOverOnce; subscription: NotificationsAreSafe; count: FreedWithTheLast |
| `error_connect` | 1 failure | *violation*: a failing connect reports code 0 and no text |
| `handles_calls` | 2 statements, 4 variables, 4 LOBs, buffers of 2 rows, 1 re-execution per variable | CountsExact between any two decrements, NoDanglingPointer, NothingLeft |
| `handles_failing` | 2 statements, 3 variables, 4 LOBs, defines fail, LOBs are read | CountsSuffice: no statement, variable or connection is freed too early |
| `handles_lob` | 1 statement, 2 LOBs that are not NULL | *violation*: decoding a LOB frees a handle the row buffer points at |

The parts of `query_operations`:

| part | instance |
|---|---|
| operation | all 7 operations, results up to 2x2 of 5 kinds of cells, 2 parameters, any call failing |
| cursor | results up to 3 rows, 2 executions, array sizes 1 and 2, offsets -2 to 3 |
| execution | 2 variables, one of them dynamic, 2 bind names, 4 types of statements, 6 calls, 1 batch error |
| buffers | every accepted pair of types, values of up to 3 pieces, 2 returned rows, 3 transfers for long varchar and clob and 2 for the others, 4 handles, chunks made 2 at a time, 1 failing allocation |

The parts of `error_channel`:

| part | instance |
|---|---|
| errors | 2 threads, 2 failures, with and without turns, before and after the library is initialised |
| handles | 3 calls, a ring of 2 slots that grows by 2 (up to 8), 6 handles |
| sessions | 1 connection at a time, 2 in all, pooled, standalone or external, 2 sessions, 2 closers |
| library | 2 threads, 3 attempts |
| lists | 2 threads, 2 handles, a list that grows one slot at a time, 1 failure |
| queue | 2 messages, 2 elements, 2 message properties at once, 2 failures |
| subscription | 2 threads and the notifier, 2 events, each mode |
| count | 2 threads, 3 references, with the mutex, in turn, and neither |

**Bounds, and why they are enough.** Two sessions, two threads or two statements are the least in which one can act between
two steps of another; most properties of migrations, errors, handle pools, transactions, operations, the row buffer, executions and set-up are proved for
every instance, as are those of reference counts, sessions, lists, queues and subscriptions, so TLC's bounds only matter for liveness (section 4). Two versions make order observable and let one migration be DML and the other DDL. Two faults let
the handling of a failure fail. Results of two rows and two columns show reversed or dropped rows and cells; a third repeats
the same steps. Three levels of withTransaction have a call that is both inside another and around a third; four calls allow one before
and one after. Four variables and four LOBs let each of two statements bind a variable and fill a buffer of two rows, or one refill its buffer and rebind twice.
Values of up to three bytes have an odd number of digits to bind, and a 0 in any place; the five bytes are 0, 255 and the codes
of the digits 0, F and f.
Handles are not reused, so that the use of a freed one shows; a model step that would decrement a freed handle is
undefined behaviour and there is none after it. A result of three rows with arrays of two has a full buffer, a short one and a refill; two executions let rows of the first stay behind.
Three pieces are a value of two chunks' worth of growth and one more. Three calls on a ring of two slots fill it, grow it and make it
wrap around. Two handles on a list that grows by one let a thread add while another removes and the closing is at either slot; the same part
was explored once with three handles and two slots at a time (9.3 million states), with nothing new. Two connections in a row over
two sessions let a session come back, with work or down, be taken by the next caller and be dropped; three were explored once (1.0 million
states), with nothing new. The bounds are the constants whose names
begin with Max and the sets of handles, threads and calls.

**Deadlock.** Configurations that bound calls, failures or handles say CHECK_DEADLOCK FALSE, because the behaviour ends at the bound
(and, in `handles_failing` and `handles_lob`, at undefined behaviour). The migration runs have no such end and check deadlock.

**Fairness** (`FairSpec` of MigrationRunner). Weak fairness of a session's steps: a call of the library is synchronous and the
client goes on when the server answers. Weak fairness of CleanUp: withConnection's bracket runs its release. Strong fairness
of RecordMigration and RemoveMigrationRecord: the server queues those waiting for a row, so one that can proceed again and again does.
No fairness is assumed of callers starting operations, doing work of their own, or failing.

## 4. Theorems

The proofs hold for every value of the constants that satisfies the named ASSUMEs. They are in eight modules.

**MigrationRunnerProofs.** TypeCorrect, from Typed: TypeOK and that a session at work has a migration in hand. HistoryBacked,
AppliedInOrder and RightIsRecorded hold while nobody rolls back, for any callers; of a caller that is not careful SuccessMeansRecorded says less: its
migrations are recorded, but maybe only in the transaction an earlier commit has left open. AheadInv adds to HistoryNeverAhead what an
open transaction holds: from `record` on the changes of the migration in hand are in the database or in the
transaction (InHand), and a record is only ever inserted for that migration, at `commit`. It is needed because HistoryNeverAhead
says nothing of a transaction that is about to commit. OrderInv adds that what a runner was given and no longer has to do is in the
committed history (InOrder).

ExactlyOnce and ImplementsLedger need careful callers and one session that rolls back (`Careful = Session`, `SingleRollbacker`): a
caller that ignores a Left may commit half a migration later, and two sessions that roll back at once both execute
`down`. ExactInv says exactly what the transaction of a session holds at each place (Exact): no changes, the changes of the
migration in hand from `record` or `remove` on, and its record inserted or deleted at `commit` or `commitDown` only; and that the primary key
keeps two transactions from holding the same record (KeysApart). The refinement then has one step, the commit, that moves the ledger
(Applied, Reverted); all others stutter (Quiet). FirstAssumption and LastAssumption (a list that is not empty has a first and a
last version) stand for lists being finite.

**OdpiHandlesProofs.** TypeCorrect, CountsAlwaysSuffice, CountsAreExact, NothingDangles and NothingIsLeft, for any number of statements,
variables, LOBs and rows. The counts are compared with cardinalities of sets of references, so the module begins with what
one more or one less reference does to them. RefParts splits the references to a handle by where they are: the caller, bind
variables, columns, row buffers, the handles that keep the connection, and the decrements still to come. HandleInv (Counted) says that a
count is at least, and under the conditions below exactly, the sum of the parts; that a handle is open as long as its count is not 0 (LiveCounts),
and points at nothing when it is not (ClosedEmpty); that the row being decoded has a column it was fetched into (Ready); and that what is on
the lists of the connection is open (ListedOpen). Without the parts, of a cascade no step could be told from a leak. The last three theorems need
that no define fails (`~DefineMayFail`) and that no borrowed LOB is given back (`~(LobColumn /\ NonNullLobs)`): each of these loses a reference in
the code, as the runs show; CountsAlwaysSuffice holds in both cases, so that what the code loses is only ever leaked, but for the LOB. What a re-execution loses is in the statements: Counted has the `extra` references of a variable
beside the parts, and NothingLeft names the variables that have some (Lost) and what they keep open.

**HandleProofs.** For the ring: PoolInvariant, HandlesAreExclusive, HandlesAreKept and both as RingStaysSound, for any number of calls and any chunk. The invariant
says that the slots from acquirePos to releasePos, around the end of the ring, hold the handles that were given back and each
once (Numbered, Exclusive), and that none is lost before handles have come back to all slots (LostOnlyWhenFilled). Growing is the hard
step: it happens when the ring looks empty, and is sound because then no slot in between holds anything.

For the lists: ListsStayRight, which is all of ListsAreKept, for any number of threads and handles and any growth of the list. The invariant
has four layers, each of which uses those before. ListInv: a new handle is known to nobody but the thread that makes it
(NewIsOwn), and one thread at a time frees what a handle holds, with the closing flag set meanwhile (OneFrees). LiveInv: one thread goes through the list
(OneWalks), who asks for a handle to be closed has a reference (AskedHolds), the count of a handle is the number of threads that have
it, and one more for the closing connection (RefsCounted), and who frees a handle is alone with it (FreesAlone); so no handle is
freed under a thread that closes it, which is NoneIsFreedInUse. HoldInv: what is held and marked is being freed, and what has been freed or
passed is not held. KeptInv: the used slots are counted and name their handles (SlotsRight), the handle the closing thread is at is still in
the slot it was read from (AtItsSlot), and what is open and nobody is closing is still before that thread (AreAhead). The last is why closing the
connection without the list's mutex misses nothing that was listed in time: while the connection closes nothing is taken off
the list, and what is added is marked late. The two ways in which the code breaks KeptInv, `spoiled`, are in section 5.

For the count of references: HandleFreedWithTheLast, for any number of threads and references. What makes the count right (CountIsRight) is that one
thread at a time is between reading and writing it (OneCounts), and that who asks for one more or one less has the reference it needs until the
count is written (AsksForOwn); the thread that then reads 0 is the only one to do so (OneFinishes). All of it is of calls under the mutex or in turn; an environment
made by oracle_connect has no mutex, so the program has to see to the turns.

**QueryPipelineProofs.** CheckedFailuresReported and ErrorsAreOwn from ErrInv: the outcome an operation carries through the release of
its bracket is that of its last failure, or one the library made up when none failed (CarriesError). RightMeansWhole, for results of any
size, from RowInv: the accumulators hold the rows and cells so far backwards (RowsBackwards, CellsBackwards), at the place where the operation is
(Reached). StatementIsReleased is the type invariant, from FrameInv: what an operation has read of rows and columns fits the server's
answer at every place it can be at, and the statement is open exactly inside the bracket.

BytesSurvive is about ByteText, for bytes of any values and any number. Its lemmas are about the codec alone: hexDecode undoes hexEncode
(DecodeUndoesEncode), extra.c writes the same digits (SameDigits), a C string of digits is whole (CutAtZero), and digits reach the server
as the bytes they stand for (DigitsArrive). Digits are indexed, not consumed from the front, so that none of this needs induction.

Then the sum. SumIsEveryPart says that each behaviour of MCQuery is one of QueryPipeline, of StmtCursor, of StmtExecution, of
VarBuffers and of ByteText; PartsAreTyped and PartsAreSafe are TypesOK and all the invariants of the run `query_operations`, for every value of the constants.

**TransactionProofs.** TypeCorrect, LeftLeavesNothing, InnermostIsAtomic and ImplementsUnit, for any number of calls at any
depth. Settled is the strengthening: the statements of a running call that contains no other are all in the transaction or all lost
with the session (Kept); those of one that has returned are all permanent, all still in the transaction, or all undone (Over).
It is needed because a commit in one call decides about statements left by another. The refinement maps each commit
and each loss to a step of TransactionUnit as long as no call contains another.

**StatementProofs.** RowsStayRight, which says that the rows are those due (ServedAreDue) and fit (RowsFit), for any array size, any result and any number of executions. Aligned is the heart:
the row after rowCount is due, and rowCount and the rows not served yet add up to the server's position, which is the end of the buffer, unless
something has led the position astray (Strayed). It makes a refill start at the row that is due, and a scroll that the code turns into an offset from
the end of the buffer land on the row it was asked for (SentToTheRow), in every case that LedAstray does not name. Holds says that the buffer
contains the rows bufferMinRow and on of the current execution. That the exceptions are no more than what is named is in the model: each is a condition of the
one action it happens in.
ErrorsKeptCurrent and RefusedLeavesCache, for any variables, names and number of calls: while OCI may call back, every variable it
can call has the `dpiError` of the call under way (ErrorSetInTime), and a statement that is open is not in the cache, one that was
refused will be deleted from it (OutOfCache), unless its SQL could not be read. The second is needed because the refusal and the release are different calls.

WhatIsBoundIsSet, EveryColumnIsRead and KeptHandlesStay are about VarBuffers, for every type of a variable, values in any number of pieces,
any number of returned rows, transfers and failures. BufferInv follows a value. What the caller set last is where the next
execution takes it from (GivenCarried): in externalData, in the first chunk, or behind the handle whose descriptor OCI's buffer holds, whichever the
type says and whatever the variable has been converted to. What the server has written so far is in the elements it writes to, and
with the pieces it has still to write is the whole value (HoldsValue, Filling, UnderWay); no step loses a piece because the next chunk and
what is left of the value make up what was left before (NextFilled), for any size of the chunks. For that the table of types has to be right: long data is bytes and
never a handle, and what is no handle is copied in both directions (KindsRight, from PairsKept, a case for each row of the table). The handles have to be
where they are looked for (HandlesRight), and apart: no element shares one with another, nor the one that is filled with what the caller has
kept (HandlesApart, KeptRight); a write through one descriptor then changes one value. The first fetch into a variable is the hard case for the
last: its handles are not renewed, which is sound because nothing can have been kept of it yet.
BuffersTyped and ExecTyped bound what the models count: no step stores a piece, a returned row or a batch error beyond the room there is (BoundsKept).
For them the bounds have named assumptions, TransfersAssumption and ErrorsAssumption: types that
are not explored thoroughly have two transfers in any instance, so MaxTransfers is at least two.
What Together computes is proved by a least counterexample in the number of chunks (LeastExists, JoinedAgrees), as the induction theorems cannot be used.

**ConnectionProofs.** PooledSessionsAreClean, DeathsAreNoticed and SessionsReleasedOnce, for any number of connections, sessions and closers.
SessionInv says that the sessions held are those that connections have, one each (HeldByOne), and what is known of the sessions that are
not in the pool (CleanOutside): one in which a call has failed is that of a connection marked dead, which calls nothing more
(so that no second call fails in it: DeathsAreNoticed) and drops it. OneMarked: one closer at most is past the mark of a connection, and the closing flag keeps the others out until the session is given back. That the call which fails marks the connection is a fact about the rows of the table of OciCalls (LookedAt: of
the wrappers that call the server all but BlindCalls look with the connection). SessionsReleasedOnce assumes the threaded flag of the environment (Threaded), which the Idris library does
not set and ODPI-C's pools do.
NotificationsStaySafe, for any number of threads and events: in SubscrInv the count of the subscription is that of the
references of the threads and of the callback, until it is 0 and one thread frees (Counting); the notifier looks at the flag with the
mutex and has it until the callback returns, so that a thread that has unsubscribed has waited for the callback that was inside (FlagHolds).
MessagesAreHandedOverOnce, for any number of messages, array sizes and failures. QueueInv says that the messages which wait are the last sent,
in order (LastSent), and that those before them were handed over in order or are withheld (FirstTaken); that the filled slots of the buffer
hold different message properties, which nobody else has (BufferSlotsRight), and that what the caller holds shows what was sent (HeldRight).
Where the buffer takes new message properties, the free slots take them in turn (CountBefore), hence different ones.

**LibraryProofs.** For ErrorChannel TypeCorrect, and OwnErrors: with turns every captured error arrives. The invariant follows the error on
its way: while a thread is at `info` its buffer holds its error, from `clear` on its local copy and the buffer that points to do,
from `message` on the cell has the code, from `flag` on the message too, at `readMessage` the answer has the code; and all other
threads rest (TakeTurns), so nobody writes in between. The text is only safe because no other thread starts or ends an operation
that writes into the buffer; that is where an unsynchronised program loses it. NeverAnOldError holds without turns: StaleInv numbers the failures
(ErrorsNumbered), and says that whatever a thread that has cleared the cell can find there, on its own way or another's (Carried, CellFresh, AnswerFresh), is of
an operation that had not returned when its own failed, because a failure is only answered after it was reported (Unanswered).

For LibraryContext LibrarySetUpOnce and ReasonIsTheLast, for any number of threads and attempts. A thread that initialises
holds the mutex and finds what it has set up so far (HeldWhile, SetUpSoFar); who is past the initialisation finds it done
(FoundIsSetUp); the threads on the way to a context and the contexts made are never more than the threads (RoomForContexts), which is
where the count of contexts is bounded. For the reason reported, what the shared buffer tells of is the last attempt, or one that all
attempts since could not replace (Told, SinceLast). That needs turns; without them a second thread writes into the same buffer.

LibrarySumIsEveryPart, LibraryPartsAreTyped and LibraryPartsAreSafe do for MCLibrary what the sum of QueryPipelineProofs does for MCQuery: the
eight parts are one specification, and the theorems of this module, of HandleProofs and of ConnectionProofs together are TypesOK
and all the invariants of the run `error_channel` (ReleasedOnce where the environment is threaded).

**Only model-checked.** OperationReturns: it is a liveness property under fairness, outside what the installed provers do. Every other property of a
passing run is a theorem.

## 5. Where code and documentation part

Shown by a violation run, with the line quoted in `PROJECT.json`:

1. *LOBs* (`extra.c:789`, `Decode.idr:279`): the handle of the row buffer is released by a bracket that does not own it.
2. *connect* (`extra.c:968`): the error captured was never filled in.
3. *CLOB and BLOB reads* (`Decode.idr:233`, `:242`): the NULL of a failing read becomes a value. QueryPipeline has the same for a failing
   column count (`Statement.idr:274`): a row without columns; a run with MayFail = {"count"} shows FailureIsReported violated.
4. *withTransaction* (`Transaction.idr:82`): a failing rollback is ignored.

Visible in the models and kept as assumptions or named exceptions of the properties, by part:

*Idris library and shim.* A runMigrations whose commit fails with the session alive leaves its record in the open transaction. The next one on that connection reads it there
(`Runner.idr:53`), finds nothing to do and returns Right with nothing committed (`:246`), unless the caller has rolled back in between: SuccessMeansRecorded
names it. withTransaction marks no beginning, so a nested call commits what the outer one has done (InnermostAtomic speaks of
calls that contain no other). A BLOB is bound as the text its bytes spell and read as their digits (`extra.c:849`, `Decode.idr:234`), so the
bytes of one that another program wrote come as twice as many; the test of typed BLOBs expects it, `FFI/Lob.idr:28` says "Read bytes from a BLOB", and
BytesComeBack states what does come back. Threads that fail at once get each other's errors (LeftIsOwn is conditional on `turns`); paths that return
an error without capturing one leave the earlier one (`extra.c:645`). Two threads that connect first make two contexts (`extra.c:145`). A statement prepared by
hand keeps the connection open after disconnect until it is released (NothingLeft speaks of callers who have released everything).
The inspecting operations create the history table, which is DDL and commits the caller's open transaction, although the README of
the library says of pendingMigrations that it does not modify the database. queryOne decodes every row, so a row it is documented to ignore can
make it fail.

*Statements.* The exceptions of RowsAreRight are: a new execution marks the row buffer as consumed with the array size only (`dpiStmt.c:488`,
*shrunk*). A scroll before the first
fetch of an execution finds the buffer of the one before (`:1893`), and a relative one that must fetch counts from a buffer that is empty (`:1885`), also
in the middle of an execution, after a scroll outside the result set (both *early*). A scroll outside the result set while rows are buffered
empties the buffer and leaves rowCount behind the server's cursor (`:1917`, *outside*). "prior" goes back from the end of the buffer and not from the row
served last (`:1907`, *prior*). A fetch of the last row that fails is taken for success (`dpiOci.c:3953`, *last*). A conversion that fails leaves the buffer filled (`:952`, *conversion*).
A column defined again under buffered rows keeps their count (`:1203`, *redefined*). When the SQL of a query with stale metadata cannot be read, dpiStmt__reExecute
returns before it marks the statement (`:1052`), so it goes back to the cache although the comment at `:617` has it dropped (*unread*, the exception of CacheIsSound). dpiStmt__reExecute keeps the handle it has
released when preparing again fails (`:1066`). A bind that fails leaves a NULL variable in its slot (`:143`, `:159`), which a later execution
dereferences (`:583`). A failing define (`:990`) or copy of a bound value leaks a variable and through it the connection. So does every
re-execution after ORA-01007 or ORA-00932: it forgets each bound variable and takes another reference to it (`:1081`).

*Variables.* An allocation that fails leaves the new length with the old pointer (`dpiVar.c:194`, `:1088`). A variable converted to a LOB
and then used in DML returning dereferences NULL. The buffers of returned rows are not cleared, so a later use of the variable shows
old rows (`:686`), and the LOBs of returned rows are written again by the next execution. UROWID variables get no handles. A
conversion that fails leaves the type changed. Putting zero chunks together leaks the first.

*Sessions.* dpiConn__close says "drop the session if any errors take place" (`dpiConn.c:141`), but when the last reference to a pooled connection
is released its rollback does not look at the status (`:153` with `dpiOci.c:4425`): one that fails leaves the session in the pool with its
transaction, for the next caller to commit. A fetch of the last row in a session that is down passes for done (`dpiOci.c:3953`). dpiConn_getObjectType (`dpiConn.c:2138`) and dpiPool_reconfigure (`dpiPool.c:703`) return without giving their error handle back.
A failing pooled connection frees the environment of its pool (`dpiConn.c:383`). The commit mode stays two-phase after a rollback
(`:1116`), and the transaction handle is left when the connection is closed (`:155`). External connections never stop being "creating", so they do
not notice that their session died. A failing contextSetValue makes the next acquiring take the session for a new one. A pool
may hand out a session without a ping (`:1030`). Two closers of a pool race. dpiPool_setStmtCacheSize writes before it checks (`dpiPool.c:816`).

*Set-up.* When the error handle or the thread key cannot be had, the environment is freed and its pointer kept (`dpiGlobal.c:147`), and exit frees it
again. That no library was found is not reported over an older error (`dpiOci.c:2276`). A ring of error handles that is full looks empty
(`dpiHandlePool.c:49`).

*Handle lists.* An object whose creation fails late is closed with slot 0 and takes another off the list (`dpiObject.c:218`; `dpiStmt.c:355` does the same
for implicit results). Closing reads the list without its mutex (`dpiConn.c:164`), while it may grow (`dpiHandleList.c:55`). A closing that
fails leaves closed handles in the slots of a connection that can be used again. An object created meanwhile stays open
on a closed connection. A nested object dangles when its owner is trimmed.

*Queues.* freeBuffer clears the wrong member, so a buffer that failed to grow is freed twice (`dpiQueue.c:452`); the new length is set before the
arrays exist (`:94`). A dequeue of several that fails withholds the messages it has taken (`:264`). JSON payloads of a dequeue leak (`:225`).

*Subscriptions.* `registered` is read without the mutex (`dpiConn.c:3010`), so unsubscribing may return while the callback still runs. A callback that
unsubscribes before the registration has finished waits for itself. The callback's reference is taken only under the mutex
(`dpiSubscr.c:63`, `:80`). An event between the registration and the flag is dropped (`:263`). Arrays of no elements leak (`:310`).

## 6. What is not modelled, and why

- Everything marked so in `PROJECT.json`: SODA and the types the Idris library does not decode, stateless conversions, the SQL
  builders, connection settings, tracing.
- In MigrationRunner: locks of the application's own tables, migrations with equal versions.
- In Transaction: DDL inside an action, commit and rollback outside withTransaction, global and sessionless transactions.
- In QueryPipeline: the values of cells, the text of queries, allocation failures inside `extra.c` (they return without capturing
  an error), types with further calls of their own (timestamps, intervals), whose failure is one of "value".
- In ByteText: a BLOB that is empty and not NULL, failing reads (QueryPipeline has them), PL/SQL's limits on the length of a VARCHAR, and readBlob, which nothing calls.
- In ErrorChannel: warnings, and how ODPI-C obtains the error from OCI. NeverStale leaves out what failed before the library was
  initialised, when threads share one buffer.
- In OdpiHandles: more than one query column, several threads, objects and rowids, and the contents of the lists beyond
  membership (HandleList has them; ReferenceCount has the threads).
- In ReferenceCount: a program that uses a handle without a reference of its own, such as one that releases it twice.
- In StmtCursor and StmtExecution: the metadata of columns, implicit results, row counts and rowids. In VarTypes: character sets,
  precision, annotations. In VarBuffers: arrays of several elements, of which each is handled alone, and copying between
  variables.
- In Session: attributes, sharding keys, tokens, the pool's settings. In OciCalls: the arguments. In LibraryContext: default parameters and character
  sets.
- In HandleList: the values of objects and LOBs. In AqQueue: attributes and options, and the rollback of a dequeue. In
  Subscription: the attributes of a registration and dpiSubscr_prepareStmt.

## 7. Plan

Done: the migration runner, the error channel, handles, queries, transactions; then the native library (sessions, set-up,
the row buffer, execution, variables, bytes as text, the handle pool and lists, counts, queues, subscriptions), and the proofs of section 4. Left, in this order:

1. Composition: QueryPipeline over OdpiHandles, so that the bracket's release is checked against counts; Session under
   Transaction, so that a session lost is one whose death is noticed.
2. Object attributes and collections, and the documents of SODA, if the Idris library comes to use them.
