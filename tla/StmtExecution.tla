---------------------------- MODULE StmtExecution ----------------------------
(***************************************************************************)
(* Executing one prepared statement of support/dpiStmt.c: binding, the     *)
(* execution with the callbacks OCI makes meanwhile, the second attempt    *)
(* when the metadata of the statement cache is stale, batch errors, and    *)
(* what is given back to the cache when the statement is closed.           *)
(*                                                                         *)
(* A public call keeps its dpiError on its stack; `call` numbers the calls *)
(* and error[v] is the call whose dpiError var->error points at, 0 for     *)
(* NULL.  The statement cache and the handles OCI hands out are external;  *)
(* columns may be dropped by others at any time, which makes the metadata  *)
(* of every handle there is stale.                                         *)
(***************************************************************************)
EXTENDS Integers, FiniteSets

CONSTANTS
    Var, Dynamic, NoVar,    \* the variables, those fetched or bound piecewise, NULL
    Name,                   \* bind names
    Kinds,                  \* types of statements: select, dml, returning, plsql
    MaxCalls, MaxErrors     \* bounds: calls on the statement, errors of a batch

ASSUME ErrorsAssumption == MaxErrors \in Nat

VARIABLES
    kind, handle, stale,    \* the statement: none, open, dangling; with stale metadata
    deleteFromCache, cached,    \* what the cache holds of the SQL: none, good, stale
    binds,                  \* bindVars: the names bound so far, with their variables
    error, call,
    phase,                     \* idle, or in OCI: executing, retrying, fetching
    batch,                  \* the call asked for batch errors
    numBatchErrors, batchOf,    \* and the call they are of
    executions,             \* the last call that executed the statement
    used,                   \* the call whose dpiError the last callback wrote to, and when
    broken,                 \* the server has refused the statement for good
    unread                  \* and its SQL could not be read to try it again

cache == <<handle, stale, deleteFromCache, cached, broken, unread>>
batchVars == <<batch, numBatchErrors, batchOf>>
execVars == <<kind, cache, binds, error, call, phase, batchVars, executions, used>>

ExecInit ==
    /\ kind \in Kinds /\ handle = "none" /\ stale = FALSE
    /\ deleteFromCache = FALSE /\ cached \in {"none", "good", "stale"}
    /\ binds = [n \in {} |-> NoVar] /\ error = [v \in Var |-> 0] /\ call = 0 /\ phase = "idle"
    /\ batch = FALSE /\ numBatchErrors = 0 /\ batchOf = 0 /\ executions = 0
    /\ used = <<0, 0>> /\ broken = FALSE /\ unread = FALSE

Calls == phase = "idle" /\ call < MaxCalls /\ call' = call + 1
Bound == {binds[n] : n \in DOMAIN binds}
IsQuery == kind = "select"
IsDml == kind \in {"dml", "returning"}

\* What OCIStmtRelease leaves in the cache of a statement with stale metadata
\* or not, which it is told to delete or not.
Released(delete, isStale) == IF delete THEN cached ELSE IF isStale THEN "stale" ELSE "good"

\* Another session drops a column.
ColumnDropped ==
    /\ ~stale \/ cached = "good"
    /\ stale' = (handle = "open") /\ cached' = IF cached = "good" THEN "stale" ELSE cached
    /\ UNCHANGED <<kind, handle, deleteFromCache, broken, unread, binds, error, call, phase, batchVars, executions, used>>

\* dpiStmt__prepare: OCIStmtPrepare2 takes the statement out of the cache.
PrepareStmt ==
    /\ Calls /\ handle = "none" /\ executions = 0
    /\ handle' = "open" /\ stale' = (cached = "stale") /\ cached' = "none"
    /\ UNCHANGED <<kind, deleteFromCache, broken, unread, binds, error, phase, batchVars, executions, used>>

\* dpiStmt__bind.  A variable OCI refuses stays bound; one that cannot be
\* converted to a LOB (PL/SQL) leaves an entry without a variable.
BindVar(n, v) ==
    /\ Calls /\ handle = "open"
    /\ \E bound \in {v} \union (IF kind = "plsql" /\ v \in Dynamic THEN {NoVar} ELSE {}) :
          binds' = [m \in DOMAIN binds \union {n} |-> IF m = n THEN bound ELSE binds[m]]
    /\ UNCHANGED <<kind, cache, error, phase, batchVars, executions, used>>

CalledBack(v) == v \in Dynamic \/ kind = "returning"

\* MUTANT of ErrorSet: only RETURNING variables get the dpiError.
ErrorOfReturning(now) == [v \in Var |-> IF v \in Bound /\ kind = "returning" THEN now ELSE error[v]]

\* dpiStmt__execute points var->error at the dpiError of the call under way.
ErrorSet(now) == [v \in Var |-> IF v \in Bound /\ CalledBack(v) THEN now ELSE error[v]]

\* MUTANT of StartExecute: the batch errors of the execution before are kept.
StartExecuteKeeping(withBatch) ==
    /\ Calls /\ handle = "open" /\ NoVar \notin Bound
    /\ withBatch => IsDml
    /\ error' = ErrorSet(call')
    /\ batch' = withBatch /\ phase' = "executing" /\ executions' = call'
    /\ UNCHANGED <<kind, cache, binds, numBatchErrors, batchOf, used>>

\* dpiStmt_execute and dpiStmt_executeMany up to OCIStmtExecute: queries and
\* anything but DML are refused the batch modes, every bind variable is
\* transferred, old batch errors are cleared.
StartExecute(withBatch) ==
    /\ Calls /\ handle = "open" /\ NoVar \notin Bound
    /\ withBatch => IsDml
    /\ error' = ErrorSet(call')
    /\ numBatchErrors' = 0 /\ batchOf' = 0
    /\ batch' = withBatch /\ phase' = "executing" /\ executions' = call'
    /\ UNCHANGED <<kind, cache, binds, used>>

\* A value of a bind variable cannot be transferred, or an array is bound for
\* many iterations: nothing is executed.  dpiStmt_execute keeps the batch errors
\* there are, dpiStmt_executeMany does not; the variables before the bad one
\* have the dpiError already.
TransferFails ==
    /\ Calls /\ handle = "open" /\ NoVar \notin Bound
    /\ \E before \in SUBSET Bound : error' = [v \in Var |-> IF v \in before THEN ErrorSet(call')[v] ELSE error[v]]
    /\ \/ UNCHANGED <<numBatchErrors, batchOf>>
       \/ ~IsQuery /\ numBatchErrors' = 0 /\ batchOf' = 0
    /\ UNCHANGED <<kind, cache, binds, phase, batch, executions, used>>

\* OCI calls back for a variable bound piecewise, dpiVar__inBindCallback and
\* dpiVar__outBindCallback, or fetched piecewise, dpiVar__defineCallback:
\* they report into var->error.
Callback(v) ==
    /\ \/ phase \in {"executing", "retrying"} /\ v \in Bound /\ CalledBack(v)
       \/ phase = "fetching" /\ v \in Dynamic
    /\ used' = <<error[v], call>>
    /\ UNCHANGED <<kind, cache, binds, error, call, phase, batchVars, executions>>

Idle == phase' = "idle"

\* MUTANT of Refused: no error makes the statement leave the cache.
RefusedKept ==
    /\ phase \in {"executing", "retrying"} /\ ~stale /\ Idle
    /\ broken' = TRUE /\ unread' = FALSE
    /\ UNCHANGED <<kind, handle, stale, deleteFromCache, cached, binds, error, call, batchVars, executions, used>>

\* The server refuses the statement, not just its data.
Refused ==
    /\ phase \in {"executing", "retrying"} /\ ~stale /\ Idle
    /\ broken' = TRUE /\ unread' = FALSE /\ deleteFromCache' = TRUE
    /\ UNCHANGED <<kind, handle, stale, cached, binds, error, call, batchVars, executions, used>>

\* A constraint is violated or a value does not fit: the statement is good.
DataRefused ==
    /\ phase \in {"executing", "retrying"} /\ ~stale /\ Idle
    /\ UNCHANGED <<kind, cache, binds, error, call, batchVars, executions, used>>

\* ORA-01007 or ORA-00932 once the statement cannot be tried again.
StaleRefused ==
    /\ stale /\ Idle
    /\ phase = "retrying" \/ (phase = "executing" /\ ~IsQuery)
    /\ deleteFromCache' = TRUE /\ broken' = TRUE /\ unread' = FALSE
    /\ UNCHANGED <<kind, handle, stale, cached, binds, error, call, batchVars, executions, used>>

\* MUTANT of ReExecute: the handle is given up before the statement is marked.
ReExecuteUnmarked ==
    /\ phase = "executing" /\ stale /\ IsQuery
    /\ phase' = "retrying" /\ broken' = TRUE /\ unread' = FALSE
    /\ cached' = Released(deleteFromCache, stale)
    /\ stale' = FALSE /\ deleteFromCache' = TRUE
    /\ error' = ErrorSet(call)
    /\ UNCHANGED <<kind, handle, binds, call, batchVars, executions, used>>

\* dpiStmt__reExecute: the SQL is read from the handle and prepared anew before
\* that is given up, out of the cache for good, and executed with the same
\* variables.
ReExecute ==
    /\ phase = "executing" /\ stale /\ IsQuery
    /\ phase' = "retrying" /\ broken' = TRUE /\ unread' = FALSE
    /\ deleteFromCache' = TRUE /\ cached' = Released(deleteFromCache', stale)
    /\ stale' = FALSE
    /\ error' = ErrorSet(call)
    /\ UNCHANGED <<kind, handle, binds, call, batchVars, executions, used>>

\* dpiStmt__reExecute cannot read the SQL, and returns before it has marked the
\* statement as one to delete.
SqlUnread ==
    /\ unread' = ~deleteFromCache
    /\ UNCHANGED <<handle, stale, deleteFromCache, cached>>

\* It cannot give up the handle; or cannot prepare the SQL and has given it up,
\* with stmt->handle still pointing at it: what OCI makes of a dangling handle
\* is not modelled.
NotPrepared ==
    /\ deleteFromCache' = TRUE /\ unread' = FALSE /\ stale' = stale
    /\ \/ handle' = "open" /\ cached' = cached
       \/ handle' = "dangling" /\ cached' = Released(deleteFromCache', stale)

\* It has the new handle, but a variable cannot be bound or transferred again.
NotRebound ==
    /\ deleteFromCache' = TRUE /\ unread' = FALSE /\ handle' = "open"
    /\ cached' = Released(deleteFromCache', stale) /\ stale' = FALSE

\* The second attempt fails before it gets to OCIStmtExecute.
ReExecuteFails ==
    /\ phase = "executing" /\ stale /\ IsQuery /\ Idle
    /\ broken' = TRUE
    /\ SqlUnread \/ NotPrepared \/ NotRebound
    /\ UNCHANGED <<kind, binds, error, call, batchVars, executions, used>>

\* dpiStmt__execute after OCIStmtExecute: values are read back where they may
\* be output, and with that var->error is cleared.
Executed ==
    /\ phase \in {"executing", "retrying"} /\ ~stale /\ ~batch /\ Idle
    /\ error' = IF kind \in {"returning", "plsql"}
                THEN [v \in Var |-> IF v \in Bound THEN 0 ELSE error[v]] ELSE error
    /\ UNCHANGED <<kind, cache, binds, call, batchVars, executions, used>>

\* A value cannot be read back, or a query variable cannot be created: the call
\* fails although the statement was executed.
ExecutedFails ==
    /\ phase \in {"executing", "retrying"} /\ ~stale /\ Idle /\ kind /= "dml"
    /\ \E before \in SUBSET Bound :
          error' = IF IsQuery THEN error ELSE [v \in Var |-> IF v \in before THEN 0 ELSE error[v]]
    /\ UNCHANGED <<kind, cache, binds, call, batchVars, executions, used>>

\* dpiStmt__getBatchErrors: memory and two OCI error handles are allocated,
\* then the n errors are read; when any of that fails none is kept.
BatchErrors(n, fails) ==
    /\ phase = "executing" /\ ~stale /\ batch /\ Idle
    /\ error' = [v \in Var |-> IF v \in Bound /\ kind = "returning" THEN 0 ELSE error[v]]
    /\ IF fails THEN numBatchErrors' = 0 /\ batchOf' = 0
       ELSE numBatchErrors' = n /\ batchOf' = call
    /\ UNCHANGED <<kind, cache, binds, call, batch, executions, used>>

\* dpiStmt__fetch: the defined variables get the dpiError of the call.
StartFetch ==
    /\ Calls /\ handle = "open" /\ IsQuery /\ executions > 0
    /\ error' = [v \in Var |-> IF v \in Dynamic THEN call' ELSE error[v]] /\ phase' = "fetching"
    /\ UNCHANGED <<kind, cache, binds, batchVars, executions, used>>

\* dpiStmt__postFetch clears it, an error before does not.
EndFetch(ok) ==
    /\ phase = "fetching" /\ Idle
    /\ error' = IF ok THEN [v \in Var |-> IF v \in Dynamic THEN 0 ELSE error[v]] ELSE error
    /\ UNCHANGED <<kind, cache, binds, call, batchVars, executions, used>>

\* dpiStmt__close: OCIStmtRelease returns the statement to the cache, or has
\* it deleted.
Close ==
    /\ Calls /\ handle = "open"
    /\ handle' = "none" /\ cached' = Released(deleteFromCache, stale)
    /\ binds' = [n \in {} |-> NoVar] /\ numBatchErrors' = 0 /\ batchOf' = 0
    /\ UNCHANGED <<kind, stale, deleteFromCache, broken, unread, error, phase, batch, executions, used>>

ExecNext ==
    \/ ColumnDropped \/ PrepareStmt \/ Close
    \/ \E n \in Name, v \in Var : BindVar(n, v)
    \/ \E withBatch \in BOOLEAN : StartExecute(withBatch)
    \/ \E v \in Var : Callback(v)
    \/ TransferFails \/ Refused \/ DataRefused \/ StaleRefused \/ ReExecute \/ ReExecuteFails
    \/ Executed \/ ExecutedFails
    \/ \E n \in 0..MaxErrors, fails \in BOOLEAN : BatchErrors(n, fails)
    \/ StartFetch \/ \E ok \in BOOLEAN : EndFetch(ok)

ExecSpec == ExecInit /\ [][ExecNext]_execVars

---------------------------------------------------------------------------
ExecTypeOK ==
    /\ kind \in Kinds /\ handle \in {"none", "open", "dangling"} /\ cached \in {"none", "good", "stale"}
    /\ phase \in {"idle", "executing", "retrying", "fetching"}
    /\ DOMAIN binds \subseteq Name /\ Bound \subseteq Var \union {NoVar}
    /\ error \in [Var -> 0..call] /\ executions \in 0..call /\ numBatchErrors \in 0..MaxErrors

\* A callback reports into the dpiError of the call that is under way, never
\* into that of an earlier one, whose stack frame is gone: although var->error
\* is left pointing there when an execution or a fetch fails, and after every
\* query, it is set again before OCI can call back.
CallbackErrorIsCurrent == used[1] = used[2]

\* A statement the server has refused for good, and one whose metadata turned
\* out to be stale, is not in the statement cache and never returns to it,
\* neither with good nor with stale metadata, whatever succeeded in between and
\* wherever the second attempt failed.  The one exception is named: the SQL of
\* a query with stale metadata could not be read (unread).  The code returns
\* before it has marked the statement then, and closing it does give it back.
CacheIsSound == broken /\ ~unread => cached = "none"

\* The batch errors that can be asked for are all of the last execution, also
\* when that one failed or reading its errors did.
BatchErrorsAreOfLast ==
    numBatchErrors > 0 => batchOf = executions

\* The two together: errors are kept in places that outlive the call they belong
\* to, and are those of no other.
ErrorsAreCurrent == CallbackErrorIsCurrent /\ BatchErrorsAreOfLast

=============================================================================
