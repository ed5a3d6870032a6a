---------------------------- MODULE QueryPipeline ----------------------------
(***************************************************************************)
(* Oracle.Statement, Oracle.Internal.Decode and Oracle.Query: an operation *)
(* of the query API, a sequence of calls into support/extra.c any of which *)
(* may fail.  Of what earlier operations did only g_last_error is left.    *)
(*                                                                         *)
(* A failing call returns an error code or a NULL, and leaves its error in *)
(* the one cell g_last_error, from where getLastError fetches it.  The     *)
(* failures of an operation are numbered, and so are their errors; Earlier *)
(* is that of an earlier operation, and MadeUp any error that the library  *)
(* makes up itself, with code -1.                                          *)
(*                                                                         *)
(* The server answers a query with rows of the same width.  Of a cell only *)
(* its kind matters: NULL, a value copied out of the row buffer (text), a  *)
(* CLOB, a BLOB, or a type the library does not decode (odd).  `nothing`   *)
(* is what a NULL string from a failed read becomes.                       *)
(***************************************************************************)
EXTENDS Integers, Sequences, FiniteSets, SequencesExt

CONSTANTS
    Ops,        \* the operations the caller uses
    Cells,      \* the kinds of cells the server returns
    MaxCols, MaxRows,   \* bounds: the size of a result set
    Params,     \* number of bind parameters
    MayFail     \* the calls that may fail

ASSUME OpsAssumption ==
    Ops \subseteq {"queryRaw", "query_", "queryOne", "queryExactlyOne", "queryJSON", "queryJSONList", "execute_"}
ASSUME CellAssumption == Cells \subseteq {"null", "text", "clob", "blob", "odd"}
ASSUME BoundAssumption == {MaxCols, MaxRows, Params} \subseteq Nat
ASSUME CallAssumption ==
    MayFail \subseteq {"prepare", "bind", "execute", "fetch", "count", "info", "value", "clob", "size", "read"}

VARIABLES
    pc,         \* the call to come, or idle, or release and answer
    op,         \* the operation
    server,     \* the rows the server has for it
    at,         \* the parameter or the column reached
    acc,        \* the rows fetched, the last one first
    cells,      \* the cells of the current row, the last one first
    outcome,    \* what the action inside withStatement returned
    answer,     \* what the operation returned
    held,       \* the statement is prepared and not released
    lastError,  \* g_last_error
    failures,   \* failing calls of this operation
    unseen      \* those whose result nobody looked at

control == <<op, server, answer>>
errors == <<lastError, failures, unseen>>
vars == <<pc, control, at, acc, cells, outcome, held, errors>>

Left(e) == [right |-> FALSE, error |-> e, rows |-> <<>>]
Right(rows) == [right |-> TRUE, error |-> 0, rows |-> rows]
NoAnswer == Left(0)
MadeUp == -1
Earlier == -2

Results == UNION {BoundedSeq([1..n -> Cells], MaxRows) : n \in 1..MaxCols}

Init ==
    /\ pc = "idle" /\ op = "none" /\ server = <<>> /\ at = 0 /\ acc = <<>> /\ cells = <<>>
    /\ outcome = NoAnswer /\ answer = NoAnswer /\ held = FALSE
    /\ lastError \in {0, Earlier} /\ failures = 0 /\ unseen = 0

Start ==
    /\ pc = "idle" /\ op = "none" /\ pc' = "prepare"
    /\ op' \in Ops /\ server' \in (IF op' = "execute_" THEN {<<>>} ELSE Results)
    /\ UNCHANGED <<answer, at, acc, cells, outcome, held, errors>>

\* The calls whose result is not looked at.
Unchecked == {"count", "clob", "read"}

\* A call that succeeds, and one that fails and captures its error.
Succeeds == UNCHANGED errors
Fails(call) ==
    /\ call \in MayFail
    /\ failures' = failures + 1 /\ lastError' = failures'
    /\ unseen' = IF call \in Unchecked THEN unseen + 1 ELSE unseen

\* The action inside withStatement is over: the statement is released.
Leave(o) == outcome' = o /\ pc' = "release"

---------------------------------------------------------------------------
\* prepare, inside the acquire of withStatement's bracket.
Prepare ==
    /\ pc = "prepare"
    /\ \/ Succeeds /\ held' = TRUE /\ at' = 1 /\ pc' = (IF Params = 0 THEN "execute" ELSE "bind")
          /\ UNCHANGED outcome
       \/ Fails("prepare") /\ outcome' = Left(lastError') /\ pc' = "answer"
          /\ UNCHANGED <<held, at>>
    /\ UNCHANGED <<control, acc, cells>>

\* bind: the parameters one by one, up to the first that fails.
Bind ==
    /\ pc = "bind"
    /\ \/ Succeeds /\ at' = at + 1 /\ pc' = (IF at = Params THEN "execute" ELSE "bind")
          /\ UNCHANGED outcome
       \/ Fails("bind") /\ Leave(Left(lastError')) /\ UNCHANGED at
    /\ UNCHANGED <<control, acc, cells, held>>

Execute ==
    /\ pc = "execute"
    /\ \/ Succeeds /\ op = "execute_" /\ Leave(Right(<<>>))
       \/ Succeeds /\ op /= "execute_" /\ pc' = "fetch" /\ UNCHANGED outcome
       \/ Fails("execute") /\ Leave(Left(lastError'))
    /\ UNCHANGED <<control, at, acc, cells, held>>

\* MUTANT of Fetch: the accumulated rows are returned as they are.
FetchReversed ==
    /\ pc = "fetch"
    /\ \/ Succeeds /\ Len(acc) < Len(server) /\ pc' = "count" /\ UNCHANGED outcome
       \/ Succeeds /\ Len(acc) = Len(server) /\ Leave(Right(acc))
       \/ Fails("fetch") /\ Leave(Left(lastError'))
    /\ UNCHANGED <<control, at, acc, cells, held>>

\* MUTANT of Fetch: an error is taken for the end of the rows.
FetchStops ==
    /\ pc = "fetch"
    /\ \/ Succeeds /\ Len(acc) < Len(server) /\ pc' = "count" /\ UNCHANGED outcome
       \/ Succeeds /\ Len(acc) = Len(server) /\ Leave(Right(Reverse(acc)))
       \/ Fails("fetch") /\ Leave(Right(Reverse(acc)))
    /\ UNCHANGED <<control, at, acc, cells, held>>

\* fetchRaw: another row, no more rows, or an error.
Fetch ==
    /\ pc = "fetch"
    /\ \/ Succeeds /\ Len(acc) < Len(server) /\ pc' = "count" /\ UNCHANGED outcome
       \/ Succeeds /\ Len(acc) = Len(server) /\ Leave(Right(Reverse(acc)))
       \/ Fails("fetch") /\ Leave(Left(lastError'))
    /\ UNCHANGED <<control, at, acc, cells, held>>

\* The number of columns of the row; a failure is the count -1, after which
\* fetchRow's loop ends before the first column.
ColumnCount ==
    /\ pc = "count"
    /\ \/ Succeeds /\ cells' = <<>> /\ at' = 1 /\ pc' = "info" /\ UNCHANGED acc
       \/ Fails("count") /\ acc' = <<<<>>>> \o acc /\ pc' = "fetch" /\ UNCHANGED <<at, cells>>
    /\ UNCHANGED <<control, outcome, held>>

Row == server[Len(acc) + 1]

\* The cell of column `at` has been decoded.
Decoded(cell) ==
    IF at < Len(Row)
    THEN /\ cells' = <<cell>> \o cells /\ at' = at + 1 /\ pc' = "info"
         /\ UNCHANGED <<acc, outcome>>
    ELSE /\ acc' = <<Reverse(<<cell>> \o cells)>> \o acc /\ cells' = <<>> /\ pc' = "fetch"
         /\ UNCHANGED <<at, outcome>>

\* fetchRow ends with the error of a column.
ColumnFails(e) == Leave(Left(e)) /\ UNCHANGED <<at, acc, cells>>

\* decodeColumn: the metadata of the column (getColumnInfo).
ColumnInfo ==
    /\ pc = "info"
    /\ \/ Succeeds /\ pc' = "value" /\ UNCHANGED <<at, acc, cells, outcome>>
       \/ Fails("info") /\ ColumnFails(lastError')
    /\ UNCHANGED <<control, held>>

\* MUTANT of ColumnValue: the error is fetched before the failing call.
ColumnValueStale ==
    /\ pc = "value"
    /\ \/ Succeeds /\ Row[at] \in {"null", "text"} /\ Decoded(Row[at])
       \/ Succeeds /\ Row[at] = "odd" /\ ColumnFails(MadeUp)
       \/ Succeeds /\ Row[at] = "clob" /\ pc' = "clob" /\ UNCHANGED <<at, acc, cells, outcome>>
       \/ Succeeds /\ Row[at] = "blob" /\ pc' = "size" /\ UNCHANGED <<at, acc, cells, outcome>>
       \/ Fails("value") /\ ColumnFails(lastError)
    /\ UNCHANGED <<control, held>>

\* MUTANT of ColumnValue: the error of a type the library does not decode is
\* asked for instead of made up.
ColumnValueAsks ==
    /\ pc = "value"
    /\ \/ Succeeds /\ Row[at] \in {"null", "text"} /\ Decoded(Row[at])
       \/ Succeeds /\ Row[at] = "odd" /\ ColumnFails(lastError)
       \/ Succeeds /\ Row[at] = "clob" /\ pc' = "clob" /\ UNCHANGED <<at, acc, cells, outcome>>
       \/ Succeeds /\ Row[at] = "blob" /\ pc' = "size" /\ UNCHANGED <<at, acc, cells, outcome>>
       \/ Fails("value") /\ ColumnFails(lastError')
    /\ UNCHANGED <<control, held>>

\* decodeColumn: the value, as far as it is in the row buffer.
ColumnValue ==
    /\ pc = "value"
    /\ \/ Succeeds /\ Row[at] \in {"null", "text"} /\ Decoded(Row[at])
       \/ Succeeds /\ Row[at] = "odd" /\ ColumnFails(MadeUp)
       \/ Succeeds /\ Row[at] = "clob" /\ pc' = "clob" /\ UNCHANGED <<at, acc, cells, outcome>>
       \/ Succeeds /\ Row[at] = "blob" /\ pc' = "size" /\ UNCHANGED <<at, acc, cells, outcome>>
       \/ Fails("value") /\ ColumnFails(lastError')
    /\ UNCHANGED <<control, held>>

\* A CLOB is read in one call, whose NULL is not looked at.
ClobRead ==
    /\ pc = "clob"
    /\ \/ Succeeds /\ Decoded("clob")
       \/ Fails("clob") /\ Decoded("nothing")
    /\ UNCHANGED <<control, held>>

\* The size of a BLOB; a negative one is an error.
BlobSize ==
    /\ pc = "size"
    /\ \/ Succeeds /\ pc' = "read" /\ UNCHANGED <<at, acc, cells, outcome>>
       \/ Fails("size") /\ ColumnFails(lastError')
    /\ UNCHANGED <<control, held>>

\* The bytes of a BLOB, whose NULL is not looked at.
BlobRead ==
    /\ pc = "read"
    /\ \/ Succeeds /\ Decoded("blob")
       \/ Fails("read") /\ Decoded("nothing")
    /\ UNCHANGED <<control, held>>

\* MUTANT of Release: the cleanup only runs when the action succeeded.
ReleaseOnSuccess ==
    /\ pc = "release"
    /\ held' = (held /\ ~outcome.right) /\ pc' = "answer"
    /\ UNCHANGED <<control, at, acc, cells, outcome, errors>>

\* The cleanup of withStatement's bracket.
Release ==
    /\ pc = "release"
    /\ held' = FALSE /\ pc' = "answer"
    /\ UNCHANGED <<control, at, acc, cells, outcome, errors>>

---------------------------------------------------------------------------
\* What the operations make of the outcome.

\* The caller's FromRow instance: it wants a value in every column.
FromRow(row) == row /= <<>> /\ \A i \in DOMAIN row : row[i] \in {"text", "clob", "blob", "nothing"}

\* decodeRows: every row, or the error of the first that is rejected.
decodeRows(o) ==
    IF o.right /\ \E i \in DOMAIN o.rows : ~FromRow(o.rows[i]) THEN Left(MadeUp) ELSE o

\* queryOne keeps the first of the decoded rows.
queryOne(o) ==
    LET decoded == decodeRows(o) IN
    IF decoded.right /\ decoded.rows /= <<>> THEN Right(<<Head(decoded.rows)>>) ELSE decoded

\* MUTANT of queryExactlyOne: more than one row is not noticed.
queryAtLeastOne(o) ==
    LET decoded == decodeRows(o) IN
    IF decoded.right /\ Len(decoded.rows) = 0 THEN Left(MadeUp) ELSE queryOne(o)

queryExactlyOne(o) ==
    LET decoded == decodeRows(o) IN
    IF decoded.right /\ Len(decoded.rows) /= 1 THEN Left(MadeUp) ELSE decoded

\* A JSON document is one CLOB that is not NULL, alone in its row; a CLOB
\* whose read failed is an OracleClob too.
IsDocument(row) == Len(row) = 1 /\ row[1] \in {"clob", "nothing"}

queryJSON(o) ==
    IF o.right /\ ~(Len(o.rows) = 1 /\ IsDocument(o.rows[1])) THEN Left(MadeUp) ELSE o

queryJSONList(o) ==
    IF o.right /\ \E i \in DOMAIN o.rows : ~IsDocument(o.rows[i]) THEN Left(MadeUp) ELSE o

Answer ==
    /\ pc = "answer" /\ pc' = "idle"
    /\ answer' = CASE op = "query_" -> decodeRows(outcome)
                   [] op = "queryOne" -> queryOne(outcome)
                   [] op = "queryExactlyOne" -> queryExactlyOne(outcome)
                   [] op = "queryJSON" -> queryJSON(outcome)
                   [] op = "queryJSONList" -> queryJSONList(outcome)
                   [] OTHER -> outcome
    /\ UNCHANGED <<op, server, at, acc, cells, outcome, held, errors>>

Next ==
    \/ Start \/ Prepare \/ Bind \/ Execute \/ Fetch \/ ColumnCount \/ ColumnInfo \/ ColumnValue
    \/ ClobRead \/ BlobSize \/ BlobRead \/ Release \/ Answer

Spec == Init /\ [][Next]_vars

---------------------------------------------------------------------------
\* Types, and the bracket: a statement is held from a successful prepare
\* until its release, whatever happened in between, and never when the
\* caller gets its answer.
TypeOK ==
    /\ op \in Ops \union {"none"} /\ Len(server) <= MaxRows
    /\ at \in 0..(Params + MaxCols + 1) /\ Len(acc) <= Len(server)
    /\ unseen <= failures /\ lastError \in {Earlier, 0, failures}
    /\ held <=> pc \notin {"idle", "prepare", "answer"}

Returned == pc = "idle" /\ op /= "none"

\* What the operation promises when it says Right: all the rows of the server
\* in their order (the first of them for queryOne), each as the caller or
\* the operation requires it.  (Where no failure went unseen.)
Promised == IF op = "queryOne" /\ server /= <<>> THEN <<Head(server)>> ELSE server
Wanted(row) ==
    /\ op \in {"query_", "queryOne", "queryExactlyOne"} => FromRow(row)
    /\ op \in {"queryJSON", "queryJSONList"} => row = <<"clob">>
RightIsWhole ==
    Returned /\ answer.right /\ unseen = 0 =>
        /\ answer.rows = Promised
        /\ \A i \in DOMAIN answer.rows : Wanted(answer.rows[i])
        /\ op \in {"queryExactlyOne", "queryJSON"} => Len(server) = 1

\* An operation in which a call failed whose result is looked at returns Left,
\* with the error of that call: not that of an earlier operation, and not that
\* of a failure before it that went unseen.
CheckedIsReported ==
    Returned /\ failures > unseen => answer = Left(failures)

\* An operation in which no such call failed never returns the error of
\* another call, also not one that an unseen failure has left in g_last_error:
\* what it returns is an error of its own making.
LeftIsOwn == Returned /\ ~answer.right /\ failures = unseen => answer.error = MadeUp

\* No failing call goes unreported: an operation in which one failed returns
\* Left ("Left OracleError on failure", "the Oracle error is propagated").
FailureIsReported == Returned /\ failures > 0 => ~answer.right

=============================================================================
