----------------------------- MODULE StmtCursor -----------------------------
(***************************************************************************)
(* The row buffer of a query statement (support/dpiStmt.c): rows arrive in *)
(* blocks of at most fetchArraySize in the arrays of the query variables   *)
(* and are served from there one by one, in runs, or after a scroll.  One  *)
(* query variable stands for all of them.  A row is <<execution, number>>. *)
(*                                                                         *)
(* Outside src/ are the server's cursor and what OCIStmtFetch2 returns; the*)
(* position is the number of the last row fetched, as dpiStmt_scroll       *)
(* assumes.  Attributes of a valid handle can always be read.              *)
(***************************************************************************)
EXTENDS Integers, Sequences

CONSTANTS
    MaxResult,        \* rows of a result set (a bound)
    MaxExecutions,  \* executions of the statement (a bound)
    MaxSize         \* fetchArraySize and the arrays are 1..MaxSize (a bound)

ASSUME CursorAssumption == {MaxResult, MaxExecutions, MaxSize} \subseteq Nat

VARIABLES
    execution, result,  \* the execution and its number of rows
    position,           \* the server's cursor
    fetchArraySize,
    space,              \* maxArraySize of the query variable, 0 if none
    content,            \* its externalData
    filled,             \* the execution whose rows were fetched last
    bufferRowIndex, bufferRowCount, bufferMinRow, rowCount, hasRowsToFetch,
    served,             \* rows handed out by the last call
    due,                \* number of the row the next fetch must serve
    quirks              \* what made the buffer or the position unreliable

statement == <<fetchArraySize, space, bufferRowIndex, bufferRowCount, bufferMinRow,
               rowCount, hasRowsToFetch>>
cursorVars == <<execution, result, position, statement, content, filled, served, due, quirks>>

NoRow == <<0, 0>>
Size == 1..MaxSize
Empty == [k \in Size |-> NoRow]
Least(a, b) == IF a < b THEN a ELSE b

CursorInit ==
    /\ execution = 0 /\ result = 0 /\ position = 0
    /\ fetchArraySize \in Size /\ space = 0 /\ content = Empty /\ filled = 0
    /\ bufferRowIndex = 0 /\ bufferRowCount = 0 /\ bufferMinRow = 0 /\ rowCount = 0
    /\ hasRowsToFetch = TRUE
    /\ served = <<>> /\ due = 1 /\ quirks = {}

Buffered == bufferRowIndex < bufferRowCount

\* After these rowCount and the server's cursor no longer tell which row is
\* due, and nothing is promised of the next rows (due is 0 then).
Strayed == quirks \intersect {"shrunk", "early", "prior", "outside", "last"}
DueIs(row) == due' = IF Strayed' = {} THEN row ELSE 0

\* MUTANT of ExecuteQuery: the buffer is not marked as consumed.
ExecuteKeepingBuffer(n) ==
    /\ execution < MaxExecutions
    /\ execution' = execution + 1 /\ result' = n /\ position' = 0
    /\ rowCount' = 0 /\ hasRowsToFetch' = TRUE
    /\ served' = <<>> /\ quirks' = quirks \intersect {"redefined"} /\ DueIs(1)
    /\ UNCHANGED <<fetchArraySize, space, content, filled, bufferRowIndex, bufferRowCount,
                   bufferMinRow>>

\* dpiStmt__execute of a query, then dpiStmt__createQueryVars: the buffer is
\* made to look consumed by an index equal to the array size, and nothing
\* else of it is reset.  A buffer larger than that size still has rows.
ExecuteQuery(n) ==
    /\ execution < MaxExecutions
    /\ execution' = execution + 1 /\ result' = n /\ position' = 0
    /\ rowCount' = 0 /\ hasRowsToFetch' = TRUE /\ bufferRowIndex' = fetchArraySize
    /\ served' = <<>>
    /\ quirks' = (quirks \intersect {"redefined"})
          \union (IF bufferRowCount > fetchArraySize THEN {"shrunk"} ELSE {})
    /\ DueIs(1)
    /\ UNCHANGED <<fetchArraySize, space, content, filled, bufferRowCount, bufferMinRow>>

\* dpiStmt_define and dpiStmt_defineValue: another variable takes the column.
Define(size) ==
    /\ execution > 0
    /\ space' = size /\ content' = Empty
    /\ served' = <<>>
    /\ quirks' = IF bufferRowCount > 0 THEN quirks \union {"redefined"} ELSE quirks
    /\ UNCHANGED <<execution, result, position, fetchArraySize, filled, bufferRowIndex,
                   bufferRowCount, bufferMinRow, rowCount, hasRowsToFetch, due>>

\* dpiStmt_setFetchArraySize; a size the variable has no space for is refused.
SetFetchArraySize(size) ==
    /\ space = 0 \/ space >= size
    /\ fetchArraySize' = size /\ served' = <<>>
    /\ UNCHANGED <<execution, result, position, space, content, filled, bufferRowIndex,
                   bufferRowCount, bufferMinRow, rowCount, hasRowsToFetch, due, quirks>>

---------------------------------------------------------------------------
\* Filling the buffer.

\* OCIStmtFetch2 of n rows from the row the mode and the offset name.
Target(mode, offset) ==
    CASE mode = "next"     -> position + 1
      [] mode = "prior"    -> position - 1
      [] mode = "first"    -> 1
      [] mode = "last"     -> result
      [] mode = "absolute" -> offset
      [] mode = "relative" -> position + offset
Fetched(first, n) == IF first \in 1..result THEN Least(n, result - first + 1) ELSE 0

\* MUTANT of BeforeFetch: the arrays are not compared with the array size.
BeforeFetchUnchecked(old) ==
    /\ execution > 0
    /\ space' = IF space = 0 THEN fetchArraySize ELSE space
    /\ old = IF space = 0 THEN Empty ELSE content

\* dpiStmt__beforeFetch: the variable is created when there is none; one
\* defined before must hold the rows asked for.
BeforeFetch(old) ==
    /\ execution > 0
    /\ space = 0 \/ fetchArraySize <= space
    /\ space' = IF space = 0 THEN fetchArraySize ELSE space
    /\ old = IF space = 0 THEN Empty ELSE content

\* dpiStmt__postFetch: rows 1..done of those fetched are converted.
PostFetch(old, first, done) ==
    content' = [k \in Size |-> IF k <= done THEN <<execution, first + k - 1>> ELSE old[k]]

\* dpiOci__stmtFetch2 and dpiStmt__postFetch of count rows from first on; a
\* conversion that fails leaves the rows behind it as they were.  What led the
\* position astray stays (kept).
Refilled(old, first, count, kept) ==
    /\ position' = IF count = 0 THEN position ELSE first + count - 1
    /\ bufferRowCount' = count /\ filled' = execution
    /\ \/ PostFetch(old, first, count) /\ quirks' = kept
       \/ \E done \in 0..(count - 1) :
             PostFetch(old, first, done) /\ quirks' = kept \union {"conversion"}

MustRefill == ~Buffered /\ hasRowsToFetch

\* MUTANT of Refill: the number of the first row is not moved on.
RefillKeepingMinRow ==
    \E old \in {content, Empty} : LET first == position + 1
                                      count == Fetched(first, fetchArraySize) IN
    /\ MustRefill /\ BeforeFetch(old) /\ Refilled(old, first, count, Strayed)
    /\ hasRowsToFetch' = (count = fetchArraySize)
    /\ bufferRowIndex' = 0
    /\ UNCHANGED <<execution, result, fetchArraySize, bufferMinRow, rowCount, due>>

\* dpiStmt__fetch.
Refill ==
    \E old \in {content, Empty} : LET first == position + 1
                                      count == Fetched(first, fetchArraySize) IN
    /\ MustRefill /\ BeforeFetch(old) /\ Refilled(old, first, count, Strayed)
    /\ hasRowsToFetch' = (count = fetchArraySize)
    /\ bufferMinRow' = rowCount + 1 /\ bufferRowIndex' = 0
    /\ UNCHANGED <<execution, result, fetchArraySize, rowCount, due>>

\* dpiStmt_fetch and dpiStmt_fetchRows first fill an empty buffer; the caller
\* gets an error when a conversion fails, and the rows at its next call.
RefillFirst == Refill /\ served' = <<>>

\* OCIStmtFetch2 fails, in a fetch or a scroll to any row but the last: an
\* error before anything is set but the variable that was missing.
FetchFails ==
    \E old \in {content, Empty} :
        /\ BeforeFetch(old) /\ content' = old
        /\ served' = <<>>
        /\ UNCHANGED <<execution, result, position, fetchArraySize, filled, bufferRowIndex,
                       bufferRowCount, bufferMinRow, rowCount, hasRowsToFetch, due, quirks>>

\* dpiStmt_fetch (most = 1) and dpiStmt_fetchRows: the next rows of the
\* buffer, not more than the caller asked for.
Serve(most) ==
    LET n == Least(most, bufferRowCount - bufferRowIndex) IN
    /\ Buffered
    /\ served' = [i \in 1..n |-> IF bufferRowIndex + i \in Size
                                 THEN content[bufferRowIndex + i] ELSE NoRow]
    /\ bufferRowIndex' = bufferRowIndex + n /\ rowCount' = rowCount + n
    /\ UNCHANGED <<execution, result, position, fetchArraySize, space, content, filled,
                   bufferRowCount, bufferMinRow, hasRowsToFetch, quirks>>
    /\ DueIs(due + n)

\* No row is buffered and none is left.
ServeNothing ==
    /\ ~Buffered /\ ~hasRowsToFetch
    /\ served' = <<>>
    /\ UNCHANGED <<execution, result, position, statement, content, filled, due, quirks>>

---------------------------------------------------------------------------
\* Scrolling.  Early: the buffer is that of an execution before, or empty, and
\* does not tell where the server's cursor is.

Mode == {"next", "prior", "first", "last", "absolute", "relative"}
Early == bufferRowCount = 0 \/ filled /= execution

\* The row a scroll promises, counted from the one that is due.
AskedFor(mode, offset) ==
    CASE mode = "next"     -> due
      [] mode = "prior"    -> due - 2
      [] mode = "first"    -> 1
      [] mode = "last"     -> result
      [] mode = "absolute" -> offset
      [] mode = "relative" -> due - 1 + offset

\* The row dpiStmt_scroll wants.
Desired(mode, offset) ==
    CASE mode = "next"     -> rowCount + 1
      [] mode = "prior"    -> rowCount - 1
      [] mode = "first"    -> 1
      [] mode = "last"     -> result
      [] mode = "absolute" -> offset
      [] mode = "relative" -> rowCount + offset

\* MUTANT of OciOffset: the offset is not made relative to the buffer's end.
OciOffsetFromRow(mode, offset) == offset

\* The offset handed to OCI, which counts from the end of the buffer.
OciOffset(mode, offset) ==
    IF mode = "relative"
    THEN rowCount + offset - (bufferMinRow + bufferRowCount - 1) ELSE offset

InBuffer(row) == row >= bufferMinRow /\ row < bufferMinRow + bufferRowCount

\* The row is in the buffer: the index is moved.
ScrollInBuffer(mode, offset) ==
    LET row == Desired(mode, offset) IN
    /\ execution > 0 /\ mode /= "last" /\ InBuffer(row)
    /\ bufferRowIndex' = row - bufferMinRow /\ rowCount' = row - 1
    /\ served' = <<>>
    /\ quirks' = IF Early THEN quirks \union {"early"} ELSE quirks
    /\ DueIs(AskedFor(mode, offset))
    /\ UNCHANGED <<execution, result, position, fetchArraySize, space, content, filled,
                   bufferRowCount, bufferMinRow, hasRowsToFetch>>

\* A mode that names its row by a number finds it from wherever the cursor is.
Numbered(mode) == mode \in {"first", "last", "absolute"}

\* The other modes count from the server's cursor, which is at the end of the
\* buffer: "prior" goes back from there and not from the row served last, and
\* the offset of "relative" is wrong where the buffer does not tell its end.
LedAstray(mode) ==
    IF Numbered(mode) THEN {}
    ELSE Strayed \union (IF mode = "prior" /\ Buffered THEN {"prior"} ELSE {})
                 \union (IF mode = "relative" /\ Early THEN {"early"} ELSE {})

\* The row is fetched, with those after it, and the position is asked of OCI.
ScrollFetch(mode, offset) ==
    LET first == Target(mode, OciOffset(mode, offset))
        asked == IF mode = "last" THEN 1 ELSE fetchArraySize
        count == Fetched(first, asked) IN
    \E old \in {content, Empty} :
        /\ execution > 0 /\ (mode = "last" \/ ~InBuffer(Desired(mode, offset)))
        /\ count > 0
        /\ BeforeFetch(old) /\ Refilled(old, first, count, LedAstray(mode))
        /\ hasRowsToFetch' = (mode /= "last" /\ count = asked)
        /\ rowCount' = first - 1 /\ bufferMinRow' = first /\ bufferRowIndex' = 0
        /\ served' = <<>> /\ DueIs(AskedFor(mode, offset))
        /\ UNCHANGED <<execution, result, fetchArraySize>>

\* Outside the result set: an error, unless the result set is empty.  Rows that
\* were buffered are gone, and the server's cursor stays behind them.
ScrollOutside(mode, offset) ==
    LET reset == mode \in {"first", "last"} IN
    \E old \in {content, Empty} :
        /\ execution > 0 /\ (mode = "last" \/ ~InBuffer(Desired(mode, offset)))
        /\ Fetched(Target(mode, OciOffset(mode, offset)), 1) = 0
        /\ BeforeFetch(old) /\ content' = old
        /\ bufferRowCount' = 0 /\ hasRowsToFetch' = FALSE
        /\ rowCount' = IF reset THEN 0 ELSE rowCount
        /\ bufferRowIndex' = IF reset THEN 0 ELSE bufferRowIndex
        /\ bufferMinRow' = IF reset THEN 0 ELSE bufferMinRow
        /\ served' = <<>>
        /\ quirks' = IF Buffered /\ ~reset THEN quirks \union {"outside"} ELSE quirks
        /\ DueIs(IF reset THEN 1 ELSE due)
        /\ UNCHANGED <<execution, result, position, fetchArraySize, filled>>

\* A fetch of the last row that fails: dpiOci__stmtFetch2 does not look at the
\* status, no row was fetched, and the scroll reports an empty result set.
ScrollLastFails ==
    \E old \in {content, Empty} :
        /\ BeforeFetch(old) /\ content' = old
        /\ bufferRowCount' = 0 /\ hasRowsToFetch' = FALSE
        /\ rowCount' = 0 /\ bufferRowIndex' = 0 /\ bufferMinRow' = 0
        /\ served' = <<>>
        /\ quirks' = quirks \union {"last"} /\ DueIs(AskedFor("last", 0))
        /\ UNCHANGED <<execution, result, position, fetchArraySize, filled>>

---------------------------------------------------------------------------
CursorNext ==
    \/ \E n \in 0..MaxResult : ExecuteQuery(n)
    \/ \E size \in Size : Define(size) \/ SetFetchArraySize(size)
    \/ RefillFirst \/ FetchFails \/ ServeNothing \/ ScrollLastFails
    \/ \E most \in Size : Serve(most)
    \/ \E mode \in Mode, offset \in -2..MaxResult :
          /\ mode \in {"absolute", "relative"} \/ offset = 0
          /\ \/ ScrollInBuffer(mode, offset) \/ ScrollFetch(mode, offset)
             \/ ScrollOutside(mode, offset)

CursorSpec == CursorInit /\ [][CursorNext]_cursorVars

---------------------------------------------------------------------------
\* dpiStmt_getQueryValue hands out externalData[bufferRowIndex - 1] when it
\* finds a row fetched.
ValueReadable == space > 0 /\ bufferRowIndex /= 0 /\ bufferRowIndex <= bufferRowCount

CursorTypeOK ==
    /\ execution \in 0..MaxExecutions /\ result \in 0..MaxResult /\ position \in 0..MaxResult
    /\ fetchArraySize \in Size /\ space \in 0..MaxSize
    /\ content \in [Size -> (0..MaxExecutions) \X (0..MaxResult)] /\ filled \in 0..MaxExecutions
    /\ bufferRowIndex \in Nat /\ bufferRowCount \in 0..MaxResult /\ bufferMinRow \in Nat
    /\ rowCount \in Nat /\ hasRowsToFetch \in BOOLEAN
    /\ quirks \subseteq {"shrunk", "redefined", "conversion", "early", "prior", "outside", "last"}

\* The rows fetch and fetchRows hand out are those of the current execution
\* that are due, after a scroll from the row it was asked for: the row
\* numbers, the index into the buffer and the server's position never drift
\* apart over executions, refills, resizings and scrolls.
\* What is due is counted from the rows handed out and from what a scroll was
\* asked for, never from where the statement thinks it is.
\* Seven exceptions are named, and each is a case in which the code goes wrong.
\* Two spoil rows of the buffer until it is filled again: a variable redefined
\* under buffered rows (redefined), a conversion that failed (conversion).
\* Five lead the position astray until a scroll names a row by its number or
\* the statement is executed again: an array size made smaller than the buffer
\* before executing again (shrunk), a relative scroll that must fetch, or any
\* scroll that hits the rows of the execution before, while nothing of this
\* execution is buffered (early), a scroll to the prior row that must fetch
\* while rows are buffered (prior), a scroll outside the result set while rows
\* are buffered (outside), and a fetch of the last row that failed (last).
ServedAreDue ==
    quirks = {} =>
        \A i \in DOMAIN served : served[i] = <<execution, due - Len(served) + i - 1>>

\* Rows never arrive beyond the end of the arrays they are fetched into,
\* whatever was defined and resized in between, and a value read after a
\* fetch lies inside its array, too.
RowsFit ==
    "redefined" \notin quirks =>
        bufferRowCount <= space /\ (ValueReadable => bufferRowIndex <= space)

\* Every row a call hands out is the one that is due, and every row that is
\* fetched or read has its place in the arrays, in whatever order a program
\* fetches, scrolls, resizes and executes again.
RowsAreRight == ServedAreDue /\ RowsFit

=============================================================================
