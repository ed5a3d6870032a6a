---------------------------- MODULE StatementProofs ----------------------------
(***************************************************************************)
(* Theorems about StmtCursor, for every array size, every size of a result *)
(* and every number of executions, about StmtExecution, for every set of   *)
(* variables and names and any number of calls, and about VarBuffers, for  *)
(* every type of a variable and values in any number of pieces and rows.   *)
(***************************************************************************)
EXTENDS StmtCursor, StmtExecution, VarBuffers, SequenceTheorems, WellFoundedInduction, TLAPS

-----------------------------------------------------------------------------
\* Rows of the buffer not served yet.
Remaining == IF Buffered THEN bufferRowCount - bufferRowIndex ELSE 0

\* The buffer fits in the arrays; the server's cursor is inside the result.
BufferShape ==
    /\ bufferRowCount <= MaxSize
    /\ bufferRowCount > 0 => bufferMinRow > 0
    /\ filled <= execution /\ position <= result

\* rowCount is the number of the row served last, and the next one is due; it
\* and the rows not served yet add up to where the server's cursor is, which is
\* the end of the buffer.  (Where nothing has led the position astray.)
Aligned ==
    Strayed = {} =>
        /\ due = rowCount + 1
        /\ position = rowCount + Remaining
        /\ Early => ~Buffered
        /\ ~Early => position = bufferMinRow + bufferRowCount - 1

\* The buffer holds the rows it is said to hold.
Holds ==
    quirks = {} /\ ~Early =>
        \A k \in 1..bufferRowCount : content[k] = <<execution, bufferMinRow + k - 1>>

AllQuirks == {"shrunk", "redefined", "conversion", "early", "prior", "outside", "last"}

CursorInv == CursorTypeOK /\ BufferShape /\ Aligned /\ Holds /\ ServedAreDue /\ RowsFit

LEMMA Bounds ==
    /\ MaxResult \in Nat /\ MaxExecutions \in Nat /\ MaxSize \in Nat
    /\ \A k \in Size : k \in Nat /\ k >= 1 /\ k <= MaxSize
BY CursorAssumption DEF Size

LEMMA LeastFacts ==
    ASSUME NEW a \in Int, NEW b \in Int
    PROVE  /\ Least(a, b) \in Int /\ Least(a, b) <= a /\ Least(a, b) <= b
           /\ Least(a, b) = a \/ Least(a, b) = b
BY DEF Least

\* The row a mode names, where OCI and where the statement sees it.
LEMMA RowOfMode ==
    ASSUME NEW mode \in Mode, NEW offset
    PROVE  /\ mode = "next" => Target(mode, offset) = position + 1 /\ Desired(mode, offset) = rowCount + 1
           /\ mode = "prior" => Target(mode, offset) = position - 1 /\ Desired(mode, offset) = rowCount - 1
           /\ mode = "first" => Target(mode, offset) = 1 /\ Desired(mode, offset) = 1
           /\ mode = "last" => Target(mode, offset) = result /\ Desired(mode, offset) = result
           /\ mode = "absolute" => Target(mode, offset) = offset /\ Desired(mode, offset) = offset
           /\ mode = "relative" => Target(mode, offset) = position + offset
                                   /\ Desired(mode, offset) = rowCount + offset
BY DEF Target, Desired, Mode

LEMMA CursorInitInv == CursorInit => CursorInv
<1> SUFFICES ASSUME CursorInit PROVE CursorInv
  OBVIOUS
<1>1. CursorTypeOK
  BY Bounds DEF CursorInit, CursorTypeOK, Empty, NoRow
<1>2. BufferShape
  BY Bounds DEF CursorInit, BufferShape
<1>3. Aligned /\ Holds
  BY DEF CursorInit, Aligned, Holds, Remaining, Buffered, Early
<1>4. ServedAreDue /\ RowsFit
  BY DEF CursorInit, ServedAreDue, RowsFit, ValueReadable
<1>5. QED
  BY <1>1, <1>2, <1>3, <1>4 DEF CursorInv

\* Nothing that a call serves: ServedAreDue speaks of no row.
LEMMA NothingServed == served' = <<>> => ServedAreDue'
BY DEF ServedAreDue

\* The second half of RowsFit follows from the first.
LEMMA ReadableFits ==
    ASSUME CursorTypeOK, bufferRowCount <= space
    PROVE  ValueReadable => bufferRowIndex <= space
BY DEF CursorTypeOK, ValueReadable

LEMMA ExecuteQueryKeeps ==
    ASSUME CursorInv, NEW n \in 0..MaxResult, ExecuteQuery(n)
    PROVE  CursorInv'
<1>1. /\ execution' = execution + 1 /\ execution + 1 \in 0..MaxExecutions /\ execution \in Nat
      /\ result' = n /\ position' = 0 /\ rowCount' = 0 /\ hasRowsToFetch' = TRUE
      /\ bufferRowIndex' = fetchArraySize /\ served' = <<>> /\ DueIs(1)
      /\ UNCHANGED <<fetchArraySize, space, content, filled, bufferRowCount, bufferMinRow>>
      /\ fetchArraySize \in Nat /\ bufferRowCount \in Nat /\ filled \in Nat
  BY Bounds DEF ExecuteQuery, CursorInv, CursorTypeOK
<1>2. /\ quirks' \subseteq AllQuirks
      /\ "shrunk" \notin quirks' => bufferRowCount <= fetchArraySize
      /\ "redefined" \in quirks' <=> "redefined" \in quirks
  BY <1>1 DEF ExecuteQuery, CursorInv, CursorTypeOK, AllQuirks
<1>3. CursorTypeOK'
  BY <1>1, <1>2, Bounds DEF CursorInv, CursorTypeOK, AllQuirks
<1>4. filled <= execution /\ filled /= execution'
  BY <1>1 DEF CursorInv, BufferShape
<1>5. BufferShape'
  BY <1>1, <1>4, Bounds DEF CursorInv, BufferShape
<1>6. Early'
  BY <1>1, <1>4 DEF Early
<1>7. Strayed' = {} => ~Buffered'
  BY <1>1, <1>2 DEF Buffered, Strayed
<1>8. Aligned'
  BY <1>1, <1>6, <1>7 DEF Aligned, Remaining, DueIs
<1>9. Holds'
  BY <1>6 DEF Holds
<1>10. RowsFit'
  <2>1. "redefined" \notin quirks' => bufferRowCount' <= space'
    BY <1>1, <1>2 DEF CursorInv, RowsFit
  <2>2. QED
    BY <1>3, <2>1 DEF RowsFit, CursorTypeOK, ValueReadable
<1>11. QED
  BY <1>1, <1>3, <1>5, <1>8, <1>9, <1>10, NothingServed DEF CursorInv

\* The types as facts about the variables.
LEMMA CursorTypes ==
    ASSUME CursorTypeOK
    PROVE  /\ execution \in Nat /\ execution <= MaxExecutions /\ result \in Nat /\ result <= MaxResult
           /\ position \in Nat /\ position <= MaxResult /\ fetchArraySize \in Nat
           /\ 1 <= fetchArraySize /\ fetchArraySize <= MaxSize /\ space \in Nat /\ space <= MaxSize
           /\ bufferRowIndex \in Nat /\ bufferRowCount \in Nat /\ bufferRowCount <= MaxResult
           /\ bufferMinRow \in Nat /\ rowCount \in Nat
           /\ filled \in Nat
BY Bounds DEF CursorTypeOK

LEMMA DefineKeeps ==
    ASSUME CursorInv, NEW size \in Size, Define(size)
    PROVE  CursorInv'
<1>1. /\ execution > 0 /\ space' = size /\ content' = Empty /\ served' = <<>>
      /\ quirks' = IF bufferRowCount > 0 THEN quirks \union {"redefined"} ELSE quirks
      /\ UNCHANGED <<execution, result, position, fetchArraySize, filled, bufferRowIndex,
                     bufferRowCount, bufferMinRow, rowCount, hasRowsToFetch, due>>
  BY DEF Define
<1>2. CursorTypeOK /\ size \in Nat /\ size <= MaxSize
  BY Bounds DEF CursorInv
<1>3. CursorTypeOK'
  <2>1. Empty \in [Size -> (0..MaxExecutions) \X (0..MaxResult)]
    BY Bounds DEF Empty, NoRow
  <2>2. space' \in 0..MaxSize
    BY <1>1, <1>2
  <2>3. QED
    BY <1>1, <1>2, <2>1, <2>2 DEF CursorTypeOK
<1>4. BufferShape'
  BY <1>1 DEF CursorInv, BufferShape
<1>5. Early' = Early /\ Strayed' = Strayed
  BY <1>1 DEF Early, Strayed
<1>6. Aligned'
  BY <1>1, <1>5 DEF CursorInv, Aligned, Remaining, Buffered
<1>7. Holds'
  <2>1. CASE bufferRowCount > 0
    <3>1. quirks' /= {}
      BY <1>1, <2>1
    <3>2. QED
      BY <3>1 DEF Holds
  <2>2. CASE bufferRowCount = 0
    BY <1>1, <2>2 DEF Holds, Early
  <2>3. QED
    BY <1>2, <2>1, <2>2, CursorTypes
<1>8. RowsFit'
  <2>1. bufferRowCount \in Nat
    BY <1>2, CursorTypes
  <2>2. CASE bufferRowCount > 0
    BY <1>1, <2>2 DEF RowsFit
  <2>3. CASE bufferRowCount = 0
    <3>1. bufferRowCount' <= space' /\ bufferRowIndex' \in Nat
      BY <1>1, <1>2, <2>3, CursorTypes
    <3>2. QED
      BY <1>1, <2>3, <3>1 DEF RowsFit, ValueReadable
  <2>4. QED
    BY <2>1, <2>2, <2>3
<1>9. QED
  BY <1>1, <1>3, <1>4, <1>6, <1>7, <1>8, NothingServed DEF CursorInv

\* Steps that leave the buffer as it is, and serve nothing.
LEMMA BufferStays ==
    ASSUME CursorInv, fetchArraySize' \in Size, served' = <<>>,
           UNCHANGED <<execution, result, position, space, content, filled, bufferRowIndex,
                       bufferRowCount, bufferMinRow, rowCount, hasRowsToFetch, due, quirks>>
    PROVE  CursorInv'
<1>1. CursorTypeOK'
  BY DEF CursorInv, CursorTypeOK
<1>2. BufferShape' /\ Aligned' /\ Holds' /\ RowsFit'
  BY DEF CursorInv, BufferShape, Aligned, Holds, RowsFit, ValueReadable, Remaining, Buffered, Early, Strayed
<1>3. QED
  BY <1>1, <1>2, NothingServed DEF CursorInv

LEMMA ServeKeeps ==
    ASSUME CursorInv, NEW most \in Size, Serve(most)
    PROVE  CursorInv'
<1> DEFINE n == Least(most, bufferRowCount - bufferRowIndex)
<1>1. CursorTypeOK /\ BufferShape /\ Aligned /\ Holds /\ most \in Nat /\ most >= 1
  BY Bounds DEF CursorInv
<1>2. /\ bufferRowIndex < bufferRowCount
      /\ served' = [i \in 1..n |-> IF bufferRowIndex + i \in Size
                                   THEN content[bufferRowIndex + i] ELSE NoRow]
      /\ bufferRowIndex' = bufferRowIndex + n /\ rowCount' = rowCount + n /\ DueIs(due + n)
      /\ UNCHANGED <<execution, result, position, fetchArraySize, space, content, filled,
                     bufferRowCount, bufferMinRow, hasRowsToFetch, quirks>>
  BY DEF Serve, Buffered
<1>3. n \in Nat /\ n >= 1 /\ bufferRowIndex + n <= bufferRowCount
  <2>1. /\ bufferRowCount - bufferRowIndex \in Int /\ bufferRowCount - bufferRowIndex >= 1
        /\ bufferRowCount \in Nat /\ bufferRowIndex \in Nat /\ most \in Int
    BY <1>1, <1>2, CursorTypes, SMTT(20)
  <2> HIDE DEF n
  <2>2. n \in Int /\ n <= most /\ n <= bufferRowCount - bufferRowIndex
        /\ (n = most \/ n = bufferRowCount - bufferRowIndex)
    BY <2>1, LeastFacts DEF n
  <2>3. QED
    BY <1>1, <2>1, <2>2
<1> HIDE DEF n
<1>4. CursorTypeOK'
  <2>1. bufferRowIndex' \in Nat /\ rowCount' \in Nat
    <3>1. bufferRowIndex \in Nat /\ rowCount \in Nat
      BY <1>1, CursorTypes
    <3>2. bufferRowIndex' = bufferRowIndex + n /\ rowCount' = rowCount + n
      BY <1>2
    <3>3. QED
      BY <1>3, <3>1, <3>2
  <2>2. QED
    BY <1>1, <1>2, <2>1 DEF CursorTypeOK
<1>5. BufferShape'
  BY <1>1, <1>2 DEF BufferShape
<1>6. Early' = Early /\ Strayed' = Strayed
  BY <1>2 DEF Early, Strayed
<1>7. Remaining' = Remaining - n /\ Remaining = bufferRowCount - bufferRowIndex
  <2>1. Remaining = bufferRowCount - bufferRowIndex
    BY <1>2 DEF Remaining, Buffered
  <2>2. CASE bufferRowIndex + n < bufferRowCount
    <3>1. Remaining' = bufferRowCount - (bufferRowIndex + n)
      BY <1>2, <2>2 DEF Remaining, Buffered
    <3>2. QED
      BY <1>1, <1>3, <2>1, <3>1, CursorTypes
  <2>3. CASE bufferRowIndex + n = bufferRowCount
    <3>1. ~Buffered'
      BY <1>1, <1>2, <2>3, CursorTypes DEF Buffered
    <3>2. Remaining' = 0
      BY <3>1 DEF Remaining
    <3>3. QED
      BY <1>1, <1>3, <2>1, <2>3, <3>2, CursorTypes
  <2>4. QED
    BY <1>1, <1>3, <2>2, <2>3, CursorTypes
<1>8. Aligned'
  <2> SUFFICES ASSUME Strayed' = {}
               PROVE  /\ due' = rowCount' + 1 /\ position' = rowCount' + Remaining'
                      /\ ~Early'
                      /\ position' = bufferMinRow' + bufferRowCount' - 1
    BY DEF Aligned
  <2>1. /\ due = rowCount + 1 /\ position = rowCount + Remaining /\ ~Early
        /\ position = bufferMinRow + bufferRowCount - 1
    BY <1>1, <1>2, <1>6 DEF Aligned, Buffered
  <2>2. due' = rowCount' + 1
    <3>1. due' = due + n /\ rowCount' = rowCount + n
      BY <1>2 DEF DueIs
    <3>2. rowCount \in Nat
      BY <1>1, CursorTypes
    <3>3. QED
      BY <1>3, <2>1, <3>1, <3>2
  <2>3. rowCount' + Remaining' = rowCount + Remaining
    <3>1. rowCount' = rowCount + n /\ Remaining' = Remaining - n
      BY <1>2, <1>7
    <3>2. rowCount \in Nat /\ bufferRowCount \in Nat /\ bufferRowIndex \in Nat
      BY <1>1, CursorTypes
    <3>3. Remaining \in Int
      BY <1>7, <3>2
    <3>4. QED
      BY <1>3, <3>1, <3>2, <3>3
  <2>4. QED
    BY <1>2, <1>6, <2>1, <2>2, <2>3
<1>9. Holds'
  BY <1>1, <1>2, <1>6 DEF Holds
<1>10. RowsFit'
  BY <1>1, <1>2, <1>3, CursorTypes, SMTT(20) DEF CursorInv, RowsFit, ValueReadable
<1>11. ServedAreDue'
  <2> SUFFICES ASSUME quirks = {}, NEW i \in 1..n
               PROVE  served'[i] = <<execution, due' - n + i - 1>>
    <3>1. served' \in Seq({served'[i] : i \in 1..n}) /\ Len(served') = n /\ DOMAIN served' = 1..n
      BY <1>2, <1>3
    <3>2. QED
      BY <1>2, <3>1 DEF ServedAreDue
  <2>1. ~Early /\ Strayed = {} /\ Strayed' = {}
    BY <1>1, <1>2, <1>6 DEF Aligned, Buffered, Strayed
  <2>2. rowCount + (bufferRowCount - bufferRowIndex) = bufferMinRow + bufferRowCount - 1
    BY <1>1, <1>7, <2>1 DEF Aligned
  <2>3. bufferRowIndex + i \in 1..bufferRowCount /\ bufferRowIndex + i \in Size
    BY <1>1, <1>3, CursorTypes, Bounds DEF BufferShape, Size
  <2>4. served'[i] = <<execution, bufferMinRow + (bufferRowIndex + i) - 1>>
    BY <1>1, <1>2, <2>1, <2>3 DEF Holds
  <2>5. due' - n + i - 1 = bufferMinRow + (bufferRowIndex + i) - 1
    <3>1. due' = rowCount + 1 + n
      BY <1>1, <1>2, <2>1 DEF Aligned, DueIs
    <3>2. /\ rowCount \in Nat /\ bufferRowCount \in Nat /\ bufferRowIndex \in Nat
          /\ bufferMinRow \in Nat /\ n \in Nat /\ i \in Int
      BY <1>1, <1>3, CursorTypes
    <3>3. QED
      BY <2>2, <3>1, <3>2
  <2>6. QED
    BY <2>4, <2>5
<1>12. QED
  BY <1>4, <1>5, <1>8, <1>9, <1>10, <1>11 DEF CursorInv

\* In step with what is due, the statement wants the row the caller asked for.
LEMMA AskedIsDesired ==
    ASSUME CursorTypeOK, NEW mode \in Mode, NEW offset \in Int, due = rowCount + 1
    PROVE  AskedFor(mode, offset) = Desired(mode, offset)
<1>1. rowCount \in Nat
  BY CursorTypes
<1>2. /\ mode = "next" => AskedFor(mode, offset) = due
      /\ mode = "prior" => AskedFor(mode, offset) = due - 2
      /\ mode = "first" => AskedFor(mode, offset) = 1
      /\ mode = "last" => AskedFor(mode, offset) = result
      /\ mode = "absolute" => AskedFor(mode, offset) = offset
      /\ mode = "relative" => AskedFor(mode, offset) = due - 1 + offset
  BY DEF AskedFor, Mode
<1>3. QED
  BY <1>1, <1>2, RowOfMode DEF Mode

\* A scroll within the buffer.
LEMMA ScrollInBufferKeeps ==
    ASSUME CursorInv, NEW mode \in Mode, NEW offset \in Int, ScrollInBuffer(mode, offset),
           Desired(mode, offset) \in Int
    PROVE  CursorInv'
<1> DEFINE wanted == Desired(mode, offset)
<1>1. CursorTypeOK /\ BufferShape /\ Aligned /\ Holds
  BY DEF CursorInv
<1>2. /\ wanted >= bufferMinRow /\ wanted < bufferMinRow + bufferRowCount
      /\ bufferRowIndex' = wanted - bufferMinRow /\ rowCount' = wanted - 1
      /\ served' = <<>> /\ DueIs(AskedFor(mode, offset))
      /\ quirks' = IF Early THEN quirks \union {"early"} ELSE quirks
      /\ UNCHANGED <<execution, result, position, fetchArraySize, space, content, filled,
                     bufferRowCount, bufferMinRow, hasRowsToFetch>>
  BY DEF ScrollInBuffer, InBuffer
<1>3. /\ bufferMinRow > 0 /\ bufferRowIndex' \in Nat /\ rowCount' \in Nat
      /\ bufferRowIndex' < bufferRowCount
  BY <1>1, <1>2, CursorTypes, SMTT(20) DEF BufferShape
<1>4. CursorTypeOK'
  BY <1>1, <1>2, <1>3 DEF CursorTypeOK
<1>5. BufferShape'
  BY <1>1, <1>2 DEF BufferShape
<1>6. Early' = Early /\ (~Early => quirks' = quirks) /\ (Early => "early" \in quirks')
  BY <1>2 DEF Early
<1>7. Remaining' = bufferMinRow + bufferRowCount - wanted
  <2>1. Remaining' = bufferRowCount - (wanted - bufferMinRow)
    BY <1>2, <1>3 DEF Remaining, Buffered
  <2>2. wanted \in Int /\ bufferMinRow \in Nat /\ bufferRowCount \in Nat
    BY <1>1, CursorTypes
  <2> HIDE DEF wanted
  <2>3. QED
    BY <2>1, <2>2
<1>8. Aligned'
  <2> SUFFICES ASSUME Strayed' = {}
               PROVE  /\ due' = rowCount' + 1 /\ position' = rowCount' + Remaining' /\ ~Early'
                      /\ position' = bufferMinRow' + bufferRowCount' - 1
    BY DEF Aligned
  <2>1. ~Early /\ Strayed = {}
    BY <1>6 DEF Strayed
  <2>2. position = bufferMinRow + bufferRowCount - 1
    BY <1>1, <2>1 DEF Aligned
  <2>3. /\ wanted \in Int /\ bufferMinRow \in Nat /\ bufferRowCount \in Nat
    BY <1>1, CursorTypes
  <2>4. AskedFor(mode, offset) = wanted
    BY <1>1, <2>1, AskedIsDesired DEF Aligned
  <2>5. due' = rowCount' + 1
    BY <1>2, <2>3, <2>4 DEF DueIs
  <2>6. position' = rowCount' + Remaining'
    <3>1. position' = position /\ rowCount' = wanted - 1
      BY <1>2
    <3> HIDE DEF wanted
    <3>2. QED
      BY <1>7, <2>2, <2>3, <3>1
  <2>7. QED
    BY <1>2, <1>6, <2>1, <2>2, <2>5, <2>6
<1>9. Holds'
  BY <1>1, <1>2, <1>6 DEF Holds
<1>10. RowsFit'
  <2>1. "redefined" \notin quirks' => bufferRowCount <= space
    BY <1>2 DEF CursorInv, RowsFit
  <2>2. /\ bufferRowIndex' < bufferRowCount /\ bufferRowIndex' \in Nat
        /\ bufferRowCount \in Nat /\ space \in Nat
    BY <1>1, <1>3, CursorTypes
  <2>3. bufferRowCount' = bufferRowCount /\ space' = space
    BY <1>2
  <2>4. QED
    BY <2>1, <2>2, <2>3 DEF RowsFit, ValueReadable
<1>11. QED
  BY <1>2, <1>4, <1>5, <1>8, <1>9, <1>10, NothingServed DEF CursorInv

-----------------------------------------------------------------------------
\* Filling the buffer.

\* What OCI returns lies within the result set.
LEMMA FetchedFacts ==
    ASSUME CursorTypeOK, NEW first \in Int, NEW n \in Nat
    PROVE  /\ Fetched(first, n) \in Nat /\ Fetched(first, n) <= n
           /\ Fetched(first, n) > 0 => first >= 1 /\ first + Fetched(first, n) - 1 <= result
<1>1. result \in Nat
  BY CursorTypes
<1>2. CASE first \in 1..result
  <2>1. Fetched(first, n) = Least(n, result - first + 1)
    BY <1>2 DEF Fetched
  <2>2. result - first + 1 \in Int /\ result - first + 1 >= 1
    BY <1>1, <1>2
  <2> DEFINE most == result - first + 1
             count == Least(n, most)
  <2>3. most \in Int /\ n \in Int
    BY <2>2
  <2> HIDE DEF most
  <2>4. count \in Int /\ count <= n /\ count <= most /\ (count = n \/ count = most)
    BY <2>3, LeastFacts
  <2>5. most \in Int /\ most >= 1 /\ most = result - first + 1 /\ first >= 1
    BY <1>1, <1>2, <2>2 DEF most
  <2> HIDE DEF count
  <2>6. count \in Nat /\ first + count - 1 <= result
    BY <1>1, <2>4, <2>5
  <2>7. QED
    BY <2>1, <2>4, <2>5, <2>6 DEF count, most
<1>3. CASE first \notin 1..result
  BY <1>3 DEF Fetched
<1>4. QED
  BY <1>2, <1>3

\* The variable has room for the rows asked for.
LEMMA RoomForRows ==
    ASSUME CursorTypeOK, BufferShape, NEW old \in {content, Empty}, BeforeFetch(old)
    PROVE  /\ execution > 0 /\ space' \in 0..MaxSize /\ fetchArraySize <= space'
           /\ old \in [Size -> (0..MaxExecutions) \X (0..MaxResult)]
<1>1. execution > 0
  BY DEF BeforeFetch
<1>2. space' \in 0..MaxSize /\ fetchArraySize <= space'
  <2>1. CASE space = 0
    BY <2>1, Bounds, CursorTypes DEF BeforeFetch
  <2>2. CASE space /= 0
    BY <2>2, Bounds, CursorTypes DEF BeforeFetch
  <2>3. QED
    BY <2>1, <2>2
<1>3. CASE old = content
  BY <1>1, <1>2, <1>3 DEF CursorTypeOK, BufferShape
<1>4. CASE old = Empty
  <2>1. old \in [Size -> (0..MaxExecutions) \X (0..MaxResult)]
    BY <1>4, Bounds DEF Empty, NoRow
  <2>2. QED
    BY <1>1, <1>2, <2>1
<1>5. QED
  BY <1>3, <1>4

\* Converting the first done rows of those fetched.
LEMMA Converted ==
    ASSUME CursorTypeOK, NEW old \in [Size -> (0..MaxExecutions) \X (0..MaxResult)],
           NEW first \in Int, NEW done \in Nat,
           done > 0 => first >= 1 /\ first + done - 1 <= result,
           PostFetch(old, first, done)
    PROVE  /\ content' \in [Size -> (0..MaxExecutions) \X (0..MaxResult)]
           /\ \A k \in Size : k <= done => content'[k] = <<execution, first + k - 1>>
<1>1. content' = [k \in Size |-> IF k <= done THEN <<execution, first + k - 1>> ELSE old[k]]
  BY DEF PostFetch
<1>2. ASSUME NEW k \in Size
      PROVE  (IF k <= done THEN <<execution, first + k - 1>> ELSE old[k])
                  \in (0..MaxExecutions) \X (0..MaxResult)
  <2>1. CASE k <= done
    <3>1. execution \in 0..MaxExecutions
      BY DEF CursorTypeOK
    <3>2. first + k - 1 \in 0..MaxResult
      BY <2>1, Bounds, CursorTypes
    <3>3. QED
      BY <2>1, <3>1, <3>2
  <2>2. CASE ~(k <= done)
    BY <2>2
  <2>3. QED
    BY <2>1, <2>2
<1>3. QED
  BY <1>1, <1>2

LEMMA RowsFilled ==
    ASSUME CursorTypeOK, NEW old \in [Size -> (0..MaxExecutions) \X (0..MaxResult)],
           NEW first \in Int, NEW count \in Nat, count <= MaxSize,
           count > 0 => first >= 1 /\ first + count - 1 <= result,
           NEW held, Refilled(old, first, count, held)
    PROVE  /\ position' \in 0..MaxResult /\ bufferRowCount' = count
           /\ count > 0 => position' = first + count - 1
           /\ count = 0 => position' = position
           /\ content' \in [Size -> (0..MaxExecutions) \X (0..MaxResult)]
           /\ filled' = execution
           /\ quirks' = held \/ quirks' = held \union {"conversion"}
           /\ quirks' = {} => held = {} /\ \A k \in 1..count : content'[k] = <<execution, first + k - 1>>
<1>1. position' \in 0..MaxResult /\ bufferRowCount' = count /\ filled' = execution
      /\ (count > 0 => position' = first + count - 1) /\ (count = 0 => position' = position)
  <2>1. bufferRowCount' = count /\ filled' = execution
        /\ position' = IF count = 0 THEN position ELSE first + count - 1
    BY DEF Refilled
  <2>2. CASE count = 0
    BY <2>1, <2>2, Bounds, CursorTypes
  <2>3. CASE count > 0
    <3>1. position' = first + count - 1
      BY <2>1, <2>3
    <3>2. QED
      BY <2>1, <2>3, <3>1, Bounds, CursorTypes
  <2>4. QED
    BY <2>2, <2>3
<1>2. CASE PostFetch(old, first, count) /\ quirks' = held
  <2>1. \A k \in 1..count : k \in Size /\ k <= count
    BY Bounds DEF Size
  <2>2. QED
    BY <1>1, <1>2, <2>1, Converted
<1>3. ASSUME NEW done \in 0..(count - 1), PostFetch(old, first, done),
             quirks' = held \union {"conversion"}
      PROVE  /\ content' \in [Size -> (0..MaxExecutions) \X (0..MaxResult)]
             /\ quirks' /= {}
  <2>1. done \in Nat /\ (done > 0 => first >= 1 /\ first + done - 1 <= result)
    BY CursorTypes
  <2>2. QED
    BY <1>3, <2>1, Converted
<1>4. QED
  BY <1>1, <1>2, <1>3 DEF Refilled

\* A buffer filled with the rows from rowCount + 1 on is as it should be.
LEMMA RowsFilledKeep ==
    ASSUME CursorInv, NEW first \in Int, NEW count \in Nat,
           count <= MaxSize, count <= space', space' \in 0..MaxSize,
           execution' = execution, result' = result, fetchArraySize' = fetchArraySize,
           served' = <<>>, bufferRowIndex' = 0, bufferRowCount' = count, rowCount' \in Nat,
           bufferMinRow' \in Nat, bufferMinRow' > 0, bufferMinRow' = rowCount' + 1,
           hasRowsToFetch' \in BOOLEAN, filled' = execution,
           position' \in 0..MaxResult, position' <= result, count <= MaxResult,
           Strayed' = {} => /\ due' = rowCount' + 1 /\ first = rowCount' + 1
                            /\ position' = rowCount' + count,
           content' \in [Size -> (0..MaxExecutions) \X (0..MaxResult)],
           quirks' \subseteq AllQuirks,
           quirks' = {} => \A k \in 1..count : content'[k] = <<execution, first + k - 1>>
    PROVE  CursorInv'
<1>1. CursorTypeOK /\ BufferShape
  BY DEF CursorInv
<1>2. CursorTypeOK'
  <2>1. bufferRowCount' \in 0..MaxResult
    BY Bounds
  <2>2. bufferRowIndex' \in Nat /\ filled' \in 0..MaxExecutions
    BY <1>1 DEF CursorTypeOK
  <2>3. QED
    BY <1>1, <2>1, <2>2 DEF CursorTypeOK, AllQuirks
<1>3. BufferShape'
  <2>1. execution \in Nat
    BY <1>1, CursorTypes
  <2>2. filled' <= execution'
    BY <2>1
  <2>3. position' <= result'
    OBVIOUS
  <2>4. QED
    BY <2>2, <2>3 DEF BufferShape
<1>4. Remaining' = count
  BY DEF Remaining, Buffered
<1>5. /\ count = 0 => Early' /\ ~Buffered'
      /\ count > 0 => ~Early'
  BY DEF Early, Buffered
<1>6. Aligned'
  <2> SUFFICES ASSUME Strayed' = {}
               PROVE  /\ position' = rowCount' + Remaining'
                      /\ Early' => ~Buffered'
                      /\ position' = bufferMinRow' + bufferRowCount' - 1
    BY DEF Aligned
  <2>1. position' = rowCount' + count
    OBVIOUS
  <2>2. QED
    BY <1>4, <1>5, <2>1
<1>7. Holds'
  <2>1. quirks' = {} => first = bufferMinRow'
    BY DEF Strayed
  <2>2. QED
    BY <2>1 DEF Holds
<1>8. RowsFit'
  <2>1. bufferRowCount' <= space'
    OBVIOUS
  <2>2. ValueReadable' => bufferRowIndex' <= space'
    BY DEF ValueReadable
  <2>3. QED
    BY <2>1, <2>2 DEF RowsFit
<1>9. QED
  BY <1>2, <1>3, <1>6, <1>7, <1>8, NothingServed DEF CursorInv

LEMMA RefillFirstKeeps ==
    ASSUME CursorInv, RefillFirst
    PROVE  CursorInv'
<1> DEFINE first == position + 1
           count == Fetched(first, fetchArraySize)
<1>1. CursorTypeOK /\ BufferShape /\ Aligned /\ Holds
  BY DEF CursorInv
<1>2. PICK old \in {content, Empty} :
          /\ ~Buffered /\ hasRowsToFetch /\ BeforeFetch(old) /\ Refilled(old, first, count, Strayed)
          /\ hasRowsToFetch' = (count = fetchArraySize)
          /\ bufferMinRow' = rowCount + 1 /\ bufferRowIndex' = 0
          /\ UNCHANGED <<execution, result, fetchArraySize, rowCount, due>>
  BY DEF RefillFirst, Refill, MustRefill
<1>3. served' = <<>>
  BY DEF RefillFirst
<1>4. first \in Int /\ fetchArraySize \in Nat /\ fetchArraySize >= 1
      /\ fetchArraySize <= MaxSize /\ result <= MaxResult /\ result \in Nat
  BY <1>1, CursorTypes
<1> HIDE DEF first
<1>5. /\ count \in Nat /\ count <= fetchArraySize
      /\ count > 0 => first >= 1 /\ first + count - 1 <= result
  BY <1>1, <1>4, FetchedFacts
<1> HIDE DEF count
<1>6. /\ execution > 0 /\ space' \in 0..MaxSize /\ fetchArraySize <= space'
      /\ old \in [Size -> (0..MaxExecutions) \X (0..MaxResult)]
  BY <1>1, <1>2, RoomForRows
<1>7. count <= MaxSize /\ count <= space' /\ count <= MaxResult
  BY <1>4, <1>5, <1>6, Bounds
<1>8. /\ position' \in 0..MaxResult /\ bufferRowCount' = count /\ filled' = execution
      /\ count > 0 => position' = first + count - 1
      /\ count = 0 => position' = position
      /\ content' \in [Size -> (0..MaxExecutions) \X (0..MaxResult)]
      /\ quirks' = Strayed \/ quirks' = Strayed \union {"conversion"}
      /\ quirks' = {} => \A k \in 1..count : content'[k] = <<execution, first + k - 1>>
  BY <1>1, <1>2, <1>4, <1>5, <1>6, <1>7, RowsFilled
<1>9. Strayed' = Strayed /\ quirks' \subseteq AllQuirks
  BY <1>1, <1>8 DEF Strayed, CursorTypeOK, AllQuirks
<1>10. Strayed = {} => position = rowCount /\ due = rowCount + 1 /\ first = rowCount + 1
  <2>1. Remaining = 0
    BY <1>2 DEF Remaining
  <2>2. QED
    BY <1>1, <2>1, CursorTypes DEF first, Aligned
<1>11. rowCount' \in Nat /\ bufferMinRow' = rowCount' + 1 /\ bufferMinRow' \in Nat
       /\ bufferMinRow' > 0 /\ rowCount' = rowCount /\ due' = due
  BY <1>1, <1>2, CursorTypes
<1>12. Strayed' = {} => /\ due' = rowCount' + 1 /\ first = rowCount' + 1
                        /\ position' = rowCount' + count
  BY <1>4, <1>5, <1>8, <1>9, <1>10, <1>11
<1>13. position' <= result
  <2>1. CASE count = 0
    BY <1>1, <1>8, <2>1 DEF BufferShape
  <2>2. CASE count > 0
    BY <1>5, <1>8, <2>2
  <2>3. QED
    BY <1>5, <2>1, <2>2
<1>14. hasRowsToFetch' \in BOOLEAN
  BY <1>2
<1>15. QED
  BY <1>2, <1>3, <1>4, <1>5, <1>6, <1>7, <1>8, <1>9, <1>11, <1>12, <1>13, <1>14, RowsFilledKeep

\* A fetch that fails sets nothing but a variable that was missing.
LEMMA FetchFailsKeeps ==
    ASSUME CursorInv, FetchFails
    PROVE  CursorInv'
<1>1. CursorTypeOK /\ BufferShape /\ Aligned /\ Holds /\ RowsFit
  BY DEF CursorInv
<1>2. PICK old \in {content, Empty} :
          /\ BeforeFetch(old) /\ content' = old
          /\ served' = <<>>
          /\ UNCHANGED <<execution, result, position, fetchArraySize, filled, bufferRowIndex,
                         bufferRowCount, bufferMinRow, rowCount, hasRowsToFetch, due, quirks>>
  BY DEF FetchFails
<1>3. /\ execution > 0 /\ space' \in 0..MaxSize /\ fetchArraySize <= space'
      /\ old \in [Size -> (0..MaxExecutions) \X (0..MaxResult)]
  BY <1>1, <1>2, RoomForRows
<1>4. CursorTypeOK'
  BY <1>1, <1>2, <1>3 DEF CursorTypeOK
<1>5. BufferShape' /\ Aligned'
  BY <1>1, <1>2 DEF BufferShape, Aligned, Remaining, Buffered, Early, Strayed
<1>6. space <= space' /\ (space = 0 \/ content' = content)
  BY <1>1, <1>2, <1>3, CursorTypes DEF BeforeFetch
<1>7. Holds'
  <2> SUFFICES ASSUME quirks = {}, ~Early, NEW k \in 1..bufferRowCount
               PROVE  content'[k] = <<execution, bufferMinRow + k - 1>>
    BY <1>2 DEF Holds, Early
  <2>1. bufferRowCount <= space /\ space /= 0
    BY <1>1, CursorTypes DEF RowsFit
  <2>2. QED
    BY <1>1, <1>6, <2>1 DEF Holds
<1>8. RowsFit'
  <2>1. "redefined" \notin quirks' => bufferRowCount' <= space'
    BY <1>1, <1>2, <1>3, <1>6, CursorTypes DEF RowsFit
  <2>2. QED
    BY <1>4, <2>1 DEF RowsFit, CursorTypeOK, ValueReadable
<1>9. QED
  BY <1>2, <1>4, <1>5, <1>7, <1>8, NothingServed DEF CursorInv

-----------------------------------------------------------------------------
\* Scrolling.

\* OCI is sent to the row the caller asked for, unless LedAstray says why not.
LEMMA SentToTheRow ==
    ASSUME CursorInv, NEW mode \in Mode, NEW offset \in Int,
           Numbered(mode) \/ Strayed = {},
           mode = "prior" => ~Buffered, mode = "relative" => ~Early,
           mode = "last" \/ ~InBuffer(Desired(mode, offset))
    PROVE  Target(mode, OciOffset(mode, offset)) = AskedFor(mode, offset)
<1>1. CursorTypeOK /\ Aligned
  BY DEF CursorInv
<1>2. ~Numbered(mode) => /\ position = rowCount + Remaining /\ due = rowCount + 1
                         /\ Early => ~Buffered
                         /\ ~Early => position = bufferMinRow + bufferRowCount - 1
  BY <1>1 DEF Aligned
<1>3. /\ position \in Nat /\ rowCount \in Nat /\ bufferMinRow \in Nat
      /\ bufferRowCount \in Nat /\ bufferRowIndex \in Nat
  BY <1>1, CursorTypes
<1>4. CASE mode = "next"
  <2>1. Desired(mode, offset) = rowCount + 1 /\ Target(mode, OciOffset(mode, offset)) = position + 1
    BY <1>4, RowOfMode
  <2>2. ~Numbered(mode)
    BY <1>4 DEF Numbered
  <2>3. ~Buffered
    <3> SUFFICES ASSUME Buffered PROVE FALSE
      OBVIOUS
    <3>1. Remaining = bufferRowCount - bufferRowIndex /\ bufferRowIndex < bufferRowCount
      BY DEF Remaining, Buffered
    <3>2. rowCount + 1 >= bufferMinRow /\ rowCount + 1 < bufferMinRow + bufferRowCount
      BY <1>2, <1>3, <2>2, <3>1
    <3>3. QED
      BY <1>4, <2>1, <3>2 DEF InBuffer
  <2>4. position = rowCount
    BY <1>2, <1>3, <2>2, <2>3 DEF Remaining
  <2>5. AskedFor(mode, offset) = Desired(mode, offset)
    BY <1>1, <1>2, <2>2, AskedIsDesired
  <2>6. QED
    BY <2>1, <2>4, <2>5
<1>5. CASE mode = "prior"
  <2>1. Desired(mode, offset) = rowCount - 1 /\ Target(mode, OciOffset(mode, offset)) = position - 1
    BY <1>5, RowOfMode
  <2>2. ~Numbered(mode) /\ ~Buffered
    BY <1>5 DEF Numbered
  <2>3. position = rowCount
    BY <1>2, <1>3, <2>2 DEF Remaining
  <2>4. AskedFor(mode, offset) = Desired(mode, offset)
    BY <1>1, <1>2, <2>2, AskedIsDesired
  <2>5. QED
    BY <2>1, <2>3, <2>4
<1>6. CASE mode = "relative"
  <2>1. ~Numbered(mode) /\ ~Early
    BY <1>6 DEF Numbered
  <2>2. OciOffset(mode, offset) = rowCount + offset - (bufferMinRow + bufferRowCount - 1)
    BY <1>6 DEF OciOffset
  <2>3. /\ Desired(mode, offset) = rowCount + offset
        /\ Target(mode, OciOffset(mode, offset)) = position + OciOffset(mode, offset)
    BY <1>6, RowOfMode
  <2>4. AskedFor(mode, offset) = Desired(mode, offset)
    BY <1>1, <1>2, <2>1, AskedIsDesired
  <2>5. QED
    BY <1>2, <1>3, <2>1, <2>2, <2>3, <2>4
<1>7. CASE mode = "first" \/ mode = "last"
  BY <1>7, RowOfMode DEF AskedFor
<1>8. CASE mode = "absolute"
  <2>1. OciOffset(mode, offset) = offset
    BY <1>8 DEF OciOffset
  <2>2. QED
    BY <1>8, <2>1, RowOfMode DEF AskedFor
<1>9. QED
  BY <1>4, <1>5, <1>6, <1>7, <1>8 DEF Mode

\* Rows and offsets are numbers.
LEMMA RowsAreNumbers ==
    ASSUME CursorTypeOK, NEW mode \in Mode, NEW offset \in Int
    PROVE  Desired(mode, offset) \in Int /\ Target(mode, OciOffset(mode, offset)) \in Int
<1>1. /\ position \in Nat /\ rowCount \in Nat /\ bufferMinRow \in Nat
      /\ bufferRowCount \in Nat /\ result \in Nat
  BY CursorTypes
<1>2. OciOffset(mode, offset) \in Int
  <2>1. CASE mode = "relative"
    <3>1. OciOffset(mode, offset) = rowCount + offset - (bufferMinRow + bufferRowCount - 1)
      BY <2>1 DEF OciOffset
    <3>2. QED
      BY <1>1, <3>1
  <2>2. CASE mode /= "relative"
    BY <2>2 DEF OciOffset
  <2>3. QED
    BY <2>1, <2>2
<1>3. Desired(mode, offset) \in Int
  BY <1>1, RowOfMode DEF Mode
<1>4. \A number \in Int : Target(mode, number) \in Int
  BY <1>1, RowOfMode DEF Mode
<1>5. QED
  BY <1>2, <1>3, <1>4

LEMMA ScrollFetchKeeps ==
    ASSUME CursorInv, NEW mode \in Mode, NEW offset \in Int, ScrollFetch(mode, offset)
    PROVE  CursorInv'
<1> DEFINE first == Target(mode, OciOffset(mode, offset))
           asked == IF mode = "last" THEN 1 ELSE fetchArraySize
           count == Fetched(first, asked)
<1>1. CursorTypeOK /\ BufferShape
  BY DEF CursorInv
<1>2. PICK old \in {content, Empty} :
          /\ mode = "last" \/ ~InBuffer(Desired(mode, offset))
          /\ count > 0
          /\ BeforeFetch(old) /\ Refilled(old, first, count, LedAstray(mode))
          /\ hasRowsToFetch' = (mode /= "last" /\ count = asked)
          /\ rowCount' = first - 1 /\ bufferMinRow' = first /\ bufferRowIndex' = 0
          /\ served' = <<>> /\ DueIs(AskedFor(mode, offset))
          /\ UNCHANGED <<execution, result, fetchArraySize>>
  BY DEF ScrollFetch
<1>3. first \in Int
  BY <1>1, RowsAreNumbers
<1>4. LedAstray(mode) = {} => first = AskedFor(mode, offset)
  <2> SUFFICES ASSUME LedAstray(mode) = {} PROVE first = AskedFor(mode, offset)
    OBVIOUS
  <2>1. CASE Numbered(mode)
    <3>1. mode /= "prior" /\ mode /= "relative"
      BY <2>1 DEF Numbered
    <3>2. QED
      BY <1>2, <2>1, <3>1, SentToTheRow
  <2>2. CASE ~Numbered(mode)
    <3>1. Strayed = {} /\ (mode = "prior" => ~Buffered) /\ (mode = "relative" => ~Early)
      BY <2>2 DEF LedAstray
    <3>2. QED
      BY <1>2, <3>1, SentToTheRow
  <2>3. QED
    BY <2>1, <2>2
<1> HIDE DEF first
<1>5. asked \in Nat /\ asked <= fetchArraySize /\ fetchArraySize <= MaxSize
      /\ result \in Nat /\ result <= MaxResult
  BY <1>1, CursorTypes
<1> HIDE DEF asked
<1>6. /\ count \in Nat /\ count <= asked
      /\ first >= 1 /\ first + count - 1 <= result
  BY <1>1, <1>2, <1>3, <1>5, FetchedFacts
<1> HIDE DEF count
<1>7. /\ execution > 0 /\ space' \in 0..MaxSize /\ fetchArraySize <= space'
      /\ old \in [Size -> (0..MaxExecutions) \X (0..MaxResult)]
  BY <1>1, <1>2, RoomForRows
<1>8. count <= MaxSize /\ count <= space' /\ count <= MaxResult
  BY <1>1, <1>3, <1>5, <1>6, <1>7, Bounds, CursorTypes
<1>9. /\ position' \in 0..MaxResult /\ bufferRowCount' = count /\ filled' = execution
      /\ position' = first + count - 1
      /\ content' \in [Size -> (0..MaxExecutions) \X (0..MaxResult)]
      /\ quirks' = LedAstray(mode) \/ quirks' = LedAstray(mode) \union {"conversion"}
      /\ quirks' = {} => \A k \in 1..count : content'[k] = <<execution, first + k - 1>>
  BY <1>1, <1>2, <1>3, <1>6, <1>7, <1>8, RowsFilled
<1>10. LedAstray(mode) \subseteq {"shrunk", "early", "prior", "outside", "last"}
  BY DEF LedAstray, Strayed
<1>11. quirks' \subseteq AllQuirks /\ Strayed' = LedAstray(mode)
  BY <1>9, <1>10 DEF AllQuirks, Strayed
<1>12. rowCount' \in Nat /\ bufferMinRow' = rowCount' + 1 /\ bufferMinRow' \in Nat
       /\ bufferMinRow' > 0 /\ first = rowCount' + 1
  BY <1>2, <1>3, <1>6
<1>13. Strayed' = {} => /\ due' = rowCount' + 1 /\ first = rowCount' + 1
                        /\ position' = rowCount' + count
  BY <1>2, <1>4, <1>6, <1>9, <1>11, <1>12 DEF DueIs
<1>14. hasRowsToFetch' \in BOOLEAN /\ position' <= result
  BY <1>2, <1>6, <1>9
<1>15. QED
  BY <1>2, <1>3, <1>6, <1>7, <1>8, <1>9, <1>11, <1>12, <1>13, <1>14, RowsFilledKeep

\* The buffer is empty, and the counts are kept or those of an empty result.
LEMMA EmptiedKeeps ==
    ASSUME CursorInv, NEW old \in {content, Empty}, BeforeFetch(old), content' = old,
           bufferRowCount' = 0, hasRowsToFetch' = FALSE, served' = <<>>,
           rowCount' \in {0, rowCount}, bufferRowIndex' \in {0, bufferRowIndex},
           bufferMinRow' \in {0, bufferMinRow},
           quirks' \subseteq AllQuirks,
           Strayed' = {} => due' = rowCount' + 1 /\ position = rowCount',
           UNCHANGED <<execution, result, position, fetchArraySize, filled>>
    PROVE  CursorInv'
<1>1. CursorTypeOK /\ BufferShape
  BY DEF CursorInv
<1>2. /\ execution > 0 /\ space' \in 0..MaxSize /\ fetchArraySize <= space'
      /\ old \in [Size -> (0..MaxExecutions) \X (0..MaxResult)]
  BY <1>1, RoomForRows
<1>3. rowCount' \in Nat /\ bufferRowIndex' \in Nat /\ bufferMinRow' \in Nat
  <2>1. rowCount \in Nat /\ bufferRowIndex \in Nat /\ bufferMinRow \in Nat
    BY <1>1, CursorTypes
  <2>2. QED
    BY <2>1
<1>4. CursorTypeOK'
  <2>1. bufferRowCount' \in 0..MaxResult /\ hasRowsToFetch' \in BOOLEAN
    <3>1. 0 \in 0..MaxResult
      BY Bounds
    <3>2. QED
      BY <3>1
  <2>2. content' \in [Size -> (0..MaxExecutions) \X (0..MaxResult)]
    BY <1>2
  <2>3. QED
    BY <1>1, <1>2, <1>3, <2>1, <2>2 DEF CursorTypeOK, AllQuirks
<1>5. BufferShape'
  BY <1>1, Bounds DEF BufferShape
<1>6. Early' /\ ~Buffered'
  BY <1>3 DEF Early, Buffered
<1>7. Aligned' /\ Holds'
  BY <1>3, <1>6 DEF Aligned, Holds, Remaining
<1>8. RowsFit'
  <2>1. bufferRowCount' <= space'
    BY <1>2, Bounds
  <2>2. bufferRowIndex' /= 0 => ~(bufferRowIndex' <= bufferRowCount')
    BY <1>3
  <2>3. QED
    BY <2>1, <2>2 DEF RowsFit, ValueReadable
<1>9. QED
  BY <1>4, <1>5, <1>7, <1>8, NothingServed DEF CursorInv

LEMMA ScrollOutsideKeeps ==
    ASSUME CursorInv, NEW mode \in Mode, NEW offset \in Int, ScrollOutside(mode, offset)
    PROVE  CursorInv'
<1> DEFINE reset == mode \in {"first", "last"}
<1>1. CursorTypeOK /\ BufferShape /\ Aligned
  BY DEF CursorInv
<1>2. PICK old \in {content, Empty} :
          /\ Fetched(Target(mode, OciOffset(mode, offset)), 1) = 0
          /\ BeforeFetch(old) /\ content' = old
          /\ bufferRowCount' = 0 /\ hasRowsToFetch' = FALSE
          /\ rowCount' = IF reset THEN 0 ELSE rowCount
          /\ bufferRowIndex' = IF reset THEN 0 ELSE bufferRowIndex
          /\ bufferMinRow' = IF reset THEN 0 ELSE bufferMinRow
          /\ served' = <<>>
          /\ quirks' = IF Buffered /\ ~reset THEN quirks \union {"outside"} ELSE quirks
          /\ DueIs(IF reset THEN 1 ELSE due)
          /\ UNCHANGED <<execution, result, position, fetchArraySize, filled>>
  BY DEF ScrollOutside
<1>3. quirks' \subseteq AllQuirks
  BY <1>1, <1>2 DEF CursorTypeOK, AllQuirks
<1>4. ASSUME reset, Strayed' = {}
      PROVE  due' = rowCount' + 1 /\ position = rowCount'
  <2>1. result \in Nat /\ position \in Nat /\ position <= result
    BY <1>1, CursorTypes DEF BufferShape
  <2>2. Target(mode, OciOffset(mode, offset)) \in {1, result}
    BY <1>4, RowOfMode
  <2>3. result = 0
    <3> SUFFICES ASSUME result > 0 PROVE FALSE
      BY <2>1
    <3> DEFINE first == Target(mode, OciOffset(mode, offset))
    <3>1. first \in 1..result
      BY <2>1, <2>2
    <3> HIDE DEF first
    <3>2. Fetched(first, 1) = Least(1, result - first + 1) /\ Fetched(first, 1) = 0
      BY <1>2, <3>1 DEF Fetched, first
    <3>3. QED
      BY <2>1, <3>1, <3>2 DEF Least
  <2>4. QED
    BY <1>2, <1>4, <2>1, <2>3 DEF DueIs
<1>5. ASSUME ~reset, Strayed' = {}
      PROVE  due' = rowCount' + 1 /\ position = rowCount'
  <2>1. Strayed = {} /\ ~Buffered
    BY <1>2, <1>5 DEF Strayed
  <2>2. due = rowCount + 1 /\ position = rowCount
    BY <1>1, <2>1, CursorTypes DEF Aligned, Remaining
  <2>3. QED
    BY <1>2, <1>5, <2>2 DEF DueIs
<1>6. QED
  BY <1>2, <1>3, <1>4, <1>5, EmptiedKeeps

LEMMA ScrollLastFailsKeeps ==
    ASSUME CursorInv, ScrollLastFails
    PROVE  CursorInv'
<1>1. PICK old \in {content, Empty} :
          /\ BeforeFetch(old) /\ content' = old
          /\ bufferRowCount' = 0 /\ hasRowsToFetch' = FALSE
          /\ rowCount' = 0 /\ bufferRowIndex' = 0 /\ bufferMinRow' = 0
          /\ served' = <<>>
          /\ quirks' = quirks \union {"last"}
          /\ UNCHANGED <<execution, result, position, fetchArraySize, filled>>
  BY DEF ScrollLastFails
<1>2. quirks' \subseteq AllQuirks /\ Strayed' /= {}
  BY <1>1 DEF CursorInv, CursorTypeOK, AllQuirks, Strayed
<1>3. QED
  BY <1>1, <1>2, EmptiedKeeps

-----------------------------------------------------------------------------
\* Every call keeps the invariant.
LEMMA CursorStep == CursorInv /\ [CursorNext]_cursorVars => CursorInv'
<1> SUFFICES ASSUME CursorInv, [CursorNext]_cursorVars PROVE CursorInv'
  OBVIOUS
<1>1. fetchArraySize \in Size
  BY DEF CursorInv, CursorTypeOK
<1>2. ASSUME NEW n \in 0..MaxResult, ExecuteQuery(n) PROVE CursorInv'
  BY <1>2, ExecuteQueryKeeps
<1>3. ASSUME NEW size \in Size, Define(size) PROVE CursorInv'
  BY <1>3, DefineKeeps
<1>4. ASSUME NEW size \in Size, SetFetchArraySize(size) PROVE CursorInv'
  BY <1>4, BufferStays DEF SetFetchArraySize
<1>5. ASSUME RefillFirst PROVE CursorInv'
  BY <1>5, RefillFirstKeeps
<1>6. ASSUME ServeNothing PROVE CursorInv'
  BY <1>1, <1>6, BufferStays DEF ServeNothing, statement
<1>7. ASSUME NEW most \in Size, Serve(most) PROVE CursorInv'
  BY <1>7, ServeKeeps
<1>8. ASSUME NEW mode \in Mode, NEW offset \in -2..MaxResult,
             \/ ScrollInBuffer(mode, offset) \/ ScrollFetch(mode, offset)
             \/ ScrollOutside(mode, offset)
      PROVE  CursorInv'
  <2>1. offset \in Int
    BY Bounds
  <2>2. Desired(mode, offset) \in Int
    BY <2>1, RowsAreNumbers DEF CursorInv
  <2>3. QED
    BY <1>8, <2>1, <2>2, ScrollInBufferKeeps, ScrollFetchKeeps, ScrollOutsideKeeps
<1>9. CASE UNCHANGED cursorVars
  <2>1. /\ UNCHANGED <<execution, result, position, space, content, filled, bufferRowIndex, fetchArraySize,
                       bufferRowCount, bufferMinRow, rowCount, hasRowsToFetch, due, quirks>>
        /\ UNCHANGED served
    BY <1>9 DEF cursorVars, statement
  <2>2. CursorTypeOK' /\ BufferShape' /\ Aligned' /\ Holds'
    BY <2>1 DEF CursorInv, CursorTypeOK, BufferShape, Aligned, Holds, Remaining, Buffered, Early, Strayed
  <2>3. ServedAreDue' /\ RowsFit'
    BY <2>1 DEF CursorInv, ServedAreDue, RowsFit, ValueReadable
  <2>4. QED
    BY <2>2, <2>3 DEF CursorInv
<1>10. QED
  BY <1>2, <1>3, <1>4, <1>5, <1>6, <1>7, <1>8, <1>9, FetchFailsKeeps, ScrollLastFailsKeeps
     DEF CursorNext

\* The cursor, for every array size and every size of a result.
LEMMA CursorInvariant == CursorSpec => []CursorInv
BY CursorInitInv, CursorStep, PTL DEF CursorSpec

\* Fetching and scrolling hand out the rows that are due, in every sequence of
\* calls, except after what quirks names (seven cases in which the code goes
\* wrong), and what is due is counted from what was asked for: rowCount, the
\* index into the buffer and the server's cursor stay in step.  And rows are
\* only fetched into arrays that have room for them, and values are only read
\* inside them, unless a column is redefined under buffered rows.
THEOREM RowsStayRight == CursorSpec => []RowsAreRight
<1>1. CursorInv => RowsAreRight
  BY DEF CursorInv, RowsAreRight
<1>2. QED
  BY <1>1, CursorInvariant, PTL

-----------------------------------------------------------------------------
\* Executing: whose dpiError a variable points at, and what the cache holds.

InOci == phase \in {"executing", "retrying"}

\* While OCI may call back for a variable it has the dpiError of the call.
ErrorSetInTime ==
    /\ error \in [Var -> Nat] /\ call \in Nat
    /\ InOci => executions = call /\ \A v \in Var : v \in Bound /\ CalledBack(v) => error[v] = call
    /\ phase = "fetching" => \A v \in Var : v \in Dynamic => error[v] = call

\* A statement in OCI is open, the cache does not hold what is open, and what
\* the server has refused will be deleted, unless its SQL was unread.
OutOfCache ==
    /\ phase \in {"idle", "executing", "retrying", "fetching"}
    /\ phase /= "idle" => handle = "open"
    /\ handle /= "none" => cached = "none"
    /\ broken /\ ~unread => deleteFromCache /\ cached = "none"

ExecInv == ErrorSetInTime /\ OutOfCache /\ ErrorsAreCurrent

LEMMA ExecInitInv == ExecInit => ExecInv
BY DEF ExecInit, ExecInv, ErrorSetInTime, OutOfCache, InOci, ErrorsAreCurrent, CallbackErrorIsCurrent,
       BatchErrorsAreOfLast

\* Where no call is in OCI nothing is asked of the variables.
LEMMA RestingErrors ==
    ASSUME phase' = "idle", error' \in [Var -> Nat], call' \in Nat
    PROVE  ErrorSetInTime'
BY DEF ErrorSetInTime, InOci

LEMMA PointedAt ==
    ASSUME ExecInv, NEW now \in Nat, NEW S
    PROVE  /\ [v \in Var |-> IF v \in S THEN now ELSE error[v]] \in [Var -> Nat]
           /\ ErrorSet(now) \in [Var -> Nat]
           /\ \A v \in Var : v \in Bound /\ CalledBack(v) => ErrorSet(now)[v] = now
BY DEF ExecInv, ErrorSetInTime, ErrorSet

\* The calls of the program that do not enter OCI to execute or fetch.
LEMMA CallKeeps ==
    ASSUME ExecInv,
           PrepareStmt \/ Close \/ TransferFails \/ (\E n \in Name, v \in Var : BindVar(n, v))
    PROVE  ExecInv'
<1>1. phase = "idle" /\ phase' = "idle" /\ call' \in Nat
  <2>1. phase = "idle" /\ call' = call + 1
    BY DEF PrepareStmt, Close, TransferFails, BindVar, Calls
  <2>2. phase' = phase
    BY DEF PrepareStmt, Close, TransferFails, BindVar
  <2>3. QED
    BY <2>1, <2>2 DEF ExecInv, ErrorSetInTime
<1>2. error' \in [Var -> Nat]
  <2>1. CASE TransferFails
    <3>1. PICK before \in SUBSET Bound :
             error' = [v \in Var |-> IF v \in before THEN ErrorSet(call')[v] ELSE error[v]]
      BY <2>1 DEF TransferFails
    <3>2. ErrorSet(call') \in [Var -> Nat] /\ error \in [Var -> Nat]
      BY <1>1, PointedAt DEF ExecInv, ErrorSetInTime
    <3>3. QED
      BY <3>1, <3>2
  <2>2. CASE ~TransferFails
    BY <2>2 DEF PrepareStmt, Close, BindVar, ExecInv, ErrorSetInTime
  <2>3. QED
    BY <2>1, <2>2
<1>3. OutOfCache'
  <2>1. CASE PrepareStmt
    BY <2>1 DEF PrepareStmt, Calls, ExecInv, OutOfCache
  <2>2. CASE Close
    BY <2>2 DEF Close, Calls, Released, ExecInv, OutOfCache
  <2>3. CASE TransferFails
    BY <2>3 DEF TransferFails, Calls, cache, ExecInv, OutOfCache
  <2>4. CASE \E n \in Name, v \in Var : BindVar(n, v)
    BY <2>4 DEF BindVar, Calls, cache, ExecInv, OutOfCache
  <2>5. QED
    BY <2>1, <2>2, <2>3, <2>4
<1>4. used' = used /\ executions' = executions
      /\ ((numBatchErrors' = numBatchErrors /\ batchOf' = batchOf) \/ numBatchErrors' = 0)
  BY DEF PrepareStmt, Close, TransferFails, BindVar, batchVars
<1>5. ErrorsAreCurrent'
  BY <1>4 DEF ExecInv, ErrorsAreCurrent, CallbackErrorIsCurrent, BatchErrorsAreOfLast
<1>6. QED
  BY <1>1, <1>2, <1>3, <1>5, RestingErrors DEF ExecInv

\* Calls that enter OCI, and the second attempt.
LEMMA EnterKeeps ==
    ASSUME ExecInv, (\E withBatch \in BOOLEAN : StartExecute(withBatch)) \/ ReExecute \/ StartFetch
    PROVE  ExecInv'
<1>1. CASE \E withBatch \in BOOLEAN : StartExecute(withBatch)
  <2>1. PICK withBatch \in BOOLEAN : StartExecute(withBatch)
    BY <1>1
  <2>2. /\ call' = call + 1 /\ call' \in Nat /\ error' = ErrorSet(call') /\ phase' = "executing"
        /\ executions' = call' /\ binds' = binds /\ kind' = kind /\ numBatchErrors' = 0 /\ used' = used
        /\ UNCHANGED <<handle, stale, deleteFromCache, cached, broken, unread>> /\ handle = "open"
    BY <2>1 DEF StartExecute, Calls, cache, ExecInv, ErrorSetInTime
  <2>3. ErrorSetInTime'
    BY <2>2, PointedAt DEF ErrorSetInTime, InOci, Bound, CalledBack
  <2>4. OutOfCache'
    BY <2>2 DEF ExecInv, OutOfCache
  <2>5. ErrorsAreCurrent'
    BY <2>2 DEF ExecInv, ErrorsAreCurrent, CallbackErrorIsCurrent, BatchErrorsAreOfLast
  <2>6. QED
    BY <2>3, <2>4, <2>5 DEF ExecInv
<1>2. CASE ReExecute
  <2>1. /\ phase = "executing" /\ phase' = "retrying" /\ error' = ErrorSet(call) /\ deleteFromCache' = TRUE
        /\ UNCHANGED <<kind, handle, cached, binds, call, numBatchErrors, batchOf, executions, used>>
    BY <1>2 DEF ReExecute, Released, batchVars
  <2>2. call \in Nat /\ executions = call
    BY <2>1 DEF ExecInv, ErrorSetInTime, InOci
  <2>3. ErrorSetInTime'
    BY <2>1, <2>2, PointedAt DEF ErrorSetInTime, InOci, Bound, CalledBack
  <2>4. OutOfCache'
    BY <2>1 DEF ExecInv, OutOfCache
  <2>5. ErrorsAreCurrent'
    BY <2>1 DEF ExecInv, ErrorsAreCurrent, CallbackErrorIsCurrent, BatchErrorsAreOfLast
  <2>6. QED
    BY <2>3, <2>4, <2>5 DEF ExecInv
<1>3. CASE StartFetch
  <2>1. /\ call' \in Nat /\ error' = [v \in Var |-> IF v \in Dynamic THEN call' ELSE error[v]]
        /\ phase' = "fetching" /\ handle = "open"
        /\ UNCHANGED <<handle, deleteFromCache, cached, broken, unread, numBatchErrors, batchOf, executions, used>>
    BY <1>3 DEF StartFetch, Calls, cache, batchVars, ExecInv, ErrorSetInTime
  <2>2. ErrorSetInTime'
    BY <2>1, PointedAt DEF ErrorSetInTime, InOci
  <2>3. OutOfCache'
    BY <2>1 DEF ExecInv, OutOfCache
  <2>4. ErrorsAreCurrent'
    BY <2>1 DEF ExecInv, ErrorsAreCurrent, CallbackErrorIsCurrent, BatchErrorsAreOfLast
  <2>5. QED
    BY <2>2, <2>3, <2>4 DEF ExecInv
<1>4. QED
  BY <1>1, <1>2, <1>3

\* OCI calls back while a call is in it.
LEMMA CallbackKeeps ==
    ASSUME ExecInv, NEW v \in Var, Callback(v)
    PROVE  ExecInv'
<1>1. /\ used' = <<error[v], call>>
      /\ UNCHANGED <<kind, handle, stale, deleteFromCache, cached, broken, unread, binds, error, call, phase,
                     numBatchErrors, batchOf, executions>>
  BY DEF Callback, cache, batchVars
<1>2. error[v] = call
  BY DEF Callback, ExecInv, ErrorSetInTime, InOci
<1>3. ErrorSetInTime' /\ OutOfCache'
  BY <1>1 DEF ExecInv, ErrorSetInTime, OutOfCache, InOci, Bound, CalledBack
<1>4. ErrorsAreCurrent'
  BY <1>1, <1>2 DEF ExecInv, ErrorsAreCurrent, CallbackErrorIsCurrent, BatchErrorsAreOfLast
<1>5. QED
  BY <1>3, <1>4 DEF ExecInv

\* Calls that come back from OCI, well or not.
LEMMA LeaveKeeps ==
    ASSUME ExecInv,
           \/ Refused \/ DataRefused \/ StaleRefused \/ ReExecuteFails \/ Executed \/ ExecutedFails
           \/ \E n \in 0..MaxErrors, fails \in BOOLEAN : BatchErrors(n, fails)
           \/ \E ok \in BOOLEAN : EndFetch(ok)
    PROVE  ExecInv'
<1>1. phase /= "idle" /\ phase' = "idle" /\ call' = call /\ used' = used /\ executions' = executions
      /\ cached' = cached /\ call \in Nat
  BY DEF Refused, DataRefused, StaleRefused, ReExecuteFails, SqlUnread, NotPrepared, NotRebound, Released,
         Executed, ExecutedFails, BatchErrors, EndFetch, Idle, cache, ExecInv, ErrorSetInTime
<1>2. \/ deleteFromCache' = TRUE
      \/ deleteFromCache' = deleteFromCache /\ broken' = broken /\ unread' = unread
      \/ deleteFromCache' = deleteFromCache /\ (~unread' => deleteFromCache)
  BY DEF Refused, DataRefused, StaleRefused, ReExecuteFails, SqlUnread, NotPrepared, NotRebound,
         Executed, ExecutedFails, BatchErrors, EndFetch, Idle, cache
<1>3. error' \in [Var -> Nat]
  <2>1. error \in [Var -> Nat] /\ 0 \in Nat
    BY DEF ExecInv, ErrorSetInTime
  <2>2. \/ error' = error
        \/ \E S : error' = [v \in Var |-> IF v \in S THEN 0 ELSE error[v]]
        \/ error' = [v \in Var |-> IF v \in Bound /\ kind = "returning" THEN 0 ELSE error[v]]
    BY DEF Refused, DataRefused, StaleRefused, ReExecuteFails, Executed, ExecutedFails, BatchErrors, EndFetch
  <2>3. QED
    BY <2>1, <2>2
<1>4. (numBatchErrors' = numBatchErrors /\ batchOf' = batchOf) \/ numBatchErrors' = 0 \/ batchOf' = executions
  <2>1. phase = "executing" => executions = call
    BY DEF ExecInv, ErrorSetInTime, InOci
  <2>2. QED
    BY <2>1 DEF Refused, DataRefused, StaleRefused, ReExecuteFails, Executed, ExecutedFails, BatchErrors,
                EndFetch, batchVars
<1>5. OutOfCache'
  BY <1>1, <1>2 DEF ExecInv, OutOfCache
<1>6. ErrorsAreCurrent'
  BY <1>1, <1>4 DEF ExecInv, ErrorsAreCurrent, CallbackErrorIsCurrent, BatchErrorsAreOfLast
<1>7. QED
  BY <1>1, <1>3, <1>5, <1>6, RestingErrors DEF ExecInv

LEMMA ExecStep == ExecInv /\ [ExecNext]_execVars => ExecInv'
<1> SUFFICES ASSUME ExecInv, [ExecNext]_execVars PROVE ExecInv'
  OBVIOUS
<1>1. CASE ColumnDropped
  <2>1. /\ cached' = IF cached = "good" THEN "stale" ELSE cached
        /\ UNCHANGED <<kind, handle, deleteFromCache, broken, unread, binds, error, call, phase,
                       numBatchErrors, batchOf, executions, used>>
    BY <1>1 DEF ColumnDropped, batchVars
  <2>2. ErrorSetInTime' /\ OutOfCache'
    BY <2>1 DEF ExecInv, ErrorSetInTime, OutOfCache, InOci, Bound, CalledBack
  <2>3. ErrorsAreCurrent'
    BY <2>1 DEF ExecInv, ErrorsAreCurrent, CallbackErrorIsCurrent, BatchErrorsAreOfLast
  <2>4. QED
    BY <2>2, <2>3 DEF ExecInv
<1>2. CASE UNCHANGED execVars
  BY <1>2 DEF execVars, cache, batchVars, ExecInv, ErrorSetInTime, OutOfCache, InOci, Bound, CalledBack,
              ErrorsAreCurrent, CallbackErrorIsCurrent, BatchErrorsAreOfLast
<1>3. QED
  BY <1>1, <1>2, CallKeeps, EnterKeeps, CallbackKeeps, LeaveKeeps DEF ExecNext

LEMMA ExecInvariant == ExecSpec => []ExecInv
BY ExecInitInv, ExecStep, PTL DEF ExecSpec

\* Types: a call under way has a number, and so have its batch errors.
LEMMA ExecTypeInit == ExecInit => ExecTypeOK
BY ErrorsAssumption DEF ExecInit, ExecTypeOK, Bound

\* The calls on the statement, the moves of a call in OCI, and those out of it.
LEMMA ExecTypeStep == ExecInv /\ ExecTypeOK /\ [ExecNext]_execVars => ExecTypeOK'
<1> SUFFICES ASSUME ExecInv, ExecTypeOK, [ExecNext]_execVars PROVE ExecTypeOK'
  OBVIOUS
<1>0. call \in Nat /\ error \in [Var -> 0..call] /\ executions \in 0..call
  BY DEF ExecInv, ErrorSetInTime, ExecTypeOK
<1>1. kind' = kind /\ call' \in {call, call + 1}
  BY DEF ExecNext, ColumnDropped, PrepareStmt, Close, BindVar, StartExecute, Callback, TransferFails,
         Refused, DataRefused, StaleRefused, ReExecute, ReExecuteFails, Executed, ExecutedFails, BatchErrors,
         StartFetch, EndFetch, Calls, execVars
<1>2. handle' \in {"none", "open", "dangling"} /\ cached' \in {"none", "good", "stale"}
  BY DEF ExecNext, ColumnDropped, PrepareStmt, Close, BindVar, StartExecute, Callback, TransferFails,
         Refused, DataRefused, StaleRefused, ReExecute, ReExecuteFails, Executed, ExecutedFails, BatchErrors,
         StartFetch, EndFetch, execVars, cache, ExecTypeOK, SqlUnread, NotPrepared, NotRebound, Released
<1>3. phase' \in {"idle", "executing", "retrying", "fetching"}
  BY DEF ExecNext, ColumnDropped, PrepareStmt, Close, BindVar, StartExecute, Callback, TransferFails,
         Refused, DataRefused, StaleRefused, ReExecute, ReExecuteFails, Executed, ExecutedFails, BatchErrors,
         StartFetch, EndFetch, Idle, execVars, ExecTypeOK
<1>4. DOMAIN binds' \subseteq Name /\ Bound' \subseteq Var \union {NoVar}
  <2>1. CASE \E n \in Name, v \in Var : BindVar(n, v)
    <3>1. PICK n \in Name, v \in Var : BindVar(n, v)
      BY <2>1
    <3>2. PICK bound \in Var \union {NoVar} :
             binds' = [m \in DOMAIN binds \union {n} |-> IF m = n THEN bound ELSE binds[m]]
      BY <3>1 DEF BindVar
    <3>3. \A m \in DOMAIN binds : binds[m] \in Var \union {NoVar}
      BY DEF ExecTypeOK, Bound
    <3>4. DOMAIN binds' = DOMAIN binds \union {n} /\ \A m \in DOMAIN binds' : binds'[m] \in Var \union {NoVar}
      BY <3>2, <3>3
    <3>5. QED
      BY <3>4 DEF ExecTypeOK, Bound
  <2>2. CASE ~\E n \in Name, v \in Var : BindVar(n, v)
    <3>1. binds' = binds \/ binds' = [n \in {} |-> NoVar]
      BY <2>2 DEF ExecNext, ColumnDropped, PrepareStmt, Close, StartExecute, Callback, TransferFails,
         Refused, DataRefused, StaleRefused, ReExecute, ReExecuteFails, Executed, ExecutedFails, BatchErrors,
         StartFetch, EndFetch, execVars
    <3>2. QED
      BY <3>1 DEF ExecTypeOK, Bound
  <2>3. QED
    BY <2>1, <2>2
<1>5. error' \in [Var -> 0..call']
  <2>1. ErrorSet(call') \in [Var -> 0..call'] /\ error \in [Var -> 0..call']
    BY <1>0, <1>1 DEF ErrorSet
  <2>2. \/ error' \in {error, ErrorSet(call')}
        \/ \E S : error' = [v \in Var |-> IF v \in S THEN ErrorSet(call')[v] ELSE error[v]]
        \/ \E S : error' = [v \in Var |-> IF v \in S THEN call' ELSE error[v]]
        \/ \E S : error' = [v \in Var |-> IF v \in S THEN 0 ELSE error[v]]
        \/ error' = [v \in Var |-> IF v \in Bound /\ kind = "returning" THEN 0 ELSE error[v]]
    BY DEF ExecNext, ColumnDropped, PrepareStmt, Close, BindVar, StartExecute, Callback, TransferFails,
         Refused, DataRefused, StaleRefused, ReExecute, ReExecuteFails, Executed, ExecutedFails, BatchErrors,
         StartFetch, EndFetch, execVars
  <2>3. call' \in Nat
    BY <1>0, <1>1
  <2>4. QED
    BY <2>1, <2>2, <2>3
<1>6. executions' \in 0..call'
  <2>1. executions' = executions \/ executions' = call'
    BY DEF ExecNext, ColumnDropped, PrepareStmt, Close, BindVar, StartExecute, Callback, TransferFails,
         Refused, DataRefused, StaleRefused, ReExecute, ReExecuteFails, Executed, ExecutedFails, BatchErrors,
         StartFetch, EndFetch, execVars
  <2>2. QED
    BY <1>0, <1>1, <2>1
<1>7. numBatchErrors' \in 0..MaxErrors
  <2>1. CASE \E n \in 0..MaxErrors, fails \in BOOLEAN : BatchErrors(n, fails)
    BY <2>1, ErrorsAssumption DEF BatchErrors
  <2>2. CASE ~\E n \in 0..MaxErrors, fails \in BOOLEAN : BatchErrors(n, fails)
    <3>1. numBatchErrors' = numBatchErrors \/ numBatchErrors' = 0
      BY <2>2 DEF ExecNext, ColumnDropped, PrepareStmt, Close, BindVar, StartExecute, Callback, TransferFails,
         Refused, DataRefused, StaleRefused, ReExecute, ReExecuteFails, Executed, ExecutedFails, StartFetch,
         EndFetch, execVars, batchVars
    <3>2. QED
      BY <3>1, ErrorsAssumption DEF ExecTypeOK
  <2>3. QED
    BY <2>1, <2>2
<1>8. QED
  BY <1>1, <1>2, <1>3, <1>4, <1>5, <1>6, <1>7 DEF ExecTypeOK

LEMMA ExecTyped == ExecSpec => []ExecTypeOK
BY ExecInitInv, ExecStep, ExecTypeInit, ExecTypeStep, PTL DEF ExecSpec

\* For every set of variables and names: a callback never writes into the
\* dpiError of an earlier call, and batch errors are of the last execution.
THEOREM ErrorsKeptCurrent == ExecSpec => []ErrorsAreCurrent
<1>1. ExecInv => ErrorsAreCurrent
  BY DEF ExecInv
<1>2. QED
  BY <1>1, ExecInvariant, PTL

\* Whatever is dropped, refused and tried again, a statement the server has
\* refused is not in the statement cache and does not go back to it, with good
\* or with stale metadata, except where its SQL could not be read.
THEOREM RefusedLeavesCache == ExecSpec => []CacheIsSound
<1>1. ExecInv => CacheIsSound
  BY DEF ExecInv, OutOfCache, CacheIsSound
<1>2. QED
  BY <1>1, ExecInvariant, PTL

-----------------------------------------------------------------------------
\* The types and the buffers of a variable.

\* What matters of a row of the table of types.
TypeRowRight(t, r) ==
    /\ t \in Renewed => r.size = "fixed" /\ r.native /= "bytes"
    /\ t = "object" <=> r.native = "object"
    /\ r.size /= "fixed" => r.native = "bytes"
    /\ t \notin Renewed \union {"urowid", "json_object", "json_array"} => Copied(t, r.native)
    /\ \A n : ValidateTypes(t, n) => r.size = "fixed"
    /\ t = "xmltype" => r.native = "bytes"

LEMMA RowsRight == \A r \in TypeRows : \A t \in r.types : TypeRowRight(t, r)
<1>1. \A r \in TextTypes : \A t \in r.types : TypeRowRight(t, r)
  BY DEF TextTypes, TypeRow, TypeRowRight, Renewed, Copied, ValidateTypes
<1>2. \A r \in ScalarTypes : \A t \in r.types : TypeRowRight(t, r)
  BY DEF ScalarTypes, TypeRow, TypeRowRight, Renewed, Copied, ValidateTypes
<1>3. \A r \in OtherTypes : \A t \in r.types : TypeRowRight(t, r)
  BY DEF OtherTypes, TypeRow, TypeRowRight, Renewed, Copied, ValidateTypes
<1> QED BY <1>1, <1>2, <1>3 DEF TypeRows

LEMMA TypesRight == \A t \in DOMAIN Types : TypeRowRight(t, Types[t])
<1> SUFFICES ASSUME NEW t \in DOMAIN Types PROVE TypeRowRight(t, Types[t])
  OBVIOUS
<1>1. PICK r \in TypeRows : t \in r.types
  BY DEF Types
<1>2. Types[t] = CHOOSE q \in TypeRows : t \in q.types
  BY DEF Types
<1>3. Types[t] \in TypeRows /\ t \in Types[t].types
  BY <1>1, <1>2
<1> QED BY <1>3, RowsRight

\* The names of the types that have a code.
Coded == {"varchar", "char", "clob", "number", "date", "raw", "native_int", "native_float",
          "native_double", "timestamp", "timestamp_tz", "timestamp_ltz", "object", "boolean",
          "blob", "bfile", "rowid", "stmt", "interval_ds", "interval_ym", "long_varchar",
          "long_raw", "json", "vector", "nvarchar", "nchar", "nclob"}

LEMMA CodedTypes ==
    /\ \A c \in DOMAIN TypesOfCode : TypesOfCode[c] \in Coded
    /\ \A c \in DOMAIN NationalTypes : NationalTypes[c] \in Coded
<1>1. ASSUME NEW rows, \A r \in rows : r.type \in Coded
      PROVE  \A c \in DOMAIN ByCode(rows) : ByCode(rows)[c] \in Coded
  <2> SUFFICES ASSUME NEW c \in DOMAIN ByCode(rows) PROVE ByCode(rows)[c] \in Coded
    OBVIOUS
  <2>1. \E r \in rows : c \in r.codes
    BY DEF ByCode
  <2>2. ByCode(rows)[c] = (CHOOSE r \in rows : c \in r.codes).type
    BY DEF ByCode
  <2>3. (CHOOSE r \in rows : c \in r.codes) \in rows
    BY <2>1
  <2> QED BY <2>2, <2>3, <1>1
<1>2. \A c \in DOMAIN TypesOfCode : TypesOfCode[c] \in Coded
  BY <1>1 DEF TypesOfCode, CodeRow, Coded
<1>3. \A c \in DOMAIN NationalTypes : NationalTypes[c] \in Coded
  BY <1>1 DEF NationalTypes, CodeRow, Coded
<1> QED BY <1>2, <1>3

LEMMA CodedAreTypes == Coded \union {"xmltype"} \subseteq DOMAIN Types
<1>1. DOMAIN Types = UNION {r.types : r \in TypeRows}
  BY DEF Types
<1>2. Coded \union {"xmltype"} \subseteq (UNION {r.types : r \in TextTypes})
          \union (UNION {r.types : r \in ScalarTypes}) \union (UNION {r.types : r \in OtherTypes})
  BY DEF TextTypes, ScalarTypes, OtherTypes, TypeRow, Coded
<1> QED BY <1>1, <1>2 DEF TypeRows


\* The types a variable can have.
Bare == {"urowid", "json_object", "json_array"}

LEMMA PairsRight ==
    \A p \in Pairs : p.type \in DOMAIN Types \ Bare /\ Accepted(p.type, p.native)
<1>1. ASSUME NEW code \in DOMAIN TypesOfCode, NEW national \in BOOLEAN, NEW xml \in BOOLEAN,
             NEW digits \in BOOLEAN, NEW p, p = PopulateTypeInfo(code, national, xml, digits)
      PROVE  p.type \in DOMAIN Types \ Bare /\ Accepted(p.type, p.native)
  <2> DEFINE t == IF national /\ code \in DOMAIN NationalTypes THEN NationalTypes[code]
                  ELSE TypesOfCode[code]
  <2>1. t \in Coded
    BY CodedTypes
  <2>2. Coded \cap Bare = {} /\ "xmltype" \notin Bare
    BY DEF Coded, Bare
  <2>3. t \in DOMAIN Types \ Bare /\ "xmltype" \in DOMAIN Types \ Bare
    BY <2>1, <2>2, CodedAreTypes
  <2>4. p = IF t = "object" /\ xml THEN [type |-> "xmltype", native |-> "bytes"]
            ELSE [type |-> t, native |-> IF t = "number" /\ digits THEN "int64" ELSE Types[t].native]
    BY <1>1 DEF PopulateTypeInfo
  <2> HIDE DEF t
  <2>5. Types["xmltype"].native = "bytes"
    BY <2>3, TypesRight DEF TypeRowRight
  <2>6. CASE t = "object" /\ xml
    BY <2>3, <2>4, <2>5, <2>6 DEF Accepted
  <2>7. CASE ~(t = "object" /\ xml)
    <3>1. p.type = t /\ (p.native = Types[t].native \/ (t = "number" /\ p.native = "int64"))
      BY <2>4, <2>7
    <3> QED BY <2>3, <3>1 DEF Accepted, ValidateTypes
  <2> QED BY <2>6, <2>7
<1>2. ASSUME NEW p \in Described PROVE p.type \in DOMAIN Types \ Bare /\ Accepted(p.type, p.native)
  BY <1>1 DEF Described
<1>3. ASSUME NEW p \in [type : DOMAIN Types, native : Native], Given(p.type, p.native)
      PROVE  p.type \in DOMAIN Types \ Bare /\ Accepted(p.type, p.native)
  BY <1>3 DEF Given, Bare
<1> QED BY <1>2, <1>3 DEF Pairs

\* The pairs, and whether such a variable is kept in chunks.
PairRight(t, n, dynamic) ==
    /\ dynamic => n = "bytes" /\ t \notin Renewed
    /\ t \in Renewed => n /= "bytes"
    /\ t = "object" => n = "object"
    /\ t \notin Renewed /\ ~dynamic => Copied(t, n)

LEMMA PairsKept ==
    ASSUME NEW p \in Pairs, NEW long
    PROVE  PairRight(p.type, p.native, IsLong(p.type, long))
<1> DEFINE t == p.type
           n == p.native
<1>1. t \in DOMAIN Types /\ t \notin Bare /\ (n = Types[t].native \/ ValidateTypes(t, n))
  BY PairsRight DEF Accepted
<1>2. TypeRowRight(t, Types[t])
  BY <1>1, TypesRight
<1>3. IsLong(t, long) => Types[t].size /= "fixed"
  BY DEF IsLong
<1>4. CASE n = Types[t].native
  <2>1. t \notin Renewed => Copied(t, n)
    BY <1>1, <1>2, <1>4 DEF TypeRowRight, Bare
  <2> QED BY <1>2, <1>3, <1>4, <2>1 DEF TypeRowRight, PairRight
<1>5. CASE ValidateTypes(t, n)
  <2>1. Types[t].size = "fixed"
    BY <1>2, <1>5 DEF TypeRowRight
  <2>2. t \notin Renewed /\ t /= "object" /\ Copied(t, n)
    BY <1>5 DEF ValidateTypes, Renewed, Copied
  <2> QED BY <1>3, <2>1, <2>2 DEF PairRight
<1> QED BY <1>1, <1>4, <1>5

-----------------------------------------------------------------------------
\* The elements of the buffers.

Value == Seq(Int \X Int)
Chunk == [cap : Nat, data : Value]
HandleOrNone == Handle \union {NoHandle}
ElementRecords ==
    [null : BOOLEAN, ind : BOOLEAN, raw : Value, data : Value, chunks : Seq(Chunk), num : Nat,
     ref : HandleOrNone, desc : HandleOrNone]
Typed(e) == e \in ElementRecords /\ e.num <= Len(e.chunks)

\* What is outside the chunks.
SameButChunks(e, f) ==
    /\ f.null = e.null /\ f.ind = e.ind /\ f.raw = e.raw /\ f.data = e.data
    /\ f.ref = e.ref /\ f.desc = e.desc

LEMMA ConstantValues ==
    /\ Nothing \in Value /\ Unknown \in Value /\ NoMemory \in Value /\ <<>> \in Value
    /\ Nothing /= Unknown /\ Nothing /= NoMemory /\ Nothing /= <<>> /\ Unknown /= <<>>
<1>1. <<-1, 0>> \in Int \X Int /\ <<-2, 0>> \in Int \X Int /\ <<-3, 0>> \in Int \X Int
  OBVIOUS
<1>2. <<-1, 0>> /= <<-2, 0>> /\ <<-1, 0>> /= <<-3, 0>>
  OBVIOUS
<1>3. \A x, y : << x >> = << y >> => x = y
  OBVIOUS
<1>4. Nothing \in Value /\ Unknown \in Value /\ NoMemory \in Value /\ <<>> \in Value
  BY <1>1 DEF Nothing, Unknown, NoMemory, Value
<1>5. Nothing /= Unknown /\ Nothing /= NoMemory
  BY <1>2, <1>3 DEF Nothing, Unknown, NoMemory
<1>6. Nothing /= <<>> /\ Unknown /= <<>>
  BY DEF Nothing, Unknown
<1> QED BY <1>4, <1>5, <1>6

LEMMA NoElementTyped == Typed(NoElement) /\ NoElement.ind /\ NoElement.null
<1>1. <<>> \in Seq(Chunk) /\ Len(<<>>) = 0
  OBVIOUS
<1> QED BY <1>1, ConstantValues DEF NoElement, Typed, ElementRecords, HandleOrNone

LEMMA Allocated ==
    ASSUME NEW e, Typed(e), NEW a, a = AllocateChunks(e)
    PROVE  /\ a \in ElementRecords /\ a.num = e.num /\ SameButChunks(e, a)
           /\ Len(a.chunks) = Len(e.chunks) + ChunkGrowth
           /\ \A i \in 1..Len(e.chunks) : a.chunks[i] = e.chunks[i]
<1> DEFINE more == [i \in 1..ChunkGrowth |-> NoChunk]
<1>1. NoChunk \in Chunk
  BY ConstantValues DEF NoChunk, Chunk
<1>2. more \in Seq(Chunk) /\ Len(more) = ChunkGrowth
  BY <1>1, PiecesAssumption
<1> HIDE DEF more
<1>3. e.chunks \in Seq(Chunk)
  BY DEF Typed, ElementRecords
<1>4. a = [e EXCEPT !.chunks = e.chunks \o more]
  BY DEF AllocateChunks, more
<1>5. e.chunks \o more \in Seq(Chunk) /\ Len(e.chunks \o more) = Len(e.chunks) + ChunkGrowth
  BY <1>2, <1>3
<1>6. \A i \in 1..Len(e.chunks) : (e.chunks \o more)[i] = e.chunks[i]
  BY <1>2, <1>3
<1>7. a.chunks = e.chunks \o more
  BY <1>4 DEF Typed, ElementRecords
<1>8. a \in ElementRecords /\ a.num = e.num /\ SameButChunks(e, a)
  BY <1>4, <1>5 DEF Typed, ElementRecords, SameButChunks
<1> QED BY <1>5, <1>6, <1>7, <1>8

\* An element with a chunk replaced.
LEMMA ChunkReplaced ==
    ASSUME NEW e \in ElementRecords, NEW k \in 1..Len(e.chunks), NEW c \in Chunk,
           NEW f, f = [e EXCEPT !.chunks[k] = c]
    PROVE  /\ f \in ElementRecords /\ f.num = e.num /\ SameButChunks(e, f)
           /\ Len(f.chunks) = Len(e.chunks) /\ f.chunks[k] = c
           /\ \A i \in 1..Len(e.chunks) : i /= k => f.chunks[i] = e.chunks[i]
<1>1. e.chunks \in Seq(Chunk)
  BY DEF ElementRecords
<1>2. f = [e EXCEPT !.chunks = [e.chunks EXCEPT ![k] = c]]
  OBVIOUS
<1> DEFINE new == [e.chunks EXCEPT ![k] = c]
<1>3. new \in Seq(Chunk) /\ Len(new) = Len(e.chunks) /\ new[k] = c
      /\ \A i \in 1..Len(e.chunks) : i /= k => new[i] = e.chunks[i]
  BY <1>1
<1> HIDE DEF new
<1>4. f = [e EXCEPT !.chunks = new]
  BY <1>2 DEF new
<1>5. f.chunks = new /\ f \in ElementRecords /\ f.num = e.num /\ SameButChunks(e, f)
  BY <1>3, <1>4 DEF ElementRecords, SameButChunks
<1> QED BY <1>3, <1>5

LEMMA OneChunk ==
    ASSUME NEW e, Typed(e), NEW v \in Value, NEW f, f = InOneChunk(e, v)
    PROVE  /\ Typed(f) /\ SameButChunks(e, f) /\ f.num = 1
           /\ f.chunks /= <<>> /\ f.chunks[1].data = v
<1> DEFINE a == IF e.chunks = <<>> THEN AllocateChunks(e) ELSE e
           c == a.chunks[1]
           new == [cap |-> IF Len(v) > c.cap THEN Len(v) ELSE c.cap, data |-> v]
           b == [a EXCEPT !.num = 1]
<1>1. a \in ElementRecords /\ SameButChunks(e, a) /\ Len(a.chunks) >= 1
  <2>1. CASE e.chunks = <<>>
    BY <2>1, Allocated, PiecesAssumption
  <2>2. CASE e.chunks /= <<>>
    BY <2>2 DEF Typed, ElementRecords, SameButChunks
  <2> QED BY <2>1, <2>2
<1>2. c \in Chunk
  BY <1>1 DEF ElementRecords
<1>3. new \in Chunk
  BY <1>2 DEF Chunk, Value
<1>4. b \in ElementRecords /\ SameButChunks(e, b) /\ b.num = 1 /\ b.chunks = a.chunks
  BY <1>1 DEF ElementRecords, SameButChunks
<1>5. f = [a EXCEPT !.num = 1, !.chunks[1] = new]
  BY DEF InOneChunk
<1> HIDE DEF a, new
<1>6. f = [b EXCEPT !.chunks[1] = new]
  BY <1>5
<1> HIDE DEF b
<1>7. /\ f \in ElementRecords /\ f.num = b.num /\ SameButChunks(b, f)
      /\ Len(f.chunks) = Len(b.chunks) /\ f.chunks[1] = new
  BY <1>1, <1>3, <1>4, <1>6, ChunkReplaced
<1>8. f.chunks /= <<>>
  BY <1>1, <1>4, <1>7
<1>9. SameButChunks(e, f) /\ Typed(f)
  BY <1>1, <1>4, <1>7 DEF SameButChunks, Typed
<1> QED BY <1>4, <1>7, <1>8, <1>9 DEF new

LEMMA Lost ==
    ASSUME NEW e, Typed(e), NEW v \in Value, NEW f, f = ChunkLost(e, v)
    PROVE  Typed(f) /\ f.ref = e.ref /\ f.desc = e.desc /\ f.null = e.null
<1> DEFINE a == IF e.chunks = <<>> THEN AllocateChunks(e) ELSE e
           new == [cap |-> Len(v), data |-> NoMemory]
           b == [a EXCEPT !.num = 0, !.data = Unknown]
<1>1. a \in ElementRecords /\ SameButChunks(e, a) /\ Len(a.chunks) >= 1
  <2>1. CASE e.chunks = <<>>
    BY <2>1, Allocated, PiecesAssumption
  <2>2. CASE e.chunks /= <<>>
    BY <2>2 DEF Typed, ElementRecords, SameButChunks
  <2> QED BY <2>1, <2>2
<1>2. new \in Chunk
  BY ConstantValues DEF Chunk, Value
<1>3. /\ b \in ElementRecords /\ b.ref = e.ref /\ b.desc = e.desc /\ b.null = e.null
      /\ b.num = 0 /\ b.chunks = a.chunks
  BY <1>1, ConstantValues DEF ElementRecords, SameButChunks
<1>4. f = [a EXCEPT !.num = 0, !.data = Unknown, !.chunks[1] = new]
  BY DEF ChunkLost
<1> HIDE DEF a, new
<1>5. f = [b EXCEPT !.chunks[1] = new]
  BY <1>4
<1> HIDE DEF b
<1>6. /\ f \in ElementRecords /\ f.num = b.num /\ SameButChunks(b, f)
      /\ Len(f.chunks) = Len(b.chunks)
  BY <1>1, <1>2, <1>3, <1>5, ChunkReplaced
<1> QED BY <1>1, <1>3, <1>6 DEF SameButChunks, Typed

-----------------------------------------------------------------------------
\* What the chunks in use hold together.

LEMMA LeastExists ==
    ASSUME NEW T, T \subseteq Nat, T /= {}
    PROVE  \E k \in T : \A y \in T : k <= y
<1> DEFINE R == OpToRel(<, Nat)
<1>0. IsWellFoundedOn(R, Nat)
  BY NatLessThanWellFounded DEF OpToRel
<1> HIDE DEF R
<1>1. PICK k \in T : \A y \in T : ~(<<y, k>> \in R)
  BY <1>0, WFMin
<1>2. ASSUME NEW y \in T PROVE k <= y
  <2>1. ~(y < k)
    BY <1>1 DEF OpToRel, R
  <2> QED BY <2>1
<1> QED BY <1>2

\* The function Together is made of: the data of the first n chunks.
Joins(f, chunks, n) ==
    f = [k \in 0..n |-> IF k = 0 THEN <<>> ELSE f[k - 1] \o chunks[k].data]
Joined(chunks, n) == CHOOSE f : Joins(f, chunks, n)

LEMMA JoinedExists ==
    ASSUME NEW chunks, NEW n \in Nat
    PROVE  Joins(Joined(chunks, n), chunks, n)
<1> DEFINE Bad == {m \in Nat : ~(\E f : Joins(f, chunks, m))}
<1> SUFFICES ASSUME ~(\E f : Joins(f, chunks, n)) PROVE FALSE
  BY DEF Joined
<1>0. Bad /= {} /\ Bad \subseteq Nat
  OBVIOUS
<1> HIDE DEF Bad
<1>1. PICK m \in Bad : \A y \in Bad : m <= y
  BY <1>0, LeastExists
<1>2. m /= 0
  <2>1. Joins([k \in 0..0 |-> <<>>], chunks, 0)
    BY DEF Joins
  <2> QED BY <2>1 DEF Bad
<1>3. m - 1 \in Nat /\ m \in Nat /\ ~(m <= m - 1)
  BY <1>0, <1>2
<1>4. PICK f : Joins(f, chunks, m - 1)
  BY <1>1, <1>3 DEF Bad
<1> DEFINE g == [k \in 0..m |-> IF k = m THEN f[m - 1] \o chunks[m].data ELSE f[k]]
<1>5. \A k \in 0..m : g[k] = IF k = 0 THEN <<>> ELSE g[k - 1] \o chunks[k].data
  <2> SUFFICES ASSUME NEW k \in 0..m
               PROVE  g[k] = IF k = 0 THEN <<>> ELSE g[k - 1] \o chunks[k].data
    OBVIOUS
  <2>1. CASE k = m
    <3>1. m - 1 \in 0..m /\ m - 1 /= m
      BY <1>3
    <3> QED BY <1>2, <2>1, <3>1
  <2>2. CASE k /= m
    <3>1. k \in 0..m - 1
      BY <1>3, <2>2
    <3>2. f[k] = IF k = 0 THEN <<>> ELSE f[k - 1] \o chunks[k].data
      BY <1>4, <3>1 DEF Joins
    <3>3. k = 0 \/ (k - 1 \in 0..m /\ k - 1 /= m)
      BY <1>3, <2>2
    <3> QED BY <2>2, <3>2, <3>3
  <2> QED BY <2>1, <2>2
<1>6. Joins(g, chunks, m)
  <2>1. g = [k \in 0..m |-> g[k]]
    OBVIOUS
  <2> HIDE DEF g
  <2> QED BY <1>5, <2>1 DEF Joins
<1> HIDE DEF g
<1> QED BY <1>6 DEF Bad

\* Two such functions agree where the chunks do.
LEMMA JoinedAgrees ==
    ASSUME NEW c, NEW d, NEW m \in Nat, NEW n \in Nat, NEW l \in Nat, l <= m, l <= n,
           \A i \in 1..l : c[i].data = d[i].data
    PROVE  Joined(c, m)[l] = Joined(d, n)[l]
<1> DEFINE f == Joined(c, m)
           g == Joined(d, n)
           Bad == {k \in Nat : k <= l /\ f[k] /= g[k]}
<1> SUFFICES ASSUME f[l] /= g[l] PROVE FALSE
  OBVIOUS
<1>0. Bad /= {} /\ Bad \subseteq Nat
  OBVIOUS
<1> HIDE DEF Bad
<1>1. PICK k \in Bad : \A y \in Bad : k <= y
  BY <1>0, LeastExists
<1>2. Joins(f, c, m) /\ Joins(g, d, n)
  BY JoinedExists
<1> HIDE DEF f, g
<1>3. k \in Nat /\ k <= l /\ k \in 0..m /\ k \in 0..n /\ f[k] /= g[k]
  BY DEF Bad
<1>4. /\ f[k] = IF k = 0 THEN <<>> ELSE f[k - 1] \o c[k].data
      /\ g[k] = IF k = 0 THEN <<>> ELSE g[k - 1] \o d[k].data
  BY <1>2, <1>3 DEF Joins
<1>5. k /= 0
  BY <1>3, <1>4
<1>6. k - 1 \in Nat /\ k - 1 <= l /\ ~(k <= k - 1)
  BY <1>3, <1>5
<1>7. f[k - 1] = g[k - 1]
  BY <1>1, <1>6 DEF Bad
<1>8. c[k].data = d[k].data
  BY <1>3, <1>5
<1> QED BY <1>3, <1>4, <1>5, <1>7, <1>8

LEMMA JoinedStep ==
    ASSUME NEW c, NEW n \in Nat
    PROVE  /\ Joined(c, n)[0] = <<>>
           /\ n > 0 => Joined(c, n)[n] = Joined(c, n - 1)[n - 1] \o c[n].data
<1> DEFINE f == Joined(c, n)
<1>1. Joins(f, c, n)
  BY JoinedExists
<1>2. f[0] = <<>>
  BY <1>1 DEF Joins
<1>3. ASSUME n > 0 PROVE f[n] = f[n - 1] \o c[n].data
  BY <1>1, <1>3 DEF Joins
<1>4. ASSUME n > 0 PROVE f[n - 1] = Joined(c, n - 1)[n - 1]
  <2>1. n - 1 \in Nat /\ n - 1 <= n
    BY <1>4
  <2> QED BY <2>1, JoinedAgrees
<1> QED BY <1>2, <1>3, <1>4

LEMMA JoinedTyped ==
    ASSUME NEW c \in Seq(Chunk), NEW n \in Nat, n <= Len(c)
    PROVE  Joined(c, n)[n] \in Value
<1> DEFINE Bad == {k \in Nat : k <= Len(c) /\ Joined(c, k)[k] \notin Value}
<1> SUFFICES ASSUME Joined(c, n)[n] \notin Value PROVE FALSE
  OBVIOUS
<1>0. Bad /= {} /\ Bad \subseteq Nat
  OBVIOUS
<1> HIDE DEF Bad
<1>1. PICK k \in Bad : \A y \in Bad : k <= y
  BY <1>0, LeastExists
<1>2. k \in Nat /\ k <= Len(c) /\ Joined(c, k)[k] \notin Value
  BY DEF Bad
<1>3. k > 0
  <2>1. k /= 0
    BY <1>2, JoinedStep, ConstantValues
  <2> QED BY <1>2, <2>1
<1>4. k - 1 \in Nat /\ k - 1 <= Len(c) /\ ~(k <= k - 1)
  BY <1>2, <1>3
<1>5. Joined(c, k - 1)[k - 1] \in Value
  BY <1>1, <1>4 DEF Bad
<1>6. Joined(c, k)[k] = Joined(c, k - 1)[k - 1] \o c[k].data
  BY <1>2, <1>3, JoinedStep
<1>7. c[k].data \in Value
  <2>1. k \in 1..Len(c)
    BY <1>2, <1>3
  <2>2. c[k] \in Chunk
    BY <2>1
  <2> QED BY <2>2 DEF Chunk
<1> QED BY <1>2, <1>5, <1>6, <1>7 DEF Value

LEMMA TogetherJoined ==
    ASSUME NEW e
    PROVE  Together(e) = Joined(e.chunks, e.num)[e.num]
BY DEF Together, Joined, Joins

LEMMA TogetherTyped ==
    ASSUME NEW e, Typed(e)
    PROVE  /\ Together(e) \in Value
           /\ e.num = 0 => Together(e) = <<>>
           /\ e.num = 1 => Together(e) = e.chunks[1].data
<1>1. e.chunks \in Seq(Chunk) /\ e.num \in Nat /\ e.num <= Len(e.chunks)
  BY DEF Typed, ElementRecords
<1>2. Together(e) = Joined(e.chunks, e.num)[e.num]
  BY TogetherJoined
<1>3. Together(e) \in Value
  BY <1>1, <1>2, JoinedTyped
<1>4. Joined(e.chunks, e.num)[0] = <<>>
  BY <1>1, JoinedStep
<1>5. ASSUME e.num = 1 PROVE Together(e) = e.chunks[1].data
  <2> DEFINE n == e.num
             c == e.chunks
  <2>0. n \in Nat /\ n > 0 /\ n - 1 = 0 /\ n - 1 \in Nat
    BY <1>5
  <2> HIDE DEF n, c
  <2>1. Joined(c, n)[n] = Joined(c, n - 1)[n - 1] \o c[n].data
    BY <2>0, JoinedStep
  <2>2. Joined(c, n - 1)[0] = <<>>
    BY <2>0, JoinedStep
  <2>3. e.chunks[1] \in Chunk
    BY <1>1, <1>5
  <2>4. e.chunks[1].data \in Seq(Int \X Int)
    BY <2>3 DEF Chunk, Value
  <2>5. <<>> \o e.chunks[1].data = e.chunks[1].data
    BY <2>4
  <2> QED BY <1>2, <1>5, <2>0, <2>1, <2>2, <2>5 DEF n, c
<1> QED BY <1>2, <1>3, <1>4, <1>5

\* Together is about the chunks in use only.
LEMMA TogetherOf ==
    ASSUME NEW e, Typed(e), NEW f, f.num = e.num,
           \A i \in 1..e.num : f.chunks[i] = e.chunks[i]
    PROVE  Together(f) = Together(e)
<1> DEFINE n == e.num
           c == e.chunks
           d == f.chunks
<1>1. n \in Nat
  BY DEF Typed, ElementRecords
<1>2. \A i \in 1..n : d[i].data = c[i].data
  OBVIOUS
<1>3. Together(f) = Joined(d, n)[n] /\ Together(e) = Joined(c, n)[n]
  BY TogetherJoined
<1> HIDE DEF n, c, d
<1>4. Joined(d, n)[n] = Joined(c, n)[n]
  BY <1>1, <1>2, JoinedAgrees
<1> QED BY <1>3, <1>4

LEMMA Regrouped ==
    ASSUME NEW T, NEW a \in Seq(T), NEW l \in Seq(T), NEW r \in Seq(T)
    PROVE  (a \o l) \o r = a \o (l \o r)
BY ConcatAssociative

LEMMA Concatenated ==
    ASSUME NEW a \in Value, NEW v \in Value, NEW most \in 0..Len(v)
    PROVE  /\ SubSeq(v, 1, most) \in Value /\ SubSeq(v, most + 1, Len(v)) \in Value
           /\ (a \o SubSeq(v, 1, most)) \o SubSeq(v, most + 1, Len(v)) = a \o v
<1> DEFINE T == Int \X Int
<1>1. v \in Seq(T) /\ a \in Seq(T)
  BY DEF Value
<1> HIDE DEF T
<1>2. most \in Nat /\ Len(v) \in Nat /\ most <= Len(v) /\ \A i \in 1..Len(v) : v[i] \in T
  BY <1>1
<1>3. SubSeq(v, 1, most) \in Seq(T)
  <2>1. \A i \in 1..most : v[i] \in T
    BY <1>2
  <2> QED BY <1>2, <2>1, SubSeqProperties
<1>4. SubSeq(v, most + 1, Len(v)) \in Seq(T)
  <2>1. \A i \in most + 1..Len(v) : v[i] \in T
    BY <1>2
  <2> QED BY <1>2, <2>1, SubSeqProperties
<1>5. SubSeq(v, 1, most) \o SubSeq(v, most + 1, Len(v)) = SubSeq(v, 1, Len(v))
  <2>1. 1 \in 1..Len(v) + 1 /\ most \in 1 - 1..Len(v) /\ Len(v) \in most..Len(v)
    BY <1>2
  <2> QED BY <1>1, <2>1, ConcatAdjacentSubSeq
<1>6. SubSeq(v, 1, Len(v)) = v
  BY <1>1, SubSeqFull
<1>7. (a \o SubSeq(v, 1, most)) \o SubSeq(v, most + 1, Len(v)) = a \o v
  <2>1. PICK l \in Seq(T) : l = SubSeq(v, 1, most)
    BY <1>3
  <2>2. PICK r \in Seq(T) : r = SubSeq(v, most + 1, Len(v))
    BY <1>4
  <2>3. a \in Seq(T)
    BY <1>1
  <2>4. l \o r = v
    BY <1>5, <1>6, <2>1, <2>2, Zenon
  <2>5. (a \o l) \o r = a \o (l \o r)
    BY <2>3, Regrouped
  <2> QED BY <2>1, <2>2, <2>4, <2>5, Zenon
<1> QED BY <1>3, <1>4, <1>7 DEF Value, T

LEMMA RoomMade ==
    ASSUME NEW e, Typed(e), NEW a, a = WithRoom(e)
    PROVE  /\ a \in ElementRecords /\ SameButChunks(e, a) /\ a.num = e.num
           /\ e.num + 1 \in 1..Len(a.chunks)
           /\ \A i \in 1..e.num : a.chunks[i] = e.chunks[i]
<1>0. e \in ElementRecords /\ e.num \in Nat /\ Len(e.chunks) \in Nat /\ e.num <= Len(e.chunks)
  BY DEF Typed, ElementRecords
<1>1. CASE e.num = Len(e.chunks)
  BY <1>0, <1>1, Allocated, PiecesAssumption DEF WithRoom
<1>2. CASE e.num /= Len(e.chunks)
  BY <1>0, <1>2 DEF SameButChunks, WithRoom
<1> QED BY <1>1, <1>2

\* The next chunk: nothing of the value is lost between it and what is left.
LEMMA NextFilled ==
    ASSUME NEW e, Typed(e), NEW v \in Value, NEW next, next = NextChunk(e, v)
    PROVE  /\ Typed(next.element) /\ SameButChunks(e, next.element)
           /\ next.element.num = e.num + 1
           /\ next.left \in Value
           /\ v = <<>> => next.left = <<>>
           /\ Together(next.element) \o next.left = Together(e) \o v
<1> DEFINE a == WithRoom(e)
           size == Room(a.chunks[a.num + 1])
           most == IF Len(v) < size THEN Len(v) ELSE size
           new == [cap |-> size, data |-> SubSeq(v, 1, most)]
           b == [a EXCEPT !.num = @ + 1]
           f == next.element
           k == e.num + 1
<1>1. f = [a EXCEPT !.num = @ + 1, !.chunks[a.num + 1] = new] /\ next.left = SubSeq(v, most + 1, Len(v))
  BY DEF NextChunk
<1> HIDE DEF a, f, k
<1>2. k = e.num + 1 /\ e \in ElementRecords /\ e.num \in Nat /\ Typed(e)
  BY DEF k, Typed, ElementRecords
<1>3. /\ a \in ElementRecords /\ SameButChunks(e, a) /\ a.num = e.num
      /\ k \in 1..Len(a.chunks) /\ \A i \in 1..e.num : a.chunks[i] = e.chunks[i]
  BY <1>2, RoomMade DEF a
<1>4. size \in Nat
  <2>1. a.num + 1 \in 1..Len(a.chunks) /\ a.chunks \in Seq(Chunk)
    BY <1>2, <1>3 DEF ElementRecords
  <2>2. a.chunks[a.num + 1] \in Chunk
    BY <2>1
  <2> QED BY <2>2 DEF Chunk, Room
<1> HIDE DEF size
<1>5. most \in 0..Len(v)
  <2>1. Len(v) \in Nat
    BY DEF Value
  <2> QED BY <1>4, <2>1
<1> HIDE DEF most
<1>6. SubSeq(v, 1, most) \in Value /\ SubSeq(v, most + 1, Len(v)) \in Value
  BY <1>5, Concatenated
<1>7. new \in Chunk /\ new.data = SubSeq(v, 1, most)
  BY <1>4, <1>6 DEF Chunk
<1> HIDE DEF new
<1>8. b \in ElementRecords /\ SameButChunks(e, b) /\ b.num = k /\ b.chunks = a.chunks
  <2>1. a \in ElementRecords /\ a.num + 1 \in Nat /\ a.num + 1 = k
    BY <1>2, <1>3
  <2>2. b = [a EXCEPT !.num = k]
    BY <2>1
  <2>3. k \in Nat
    BY <2>1
  <2>4. b \in ElementRecords /\ b.num = k /\ b.chunks = a.chunks /\ SameButChunks(a, b)
    BY <2>1, <2>2, <2>3 DEF ElementRecords, SameButChunks
  <2> QED BY <1>3, <2>4 DEF SameButChunks
<1>9. f = [b EXCEPT !.chunks[k] = new]
  BY <1>1, <1>2, <1>3
<1> HIDE DEF b
<1>10. /\ f \in ElementRecords /\ f.num = b.num /\ SameButChunks(b, f)
       /\ Len(f.chunks) = Len(b.chunks) /\ f.chunks[k] = new
       /\ \A i \in 1..Len(b.chunks) : i /= k => f.chunks[i] = b.chunks[i]
  BY <1>3, <1>7, <1>8, <1>9, ChunkReplaced
<1>11. Typed(f) /\ SameButChunks(e, f) /\ f.num = k
  BY <1>3, <1>8, <1>10 DEF Typed, SameButChunks
<1>12. Together(f) = Together(e) \o SubSeq(v, 1, most)
  <2>1. Together(f) = Joined(f.chunks, k)[k] /\ Together(e) = Joined(e.chunks, e.num)[e.num]
    BY <1>11, TogetherJoined
  <2>2. k \in Nat /\ k > 0 /\ k - 1 = e.num
    BY <1>2
  <2>3. Joined(f.chunks, k)[k] = Joined(f.chunks, k - 1)[k - 1] \o f.chunks[k].data
    BY <2>2, JoinedStep
  <2>4. ASSUME NEW i \in 1..e.num PROVE f.chunks[i].data = e.chunks[i].data
    <3>1. i /= k /\ i \in 1..Len(b.chunks)
      BY <1>2, <1>3, <1>8
    <3> QED BY <1>3, <1>8, <1>10, <3>1
  <2>5. Joined(f.chunks, e.num)[e.num] = Joined(e.chunks, e.num)[e.num]
    <3> DEFINE d == f.chunks
               n == e.num
               c == e.chunks
    <3>1. n \in Nat /\ \A i \in 1..n : d[i].data = c[i].data
      BY <1>2, <2>4
    <3> HIDE DEF d, n, c
    <3>2. Joined(d, n)[n] = Joined(c, n)[n]
      BY <3>1, JoinedAgrees
    <3> QED BY <3>2 DEF d, n, c
  <2> QED BY <1>7, <1>10, <2>1, <2>2, <2>3, <2>5
<1>13. Together(f) \o next.left = Together(e) \o v
  <2> DEFINE before == Together(e)
  <2>1. before \in Value
    BY TogetherTyped
  <2> HIDE DEF before
  <2>2. (before \o SubSeq(v, 1, most)) \o SubSeq(v, most + 1, Len(v)) = before \o v
    BY <1>5, <2>1, Concatenated
  <2>3. next.left = SubSeq(v, most + 1, Len(v))
    BY <1>1
  <2> QED BY <1>12, <2>2, <2>3 DEF before
<1>14. ASSUME v = <<>> PROVE next.left = <<>>
  <2>1. Len(v) = 0
    BY <1>14
  <2>2. most = 0
    BY <1>5, <2>1
  <2> QED BY <1>1, <2>1, <2>2
<1>15. next.left \in Value
  BY <1>1, <1>6
<1> QED BY <1>2, <1>11, <1>13, <1>14, <1>15 DEF f

-----------------------------------------------------------------------------
\* Transferring an element.

\* What the caller is to see of an element: all but the value and its chunks.
SameHandles(e, f) == f.null = e.null /\ f.ind = e.ind /\ f.ref = e.ref /\ f.desc = e.desc

LEMMA Pointing ==
    ASSUME NEW e \in ElementRecords, 1 <= Len(e.chunks), NEW f, f = PointingAtChunk(e)
    PROVE  /\ f \in ElementRecords /\ SameHandles(e, f) /\ f.num = e.num /\ f.chunks = e.chunks
           /\ f.data = e.chunks[1].data
<1>1. e.chunks[1] \in Chunk
  BY DEF ElementRecords
<1>2. e.chunks[1].data \in Value
  BY <1>1 DEF Chunk
<1> QED BY <1>2 DEF PointingAtChunk, ElementRecords, SameHandles

LEMMA BytesSet ==
    ASSUME NEW e, Typed(e), e.chunks /= <<>>, NEW f, f = SetBytesFromDynamicBytes(e)
    PROVE  /\ Typed(f) /\ SameHandles(e, f) /\ f.num = 1 /\ f.chunks /= <<>>
           /\ f.chunks[1].data = Together(e) /\ f.data = Together(e)
<1>1. e \in ElementRecords /\ e.chunks \in Seq(Chunk) /\ 1 <= Len(e.chunks)
  BY DEF Typed, ElementRecords
<1>2. CASE e.num = 1
  <2>1. f = PointingAtChunk(e)
    BY <1>2 DEF SetBytesFromDynamicBytes
  <2>2. f \in ElementRecords /\ SameHandles(e, f) /\ f.num = 1 /\ f.chunks = e.chunks
        /\ f.data = e.chunks[1].data
    BY <1>1, <1>2, <2>1, Pointing
  <2> QED BY <1>1, <1>2, <2>2, TogetherTyped DEF Typed
<1>3. CASE e.num /= 1
  <2> DEFINE whole == [cap |-> Len(Together(e)), data |-> Together(e)]
             cs == [i \in DOMAIN e.chunks |->
                       IF i = 1 THEN whole ELSE IF i <= e.num THEN NoChunk ELSE e.chunks[i]]
             b == [e EXCEPT !.num = 1, !.chunks = cs]
  <2>1. f = PointingAtChunk(b)
    BY <1>3 DEF SetBytesFromDynamicBytes
  <2>2. Together(e) \in Value
    BY TogetherTyped
  <2>3. whole \in Chunk /\ NoChunk \in Chunk
    BY <2>2, ConstantValues DEF Chunk, Value, NoChunk
  <2>4. whole.data = Together(e)
    OBVIOUS
  <2> HIDE DEF whole
  <2>5. cs \in Seq(Chunk) /\ Len(cs) = Len(e.chunks) /\ cs[1] = whole
    BY <1>1, <2>3
  <2> HIDE DEF cs
  <2>6. b \in ElementRecords /\ SameHandles(e, b) /\ b.num = 1 /\ b.chunks = cs
    BY <1>1, <2>5 DEF ElementRecords, SameHandles
  <2> HIDE DEF b
  <2>7. f \in ElementRecords /\ SameHandles(b, f) /\ f.num = 1 /\ f.chunks = cs
        /\ f.data = whole.data
    BY <1>1, <2>1, <2>5, <2>6, Pointing
  <2>8. cs /= <<>>
    BY <1>1, <2>5
  <2> QED BY <1>1, <2>4, <2>5, <2>6, <2>7, <2>8 DEF Typed, SameHandles
<1> QED BY <1>2, <1>3

LEMMA BytesRead ==
    ASSUME NEW e, Typed(e), NEW v \in Value, NEW f, f = SetBytesFromLob(e, v)
    PROVE  Typed(f) /\ SameHandles(e, f) /\ f.data = v
<1> DEFINE a == InOneChunk(e, v)
           b == [a EXCEPT !.num = 0]
<1>1. Typed(a) /\ SameButChunks(e, a) /\ a.chunks /= <<>> /\ a.chunks[1].data = v
  BY OneChunk
<1> HIDE DEF a
<1>2. /\ b \in ElementRecords /\ SameHandles(e, b) /\ b.num = 0 /\ b.chunks = a.chunks
      /\ 1 <= Len(b.chunks)
  <2>1. a \in ElementRecords /\ SameHandles(e, a)
    BY <1>1 DEF Typed, SameHandles, SameButChunks
  <2>2. a.chunks \in Seq(Chunk)
    BY <2>1 DEF ElementRecords
  <2>3. 1 <= Len(a.chunks)
    BY <1>1, <2>2
  <2> QED BY <2>1, <2>3 DEF ElementRecords, SameHandles
<1>3. f = PointingAtChunk(b)
  BY DEF SetBytesFromLob, a
<1> HIDE DEF b
<1>4. f \in ElementRecords /\ SameHandles(b, f) /\ f.num = 0 /\ f.chunks = b.chunks
      /\ f.data = b.chunks[1].data
  BY <1>2, <1>3, Pointing
<1> QED BY <1>1, <1>2, <1>4 DEF Typed, SameHandles

LEMMA ValueSet ==
    ASSUME NEW e, Typed(e), NEW h \in HandleOrNone, NEW f, f = SetValue(e, h)
    PROVE  /\ Typed(f) /\ f.null = e.null /\ f.ind = e.null /\ f.data = e.data
           /\ f.num = e.num /\ f.chunks = e.chunks
           /\ IF e.null /\ type = "object"
              THEN /\ f.desc = IF e.desc = NoHandle THEN h ELSE e.desc
                   /\ f.ref = IF e.desc = NoHandle THEN h ELSE e.ref
              ELSE f.desc = e.desc /\ f.ref = e.ref
           /\ ~e.null /\ Copied(type, native) => f.raw = e.data
<1>1. CASE e.null
  <2>1. f = [e EXCEPT !.ind = TRUE,
                    !.ref = IF type = "object" /\ e.desc = NoHandle THEN h ELSE e.ref,
                    !.desc = IF type = "object" /\ e.desc = NoHandle THEN h ELSE e.desc]
    BY <1>1 DEF SetValue
  <2> QED BY <1>1, <2>1 DEF Typed, ElementRecords
<1>2. CASE ~e.null
  <2>1. f = [e EXCEPT !.ind = FALSE, !.raw = IF Copied(type, native) THEN e.data ELSE e.raw]
    BY <1>2 DEF SetValue
  <2> QED BY <1>2, <2>1 DEF Typed, ElementRecords
<1> QED BY <1>1, <1>2

LEMMA ValueWritten ==
    ASSUME NEW e, Typed(e), NEW v \in Value, NEW f, f = Written(e, v)
    PROVE  /\ Typed(f) /\ f.null = e.null /\ f.ind = (v = Nothing) /\ f.data = e.data
           /\ f.num = e.num /\ f.chunks = e.chunks /\ f.ref = e.ref /\ f.desc = e.desc
           /\ ~HasHandles => f.raw = v
BY DEF Typed, ElementRecords, Written

LEMMA ValueGot ==
    ASSUME NEW e, Typed(e), NEW contents \in [Handle -> Value],
           ~e.ind /\ isDynamic => e.chunks /= <<>>,
           ~e.ind /\ inLob => e.desc \in Handle,
           isDynamic \in BOOLEAN, inLob \in BOOLEAN,
           NEW f, f = GetValue(e, contents)
    PROVE  /\ Typed(f) /\ f.null = e.ind /\ f.ind = e.ind /\ f.desc = e.desc
           /\ f.ref = IF ~e.ind /\ ~isDynamic /\ ~inLob /\ type = "object" /\ e.ref = NoHandle
                      THEN e.desc ELSE e.ref
           /\ ~isDynamic /\ ~inLob => f.num = e.num /\ f.chunks = e.chunks
           /\ e.ind => f.num = e.num /\ f.chunks = e.chunks
           /\ ~e.ind /\ isDynamic =>
                f.num = 1 /\ f.chunks /= <<>> /\ f.data = Together(e) /\ f.chunks[1].data = Together(e)
           /\ ~e.ind /\ ~isDynamic /\ inLob => f.data = contents[e.desc]
           /\ ~e.ind /\ ~isDynamic /\ ~inLob /\ type /= "object" /\ Copied(type, native) => f.data = e.raw
<1> DEFINE g == [e EXCEPT !.null = FALSE]
<1>1. /\ Typed(g) /\ g.null = FALSE /\ g.ind = e.ind /\ g.desc = e.desc /\ g.ref = e.ref
      /\ g.num = e.num /\ g.chunks = e.chunks /\ g.raw = e.raw
  BY DEF Typed, ElementRecords
<1>2. Together(g) = Together(e)
  BY <1>1, TogetherJoined
<1>0. e.ind \in BOOLEAN
  BY DEF Typed, ElementRecords
<1>3. CASE e.ind
  <2>1. f = [e EXCEPT !.null = TRUE]
    BY <1>3 DEF GetValue
  <2> QED BY <1>3, <2>1 DEF Typed, ElementRecords
<1>4. CASE ~e.ind /\ isDynamic
  <2>1. f = SetBytesFromDynamicBytes(g)
    BY <1>4 DEF GetValue
  <2> HIDE DEF g
  <2>2. /\ Typed(f) /\ SameHandles(g, f) /\ f.num = 1 /\ f.chunks /= <<>>
        /\ f.chunks[1].data = Together(e) /\ f.data = Together(e)
    BY <1>1, <1>2, <1>4, <2>1, BytesSet
  <2>3. e.ind = FALSE /\ f.null = FALSE /\ f.ind = FALSE
    BY <1>0, <1>1, <1>4, <2>2 DEF SameHandles
  <2>4. f.desc = e.desc /\ f.ref = e.ref
    BY <1>1, <2>2 DEF SameHandles
  <2> QED BY <1>4, <2>2, <2>3, <2>4
<1>5. CASE ~e.ind /\ ~isDynamic /\ inLob
  <2>1. f = SetBytesFromLob(g, contents[e.desc])
    BY <1>1, <1>5 DEF GetValue
  <2>2. contents[e.desc] \in Value
    BY <1>5
  <2> HIDE DEF g
  <2>3. Typed(f) /\ SameHandles(g, f) /\ f.data = contents[e.desc]
    BY <1>1, <2>1, <2>2, BytesRead
  <2>4. e.ind = FALSE /\ f.null = FALSE /\ f.ind = FALSE
    BY <1>0, <1>1, <1>5, <2>3 DEF SameHandles
  <2>5. f.desc = e.desc /\ f.ref = e.ref
    BY <1>1, <2>3 DEF SameHandles
  <2> QED BY <1>5, <2>3, <2>4, <2>5
<1>6. CASE ~e.ind /\ ~isDynamic /\ ~inLob
  <2>1. CASE type = "object" /\ e.ref = NoHandle
    <3>1. f = [g EXCEPT !.ref = e.desc]
      BY <1>1, <1>6, <2>1 DEF GetValue
    <3> HIDE DEF g
    <3> QED BY <1>1, <1>6, <2>1, <3>1 DEF Typed, ElementRecords
  <2>2. CASE ~(type = "object" /\ e.ref = NoHandle)
    <3>1. f = IF Copied(type, native) THEN [g EXCEPT !.data = e.raw] ELSE g
      BY <1>1, <1>6, <2>2 DEF GetValue
    <3> HIDE DEF g
    <3> QED BY <1>1, <1>6, <2>2, <3>1 DEF Typed, ElementRecords
  <2> QED BY <2>1, <2>2
<1> QED BY <1>3, <1>4, <1>5, <1>6 DEF Typed, ElementRecords

-----------------------------------------------------------------------------
\* The invariant.

\* What the types allow: long data is bytes and no handle, a LOB stands in for
\* such data only, and values that are no handles are copied.
KindsRight ==
    /\ isDynamic => native = "bytes" /\ type \notin Renewed /\ ~inLob /\ prefetch
    /\ inLob => native = "bytes" /\ type \in Renewed \ {"object"} /\ ~isDynamic /\ prefetch
    /\ type \in Renewed /\ ~inLob => native /= "bytes"
    /\ type = "object" => native = "object"
    /\ type \notin Renewed /\ ~isDynamic => Copied(type, native)
    /\ prefetch => isDynamic \/ type \in Renewed
    /\ stage /= "refused"

BufferTypes ==
    /\ isDynamic \in BOOLEAN /\ prefetch \in BOOLEAN /\ inLob \in BOOLEAN /\ usable \in BOOLEAN
    /\ Typed(main)
    /\ returned \in Seq(ElementRecords) /\ \A i \in 1..Len(returned) : Typed(returned[i])
    /\ returnedCount \in 0..Len(returned)
    /\ lobs \in [Handle -> Value] /\ pending \in Value /\ told \in Seq(Value) /\ given \in Value
    /\ row \in Nat /\ transfers \in Nat

\* Where an element's handle is: OCI's buffer has the descriptor of the handle
\* referenced, but that an object's is referenced only when its value is read.
MainRight(e) ==
    /\ e.ref \in {NoHandle, e.desc}
    /\ type \in Renewed \ {"object"} => e.ref = e.desc /\ e.ref \in Handle
    /\ type \notin Renewed => e.desc = NoHandle
ReturnedRight(e) ==
    /\ e.ref = e.desc
    /\ type \notin Renewed \/ inLob => e.ref = NoHandle
    /\ type \in Renewed \ {"object"} /\ ~inLob /\ usable => e.ref \in Handle
    /\ type = "object" /\ (~e.null \/ ~e.ind) => e.ref \in Handle
    /\ isDynamic /\ ~e.ind => e.chunks /= <<>>
HandlesRight == MainRight(main) /\ \A i \in 1..Len(returned) : ReturnedRight(returned[i])

\* No two elements have the same handle.
NotReturned(h) == h /= NoHandle => \A i \in 1..Len(returned) : returned[i].ref /= h
HandlesApart ==
    /\ \A i, j \in 1..Len(returned) :
        returned[i].ref = returned[j].ref /\ returned[i].ref /= NoHandle => i = j
    /\ NotReturned(main.desc)

\* What is kept is not what is fetched into.
KeptRight ==
    /\ kept /= {} => use = "query" /\ HasHandles /\ prefetch
    /\ stage = "idle" /\ use = "query" /\ HasHandles => prefetch
    /\ \A k \in kept : k[1] \in Handle /\ lobs[k[1]] = k[2] /\ (stage = "rows" => k[1] /= main.desc)

\* The value g is where the next execution takes it from.
Carries(e, g, contents) ==
    IF e.null THEN g = Nothing
    ELSE IF isDynamic THEN e.num = 1 /\ e.chunks /= <<>> /\ e.chunks[1].data = g
    ELSE IF type \in Renewed THEN e.desc \in Handle /\ contents[e.desc] = g
    ELSE e.data = g
GivenCarried == given /= Unknown => Carries(main, given, lobs)

\* The value v, or all of it but the pieces left, is where the server writes.
HoldsValue(e, v, contents) ==
    /\ e.ind <=> v = Nothing
    /\ isDynamic => e.num >= 1
    /\ v /= Nothing =>
        IF isDynamic THEN Together(e) = v
        ELSE IF type \in Renewed THEN e.desc \in Handle /\ contents[e.desc] = v
        ELSE e.raw = v
Filling(e, v, left) ==
    isDynamic /\ e.num >= 1 /\ ~e.ind /\ v /= Nothing /\ Together(e) \o left = v

\* A fetch or an execution under way: what it is told so far is in the buffers.
UnderQuery ==
    /\ row = 0 /\ given = Unknown
    /\ stage = "rows" /\ pending = <<>> => told = <<>> /\ (isDynamic => main.num = 0)
    /\ ~(stage = "rows" /\ pending = <<>>) =>
        /\ Len(told) = 1
        /\ pending /= <<>> => Filling(main, told[1], pending)
        /\ pending = <<>> => HoldsValue(main, told[1], lobs)
UnderReturning ==
    /\ row \in 1..returnedCount /\ usable /\ ~inLob
    /\ Len(told) = IF stage = "rows" /\ pending = <<>> THEN row - 1 ELSE row
    /\ stage = "read" => row = returnedCount
    /\ \A i \in 1..Len(told) :
        IF i = row /\ pending /= <<>> THEN Filling(returned[i], told[i], pending)
        ELSE HoldsValue(returned[i], told[i], lobs)
UnderWay ==
    /\ pending /= <<>> => (stage = "rows" /\ isDynamic) \/ stage = "crashed"
    /\ stage = "read" => pending = <<>>
    /\ stage \in {"rows", "read"} =>
        /\ use \in {"query", "returning"}
        /\ use = "query" => UnderQuery
        /\ use = "returning" => UnderReturning

\* An object the caller can see has been referenced.
ObjectShown ==
    stage = "idle" /\ returned = <<>> /\ type = "object" /\ ~main.null =>
        main.ref = main.desc /\ main.desc \in Handle

BufferInv ==
    /\ BufferTypes /\ KindsRight /\ HandlesRight /\ HandlesApart /\ KeptRight
    /\ GivenCarried /\ UnderWay /\ ObjectShown /\ BoundIsSet /\ ColumnsAreRead

LEMMA LobKinds ==
    /\ "clob" \in Renewed /\ "nclob" \in Renewed /\ "blob" \in Renewed /\ "object" \in Renewed
    /\ \A t \in Renewed : \A n : Copied(t, n)
BY DEF Renewed, Copied

\* The constructors of free handles.
LEMMA Chosen ==
    ASSUME NEW n \in Nat, FreeHandles(n) /= {}
    PROVE  Choice(n) \in [1..n -> Free] /\ \A i, j \in 1..n : i /= j => Choice(n)[i] /= Choice(n)[j]
BY DEF FreeHandles, Choice

LEMMA OneChosen ==
    ASSUME Free /= {}
    PROVE  FreeHandles(1) /= {} /\ Choice(1)[1] \in Free
<1>1. PICK h : h \in Free
  OBVIOUS
<1>2. [i \in 1..1 |-> h] \in FreeHandles(1)
  BY <1>1 DEF FreeHandles
<1> QED BY <1>2, Chosen

LEMMA FreeApart ==
    ASSUME BufferInv, NEW h \in Free
    PROVE  /\ h \in Handle /\ h /= NoHandle /\ h /= main.ref /\ h /= main.desc
           /\ NotReturned(h) /\ \A k \in kept : k[1] /= h
BY HandlesAssumption DEF Free, Held, NotReturned, BufferInv, BufferTypes

-----------------------------------------------------------------------------
\* The caller.

\* A call that sets the element.
LEMMA CallerSets ==
    ASSUME BufferInv, NEW v \in Value, Setting(v), Typed(main'), MainRight(main'),
           NotReturned(main'.desc), lobs' \in [Handle -> Value],
           v /= Unknown => Carries(main', v, lobs'),
           type = "object" /\ ~main'.null => main'.ref = main'.desc /\ main'.desc \in Handle
    PROVE  BufferInv'
<1>1. /\ stage = "idle" /\ stage' = "idle" /\ transfers' = transfers + 1 /\ given' = v
      /\ sent' = <<Unknown, Unknown>> /\ told' = <<Unknown>> /\ kept' = {}
      /\ UNCHANGED <<type, native, isDynamic, prefetch, inLob, returned, returnedCount, usable,
                     use, row, pending>>
  BY DEF Setting, MoreTransfers, typeVars, rowVars, BufferInv
<1>2. BufferTypes'
  BY <1>1, ConstantValues DEF BufferInv, BufferTypes, Typed
<1>3. KindsRight'
  BY <1>1 DEF BufferInv, KindsRight
<1>4. HandlesRight'
  <2>1. MainRight(main)'
    BY <1>1 DEF MainRight
  <2>2. \A i \in 1..Len(returned) : ReturnedRight(returned[i])'
    BY <1>1 DEF BufferInv, HandlesRight, ReturnedRight
  <2> QED BY <1>1, <2>1, <2>2 DEF HandlesRight
<1>5. HandlesApart'
  BY <1>1 DEF BufferInv, HandlesApart, NotReturned
<1>6. KeptRight'
  BY <1>1 DEF BufferInv, KeptRight, HasHandles
<1>7. GivenCarried'
  BY <1>1 DEF GivenCarried, Carries
<1>8. UnderWay'
  BY <1>1 DEF BufferInv, UnderWay
<1>9. ObjectShown'
  BY <1>1 DEF ObjectShown
<1>10. BoundIsSet'
  BY <1>1 DEF BoundIsSet
<1>11. ColumnsAreRead'
  BY <1>1 DEF ColumnsAreRead
<1> QED BY <1>2, <1>3, <1>4, <1>5, <1>6, <1>7, <1>8, <1>9, <1>10, <1>11 DEF BufferInv

LEMMA CallerTyped ==
    ASSUME BufferInv, NEW v \in CallerValue
    PROVE  v \in Value
<1>1. transfers \in Int
  BY DEF BufferInv, BufferTypes
<1>2. CASE v = <<>>
  BY <1>2, ConstantValues
<1>3. ASSUME NEW n \in 1..2, v = [i \in 1..n |-> <<transfers, -i>>] PROVE v \in Value
  <2>1. \A i \in 1..n : <<transfers, -i>> \in Int \X Int
    BY <1>1
  <2> QED BY <1>3, <2>1 DEF Value
<1> QED BY <1>2, <1>3 DEF CallerValue

LEMMA NullIsSet ==
    ASSUME BufferInv, SetNull
    PROVE  BufferInv'
<1>1. Setting(Nothing) /\ main' = [main EXCEPT !.null = TRUE] /\ lobs' = lobs
  BY DEF SetNull
<1>2. /\ Typed(main') /\ main'.null = TRUE /\ main'.ref = main.ref /\ main'.desc = main.desc
  BY <1>1 DEF BufferInv, BufferTypes, Typed, ElementRecords
<1>3. MainRight(main') /\ NotReturned(main'.desc)
  BY <1>2 DEF BufferInv, HandlesRight, MainRight, HandlesApart
<1>4. Carries(main', Nothing, lobs')
  BY <1>2 DEF Carries
<1>5. lobs' \in [Handle -> Value]
  BY <1>1 DEF BufferInv, BufferTypes
<1> QED BY <1>1, <1>2, <1>3, <1>4, <1>5, CallerSets, ConstantValues

LEMMA PlainIsSet ==
    ASSUME BufferInv, NEW v \in CallerValue, SetPlain(v)
    PROVE  BufferInv'
<1>0. v \in Value
  BY CallerTyped
<1>1. /\ Setting(v) /\ main' = [main EXCEPT !.null = FALSE, !.data = v] /\ lobs' = lobs
      /\ native /= "bytes" /\ ~HasHandles
  BY DEF SetPlain
<1>2. /\ Typed(main') /\ main'.null = FALSE /\ main'.ref = main.ref /\ main'.desc = main.desc
      /\ main'.data = v
  BY <1>0, <1>1 DEF BufferInv, BufferTypes, Typed, ElementRecords
<1>3. MainRight(main') /\ NotReturned(main'.desc)
  BY <1>2 DEF BufferInv, HandlesRight, MainRight, HandlesApart
<1>4. ~isDynamic /\ type \notin Renewed
  BY <1>1 DEF BufferInv, KindsRight, HasHandles
<1>5. Carries(main', v, lobs')
  BY <1>2, <1>4 DEF Carries
<1>6. lobs' \in [Handle -> Value] /\ type /= "object"
  BY <1>1, <1>4, LobKinds DEF BufferInv, BufferTypes
<1> QED BY <1>0, <1>1, <1>2, <1>3, <1>5, <1>6, CallerSets

LEMMA HandleIsSet ==
    ASSUME BufferInv, NEW h \in Handle, NEW v \in CallerValue, SetFromHandle(h, v)
    PROVE  BufferInv'
<1>0. v \in Value
  BY CallerTyped
<1>1. /\ Setting(v) /\ main' = [main EXCEPT !.null = FALSE, !.ref = h, !.desc = h]
      /\ HasHandles /\ Offered(h, v)
  BY DEF SetFromHandle, Offered
<1>2. /\ Typed(main') /\ main'.null = FALSE /\ main'.ref = h /\ main'.desc = h
  BY <1>1 DEF BufferInv, BufferTypes, Typed, ElementRecords, HandleOrNone
<1>3. MainRight(main')
  BY <1>1, <1>2 DEF MainRight, HasHandles
<1>4. lobs' \in [Handle -> Value] /\ lobs'[h] = v /\ NotReturned(h)
  <2>1. CASE h = main.ref /\ v = lobs[h] /\ lobs' = lobs
    <3>1. h = main.desc
      BY <2>1, HandlesAssumption DEF BufferInv, HandlesRight, MainRight
    <3> QED BY <2>1, <3>1 DEF BufferInv, BufferTypes, HandlesApart
  <2>2. CASE Free /= {} /\ h = Choice(1)[1] /\ lobs' = [lobs EXCEPT ![h] = v]
    BY <1>0, <2>2, OneChosen, FreeApart DEF BufferInv, BufferTypes
  <2> QED BY <1>1, <2>1, <2>2 DEF Offered
<1>5. Carries(main', v, lobs')
  BY <1>1, <1>2, <1>4 DEF Carries, HasHandles
<1> QED BY <1>0, <1>1, <1>2, <1>3, <1>4, <1>5, CallerSets

LEMMA BytesAreSet ==
    ASSUME BufferInv, NEW v \in CallerValue, SetFromBytes(v)
    PROVE  BufferInv'
<1>0. v \in Value /\ Typed(main) /\ Setting(v) /\ lobs \in [Handle -> Value] /\ isDynamic \in BOOLEAN
      /\ native \in {"bytes", "lob"}
  BY CallerTyped DEF BufferInv, BufferTypes, SetFromBytes
<1>1. type /= "object"
  BY <1>0 DEF BufferInv, KindsRight
<1> DEFINE e == [main EXCEPT !.null = FALSE]
<1>2. /\ Typed(e) /\ e.null = FALSE /\ e.ref = main.ref /\ e.desc = main.desc
      /\ e.chunks = main.chunks
  BY <1>0 DEF Typed, ElementRecords
<1>3. /\ Typed(main') /\ main'.null = FALSE /\ main'.ref = main.ref /\ main'.desc = main.desc
      /\ lobs' \in [Handle -> Value] /\ Carries(main', v, lobs')
  <2>1. CASE HasHandles /\ lobs' = [lobs EXCEPT ![main.ref] = v] /\ main' = e
    <3>1. main.ref = main.desc /\ main.ref \in Handle /\ type \in Renewed /\ ~isDynamic
      BY <1>1, <2>1 DEF BufferInv, HandlesRight, MainRight, HasHandles
    <3>2. lobs' \in [Handle -> Value] /\ lobs'[main.ref] = v
      BY <1>0, <2>1, <3>1
    <3> HIDE DEF e
    <3> QED BY <1>2, <2>1, <3>1, <3>2 DEF Carries
  <2>2. CASE isDynamic /\ lobs' = lobs /\ main' = PointingAtChunk(InOneChunk(e, v))
    <3> DEFINE a == InOneChunk(e, v)
    <3> HIDE DEF e
    <3>1. Typed(a) /\ SameButChunks(e, a) /\ a.num = 1 /\ a.chunks /= <<>> /\ a.chunks[1].data = v
      BY <1>0, <1>2, OneChunk
    <3> HIDE DEF a
    <3>2. a \in ElementRecords /\ 1 <= Len(a.chunks)
      BY <3>1 DEF Typed, ElementRecords
    <3>3. main' \in ElementRecords /\ SameHandles(a, main') /\ main'.num = 1 /\ main'.chunks = a.chunks
      BY <2>2, <3>1, <3>2, Pointing DEF a
    <3>4. Typed(main') /\ main'.null = FALSE /\ main'.ref = main.ref /\ main'.desc = main.desc
      BY <1>2, <3>1, <3>2, <3>3 DEF Typed, SameHandles, SameButChunks
    <3>5. Carries(main', v, lobs')
      BY <2>2, <3>1, <3>3, <3>4 DEF Carries
    <3> QED BY <1>0, <2>2, <3>4, <3>5
  <2>3. CASE ~HasHandles /\ ~isDynamic /\ lobs' = lobs /\ main' = [main EXCEPT !.null = FALSE, !.data = v]
    <3>1. /\ Typed(main') /\ main'.null = FALSE /\ main'.ref = main.ref /\ main'.desc = main.desc
          /\ main'.data = v
      BY <1>0, <2>3 DEF Typed, ElementRecords
    <3> QED BY <1>0, <2>3, <3>1 DEF Carries, HasHandles
  <2> QED BY <2>1, <2>2, <2>3 DEF SetFromBytes
<1>4. MainRight(main') /\ NotReturned(main'.desc)
  BY <1>3 DEF BufferInv, HandlesRight, MainRight, HandlesApart
<1> QED BY <1>0, <1>1, <1>3, <1>4, CallerSets

LEMMA BytesAreNotSet ==
    ASSUME BufferInv, NEW v \in CallerValue, SetFromBytesFails(v)
    PROVE  BufferInv'
<1>1. /\ v \in Value /\ Typed(main) /\ Setting(Unknown) /\ lobs' \in [Handle -> Value]
      /\ isDynamic /\ main' = ChunkLost(main, v)
  BY CallerTyped DEF BufferInv, BufferTypes, SetFromBytesFails
<1>2. Typed(main') /\ main'.ref = main.ref /\ main'.desc = main.desc
  BY <1>1, Lost
<1>3. MainRight(main') /\ NotReturned(main'.desc) /\ type /= "object"
  BY <1>1, <1>2, LobKinds DEF BufferInv, HandlesRight, MainRight, HandlesApart, KindsRight
<1> QED BY <1>1, <1>2, <1>3, CallerSets, ConstantValues

LEMMA KeepKeeps ==
    ASSUME BufferInv, Keep
    PROVE  BufferInv'
<1>1. /\ stage = "idle" /\ use = "query" /\ HasHandles /\ main.ref /= NoHandle
      /\ kept' = {<<main.ref, lobs[main.ref]>>}
      /\ UNCHANGED <<type, native, isDynamic, prefetch, inLob, main, returned, returnedCount, usable,
                     lobs, use, stage, row, pending, transfers, given, sent, told>>
  BY DEF Keep, typeVars, rowVars
<1>2. BufferTypes'
  BY <1>1 DEF BufferInv, BufferTypes
<1>3. KindsRight'
  BY <1>1 DEF BufferInv, KindsRight
<1>4. HandlesRight'
  BY <1>1 DEF BufferInv, HandlesRight, MainRight, ReturnedRight
<1>5. HandlesApart'
  BY <1>1 DEF BufferInv, HandlesApart, NotReturned
<1>6. KeptRight'
  <2>1. main.ref \in Handle
    BY <1>1 DEF BufferInv, BufferTypes, Typed, ElementRecords, HandleOrNone
  <2> QED BY <1>1, <2>1 DEF BufferInv, KeptRight, HasHandles
<1>7. GivenCarried'
  BY <1>1 DEF BufferInv, GivenCarried, Carries
<1>8. UnderWay'
  BY <1>1 DEF BufferInv, UnderWay
<1>9. ObjectShown'
  BY <1>1 DEF BufferInv, ObjectShown
<1>10. BoundIsSet'
  BY <1>1 DEF BufferInv, BoundIsSet
<1>11. ColumnsAreRead'
  BY <1>1 DEF BufferInv, ColumnsAreRead, Shown, HasHandles
<1> QED BY <1>2, <1>3, <1>4, <1>5, <1>6, <1>7, <1>8, <1>9, <1>10, <1>11 DEF BufferInv

LEMMA CrashKeeps ==
    ASSUME BufferInv, Crash
    PROVE  BufferInv'
<1>1. /\ stage' = "crashed"
      /\ UNCHANGED <<type, native, isDynamic, prefetch, inLob, main, returned, returnedCount, usable,
                     lobs, use, row, pending, transfers, given, sent, told, kept>>
  BY DEF Crash, typeVars, rowVars, ghosts
<1>2. BufferTypes'
  BY <1>1 DEF BufferInv, BufferTypes
<1>3. KindsRight'
  BY <1>1 DEF BufferInv, KindsRight
<1>4. HandlesRight'
  BY <1>1 DEF BufferInv, HandlesRight, MainRight, ReturnedRight
<1>5. HandlesApart'
  BY <1>1 DEF BufferInv, HandlesApart, NotReturned
<1>6. KeptRight'
  BY <1>1 DEF BufferInv, KeptRight, HasHandles
<1>7. GivenCarried'
  BY <1>1 DEF BufferInv, GivenCarried, Carries
<1>8. UnderWay'
  BY <1>1 DEF UnderWay
<1>9. ObjectShown'
  BY <1>1 DEF ObjectShown
<1>10. BoundIsSet'
  BY <1>1 DEF BufferInv, BoundIsSet
<1>11. ColumnsAreRead'
  BY <1>1 DEF ColumnsAreRead
<1> QED BY <1>2, <1>3, <1>4, <1>5, <1>6, <1>7, <1>8, <1>9, <1>10, <1>11 DEF BufferInv

LEMMA ConversionKeeps ==
    ASSUME BufferInv, ConvertToLob
    PROVE  BufferInv'
<1> DEFINE h == Choice(1)[1]
           first == IF main.num = 0 THEN <<>> ELSE main.chunks[1].data
<1>1. /\ stage = "idle" /\ isDynamic /\ Free /= {}
      /\ main' = [main EXCEPT !.ref = h, !.desc = h] /\ lobs' = [lobs EXCEPT ![h] = first]
      /\ type' \in {"blob", "nclob", "clob"} /\ isDynamic' = FALSE /\ inLob' = TRUE
      /\ UNCHANGED <<native, prefetch, returned, returnedCount, usable,
                     use, stage, row, pending, transfers, given, sent, told, kept>>
  BY DEF ConvertToLob, rowVars, ghosts
<1> HIDE DEF h
<1>2. h \in Handle /\ h /= NoHandle /\ NotReturned(h)
  BY <1>1, OneChosen, FreeApart DEF h
<1>3. /\ Typed(main) /\ native = "bytes" /\ type \notin Renewed /\ prefetch
      /\ type' \in Renewed /\ type' /= "object" /\ kept = {}
  BY <1>1, LobKinds DEF BufferInv, BufferTypes, KindsRight, KeptRight, HasHandles
<1>4. /\ Typed(main') /\ main'.null = main.null /\ main'.ref = h /\ main'.desc = h
      /\ main'.data = main.data
  BY <1>1, <1>2, <1>3 DEF Typed, ElementRecords, HandleOrNone
<1>5. first \in Value
  <2>1. CASE main.num = 0
    BY <2>1, ConstantValues
  <2>2. CASE main.num /= 0
    <3>1. main.chunks \in Seq(Chunk) /\ 1 \in 1..Len(main.chunks)
      BY <1>3, <2>2 DEF Typed, ElementRecords
    <3>2. main.chunks[1] \in Chunk
      BY <3>1
    <3> QED BY <2>2, <3>2 DEF Chunk
  <2> QED BY <2>1, <2>2
<1> HIDE DEF first
<1>6. lobs' \in [Handle -> Value] /\ lobs'[h] = first
  BY <1>1, <1>2, <1>5 DEF BufferInv, BufferTypes
<1>7. BufferTypes'
  BY <1>1, <1>4, <1>6 DEF BufferInv, BufferTypes
<1>8. KindsRight'
  BY <1>1, <1>3, LobKinds DEF BufferInv, KindsRight
<1>9. HandlesRight'
  <2>1. MainRight(main)'
    BY <1>2, <1>3, <1>4 DEF MainRight
  <2>2. ASSUME NEW i \in 1..Len(returned) PROVE ReturnedRight(returned[i])'
    BY <1>1, <1>3 DEF BufferInv, HandlesRight, ReturnedRight
  <2> QED BY <1>1, <2>1, <2>2 DEF HandlesRight
<1>10. HandlesApart'
  BY <1>1, <1>2, <1>4 DEF BufferInv, HandlesApart, NotReturned
<1>11. KeptRight'
  BY <1>1, <1>3 DEF KeptRight
<1>12. GivenCarried'
  BY <1>1, <1>2, <1>3, <1>4, <1>6 DEF BufferInv, GivenCarried, Carries, first
<1>13. UnderWay'
  BY <1>1 DEF BufferInv, UnderWay
<1>14. ObjectShown'
  BY <1>3 DEF ObjectShown
<1>15. BoundIsSet'
  BY <1>1 DEF BufferInv, BoundIsSet
<1>16. ColumnsAreRead'
  <2>1. Shown(main)' = Shown(main)
    BY <1>1, <1>3, <1>4 DEF Shown
  <2>2. \A i : Shown(returned[i])' = Shown(returned[i])
    BY <1>1, <1>3 DEF Shown
  <2> QED BY <1>1, <2>1, <2>2 DEF BufferInv, ColumnsAreRead
<1> QED BY <1>7, <1>8, <1>9, <1>10, <1>11, <1>12, <1>13, <1>14, <1>15, <1>16 DEF BufferInv

-----------------------------------------------------------------------------
\* Executing.

\* The element as the execution finds it.
LEMMA TransferredRight ==
    ASSUME BufferInv, stage = "idle", type = "object" => Free /= {}, NEW e, e = Transferred
    PROVE  /\ Typed(e) /\ e.null = main.null /\ e.ind = main.null /\ e.data = main.data
           /\ e.num = main.num /\ e.chunks = main.chunks
           /\ MainRight(e) /\ NotReturned(e.desc)
           /\ type /= "object" => e.ref = main.ref /\ e.desc = main.desc
           /\ ~main.null => e.ref = main.ref /\ e.desc = main.desc
           /\ type = "object" /\ (main.null \/ returned = <<>>) => e.desc \in Handle
           /\ given /= Unknown => Carries(e, given, lobs) /\ Read(e) = given
<1> DEFINE h == IF Free = {} THEN NoHandle ELSE Choice(1)[1]
<1>1. h \in HandleOrNone /\ (type = "object" => h \in Free)
  BY OneChosen, FreeApart DEF HandleOrNone
<1>2. e = SetValue(main, h)
  BY DEF Transferred
<1> HIDE DEF h
<1>3. Typed(main)
  BY DEF BufferInv, BufferTypes
<1>4. /\ Typed(e) /\ e.null = main.null /\ e.ind = main.null /\ e.data = main.data
      /\ e.num = main.num /\ e.chunks = main.chunks
      /\ IF main.null /\ type = "object"
         THEN /\ e.desc = IF main.desc = NoHandle THEN h ELSE main.desc
              /\ e.ref = IF main.desc = NoHandle THEN h ELSE main.ref
         ELSE e.desc = main.desc /\ e.ref = main.ref
      /\ ~main.null /\ Copied(type, native) => e.raw = main.data
  BY <1>1, <1>2, <1>3, ValueSet
<1>5. main.ref \in HandleOrNone /\ main.desc \in HandleOrNone /\ main.null \in BOOLEAN
  BY <1>3 DEF Typed, ElementRecords
<1>6. MainRight(main) /\ NotReturned(main.desc)
  BY DEF BufferInv, HandlesRight, HandlesApart
<1>7. MainRight(e) /\ NotReturned(e.desc)
  <2>1. CASE e.desc = main.desc /\ e.ref = main.ref
    BY <1>6, <2>1 DEF MainRight
  <2>2. CASE type = "object" /\ e.desc = h /\ e.ref = h
    BY <1>1, <2>2, FreeApart, LobKinds DEF MainRight
  <2> QED BY <1>4, <2>1, <2>2
<1>8. ASSUME type = "object", main.null \/ returned = <<>> PROVE e.desc \in Handle
  <2>1. CASE main.null
    BY <1>1, <1>4, <1>5, <1>8, <2>1, FreeApart DEF HandleOrNone
  <2>2. CASE ~main.null
    BY <1>4, <1>8, <2>2 DEF BufferInv, ObjectShown
  <2> QED BY <2>1, <2>2
<1>9. ASSUME given /= Unknown PROVE Carries(e, given, lobs) /\ Read(e) = given
  <2>1. Carries(main, given, lobs)
    BY <1>9 DEF BufferInv, GivenCarried
  <2>2. CASE main.null
    BY <1>4, <2>1, <2>2 DEF Carries, Read
  <2>3. CASE ~main.null
    <3>1. e.desc = main.desc /\ e.ind = FALSE /\ e.null = FALSE
      BY <1>4, <1>5, <2>3
    <3>2. CASE isDynamic
      BY <1>4, <2>1, <2>3, <3>1, <3>2 DEF Carries, Read
    <3>3. CASE ~isDynamic /\ type \in Renewed
      BY <1>4, <2>1, <2>3, <3>1, <3>3, HandlesAssumption DEF Carries, Read
    <3>4. CASE ~isDynamic /\ type \notin Renewed
      <4>1. main.desc = NoHandle /\ Copied(type, native)
        BY <1>6, <3>4 DEF MainRight, BufferInv, KindsRight
      <4> QED BY <1>4, <2>1, <2>3, <3>1, <3>4, <4>1 DEF Carries, Read
    <3> QED BY <3>2, <3>3, <3>4
  <2> QED BY <2>2, <2>3
<1> QED BY <1>4, <1>7, <1>8, <1>9

\* The rows of a DML returning statement.
RowsSound ==
    /\ returned \in Seq(ElementRecords)
    /\ \A i \in 1..Len(returned) : Typed(returned[i]) /\ ReturnedRight(returned[i])
    /\ \A i, j \in 1..Len(returned) :
        returned[i].ref = returned[j].ref /\ returned[i].ref /= NoHandle => i = j

LEMMA RowsAreSound ==
    ASSUME BufferInv
    PROVE  RowsSound
BY DEF BufferInv, BufferTypes, HandlesRight, HandlesApart, RowsSound

\* An execution that writes nothing into the element.
LEMMA ExecutionKeeps ==
    ASSUME BufferInv, NEW u \in {"dml", "returning"}, Executing(u), NEW e, e = Transferred,
           main' = e, UNCHANGED <<typeVars, lobs, pending, given>>, stage' \in {"idle", "rows"},
           RowsSound', \A i \in 1..Len(returned') : returned'[i].ref = e.desc => e.desc = NoHandle,
           usable' \in BOOLEAN, returnedCount' \in 0..Len(returned'), told' \in Seq(Value),
           row' \in Nat, returned' = <<>> => returned = <<>>
    PROVE  /\ BufferTypes' /\ KindsRight' /\ HandlesRight' /\ HandlesApart' /\ KeptRight'
           /\ GivenCarried' /\ ObjectShown' /\ BoundIsSet'
<1>1. /\ stage = "idle" /\ (type = "object" => Free /= {}) /\ transfers' = transfers + 1
      /\ use' = u /\ kept' = {} /\ sent' = <<Read(e), given>>
      /\ UNCHANGED <<type, native, isDynamic, prefetch, inLob>>
  BY DEF Executing, MoreTransfers, typeVars
<1>2. /\ Typed(e) /\ e.null = main.null /\ e.data = main.data
      /\ e.num = main.num /\ e.chunks = main.chunks
      /\ MainRight(e) /\ NotReturned(e.desc)
      /\ ~main.null => e.ref = main.ref /\ e.desc = main.desc
      /\ given /= Unknown => Carries(e, given, lobs) /\ Read(e) = given
  BY <1>1, TransferredRight
<1>3. BufferTypes'
  BY <1>1, <1>2 DEF BufferInv, BufferTypes, RowsSound
<1>4. KindsRight'
  BY <1>1 DEF BufferInv, KindsRight
<1>5. HandlesRight'
  <2>1. MainRight(main)'
    BY <1>1, <1>2 DEF MainRight
  <2> QED BY <2>1 DEF HandlesRight, RowsSound
<1>6. HandlesApart'
  BY DEF HandlesApart, RowsSound, NotReturned
<1>7. KeptRight'
  BY <1>1 DEF KeptRight
<1>8. GivenCarried'
  BY <1>1, <1>2 DEF GivenCarried, Carries
<1>9. ObjectShown'
  BY <1>1, <1>2 DEF BufferInv, ObjectShown
<1>10. BoundIsSet'
  BY <1>1, <1>2 DEF BoundIsSet
<1> QED BY <1>3, <1>4, <1>5, <1>6, <1>7, <1>8, <1>9, <1>10

\* Rows that are not touched stay as they are.
LEMMA RowsStaySound ==
    ASSUME BufferInv, UNCHANGED <<type, inLob, isDynamic, usable, returned>>
    PROVE  RowsSound'
<1>1. RowsSound
  BY RowsAreSound
<1>2. \A i \in 1..Len(returned) : ReturnedRight(returned[i])'
  BY <1>1 DEF RowsSound, ReturnedRight
<1> QED BY <1>1, <1>2 DEF RowsSound

LEMMA DmlKeeps ==
    ASSUME BufferInv, ExecuteDml
    PROVE  BufferInv'
<1> DEFINE e == Transferred
<1>1. /\ Executing("dml") /\ main' = e /\ returnedCount' = 0 /\ told' = <<Unknown>>
      /\ UNCHANGED <<typeVars, returned, usable, lobs, stage, row, pending, given>>
  BY DEF ExecuteDml, ResetRows
<1>2. /\ stage = "idle" /\ (type = "object" => Free /= {})
      /\ UNCHANGED <<type, native, isDynamic, prefetch, inLob>>
  BY <1>1 DEF Executing, typeVars
<1>3. NotReturned(e.desc)
  BY <1>2, TransferredRight
<1>4. RowsSound'
  BY <1>1, <1>2, RowsStaySound
<1> HIDE DEF e
<1>5. /\ \A i \in 1..Len(returned') : returned'[i].ref = e.desc => e.desc = NoHandle
      /\ usable' \in BOOLEAN /\ returnedCount' \in 0..Len(returned') /\ told' \in Seq(Value) /\ row' \in Nat
  BY <1>1, <1>3, ConstantValues DEF NotReturned, BufferInv, BufferTypes
<1>6. /\ BufferTypes' /\ KindsRight' /\ HandlesRight' /\ HandlesApart' /\ KeptRight'
      /\ GivenCarried' /\ ObjectShown' /\ BoundIsSet'
  BY <1>1, <1>2, <1>4, <1>5, ExecutionKeeps DEF e
<1>7. UnderWay'
  BY <1>1, <1>2 DEF BufferInv, UnderWay
<1>8. ColumnsAreRead'
  BY <1>1, <1>2 DEF ColumnsAreRead
<1> QED BY <1>6, <1>7, <1>8 DEF BufferInv

LEMMA NothingReturnedKeeps ==
    ASSUME BufferInv, ReturnNothing
    PROVE  BufferInv'
<1> DEFINE e == Transferred
<1>1. /\ Executing("returning") /\ main' = e /\ returnedCount' = 0 /\ told' = <<>>
      /\ UNCHANGED <<typeVars, returned, usable, lobs, stage, row, pending, given>>
  BY DEF ReturnNothing, ResetRows
<1>2. /\ stage = "idle" /\ (type = "object" => Free /= {}) /\ use' = "returning"
      /\ UNCHANGED <<type, native, isDynamic, prefetch, inLob>>
  BY <1>1 DEF Executing, typeVars
<1>3. NotReturned(e.desc)
  BY <1>2, TransferredRight
<1>4. RowsSound'
  BY <1>1, <1>2, RowsStaySound
<1> HIDE DEF e
<1>5. /\ \A i \in 1..Len(returned') : returned'[i].ref = e.desc => e.desc = NoHandle
      /\ usable' \in BOOLEAN /\ returnedCount' \in 0..Len(returned') /\ told' \in Seq(Value) /\ row' \in Nat
  BY <1>1, <1>3, ConstantValues DEF NotReturned, BufferInv, BufferTypes
<1>6. /\ BufferTypes' /\ KindsRight' /\ HandlesRight' /\ HandlesApart' /\ KeptRight'
      /\ GivenCarried' /\ ObjectShown' /\ BoundIsSet'
  BY <1>1, <1>2, <1>4, <1>5, ExecutionKeeps DEF e
<1>7. UnderWay'
  BY <1>1, <1>2 DEF BufferInv, UnderWay
<1>8. ColumnsAreRead'
  <2>1. [i \in 1..returnedCount' |-> Shown(returned[i])'] = <<>>
    BY <1>1
  <2> QED BY <1>1, <1>2, <2>1 DEF ColumnsAreRead
<1> QED BY <1>6, <1>7, <1>8 DEF BufferInv

\* New elements.
NewElement(h) == [NoElement EXCEPT !.ref = h, !.desc = h]

LEMMA NewElements ==
    ASSUME NEW t, NEW n \in Nat, NEW hs
    PROVE  InitBuffer(t, Elements(n), hs) =
               [i \in 1..n |-> NewElement(IF t \in Renewed \ {"object"} THEN hs[i] ELSE NoHandle)]
<1> DEFINE es == Elements(n)
           f == InitBuffer(t, es, hs)
           g == [i \in 1..n |-> NewElement(IF t \in Renewed \ {"object"} THEN hs[i] ELSE NoHandle)]
<1>1. DOMAIN es = 1..n /\ \A i \in 1..n : es[i] = NoElement
  BY DEF Elements
<1> HIDE DEF es
<1>2. DOMAIN f = DOMAIN es /\ f = [i \in DOMAIN f |-> f[i]]
  BY DEF InitBuffer
<1>3. ASSUME NEW i \in 1..n
      PROVE  f[i] = NewElement(IF t \in Renewed \ {"object"} THEN hs[i] ELSE NoHandle)
  <2>1. CASE t \in Renewed \ {"object"}
    BY <1>1, <2>1 DEF InitBuffer, NewElement
  <2>2. CASE t \notin Renewed \ {"object"}
    BY <1>1, <2>2 DEF InitBuffer, NewElement
  <2> QED BY <2>1, <2>2
<1> HIDE DEF f
<1>4. f = g
  BY <1>1, <1>2, <1>3
<1> QED BY <1>4 DEF f, es

LEMMA WithoutHandle == NewElement(NoHandle) = NoElement
<1>1. NoElement \in ElementRecords /\ NoElement.ref = NoHandle /\ NoElement.desc = NoHandle
  BY NoElementTyped DEF Typed, NoElement
<1> QED BY <1>1 DEF NewElement, ElementRecords

\* The rows of new buffers.
LEMMA RowsMade ==
    ASSUME BufferInv, NEW n \in Nat, UNCHANGED <<type, inLob, isDynamic>>, usable' \in BOOLEAN,
           returned' = Elements(n), type \in Renewed => type = "object" \/ ~usable'
    PROVE  RowsSound' /\ Len(returned') = n /\ \A i \in 1..n : returned'[i].ref = NoHandle
<1>1. /\ NoElement \in ElementRecords /\ Typed(NoElement) /\ NoElement.ind /\ NoElement.null
      /\ NoElement.ref = NoHandle /\ NoElement.desc = NoHandle
  BY NoElementTyped DEF NoElement, Typed
<1>2. returned' \in Seq(ElementRecords) /\ Len(returned') = n /\ \A i \in 1..n : returned'[i] = NoElement
  BY <1>1 DEF Elements
<1>3. ReturnedRight(NoElement)'
  BY <1>1, LobKinds DEF ReturnedRight, NoElement
<1> QED BY <1>1, <1>2, <1>3 DEF RowsSound

LEMMA HandlesMade ==
    ASSUME BufferInv, NEW n \in Nat, UNCHANGED <<type, inLob, isDynamic>>, usable' \in BOOLEAN,
           type \in Renewed, type /= "object", ~isDynamic, ~inLob,
           NEW hs \in [1..n -> Free], \A i, j \in 1..n : i /= j => hs[i] /= hs[j],
           returned' = InitBuffer(type, Elements(n), hs)
    PROVE  RowsSound' /\ Len(returned') = n /\ \A i \in 1..n : returned'[i].ref = hs[i]
<1>1. \A i \in 1..n : hs[i] \in Handle /\ hs[i] /= NoHandle
  BY FreeApart
<1>2. ASSUME NEW h \in Handle PROVE Typed(NewElement(h)) /\ NewElement(h).ref = h /\ NewElement(h).desc = h
  BY NoElementTyped DEF NewElement, Typed, ElementRecords, HandleOrNone
<1>3. returned' = [i \in 1..n |-> NewElement(hs[i])]
  BY NewElements
<1>4. returned' \in Seq(ElementRecords) /\ Len(returned') = n /\ \A i \in 1..n : returned'[i] = NewElement(hs[i])
  BY <1>1, <1>2, <1>3 DEF Typed
<1>5. ASSUME NEW i \in 1..n PROVE ReturnedRight(returned[i])'
  BY <1>1, <1>2, <1>4 DEF ReturnedRight
<1>6. \A i \in 1..n : Typed(returned'[i]) /\ returned'[i].ref = hs[i]
  BY <1>1, <1>2, <1>4
<1> QED BY <1>4, <1>5, <1>6 DEF RowsSound

LEMMA ReturningStarts ==
    ASSUME BufferInv, NEW n \in 1..MaxReturned, StartReturning(n)
    PROVE  BufferInv'
<1> DEFINE e == Transferred
<1>0. n \in Nat /\ n >= 1
  BY PiecesAssumption
<1>1. /\ Executing("returning") /\ main' = e /\ returnedCount' = n /\ told' = <<>>
      /\ row' = 1 /\ stage' = "rows" /\ usable /\ ~inLob
      /\ UNCHANGED <<typeVars, usable, lobs, pending, given>>
  BY DEF StartReturning
<1>2. /\ stage = "idle" /\ (type = "object" => Free /= {}) /\ use' = "returning"
      /\ UNCHANGED <<type, native, isDynamic, prefetch, inLob>>
  BY <1>1 DEF Executing, typeVars
<1>3. NotReturned(e.desc) /\ (type /= "object" => e.desc = main.desc)
  BY <1>2, TransferredRight
<1>4. returned \in Seq(ElementRecords) /\ usable \in BOOLEAN /\ Len(returned) \in Nat
  BY DEF BufferInv, BufferTypes
<1> HIDE DEF e
<1>5. /\ RowsSound' /\ returnedCount' \in 0..Len(returned') /\ (returned' = <<>> => returned = <<>>)
      /\ \A i \in 1..Len(returned') : returned'[i].ref = e.desc => e.desc = NoHandle
  <2>1. CASE n <= Len(returned)
    <3>1. returned' = returned
      BY <1>0, <1>4, <2>1 DEF StartReturning
    <3>2. RowsSound'
      BY <1>1, <1>2, <3>1, RowsStaySound
    <3> QED BY <1>0, <1>1, <1>3, <1>4, <2>1, <3>1, <3>2 DEF NotReturned
  <2>2. CASE n > Len(returned) /\ HasHandles /\ type /= "object"
    <3>1. type \in Renewed /\ ~isDynamic
      BY <2>2 DEF HasHandles
    <3>2. FreeHandles(n) /= {} /\ returned' = InitBuffer(type, Elements(n), Choice(n))
      BY <2>2, <3>1 DEF StartReturning
    <3>3. Choice(n) \in [1..n -> Free] /\ \A i, j \in 1..n : i /= j => Choice(n)[i] /= Choice(n)[j]
      BY <1>0, <3>2, Chosen
    <3>4. RowsSound' /\ Len(returned') = n /\ \A i \in 1..n : returned'[i].ref = Choice(n)[i]
      BY <1>0, <1>1, <1>2, <1>4, <2>2, <3>1, <3>2, <3>3, HandlesMade
    <3>5. \A i \in 1..n : Choice(n)[i] /= main.desc
      BY <3>3, FreeApart
    <3>6. returned' /= <<>>
      BY <1>0, <3>4
    <3> QED BY <1>0, <1>1, <1>3, <2>2, <3>4, <3>5, <3>6
  <2>3. CASE n > Len(returned) /\ ~(HasHandles /\ type /= "object")
    <3>1. returned' = Elements(n)
      <4>1. CASE isDynamic
        BY <2>3, <4>1 DEF StartReturning
      <4>2. CASE ~isDynamic
        <5>1. type \notin Renewed \ {"object"}
          BY <2>3, <4>2 DEF HasHandles
        <5>2. PICK hs : returned' = InitBuffer(type, Elements(n), hs)
          BY <2>3, <4>2 DEF StartReturning
        <5>3. returned' = [i \in 1..n |-> NewElement(NoHandle)]
          BY <1>0, <5>1, <5>2, NewElements
        <5> QED BY <5>3, WithoutHandle DEF Elements
      <4> QED BY <4>1, <4>2
    <3>2. type \in Renewed => type = "object"
      BY <2>3 DEF HasHandles, BufferInv, KindsRight
    <3>3. RowsSound' /\ Len(returned') = n /\ \A i \in 1..n : returned'[i].ref = NoHandle
      BY <1>0, <1>1, <1>2, <1>4, <3>1, <3>2, RowsMade
    <3>4. returned' /= <<>>
      BY <1>0, <3>3
    <3> QED BY <1>0, <1>1, <3>3, <3>4
  <2> QED BY <1>0, <1>4, <2>1, <2>2, <2>3
<1>6. told' \in Seq(Value) /\ usable' \in BOOLEAN /\ row' \in Nat
  BY <1>1, <1>4
<1>7. /\ BufferTypes' /\ KindsRight' /\ HandlesRight' /\ HandlesApart' /\ KeptRight'
      /\ GivenCarried' /\ ObjectShown' /\ BoundIsSet'
  BY <1>1, <1>2, <1>5, <1>6, ExecutionKeeps DEF e
<1>8. UnderWay'
  <2>1. pending' = <<>>
    BY <1>1, <1>2 DEF BufferInv, UnderWay
  <2>2. UnderReturning'
    BY <1>0, <1>1, <1>2, <2>1 DEF UnderReturning
  <2> QED BY <1>1, <1>2, <2>1, <2>2 DEF UnderWay
<1>9. ColumnsAreRead'
  BY <1>1 DEF ColumnsAreRead
<1> QED BY <1>7, <1>8, <1>9 DEF BufferInv

LEMMA ReturningIsNotStarted ==
    ASSUME BufferInv, NEW n \in 1..MaxReturned, StartReturningFails(n)
    PROVE  BufferInv'
<1> DEFINE e == Transferred
<1>0. n \in Nat /\ n >= 1
  BY PiecesAssumption
<1>1. /\ Executing("returning") /\ main' = e /\ returnedCount' = 0 /\ told' = <<Unknown>>
      /\ usable' = FALSE /\ returned' = Elements(n)
      /\ UNCHANGED <<typeVars, lobs, stage, row, pending, given>>
  BY DEF StartReturningFails, ResetRows
<1>2. /\ stage = "idle" /\ (type = "object" => Free /= {})
      /\ UNCHANGED <<type, native, isDynamic, prefetch, inLob>>
  BY <1>1 DEF Executing, typeVars
<1>3. RowsSound' /\ Len(returned') = n /\ \A i \in 1..n : returned'[i].ref = NoHandle
  BY <1>0, <1>1, <1>2, RowsMade
<1> HIDE DEF e
<1>4. /\ \A i \in 1..Len(returned') : returned'[i].ref = e.desc => e.desc = NoHandle
      /\ usable' \in BOOLEAN /\ returnedCount' \in 0..Len(returned') /\ told' \in Seq(Value) /\ row' \in Nat
      /\ returned' /= <<>>
  <2>1. returned' /= <<>>
    BY <1>0, <1>3
  <2>2. row' \in Nat
    BY <1>1 DEF BufferInv, BufferTypes
  <2>3. \A i \in 1..Len(returned') : returned'[i].ref = e.desc => e.desc = NoHandle
    BY <1>3
  <2>4. returnedCount' \in 0..Len(returned')
    BY <1>0, <1>1, <1>3
  <2>5. told' \in Seq(Value)
    BY <1>1, ConstantValues
  <2>6. usable' \in BOOLEAN
    BY <1>1
  <2> QED BY <2>1, <2>2, <2>3, <2>4, <2>5, <2>6
<1>5. /\ BufferTypes' /\ KindsRight' /\ HandlesRight' /\ HandlesApart' /\ KeptRight'
      /\ GivenCarried' /\ ObjectShown' /\ BoundIsSet'
  BY <1>1, <1>2, <1>3, <1>4, ExecutionKeeps DEF e
<1>6. UnderWay'
  BY <1>1, <1>2 DEF BufferInv, UnderWay
<1>7. ColumnsAreRead'
  BY <1>1, <1>2 DEF ColumnsAreRead
<1> QED BY <1>5, <1>6, <1>7 DEF BufferInv

-----------------------------------------------------------------------------
\* Reading back.

\* What the caller sees in an element.
ShownIn(e, contents) ==
    IF e.null THEN Nothing
    ELSE IF HasHandles /\ native /= "bytes" THEN contents[e.ref] ELSE e.data

\* The element of the variable: the value written by the server is shown, and
\* is what the next execution takes.
LEMMA MainGot ==
    ASSUME BufferInv, NEW e, Typed(e), MainRight(e), NEW contents \in [Handle -> Value],
           NEW v \in Value, HoldsValue(e, v, contents), NEW f, f = GetValue(e, contents)
    PROVE  /\ Typed(f) /\ MainRight(f) /\ f.desc = e.desc
           /\ Carries(f, v, contents) /\ ShownIn(f, contents) = v
           /\ type = "object" /\ ~f.null => f.ref = f.desc /\ f.desc \in Handle
<1>0. KindsRight /\ isDynamic \in BOOLEAN /\ inLob \in BOOLEAN
      /\ e.ind \in BOOLEAN /\ e.chunks \in Seq(Chunk) /\ e.num <= Len(e.chunks) /\ e.num \in Nat
  BY DEF BufferInv, BufferTypes, Typed, ElementRecords
<1>1. ~e.ind /\ isDynamic => e.chunks /= <<>>
  BY <1>0 DEF HoldsValue
<1>2. ~e.ind /\ inLob => e.desc \in Handle
  BY <1>0 DEF KindsRight, MainRight
<1>3. /\ Typed(f) /\ f.null = e.ind /\ f.ind = e.ind /\ f.desc = e.desc
      /\ f.ref = IF ~e.ind /\ ~isDynamic /\ ~inLob /\ type = "object" /\ e.ref = NoHandle
                 THEN e.desc ELSE e.ref
      /\ ~e.ind /\ isDynamic =>
           f.num = 1 /\ f.chunks /= <<>> /\ f.data = Together(e) /\ f.chunks[1].data = Together(e)
      /\ ~e.ind /\ ~isDynamic /\ inLob => f.data = contents[e.desc]
      /\ ~e.ind /\ ~isDynamic /\ ~inLob /\ type /= "object" /\ Copied(type, native) => f.data = e.raw
  BY <1>0, <1>1, <1>2, ValueGot
<1>4. MainRight(f)
  BY <1>3, LobKinds DEF MainRight
<1>5. CASE e.ind
  <2>1. v = Nothing /\ f.null = TRUE
    BY <1>0, <1>3, <1>5 DEF HoldsValue
  <2> QED BY <1>3, <1>4, <2>1 DEF Carries, ShownIn
<1>6. CASE ~e.ind /\ isDynamic
  <2>1. v /= Nothing /\ f.null = FALSE /\ Together(e) = v
    BY <1>0, <1>3, <1>6 DEF HoldsValue
  <2>2. type /= "object" /\ ~HasHandles
    BY <1>0, <1>6, LobKinds DEF KindsRight, HasHandles
  <2> QED BY <1>3, <1>4, <1>6, <2>1, <2>2 DEF Carries, ShownIn
<1>7. CASE ~e.ind /\ ~isDynamic /\ type \in Renewed
  <2>1. v /= Nothing /\ f.null = FALSE /\ e.desc \in Handle /\ contents[e.desc] = v
    BY <1>0, <1>3, <1>7 DEF HoldsValue
  <2>2. e.desc /= NoHandle
    BY <2>1, HandlesAssumption
  <2>3. Carries(f, v, contents)
    BY <1>3, <1>7, <2>1 DEF Carries
  <2>4. CASE inLob
    <3>1. native = "bytes" /\ f.data = v /\ type /= "object"
      BY <1>0, <1>3, <1>7, <2>1, <2>4 DEF KindsRight
    <3> QED BY <1>3, <1>4, <2>1, <2>3, <3>1 DEF ShownIn
  <2>5. CASE ~inLob
    <3>1. f.ref = f.desc
      <4>1. CASE type = "object"
        BY <1>3, <1>7, <2>2, <2>5, <4>1 DEF MainRight
      <4>2. CASE type /= "object"
        BY <1>3, <1>7, <4>2 DEF MainRight
      <4> QED BY <4>1, <4>2
    <3>2. HasHandles /\ native /= "bytes"
      BY <1>0, <1>7, <2>5 DEF HasHandles, KindsRight
    <3> QED BY <1>3, <1>4, <2>1, <2>3, <3>1, <3>2 DEF ShownIn
  <2> QED BY <2>4, <2>5
<1>8. CASE ~e.ind /\ ~isDynamic /\ type \notin Renewed
  <2>1. v /= Nothing /\ f.null = FALSE /\ e.raw = v
    BY <1>0, <1>3, <1>8 DEF HoldsValue
  <2>2. ~inLob /\ Copied(type, native) /\ type /= "object" /\ ~HasHandles
    BY <1>0, <1>8, LobKinds DEF KindsRight, HasHandles
  <2>3. f.data = v
    BY <1>3, <1>8, <2>1, <2>2
  <2> QED BY <1>3, <1>4, <1>8, <2>1, <2>2, <2>3 DEF Carries, ShownIn
<1> QED BY <1>5, <1>6, <1>7, <1>8

\* A returned row.
LEMMA RowGot ==
    ASSUME BufferInv, NEW e, Typed(e), ReturnedRight(e), ~inLob, NEW f, f = GetValue(e, lobs)
    PROVE  /\ Typed(f) /\ ReturnedRight(f) /\ f.ref = e.ref
           /\ \A v : HoldsValue(e, v, lobs) => ShownIn(f, lobs) = v
<1>0. KindsRight /\ isDynamic \in BOOLEAN /\ inLob = FALSE /\ lobs \in [Handle -> Value]
      /\ e.ind \in BOOLEAN
  BY DEF BufferInv, BufferTypes, Typed, ElementRecords
<1>1. ~e.ind /\ isDynamic => e.chunks /= <<>>
  BY DEF ReturnedRight
<1>2. inLob \in BOOLEAN /\ (~e.ind /\ inLob => e.desc \in Handle)
  BY <1>0
<1>3. /\ Typed(f) /\ f.null = e.ind /\ f.ind = e.ind /\ f.desc = e.desc
      /\ f.ref = IF ~e.ind /\ ~isDynamic /\ ~inLob /\ type = "object" /\ e.ref = NoHandle
                 THEN e.desc ELSE e.ref
      /\ ~isDynamic /\ ~inLob => f.num = e.num /\ f.chunks = e.chunks
      /\ e.ind => f.num = e.num /\ f.chunks = e.chunks
      /\ ~e.ind /\ isDynamic =>
           f.num = 1 /\ f.chunks /= <<>> /\ f.data = Together(e) /\ f.chunks[1].data = Together(e)
      /\ ~e.ind /\ ~isDynamic /\ ~inLob /\ type /= "object" /\ Copied(type, native) => f.data = e.raw
  BY <1>0, <1>1, <1>2, ValueGot
<1>4. f.ref = e.ref
  BY <1>3 DEF ReturnedRight
<1>5. ReturnedRight(f)
  BY <1>0, <1>3, <1>4 DEF ReturnedRight
<1>6. ASSUME NEW v, HoldsValue(e, v, lobs) PROVE ShownIn(f, lobs) = v
  <2>1. CASE e.ind
    <3>1. v = Nothing /\ f.null = TRUE
      BY <1>0, <1>3, <1>6, <2>1 DEF HoldsValue
    <3> QED BY <3>1 DEF ShownIn
  <2>2. CASE ~e.ind /\ isDynamic
    <3>1. v /= Nothing /\ f.null = FALSE /\ Together(e) = v /\ ~HasHandles
      BY <1>0, <1>3, <1>6, <2>2 DEF HoldsValue, HasHandles
    <3> QED BY <1>3, <2>2, <3>1 DEF ShownIn
  <2>3. CASE ~e.ind /\ ~isDynamic /\ type \in Renewed
    <3>1. v /= Nothing /\ f.null = FALSE /\ lobs[e.desc] = v
      BY <1>0, <1>3, <1>6, <2>3 DEF HoldsValue
    <3>2. f.ref = e.desc
      BY <1>4 DEF ReturnedRight
    <3>3. HasHandles /\ native /= "bytes"
      BY <1>0, <2>3 DEF HasHandles, KindsRight
    <3> QED BY <3>1, <3>2, <3>3 DEF ShownIn
  <2>4. CASE ~e.ind /\ ~isDynamic /\ type \notin Renewed
    <3>1. v /= Nothing /\ f.null = FALSE /\ e.raw = v
      BY <1>0, <1>3, <1>6, <2>4 DEF HoldsValue
    <3>2. Copied(type, native) /\ type /= "object" /\ ~HasHandles
      BY <1>0, <2>4, LobKinds DEF KindsRight, HasHandles
    <3> QED BY <1>0, <1>3, <2>4, <3>1, <3>2 DEF ShownIn
  <2> QED BY <2>1, <2>2, <2>3, <2>4
<1> QED BY <1>3, <1>4, <1>5, <1>6

LEMMA ServerTyped ==
    ASSUME BufferInv, NEW v \in ServerValue
    PROVE  v \in Value
<1>1. transfers \in Int /\ row \in Int
  BY DEF BufferInv, BufferTypes
<1>2. CASE v = Nothing
  BY <1>2, ConstantValues
<1>3. ASSUME NEW n \in 1..MaxPieces, v = [i \in 1..n |-> <<transfers, i + 10 * row>>] PROVE v \in Value
  <2>1. n \in Nat
    BY PiecesAssumption
  <2>2. \A i \in 1..n : <<transfers, i + 10 * row>> \in Int \X Int
    BY <1>1, <2>1
  <2> QED BY <1>3, <2>1, <2>2 DEF Value
<1> QED BY <1>2, <1>3 DEF ServerValue

LEMMA PlsqlKeeps ==
    ASSUME BufferInv, NEW v \in ServerValue, ExecutePlsql(v)
    PROVE  BufferInv'
<1> DEFINE t == Transferred
           e == Written(t, v)
           contents == IF e.desc = NoHandle \/ v = Nothing THEN lobs ELSE [lobs EXCEPT ![e.desc] = v]
           shown == IF returned = <<>> THEN v ELSE Unknown
<1>1. /\ ~isDynamic /\ Executing("plsql") /\ returnedCount' = 0 /\ lobs' = contents
      /\ main' = IF returned = <<>> THEN GetValue(e, contents) ELSE e
      /\ given' = shown /\ told' = <<shown>>
      /\ UNCHANGED <<typeVars, returned, usable, stage, row, pending>>
  BY DEF ExecutePlsql, ResetRows
<1>2. /\ stage = "idle" /\ (type = "object" => Free /= {}) /\ transfers' = transfers + 1
      /\ use' = "plsql" /\ kept' = {} /\ sent' = <<Read(t), given>>
      /\ UNCHANGED <<type, native, isDynamic, prefetch, inLob>>
  BY <1>1 DEF Executing, MoreTransfers, typeVars
<1>3. /\ Typed(t) /\ MainRight(t) /\ NotReturned(t.desc)
      /\ type = "object" /\ (main.null \/ returned = <<>>) => t.desc \in Handle
      /\ given /= Unknown => Read(t) = given
  BY <1>2, TransferredRight
<1>4. v \in Value /\ lobs \in [Handle -> Value] /\ KindsRight
  BY ServerTyped DEF BufferInv, BufferTypes
<1> HIDE DEF t
<1>5. /\ Typed(e) /\ e.ind = (v = Nothing) /\ e.ref = t.ref /\ e.desc = t.desc
      /\ ~HasHandles => e.raw = v
  BY <1>3, <1>4, ValueWritten
<1> HIDE DEF e
<1>6. MainRight(e)
  BY <1>3, <1>5 DEF MainRight
<1>7. e.desc \in HandleOrNone
  BY <1>5 DEF Typed, ElementRecords
<1>8. contents \in [Handle -> Value] /\ (e.desc \in Handle /\ v /= Nothing => contents[e.desc] = v)
  BY <1>4, <1>7, HandlesAssumption DEF HandleOrNone
<1> HIDE DEF contents
<1>9. shown \in Value
  BY <1>4, ConstantValues
<1>10. ASSUME returned = <<>>
       PROVE  /\ Typed(main') /\ MainRight(main') /\ main'.desc = e.desc
              /\ Carries(main', v, contents) /\ ShownIn(main', contents) = v
              /\ type = "object" /\ ~main'.null => main'.ref = main'.desc /\ main'.desc \in Handle
  <2>1. HoldsValue(e, v, contents)
    <3>1. type \in Renewed => e.desc \in Handle
      BY <1>3, <1>5, <1>6, <1>10 DEF MainRight
    <3> QED BY <1>1, <1>5, <1>8, <3>1 DEF HoldsValue, HasHandles
  <2>2. main' = GetValue(e, contents)
    BY <1>1, <1>10
  <2> QED BY <1>4, <1>5, <1>6, <1>8, <2>1, <2>2, MainGot
<1>11. Typed(main') /\ MainRight(main') /\ main'.desc = t.desc
  BY <1>1, <1>5, <1>6, <1>10
<1>12. BufferTypes'
  BY <1>1, <1>2, <1>8, <1>9, <1>11 DEF BufferInv, BufferTypes
<1>13. KindsRight'
  BY <1>1, <1>2, <1>4 DEF KindsRight
<1>14. HandlesRight'
  <2>1. MainRight(main)'
    BY <1>2, <1>11 DEF MainRight
  <2>2. RowsSound'
    BY <1>1, <1>2, RowsStaySound
  <2> QED BY <2>1, <2>2 DEF HandlesRight, RowsSound
<1>15. HandlesApart'
  BY <1>1, <1>3, <1>11 DEF BufferInv, HandlesApart, NotReturned
<1>16. KeptRight'
  BY <1>2 DEF KeptRight
<1>17. GivenCarried'
  <2>1. CASE returned = <<>>
    BY <1>1, <1>2, <1>10, <2>1 DEF GivenCarried, Carries
  <2>2. CASE returned /= <<>>
    BY <1>1, <2>2 DEF GivenCarried
  <2> QED BY <2>1, <2>2
<1>18. UnderWay'
  BY <1>1, <1>2 DEF BufferInv, UnderWay
<1>19. ObjectShown'
  BY <1>1, <1>2, <1>10 DEF ObjectShown
<1>20. BoundIsSet'
  BY <1>2, <1>3 DEF BoundIsSet
<1>21. ColumnsAreRead'
  <2>1. CASE returned = <<>>
    <3>1. Shown(main)' = ShownIn(main', contents)
      BY <1>1, <1>2 DEF Shown, ShownIn, HasHandles
    <3> QED BY <1>1, <1>2, <1>10, <2>1, <3>1 DEF ColumnsAreRead
  <2>2. CASE returned /= <<>>
    BY <1>1, <1>2, <2>2 DEF ColumnsAreRead
  <2> QED BY <2>1, <2>2
<1> QED BY <1>12, <1>13, <1>14, <1>15, <1>16, <1>17, <1>18, <1>19, <1>20, <1>21 DEF BufferInv

-----------------------------------------------------------------------------
\* Fetching, and what OCI delivers.

LEMMA FetchPrepared ==
    ASSUME BufferInv, BeforeFetchValue
    PROVE  BufferInv'
<1>1. /\ stage = "idle" /\ (HasHandles => Free /= {}) /\ transfers' = transfers + 1
      /\ use' = "query" /\ stage' = "rows" /\ row' = 0 /\ told' = <<>> /\ given' = Unknown
      /\ sent' = <<Unknown, Unknown>>
      /\ UNCHANGED <<type, native, isDynamic, prefetch, inLob, returned, returnedCount, usable, lobs,
                     pending, kept>>
  BY DEF BeforeFetchValue, MoreTransfers, typeVars, rowVars
<1>2. /\ Typed(main) /\ MainRight(main) /\ NotReturned(main.desc) /\ pending = <<>>
  BY <1>1 DEF BufferInv, BufferTypes, HandlesRight, HandlesApart, UnderWay
<1>3. /\ Typed(main') /\ MainRight(main') /\ NotReturned(main'.desc)
      /\ isDynamic => main'.num = 0
      /\ \A k \in kept : k[1] /= main'.desc
  <2>1. CASE ~prefetch
    <3>1. main' = main /\ kept = {} /\ ~isDynamic
      BY <2>1 DEF BeforeFetchValue, BufferInv, KeptRight, KindsRight
    <3> QED BY <1>2, <3>1
  <2>2. CASE prefetch /\ isDynamic
    <3>1. main' = [main EXCEPT !.num = 0] /\ kept = {}
      BY <2>2 DEF BeforeFetchValue, BufferInv, KeptRight, HasHandles
    <3>2. Typed(main') /\ main'.ref = main.ref /\ main'.desc = main.desc /\ main'.num = 0
      BY <1>2, <3>1 DEF Typed, ElementRecords
    <3> QED BY <1>2, <3>1, <3>2 DEF MainRight
  <2>3. CASE prefetch /\ ~isDynamic
    <3> DEFINE h == IF type = "object" THEN NoHandle ELSE Choice(1)[1]
    <3>1. type \in Renewed /\ Free /= {}
      BY <1>1, <2>3 DEF BufferInv, KindsRight, HasHandles
    <3>2. main' = ExtendedPreFetch(<<main>>, Choice(1))[1]
      BY <2>3 DEF BeforeFetchValue
    <3>3. main' = [main EXCEPT !.ref = h, !.desc = h]
      <4>1. 1 \in DOMAIN <<main>> /\ <<main>>[1] = main
        OBVIOUS
      <4>2. PICK hs : hs = Choice(1)
        OBVIOUS
      <4>3. ExtendedPreFetch(<<main>>, hs)[1] =
                [main EXCEPT !.ref = IF type = "object" THEN NoHandle ELSE hs[1],
                             !.desc = IF type = "object" THEN NoHandle ELSE hs[1]]
        BY <4>1 DEF ExtendedPreFetch
      <4> QED BY <3>2, <4>2, <4>3
    <3>4. /\ h \in HandleOrNone /\ (type /= "object" => h \in Handle)
          /\ NotReturned(h) /\ \A k \in kept : k[1] /= h
      <4>1. CASE type = "object"
        BY <4>1, HandlesAssumption DEF HandleOrNone, NotReturned, BufferInv, KeptRight
      <4>2. CASE type /= "object"
        BY <3>1, <4>2, OneChosen, FreeApart DEF HandleOrNone
      <4> QED BY <4>1, <4>2
    <3> HIDE DEF h
    <3>5. Typed(main') /\ main'.ref = h /\ main'.desc = h
      BY <1>2, <3>3, <3>4 DEF Typed, ElementRecords
    <3> QED BY <2>3, <3>1, <3>4, <3>5 DEF MainRight
  <2> QED BY <2>1, <2>2, <2>3 DEF BufferInv, BufferTypes
<1>4. BufferTypes'
  BY <1>1, <1>3, ConstantValues DEF BufferInv, BufferTypes
<1>5. KindsRight'
  BY <1>1 DEF BufferInv, KindsRight
<1>6. HandlesRight'
  <2>1. MainRight(main)'
    BY <1>1, <1>3 DEF MainRight
  <2>2. RowsSound'
    BY <1>1, RowsStaySound
  <2> QED BY <2>1, <2>2 DEF HandlesRight, RowsSound
<1>7. HandlesApart'
  BY <1>1, <1>3 DEF BufferInv, HandlesApart, NotReturned
<1>8. KeptRight'
  BY <1>1, <1>3 DEF BufferInv, KeptRight, HasHandles
<1>9. GivenCarried'
  BY <1>1 DEF GivenCarried
<1>10. UnderWay'
  <2>1. UnderQuery'
    BY <1>1, <1>2, <1>3 DEF UnderQuery
  <2> QED BY <1>1, <1>2, <2>1 DEF UnderWay
<1>11. ObjectShown'
  BY <1>1 DEF ObjectShown
<1>12. BoundIsSet'
  BY <1>1 DEF BoundIsSet
<1>13. ColumnsAreRead'
  BY <1>1 DEF ColumnsAreRead
<1> QED BY <1>4, <1>5, <1>6, <1>7, <1>8, <1>9, <1>10, <1>11, <1>12, <1>13 DEF BufferInv

\* Which element OCI fills.
LEMMA FilledRight ==
    ASSUME BufferInv, stage = "rows"
    PROVE  /\ Typed(Filled)
           /\ \/ use = "query" /\ row = 0 /\ Filled = main
              \/ /\ use = "returning" /\ row \in 1..returnedCount /\ row \in 1..Len(returned)
                 /\ Filled = returned[row] /\ ReturnedRight(Filled) /\ usable /\ ~inLob
<1>1. (use = "query" /\ UnderQuery) \/ (use = "returning" /\ UnderReturning)
  BY DEF BufferInv, UnderWay
<1>2. CASE use = "query" /\ UnderQuery
  BY <1>2 DEF UnderQuery, Filled, BufferInv, BufferTypes
<1>3. CASE use = "returning" /\ UnderReturning
  <2>1. row \in 1..returnedCount /\ usable /\ ~inLob
    BY <1>3 DEF UnderReturning
  <2>2. returnedCount \in 0..Len(returned) /\ Len(returned) \in Nat
    BY DEF BufferInv, BufferTypes
  <2>3. row \in 1..Len(returned) /\ Filled = returned[row]
    BY <2>1, <2>2 DEF Filled
  <2> QED BY <1>3, <2>1, <2>3 DEF BufferInv, BufferTypes, HandlesRight
<1> QED BY <1>1, <1>2, <1>3

\* OCI has written into the element that it fills, and no other.
LEMMA DeliveryKeeps ==
    ASSUME BufferInv, stage = "rows", NEW el, Typed(el), NEW left \in Value, Put(el), Delivered(left),
           lobs' \in [Handle -> Value], \A h \in Handle : h /= el.desc => lobs'[h] = lobs[h],
           UNCHANGED <<typeVars, returnedCount, usable, use, transfers, given, sent, kept>>,
           NEW v \in Value,
           \/ told' = Append(told, v) /\ pending = <<>>
           \/ told' = told /\ pending /= <<>> /\ v = told[Len(told)],
           left = <<>> => HoldsValue(el, v, lobs'),
           left /= <<>> => Filling(el, v, left),
           row = 0 => MainRight(el) /\ NotReturned(el.desc) /\ \A k \in kept : k[1] /= el.desc,
           row > 0 => /\ ReturnedRight(el)
                      /\ el.ref /= NoHandle =>
                            el.ref /= main.desc
                            /\ \A i \in 1..Len(returned) : i /= row => returned[i].ref /= el.ref
    PROVE  BufferInv'
<1>1. /\ Typed(Filled)
      /\ \/ use = "query" /\ row = 0 /\ Filled = main
         \/ /\ use = "returning" /\ row \in 1..returnedCount /\ row \in 1..Len(returned)
            /\ usable /\ ~inLob
  BY FilledRight
<1>2. UNCHANGED <<type, native, isDynamic, prefetch, inLob>>
  BY DEF typeVars
<1>3. /\ pending' = left
      /\ \/ left /= <<>> /\ row' = row /\ stage' = "rows"
         \/ left = <<>> /\ use = "returning" /\ row < returnedCount /\ row' = row + 1 /\ stage' = "rows"
         \/ left = <<>> /\ ~(use = "returning" /\ row < returnedCount) /\ row' = row /\ stage' = "read"
  BY DEF Delivered
<1>4. /\ told \in Seq(Value) /\ row \in Nat /\ returned \in Seq(ElementRecords)
      /\ returnedCount \in 0..Len(returned) /\ Len(returned) \in Nat /\ given \in Value
      /\ \A i \in 1..Len(returned) : Typed(returned[i]) /\ ReturnedRight(returned[i])
  BY DEF BufferInv, BufferTypes, HandlesRight
<1>5. told' \in Seq(Value)
  <2>1. CASE told' = Append(told, v)
    BY <1>4, <2>1
  <2>2. CASE told' = told
    BY <1>4, <2>2
  <2> QED BY <2>1, <2>2
<1>6. CASE use = "query"
  <2>1. row = 0 /\ main' = el /\ returned' = returned
    BY <1>1, <1>6 DEF Put
  <2>2. RowsSound'
    BY <1>2, <2>1, RowsStaySound
  <2>3. UnderQuery
    BY <1>6 DEF BufferInv, UnderWay
  <2>4. Len(told') = 1 /\ told'[1] = v
    <3>1. CASE told' = Append(told, v) /\ pending = <<>>
      <4>1. told = <<>>
        BY <2>3, <3>1 DEF UnderQuery
      <4> QED BY <3>1, <4>1
    <3>2. CASE told' = told /\ pending /= <<>> /\ v = told[Len(told)]
      <4>1. Len(told) = 1
        BY <2>3, <3>2 DEF UnderQuery
      <4> QED BY <3>2, <4>1
    <3> QED BY <3>1, <3>2
  <2>5. BufferTypes'
    BY <1>2, <1>3, <1>4, <1>5, <2>1, <2>2 DEF BufferInv, BufferTypes, RowsSound
  <2>6. KindsRight'
    BY <1>2, <1>3 DEF BufferInv, KindsRight
  <2>7. HandlesRight'
    <3>1. MainRight(main)'
      BY <1>2, <2>1 DEF MainRight
    <3> QED BY <2>2, <3>1 DEF HandlesRight, RowsSound
  <2>8. HandlesApart'
    BY <2>1, <2>2 DEF HandlesApart, RowsSound, NotReturned
  <2>9. KeptRight'
    BY <1>2, <1>3, <2>1 DEF BufferInv, KeptRight, HasHandles
  <2>10. GivenCarried'
    BY <2>3 DEF UnderQuery, GivenCarried
  <2>11. UnderWay'
    <3>1. row' = 0 /\ given' = Unknown /\ use' = "query" /\ stage' \in {"rows", "read"}
      BY <1>3, <1>6, <2>1, <2>3 DEF UnderQuery
    <3>2. CASE left = <<>>
      <4>1. stage' = "read" /\ pending' = <<>>
        BY <1>3, <1>6, <3>2
      <4>2. HoldsValue(main, told[1], lobs)'
        BY <1>2, <2>1, <2>4, <3>2 DEF HoldsValue
      <4> QED BY <2>4, <3>1, <4>1, <4>2 DEF UnderWay, UnderQuery
    <3>3. CASE left /= <<>>
      <4>1. stage' = "rows" /\ pending' /= <<>>
        BY <1>3, <3>3
      <4>2. Filling(main, told[1], pending)' /\ isDynamic'
        BY <1>2, <1>3, <2>1, <2>4, <3>3 DEF Filling
      <4> QED BY <2>4, <3>1, <4>1, <4>2 DEF UnderWay, UnderQuery
    <3> QED BY <3>2, <3>3
  <2>12. ObjectShown' /\ ColumnsAreRead'
    BY <1>3 DEF ObjectShown, ColumnsAreRead
  <2>13. BoundIsSet'
    BY DEF BufferInv, BoundIsSet
  <2> QED BY <2>5, <2>6, <2>7, <2>8, <2>9, <2>10, <2>11, <2>12, <2>13 DEF BufferInv
<1>7. CASE use = "returning"
  <2>1. /\ row \in 1..returnedCount /\ row \in 1..Len(returned) /\ row > 0 /\ usable /\ ~inLob
        /\ main' = main /\ returned' = [returned EXCEPT ![row] = el]
    BY <1>1, <1>7 DEF Put
  <2>2. /\ Len(returned') = Len(returned) /\ returned'[row] = el
        /\ \A i \in 1..Len(returned) : i /= row => returned'[i] = returned[i]
        /\ returned' \in Seq(ElementRecords)
    BY <1>4, <2>1 DEF Typed
  <2>3. RowsSound'
    <3>1. \A i \in 1..Len(returned) : Typed(returned'[i]) /\ ReturnedRight(returned[i])'
      BY <1>2, <1>4, <2>1, <2>2 DEF ReturnedRight
    <3>2. ASSUME NEW i \in 1..Len(returned), NEW j \in 1..Len(returned),
                 returned'[i].ref = returned'[j].ref, returned'[i].ref /= NoHandle
          PROVE  i = j
      BY <2>1, <2>2, <3>2 DEF BufferInv, HandlesApart
    <3> QED BY <2>2, <3>1, <3>2 DEF RowsSound
  <2>4. UnderReturning
    BY <1>7 DEF BufferInv, UnderWay
  <2>5. Len(told') = row /\ told'[row] = v /\ \A i \in 1..row - 1 : told'[i] = told[i]
    <3>1. CASE told' = Append(told, v) /\ pending = <<>>
      <4>1. Len(told) = row - 1
        BY <2>4, <3>1 DEF UnderReturning
      <4> QED BY <1>4, <3>1, <4>1
    <3>2. CASE told' = told /\ pending /= <<>> /\ v = told[Len(told)]
      <4>1. Len(told) = row
        BY <2>4, <3>2 DEF UnderReturning
      <4> QED BY <3>2, <4>1
    <3> QED BY <3>1, <3>2
  <2>6. BufferTypes'
    BY <1>2, <1>3, <1>4, <1>5, <2>1, <2>2, <2>3 DEF BufferInv, BufferTypes, RowsSound
  <2>7. KindsRight'
    BY <1>2, <1>3 DEF BufferInv, KindsRight
  <2>8. HandlesRight'
    <3>1. MainRight(main)'
      BY <1>2, <2>1 DEF BufferInv, HandlesRight, MainRight
    <3> QED BY <2>3, <3>1 DEF HandlesRight, RowsSound
  <2>9. HandlesApart'
    <3>1. NotReturned(main.desc)'
      BY <2>1, <2>2 DEF BufferInv, HandlesApart, NotReturned
    <3> QED BY <2>3, <3>1 DEF HandlesApart, RowsSound
  <2>10. KeptRight'
    BY <1>3, <1>7 DEF BufferInv, KeptRight
  <2>11. GivenCarried'
    <3>1. main.desc \in Handle => lobs'[main.desc] = lobs[main.desc]
      BY <2>1, HandlesAssumption DEF ReturnedRight
    <3> QED BY <1>2, <2>1, <3>1 DEF BufferInv, GivenCarried, Carries
  <2>12. UnderWay'
    <3>1. ASSUME NEW i \in 1..row - 1 PROVE HoldsValue(returned[i], told[i], lobs)'
      <4>1. HoldsValue(returned[i], told[i], lobs)
        BY <1>4, <2>1, <2>4 DEF UnderReturning
      <4>2. i \in 1..Len(returned) /\ i /= row /\ returned'[i] = returned[i] /\ told'[i] = told[i]
        BY <1>4, <2>1, <2>2, <2>5
      <4>3. returned[i].desc = returned[i].ref /\ el.desc = el.ref
        BY <1>4, <2>1, <4>2 DEF ReturnedRight
      <4>4. returned[i].desc \in Handle => lobs'[returned[i].desc] = lobs[returned[i].desc]
        BY <2>1, <4>2, <4>3, HandlesAssumption
      <4> QED BY <1>2, <4>1, <4>2, <4>4 DEF HoldsValue
    <3>2. returnedCount' = returnedCount /\ usable' /\ ~inLob' /\ use' = "returning"
      BY <1>2, <1>7, <2>1
    <3>3. CASE left /= <<>>
      <4>1. row' = row /\ stage' = "rows" /\ pending' = left
        BY <1>3, <3>3
      <4>2. Filling(returned[row], told[row], pending)' /\ isDynamic'
        BY <1>2, <2>2, <2>5, <3>3, <4>1 DEF Filling
      <4>3. UnderReturning'
        <5>1. ASSUME NEW i \in 1..Len(told')
              PROVE  IF i = row' /\ pending' /= <<>> THEN Filling(returned[i], told[i], pending)'
                     ELSE HoldsValue(returned[i], told[i], lobs)'
          <6>1. CASE i = row
            BY <3>3, <4>1, <4>2, <6>1
          <6>2. CASE i /= row
            <7>1. i \in 1..row - 1
              BY <2>1, <2>5, <6>2
            <7> QED BY <3>1, <4>1, <6>2, <7>1
          <6> QED BY <6>1, <6>2
        <5> QED BY <2>1, <2>5, <3>2, <3>3, <4>1, <5>1 DEF UnderReturning
      <4> QED BY <3>2, <4>1, <4>2, <4>3 DEF UnderWay
    <3>4. CASE left = <<>>
      <4>1. \A i \in 1..row : HoldsValue(returned[i], told[i], lobs)'
        <5> SUFFICES ASSUME NEW i \in 1..row PROVE HoldsValue(returned[i], told[i], lobs)'
          OBVIOUS
        <5>1. CASE i \in 1..row - 1
          BY <3>1, <5>1
        <5>2. CASE i = row
          <6>1. returned'[i] = el /\ told'[i] = v /\ HoldsValue(el, v, lobs')
            BY <2>2, <2>5, <3>4, <5>2
          <6> QED BY <1>2, <6>1 DEF HoldsValue
        <5> QED BY <1>4, <5>1, <5>2
      <4>2. pending' = <<>> /\ Len(told') = row
        BY <1>3, <2>5, <3>4
      <4>3. CASE row < returnedCount
        <5>1. row' = row + 1 /\ stage' = "rows"
          BY <1>3, <1>7, <3>4, <4>3
        <5>2. row' \in 1..returnedCount' /\ Len(told') = row' - 1
          BY <1>4, <2>1, <3>2, <4>2, <4>3, <5>1
        <5>3. UnderReturning'
          BY <3>2, <4>1, <4>2, <5>1, <5>2 DEF UnderReturning
        <5> QED BY <3>2, <4>2, <5>1, <5>3 DEF UnderWay
      <4>4. CASE ~(row < returnedCount)
        <5>1. row' = row /\ stage' = "read" /\ row' = returnedCount'
          BY <1>3, <1>4, <2>1, <3>2, <3>4, <4>4
        <5>2. UnderReturning'
          BY <2>1, <3>2, <4>1, <4>2, <5>1 DEF UnderReturning
        <5> QED BY <3>2, <4>2, <5>1, <5>2 DEF UnderWay
      <4> QED BY <4>3, <4>4
    <3> QED BY <3>3, <3>4
  <2>13. ObjectShown' /\ ColumnsAreRead'
    BY <1>3 DEF ObjectShown, ColumnsAreRead
  <2>14. BoundIsSet'
    BY DEF BufferInv, BoundIsSet
  <2> QED BY <2>6, <2>7, <2>8, <2>9, <2>10, <2>11, <2>12, <2>13, <2>14 DEF BufferInv
<1> QED BY <1>1, <1>6, <1>7

LEMMA DeliverLongKeeps ==
    ASSUME BufferInv, NEW v \in ServerValue, Deliver(v), isDynamic
    PROVE  BufferInv'
<1> DEFINE e == [Filled EXCEPT !.ind = v = Nothing, !.num = IF row = 0 THEN @ ELSE 0]
           w == IF v = Nothing THEN <<>> ELSE v
           next == NextChunk(e, w)
<1>1. /\ stage = "rows" /\ pending = <<>> /\ told' = Append(told, v)
      /\ Put(next.element) /\ Delivered(next.left) /\ lobs' = lobs
      /\ UNCHANGED <<typeVars, returnedCount, usable, use, transfers, failed, given, sent, kept>>
  BY DEF Deliver
<1>2. v \in Value /\ w \in Value /\ (w /= <<>> => v /= Nothing /\ w = v)
  BY ServerTyped, ConstantValues
<1>3. Typed(Filled) /\ Filled.ref = NoHandle /\ Filled.desc = NoHandle
  <2>1. type \notin Renewed /\ MainRight(main)
    BY DEF BufferInv, KindsRight, HandlesRight
  <2> QED BY <1>1, <2>1, FilledRight DEF MainRight, ReturnedRight
<1>4. Typed(e) /\ e.num = 0 /\ e.ref = NoHandle /\ e.desc = NoHandle /\ (e.ind <=> v = Nothing)
  <2>1. row = 0 => main.num = 0
    BY <1>1, FilledRight DEF BufferInv, UnderWay, UnderQuery
  <2>2. row = 0 => Filled = main
    BY DEF Filled
  <2>3. (IF row = 0 THEN Filled.num ELSE 0) = 0
    BY <2>1, <2>2
  <2>4. e = [Filled EXCEPT !.ind = (v = Nothing), !.num = 0]
    BY <2>3
  <2>5. (v = Nothing) \in BOOLEAN
    OBVIOUS
  <2> HIDE DEF e
  <2>6. e \in ElementRecords
    BY <1>3, <2>4, <2>5 DEF Typed, ElementRecords
  <2>7. /\ e.num = 0 /\ e.ref = NoHandle /\ e.desc = NoHandle /\ e.chunks = Filled.chunks
        /\ (e.ind <=> v = Nothing)
    BY <1>3, <2>4, <2>5 DEF Typed, ElementRecords
  <2>8. Len(e.chunks) >= 0
    BY <2>6 DEF ElementRecords
  <2> QED BY <2>6, <2>7, <2>8 DEF Typed
<1>5. Together(e) = <<>>
  BY <1>4, TogetherTyped
<1> DEFINE el == next.element
           left == next.left
<1>6. /\ Typed(el) /\ SameButChunks(e, el) /\ el.num = 1 /\ left \in Value
      /\ w = <<>> => left = <<>>
      /\ Together(el) \o left = Together(e) \o w
  <2> HIDE DEF e, w
  <2>1. next = NextChunk(e, w)
    OBVIOUS
  <2> HIDE DEF next
  <2>2. /\ Typed(next.element) /\ SameButChunks(e, next.element)
        /\ next.element.num = e.num + 1
        /\ next.left \in Value
        /\ w = <<>> => next.left = <<>>
        /\ Together(next.element) \o next.left = Together(e) \o w
    BY <1>2, <1>4, <2>1, NextFilled
  <2> QED BY <1>4, <2>2
<1>7. Together(el) \in Value
  BY <1>6, TogetherTyped
<1>8. Together(el) \o left = w
  BY <1>2, <1>5, <1>6, ConcatEmptySeq DEF Value
<1>9. /\ el.ref = NoHandle /\ el.desc = NoHandle /\ (el.ind <=> v = Nothing)
      /\ el.chunks /= <<>>
  <2> HIDE DEF e, next, el, left
  <2>1. el.num <= Len(el.chunks) /\ el.num = 1
    BY <1>6 DEF Typed
  <2>2. el.chunks /= <<>>
    BY <2>1
  <2>3. el.ref = e.ref /\ el.desc = e.desc /\ el.ind = e.ind
    BY <1>6 DEF SameButChunks
  <2> QED BY <1>4, <2>2, <2>3
<1> HIDE DEF e, next, el, left
<1>10. left = <<>> => HoldsValue(el, v, lobs')
  <2>1. left = <<>> => Together(el) = w
    BY <1>7, <1>8, ConcatEmptySeq DEF Value
  <2> QED BY <1>2, <1>6, <1>9, <2>1 DEF HoldsValue
<1>11. left /= <<>> => Filling(el, v, left)
  BY <1>2, <1>6, <1>8, <1>9 DEF Filling
<1>12. MainRight(el) /\ ReturnedRight(el) /\ NotReturned(el.desc)
  <2>1. type \notin Renewed
    BY DEF BufferInv, KindsRight
  <2> QED BY <1>9, <2>1, LobKinds DEF MainRight, ReturnedRight, NotReturned
<1>13. \A k \in kept : k[1] /= el.desc
  BY <1>9, HandlesAssumption DEF BufferInv, KeptRight
<1>14. Put(el) /\ Delivered(left)
  BY <1>1 DEF el, left
<1>15. lobs' \in [Handle -> Value]
  BY <1>1 DEF BufferInv, BufferTypes
<1> QED
  BY <1>1, <1>2, <1>6, <1>9, <1>10, <1>11, <1>12, <1>13, <1>14, <1>15, DeliveryKeeps

\* A value that is not long: into OCI's buffer, or into the handle.
LEMMA DeliverShortKeeps ==
    ASSUME BufferInv, NEW v \in ServerValue, Deliver(v), ~isDynamic
    PROVE  BufferInv'
<1> DEFINE new == IF Free = {} THEN NoHandle ELSE Choice(1)[1]
           e == IF row > 0 THEN SetValue(Filled, new)
                ELSE IF type = "object" /\ main.desc = NoHandle /\ v # Nothing
                THEN [main EXCEPT !.desc = new] ELSE main
           el == Written(e, v)
<1>1. /\ stage = "rows" /\ pending = <<>> /\ told' = Append(told, v)
      /\ type = "object" => Free /= {}
      /\ Put(el) /\ Delivered(<<>>)
      /\ lobs' = IF e.desc = NoHandle \/ v = Nothing THEN lobs ELSE [lobs EXCEPT ![e.desc] = v]
      /\ UNCHANGED <<typeVars, returnedCount, usable, use, transfers, failed, given, sent, kept>>
  BY DEF Deliver
<1>2. v \in Value
  BY ServerTyped
<1>3. new \in HandleOrNone /\ (Free /= {} => new \in Free)
  BY OneChosen DEF Free, HandleOrNone
<1>4. new \in Free => /\ new \in Handle /\ new /= NoHandle /\ new /= main.ref /\ new /= main.desc
                      /\ NotReturned(new) /\ \A k \in kept : k[1] /= new
  BY FreeApart
<1> HIDE DEF new
<1>5. /\ Typed(main) /\ MainRight(main) /\ NotReturned(main.desc)
      /\ main.ref \in HandleOrNone /\ main.desc \in HandleOrNone
      /\ \A k \in kept : k[1] \in Handle /\ k[1] /= main.desc
      /\ lobs \in [Handle -> Value]
  BY <1>1 DEF BufferInv, BufferTypes, HandlesRight, HandlesApart, KeptRight, Typed, ElementRecords
<1>6. /\ Typed(Filled)
      /\ \/ use = "query" /\ row = 0 /\ Filled = main
         \/ /\ use = "returning" /\ row \in 1..returnedCount /\ row \in 1..Len(returned)
            /\ Filled = returned[row] /\ ReturnedRight(Filled) /\ usable /\ ~inLob
  BY <1>1, FilledRight
<1>7. type \in Renewed => HasHandles
  BY DEF HasHandles
<1>8. CASE row = 0
  <2>1. e = IF type = "object" /\ main.desc = NoHandle /\ v # Nothing
            THEN [main EXCEPT !.desc = new] ELSE main
    BY <1>8
  <2>2. Typed(e)
    BY <1>3, <1>5, <2>1 DEF Typed, ElementRecords
  <2>3. e.ref = main.ref /\ e.desc \in {main.desc, new}
    BY <1>5, <2>1 DEF Typed, ElementRecords
  <2>4. MainRight(e) /\ (v /= Nothing /\ type = "object" => e.desc \in Handle)
    <3>1. CASE type = "object" /\ main.desc = NoHandle /\ v # Nothing
      <4>1. e.desc = new /\ e.ref = main.ref /\ new \in Handle
        BY <1>1, <1>3, <1>4, <1>5, <2>1, <3>1 DEF Typed, ElementRecords
      <4> QED BY <1>5, <3>1, <4>1, LobKinds DEF MainRight
    <3>2. CASE ~(type = "object" /\ main.desc = NoHandle /\ v # Nothing)
      BY <1>5, <2>1, <3>2 DEF HandleOrNone
    <3> QED BY <3>1, <3>2
  <2>5. NotReturned(e.desc) /\ \A k \in kept : k[1] /= e.desc
    <3>1. CASE e.desc = main.desc
      BY <1>5, <3>1
    <3>2. CASE e.desc = new /\ new \in Free
      BY <1>4, <3>2
    <3>3. CASE e.desc = NoHandle
      BY <1>5, <3>3, HandlesAssumption DEF NotReturned
    <3> QED BY <1>3, <2>3, <3>1, <3>2, <3>3 DEF new
  <2> HIDE DEF e
  <2>6. /\ Typed(el) /\ (el.ind <=> v = Nothing) /\ el.ref = e.ref /\ el.desc = e.desc
        /\ ~HasHandles => el.raw = v
    <3>1. el = Written(e, v)
      OBVIOUS
    <3> HIDE DEF el
    <3>2. /\ Typed(el) /\ el.ind = (v = Nothing) /\ el.ref = e.ref /\ el.desc = e.desc
          /\ ~HasHandles => el.raw = v
      BY <1>2, <2>2, <3>1, ValueWritten
    <3> QED BY <3>2
  <2>7. MainRight(el)
    BY <2>4, <2>6 DEF MainRight
  <2> HIDE DEF el
  <2>8. lobs' \in [Handle -> Value] /\ \A h \in Handle : h /= el.desc => lobs'[h] = lobs[h]
    BY <1>1, <1>2, <1>5, <2>6
  <2>9. HoldsValue(el, v, lobs')
    <3>1. type \notin Renewed => ~HasHandles
      BY DEF HasHandles
    <3>2. type \in Renewed /\ v /= Nothing => el.desc \in Handle /\ lobs'[el.desc] = v
      <4>1. type \in Renewed /\ v /= Nothing => el.desc \in Handle
        BY <2>4, <2>6 DEF MainRight
      <4>2. Handle \subseteq HandleOrNone /\ NoHandle \notin Handle
        BY HandlesAssumption DEF HandleOrNone
      <4> QED BY <1>1, <1>5, <2>6, <4>1, <4>2
    <3> QED BY <2>6, <3>1, <3>2 DEF HoldsValue
  <2> DEFINE left == <<>>
  <2>10. left \in Value /\ left = <<>> /\ Delivered(left)
    BY <1>1, ConstantValues
  <2>11. \A k \in kept : k[1] /= el.desc
    BY <2>5, <2>6
  <2>12. NotReturned(el.desc)
    BY <2>5, <2>6
  <2>13. ~(row > 0)
    BY <1>8
  <2> HIDE DEF left
  <2> QED
    BY <1>1, <1>2, <2>6, <2>7, <2>8, <2>9, <2>10, <2>11, <2>12, <2>13, DeliveryKeeps
<1>9. CASE row > 0
  <2>1. /\ use = "returning" /\ row \in 1..Len(returned) /\ Filled = returned[row]
        /\ ReturnedRight(Filled) /\ usable /\ ~inLob
    BY <1>6, <1>9
  <2>2. e = SetValue(Filled, new)
    BY <1>9
  <2> HIDE DEF e
  <2>3. /\ Typed(e) /\ e.null = Filled.null
        /\ IF Filled.null /\ type = "object"
           THEN /\ e.desc = IF Filled.desc = NoHandle THEN new ELSE Filled.desc
                /\ e.ref = IF Filled.desc = NoHandle THEN new ELSE Filled.ref
           ELSE e.desc = Filled.desc /\ e.ref = Filled.ref
    BY <1>3, <1>6, <2>2, ValueSet
  <2>4. Filled.ref = Filled.desc /\ Filled.ref \in HandleOrNone
    BY <1>6, <2>1 DEF ReturnedRight, Typed, ElementRecords
  <2>5. e.ref = e.desc /\ (e.ref = Filled.ref \/ (e.ref = new /\ type = "object"))
    BY <2>3, <2>4
  <2>6. /\ type \notin Renewed => e.ref = NoHandle
        /\ type \in Renewed => e.ref \in Handle
    BY <1>1, <1>3, <1>4, <2>1, <2>3, <2>4, LobKinds DEF ReturnedRight, HandleOrNone
  <2>7. /\ Typed(el) /\ (el.ind <=> v = Nothing) /\ el.ref = e.ref /\ el.desc = e.desc
        /\ ~HasHandles => el.raw = v
    <3>1. el = Written(e, v)
      OBVIOUS
    <3> HIDE DEF el
    <3>2. /\ Typed(el) /\ el.ind = (v = Nothing) /\ el.ref = e.ref /\ el.desc = e.desc
          /\ ~HasHandles => el.raw = v
      BY <1>2, <2>3, <3>1, ValueWritten
    <3> QED BY <3>2
  <2> HIDE DEF el
  <2>8. ReturnedRight(el)
    BY <2>1, <2>5, <2>6, <2>7, LobKinds DEF ReturnedRight
  <2>9. lobs' \in [Handle -> Value] /\ \A h \in Handle : h /= el.desc => lobs'[h] = lobs[h]
    BY <1>1, <1>2, <1>5, <2>7
  <2>10. HoldsValue(el, v, lobs')
    <3>1. type \notin Renewed => ~HasHandles
      BY DEF HasHandles
    <3>2. type \in Renewed /\ v /= Nothing => el.desc \in Handle /\ lobs'[el.desc] = v
      <4>1. type \in Renewed => el.desc \in Handle
        BY <2>5, <2>6, <2>7
      <4> QED BY <1>1, <1>5, <2>7, <4>1, HandlesAssumption
    <3> QED BY <2>7, <3>1, <3>2 DEF HoldsValue
  <2>11. ASSUME el.ref /= NoHandle
         PROVE  /\ el.ref /= main.desc
                /\ \A i \in 1..Len(returned) : i /= row => returned[i].ref /= el.ref
    <3>1. CASE el.ref = Filled.ref
      BY <1>5, <2>1, <2>11, <3>1 DEF BufferInv, HandlesApart, NotReturned
    <3>2. CASE el.ref = new /\ new \in Free
      BY <1>4, <2>11, <3>2 DEF NotReturned
    <3> QED BY <1>1, <1>3, <2>5, <2>7, <3>1, <3>2
  <2> DEFINE left == <<>>
  <2>12. left \in Value /\ left = <<>> /\ Delivered(left)
    BY <1>1, ConstantValues
  <2>13. row /= 0
    BY <1>9
  <2> HIDE DEF left
  <2> QED
    BY <1>1, <1>2, <2>7, <2>8, <2>9, <2>10, <2>11, <2>12, <2>13, DeliveryKeeps
<1> QED
  BY <1>6, <1>8, <1>9

\* The next chunk of a value.
LEMMA DeliverPieceKeeps ==
    ASSUME BufferInv, DeliverPiece
    PROVE  BufferInv'
<1> DEFINE next == NextChunk(Filled, pending)
           el == next.element
           left == next.left
           v == told[Len(told)]
<1>1. /\ stage = "rows" /\ pending /= <<>> /\ Put(el) /\ Delivered(left)
      /\ UNCHANGED <<typeVars, returnedCount, usable, lobs, use, transfers, failed, ghosts>>
  BY DEF DeliverPiece
<1>2. isDynamic /\ type \notin Renewed /\ pending \in Value /\ told \in Seq(Value)
  BY <1>1 DEF BufferInv, BufferTypes, UnderWay, KindsRight
<1>3. /\ Typed(Filled)
      /\ \/ use = "query" /\ row = 0 /\ Filled = main
         \/ /\ use = "returning" /\ row \in 1..returnedCount /\ row \in 1..Len(returned)
            /\ Filled = returned[row] /\ ReturnedRight(Filled) /\ usable /\ ~inLob
  BY <1>1, FilledRight
<1>4. /\ Filled.ref = NoHandle /\ Filled.desc = NoHandle
  BY <1>2, <1>3 DEF BufferInv, HandlesRight, MainRight, ReturnedRight
<1>5. Len(told) \in 1..Len(told) /\ Filling(Filled, v, pending)
  <2>1. CASE use = "query"
    <3>1. Len(told) = 1 /\ Filling(main, told[1], pending)
      BY <1>1, <2>1 DEF BufferInv, UnderWay, UnderQuery
    <3> QED BY <1>3, <2>1, <3>1
  <2>2. CASE use = "returning"
    <3>1. UnderReturning /\ row \in 1..Len(returned) /\ Filled = returned[row]
      BY <1>1, <1>3, <2>2 DEF BufferInv, UnderWay
    <3>2. Len(told) = row
      BY <1>1, <3>1 DEF UnderReturning
    <3>3. row \in 1..Len(told)
      BY <3>1, <3>2
    <3>4. Filling(returned[row], told[row], pending)
      BY <1>1, <3>1, <3>3 DEF UnderReturning
    <3> QED BY <3>1, <3>2, <3>3, <3>4
  <2> QED BY <1>3, <2>1, <2>2
<1>6. v \in Value
  BY <1>2, <1>5
<1>7. Together(Filled) \o pending = v /\ v /= Nothing /\ ~Filled.ind /\ Filled.num >= 1
  BY <1>5 DEF Filling
<1>8. /\ Typed(el) /\ SameButChunks(Filled, el) /\ el.num = Filled.num + 1 /\ left \in Value
      /\ Together(el) \o left = Together(Filled) \o pending
  BY <1>2, <1>3, NextFilled
<1>9. Together(el) \o left = v /\ Together(el) \in Value
  BY <1>7, <1>8, TogetherTyped
<1>10. el.ref = NoHandle /\ el.desc = NoHandle /\ ~el.ind /\ el.num >= 1 /\ el.chunks /= <<>>
  <2>1. el.ref = NoHandle /\ el.desc = NoHandle /\ ~el.ind
    BY <1>4, <1>7, <1>8 DEF SameButChunks
  <2>2. Filled.num \in Nat /\ el.num <= Len(el.chunks)
    BY <1>3, <1>8 DEF Typed, ElementRecords
  <2> QED BY <1>7, <1>8, <2>1, <2>2
<1> HIDE DEF next, el, left, v
<1>11. left = <<>> => HoldsValue(el, v, lobs')
  <2>1. left = <<>> => Together(el) = v
    BY <1>9, ConcatEmptySeq DEF Value
  <2> QED BY <1>2, <1>7, <1>10, <2>1 DEF HoldsValue
<1>12. left /= <<>> => Filling(el, v, left)
  BY <1>2, <1>7, <1>9, <1>10 DEF Filling
<1>13. MainRight(el) /\ ReturnedRight(el) /\ NotReturned(el.desc)
  BY <1>2, <1>10, LobKinds DEF MainRight, ReturnedRight, NotReturned
<1>14. \A k \in kept : k[1] /= el.desc
  BY <1>10, HandlesAssumption DEF BufferInv, KeptRight
<1>15. lobs' \in [Handle -> Value] /\ lobs' = lobs
  BY <1>1 DEF BufferInv, BufferTypes
<1>16. told' = told /\ v = told[Len(told)] /\ UNCHANGED <<given, sent, kept>>
  BY <1>1 DEF ghosts, v
<1> QED
  BY <1>1, <1>6, <1>8, <1>10, <1>11, <1>12, <1>13, <1>14, <1>15, <1>16, DeliveryKeeps

\* An execution or a fetch that fails promises nothing of the value.
LEMMA BrokenKeeps ==
    ASSUME BufferInv, Broken, stage \in {"rows", "read"}, isDynamic \/ inLob,
           Typed(main'), main'.ref = main.ref, main'.desc = main.desc,
           use = "returning" => main' = main,
           returned' \in Seq(ElementRecords), Len(returned') = Len(returned),
           \A i \in 1..Len(returned) :
               Typed(returned'[i]) /\ ReturnedRight(returned'[i]) /\ returned'[i].ref = returned[i].ref
    PROVE  BufferInv'
<1>1. /\ stage' = "idle" /\ pending' = <<>> /\ told' = <<Unknown>>
      /\ given' = (IF use = "query" THEN Unknown ELSE given)
      /\ UNCHANGED <<typeVars, returnedCount, usable, lobs, use, row, transfers, sent, kept>>
  BY DEF Broken
<1>2. UNCHANGED <<type, native, isDynamic, prefetch, inLob>>
  BY <1>1 DEF typeVars
<1>3. use \in {"query", "returning"}
  BY DEF BufferInv, UnderWay
<1>4. BufferTypes'
  <2>1. told' \in Seq(Value) /\ given' \in Value /\ pending' \in Value
    BY <1>1, ConstantValues DEF BufferInv, BufferTypes
  <2>2. \A i \in 1..Len(returned') : Typed(returned'[i])
    OBVIOUS
  <2> QED BY <1>1, <1>2, <2>1, <2>2 DEF BufferInv, BufferTypes
<1>5. KindsRight'
  BY <1>1, <1>2 DEF BufferInv, KindsRight
<1>6. HandlesRight'
  <2>1. MainRight(main)'
    BY <1>2 DEF BufferInv, HandlesRight, MainRight
  <2>2. \A i \in 1..Len(returned') : ReturnedRight(returned[i])'
    BY <1>1, <1>2 DEF ReturnedRight
  <2> QED BY <2>1, <2>2 DEF HandlesRight
<1>7. HandlesApart'
  BY DEF BufferInv, HandlesApart, NotReturned
<1>8. KeptRight'
  BY <1>1, <1>2 DEF BufferInv, KeptRight, HasHandles, KindsRight
<1>9. GivenCarried'
  BY <1>1, <1>2, <1>3 DEF BufferInv, GivenCarried, Carries
<1>10. UnderWay'
  BY <1>1 DEF UnderWay
<1>11. ObjectShown'
  BY <1>2 DEF BufferInv, KindsRight, ObjectShown, Renewed
<1>12. BoundIsSet' /\ ColumnsAreRead'
  BY <1>1 DEF BufferInv, BoundIsSet, ColumnsAreRead
<1> QED BY <1>4, <1>5, <1>6, <1>7, <1>8, <1>9, <1>10, <1>11, <1>12 DEF BufferInv

LEMMA DeliverFailsKeeps ==
    ASSUME BufferInv, DeliverFails
    PROVE  BufferInv'
<1> DEFINE el == IF pending = <<>> /\ row > 0 THEN [Filled EXCEPT !.num = 0] ELSE Filled
<1>1. stage = "rows" /\ isDynamic /\ Broken /\ Put(el)
  BY DEF DeliverFails
<1>2. /\ Typed(Filled)
      /\ \/ use = "query" /\ row = 0 /\ Filled = main
         \/ /\ use = "returning" /\ row \in 1..returnedCount /\ row \in 1..Len(returned)
            /\ Filled = returned[row] /\ ReturnedRight(Filled) /\ usable /\ ~inLob
  BY <1>1, FilledRight
<1>3. Typed(el) /\ SameHandles(Filled, el) /\ el.chunks = Filled.chunks /\ (row = 0 => el = Filled)
  <2>1. Len(Filled.chunks) \in Nat
    BY <1>2 DEF Typed, ElementRecords
  <2> QED BY <1>2, <2>1 DEF Typed, ElementRecords, SameHandles
<1> HIDE DEF el
<1>4. /\ Typed(main) /\ returned \in Seq(ElementRecords)
      /\ \A i \in 1..Len(returned) : Typed(returned[i]) /\ ReturnedRight(returned[i])
  BY DEF BufferInv, BufferTypes, HandlesRight
<1>5. CASE row = 0 /\ use = "query"
  <2>1. main' = main /\ returned' = returned
    BY <1>1, <1>2, <1>3, <1>5 DEF Put
  <2> QED BY <1>1, <1>4, <1>5, <2>1, BrokenKeeps
<1>6. CASE row \in 1..Len(returned) /\ use = "returning"
  <2>1. main' = main /\ returned' = [returned EXCEPT ![row] = el]
    BY <1>1, <1>6 DEF Put
  <2>2. returned' \in Seq(ElementRecords) /\ Len(returned') = Len(returned)
    BY <1>3, <1>4, <1>6, <2>1 DEF Typed
  <2>3. ReturnedRight(el)
    BY <1>2, <1>3, <1>6 DEF ReturnedRight, SameHandles
  <2>4. ASSUME NEW i \in 1..Len(returned)
        PROVE  Typed(returned'[i]) /\ ReturnedRight(returned'[i]) /\ returned'[i].ref = returned[i].ref
    <3>1. CASE i = row
      <4>1. returned'[i] = el
        BY <1>4, <2>1, <3>1
      <4>2. el.ref = returned[i].ref
        BY <1>2, <1>3, <1>6, <3>1 DEF SameHandles
      <4> QED BY <1>3, <2>3, <4>1, <4>2
    <3>2. CASE i /= row
      <4>1. returned'[i] = returned[i]
        BY <1>4, <2>1, <3>2
      <4> QED BY <1>4, <4>1
    <3> QED BY <3>1, <3>2
  <2> QED BY <1>1, <1>4, <2>1, <2>2, <2>4, BrokenKeeps
<1> QED BY <1>2, <1>5, <1>6

\* A value is shown to the caller although it could not be read.
LEMMA NotRead ==
    ASSUME NEW e, Typed(e), NEW f, f = Unread(e)
    PROVE  /\ Typed(f) /\ f.ref = e.ref /\ f.desc = e.desc
           /\ ReturnedRight(e) /\ type /= "object" => ReturnedRight(f)
<1>1. Typed(f) /\ f.ref = e.ref /\ f.desc = e.desc /\ f.ind = e.ind /\ f.chunks = e.chunks
  BY ConstantValues DEF Typed, ElementRecords, Unread
<1> QED BY <1>1 DEF ReturnedRight

LEMMA ReadBackFailsKeeps ==
    ASSUME BufferInv, ReadBackFails
    PROVE  BufferInv'
<1>1. stage = "read" /\ (isDynamic \/ inLob) /\ ~Mixed /\ Broken
  BY DEF ReadBackFails
<1>2. /\ Typed(main) /\ returned \in Seq(ElementRecords) /\ returnedCount \in 0..Len(returned)
      /\ \A i \in 1..Len(returned) : Typed(returned[i]) /\ ReturnedRight(returned[i])
  BY DEF BufferInv, BufferTypes, HandlesRight
<1>3. use = "returning" => returned /= <<>>
  BY <1>1, <1>2 DEF BufferInv, UnderWay, UnderReturning
<1>4. type /= "object"
  BY <1>1 DEF BufferInv, KindsRight, Renewed
<1>5. CASE /\ returned = <<>> /\ main' = Unread(main)
           /\ UNCHANGED returned
  <2>1. Typed(main') /\ main'.ref = main.ref /\ main'.desc = main.desc
    BY <1>2, <1>5, NotRead
  <2> QED BY <1>1, <1>2, <1>3, <1>5, <2>1, BrokenKeeps
<1>6. ASSUME NEW k \in DOMAIN returned, UNCHANGED main,
             returned' = [i \in DOMAIN returned |->
                IF i < k THEN GetValue(returned[i], lobs)
                ELSE IF i = k THEN Unread(returned[i])
                ELSE returned[i]]
      PROVE  BufferInv'
  <2>1. ~inLob /\ DOMAIN returned = 1..Len(returned) /\ Len(returned) \in Nat
    <3>1. DOMAIN returned = 1..Len(returned) /\ Len(returned) \in Nat
      BY <1>2
    <3>2. returned /= <<>>
      BY <3>1
    <3> QED BY <1>1, <3>1, <3>2 DEF Mixed
  <2>2. ASSUME NEW i \in 1..Len(returned)
        PROVE  Typed(returned'[i]) /\ ReturnedRight(returned'[i]) /\ returned'[i].ref = returned[i].ref
    <3>1. PICK e : e = returned[i]
      OBVIOUS
    <3>2. PICK f : f = returned'[i]
      OBVIOUS
    <3>3. Typed(e) /\ ReturnedRight(e)
      BY <1>2, <3>1
    <3>4. \/ f = GetValue(e, lobs)
          \/ f = Unread(e)
          \/ f = e
      BY <1>6, <2>1, <3>1, <3>2
    <3>5. CASE f = GetValue(e, lobs)
      BY <2>1, <3>1, <3>2, <3>3, <3>5, RowGot
    <3>6. CASE f = Unread(e)
      BY <1>4, <3>1, <3>2, <3>3, <3>6, NotRead
    <3>7. CASE f = e
      BY <3>1, <3>2, <3>3, <3>7
    <3> QED BY <3>4, <3>5, <3>6, <3>7
  <2>3. returned' \in Seq(ElementRecords) /\ Len(returned') = Len(returned)
    <3>1. DOMAIN returned' = 1..Len(returned)
      BY <1>6, <2>1
    <3>2. returned' = [i \in 1..Len(returned) |-> returned'[i]]
      BY <1>6, <2>1
    <3>3. \A i \in 1..Len(returned) : returned'[i] \in ElementRecords
      BY <2>2 DEF Typed
    <3> QED BY <2>1, <3>1, <3>2, <3>3, SeqDef
  <2> QED BY <1>1, <1>2, <1>6, <2>2, <2>3, BrokenKeeps
<1> QED BY <1>5, <1>6 DEF ReadBackFails

\* What is the same whether the element or the rows are read.
LEMMA ReadingKeeps ==
    ASSUME BufferInv, stage = "read", stage' = "idle",
           UNCHANGED <<type, native, isDynamic, inLob, returnedCount, usable, lobs, use, row, pending,
                       transfers, failed, sent, kept>>,
           prefetch' = (prefetch \/ (use = "query" /\ type \in Renewed)),
           Typed(main'), MainRight(main'), main'.desc = main.desc,
           Len(returned') = Len(returned), RowsSound',
           \A i \in 1..Len(returned) : returned'[i].ref = returned[i].ref,
           told' \in Seq(Value), given' \in Value
    PROVE  /\ BufferTypes' /\ KindsRight' /\ HandlesRight' /\ HandlesApart' /\ KeptRight'
           /\ UnderWay' /\ BoundIsSet'
<1>1. prefetch' \in BOOLEAN
  BY DEF BufferInv, BufferTypes
<1>2. BufferTypes'
  BY <1>1 DEF BufferInv, BufferTypes, RowsSound
<1>3. KindsRight'
  BY DEF BufferInv, KindsRight
<1>4. HandlesRight'
  <2>1. MainRight(main)'
    BY DEF MainRight
  <2> QED BY <2>1 DEF HandlesRight, RowsSound
<1>5. HandlesApart'
  <2>1. NotReturned(main.desc)'
    BY DEF BufferInv, HandlesApart, NotReturned
  <2> QED BY <2>1 DEF HandlesApart, RowsSound
<1>6. KeptRight'
  BY DEF BufferInv, KeptRight, HasHandles
<1>7. UnderWay'
  BY DEF BufferInv, UnderWay
<1>8. BoundIsSet'
  BY DEF BufferInv, BoundIsSet
<1> QED BY <1>2, <1>3, <1>4, <1>5, <1>6, <1>7, <1>8

LEMMA ReadBackKeeps ==
    ASSUME BufferInv, ReadBack
    PROVE  BufferInv'
<1>1. /\ stage = "read" /\ ~Mixed /\ stage' = "idle"
      /\ prefetch' = (prefetch \/ (use = "query" /\ type \in Renewed))
      /\ UNCHANGED <<type, native, isDynamic, inLob, returnedCount, usable, lobs, use, row, pending,
                     transfers, failed, sent, kept>>
      /\ given' = IF use = "returning" THEN given ELSE IF returned = <<>> THEN told[1] ELSE Unknown
  BY DEF ReadBack
<1>2. /\ Typed(main) /\ MainRight(main) /\ RowsSound /\ lobs \in [Handle -> Value]
      /\ returnedCount \in 0..Len(returned) /\ told \in Seq(Value) /\ given \in Value
  BY RowsAreSound DEF BufferInv, BufferTypes, HandlesRight
<1>3. /\ pending = <<>>
      /\ \/ use = "query" /\ UnderQuery
         \/ use = "returning" /\ UnderReturning
  BY <1>1 DEF BufferInv, UnderWay
<1>4. returned \in Seq(ElementRecords) /\ Len(returned) \in Nat /\ DOMAIN returned = 1..Len(returned)
  BY <1>2 DEF RowsSound
<1>5. CASE returned = <<>>
  <2>1. use = "query" /\ UnderQuery
    BY <1>2, <1>3, <1>4, <1>5 DEF UnderReturning
  <2>2. Len(told) = 1 /\ HoldsValue(main, told[1], lobs)
    BY <1>1, <1>3, <2>1 DEF UnderQuery
  <2>3. main' = GetValue(main, lobs) /\ returned' = returned /\ told' = told
    BY <1>5 DEF ReadBack
  <2>4. PICK v : v = told[1]
    OBVIOUS
  <2>5. v \in Value
    BY <1>2, <2>2, <2>4
  <2>6. PICK f : f = main'
    OBVIOUS
  <2>7. /\ Typed(f) /\ MainRight(f) /\ f.desc = main.desc
        /\ Carries(f, v, lobs) /\ ShownIn(f, lobs) = v
        /\ type = "object" /\ ~f.null => f.ref = f.desc /\ f.desc \in Handle
    BY <1>2, <2>2, <2>3, <2>4, <2>5, <2>6, MainGot
  <2>8. RowsSound'
    BY <1>1, <2>3, RowsStaySound
  <2>9. given' = v
    BY <1>1, <1>5, <2>1, <2>4
  <2>10. /\ BufferTypes' /\ KindsRight' /\ HandlesRight' /\ HandlesApart' /\ KeptRight'
         /\ UnderWay' /\ BoundIsSet'
    BY <1>1, <1>2, <2>3, <2>5, <2>6, <2>7, <2>8, <2>9, ReadingKeeps
  <2>11. GivenCarried'
    BY <1>1, <2>6, <2>7, <2>9 DEF GivenCarried, Carries
  <2>12. ObjectShown'
    BY <1>1, <2>6, <2>7 DEF ObjectShown
  <2>13. ColumnsAreRead'
    <3>1. Shown(main)' = v
      BY <1>1, <2>6, <2>7 DEF Shown, ShownIn, HasHandles
    <3>2. told' = <<v>>
      BY <1>2, <2>2, <2>3, <2>4
    <3>3. use' /= "returning" /\ stage' /= "refused"
      BY <1>1, <2>1
    <3> QED BY <3>1, <3>2, <3>3 DEF ColumnsAreRead
  <2> QED BY <2>10, <2>11, <2>12, <2>13 DEF BufferInv
<1>6. CASE returned /= <<>>
  <2>1. /\ ~inLob /\ main' = main
        /\ returned' = [i \in DOMAIN returned |-> GetValue(returned[i], lobs)]
        /\ told' = IF use = "returning" THEN told ELSE <<Unknown>>
    BY <1>6 DEF ReadBack, Mixed
  <2>2. ASSUME NEW i \in 1..Len(returned)
        PROVE  /\ Typed(returned'[i]) /\ ReturnedRight(returned'[i])
               /\ returned'[i].ref = returned[i].ref
               /\ \A v : HoldsValue(returned[i], v, lobs) => ShownIn(returned'[i], lobs) = v
    <3>1. PICK e : e = returned[i]
      OBVIOUS
    <3>2. PICK f : f = returned'[i]
      OBVIOUS
    <3>3. Typed(e) /\ ReturnedRight(e) /\ f = GetValue(e, lobs)
      BY <1>2, <1>4, <2>1, <3>1, <3>2 DEF RowsSound
    <3>4. /\ Typed(f) /\ ReturnedRight(f) /\ f.ref = e.ref
          /\ \A v : HoldsValue(e, v, lobs) => ShownIn(f, lobs) = v
      BY <2>1, <3>3, RowGot
    <3> QED BY <3>1, <3>2, <3>4
  <2>3. returned' \in Seq(ElementRecords) /\ Len(returned') = Len(returned)
    <3>1. DOMAIN returned' = 1..Len(returned)
      BY <1>4, <2>1
    <3>2. returned' = [i \in 1..Len(returned) |-> returned'[i]]
      BY <1>4, <2>1
    <3>3. \A i \in 1..Len(returned) : returned'[i] \in ElementRecords
      BY <2>2 DEF Typed
    <3> QED BY <1>4, <3>1, <3>2, <3>3, SeqDef
  <2>4. RowsSound'
    <3>1. \A i \in 1..Len(returned) : ReturnedRight(returned[i])'
      BY <1>1, <2>2 DEF ReturnedRight
    <3>2. \A i, j \in 1..Len(returned) :
            returned'[i].ref = returned'[j].ref /\ returned'[i].ref /= NoHandle => i = j
      BY <1>2, <2>2 DEF RowsSound
    <3> QED BY <2>2, <2>3, <3>1, <3>2 DEF RowsSound
  <2>5. told' \in Seq(Value) /\ given' \in Value
    BY <1>1, <1>2, <1>6, <2>1, ConstantValues
  <2>6. /\ BufferTypes' /\ KindsRight' /\ HandlesRight' /\ HandlesApart' /\ KeptRight'
        /\ UnderWay' /\ BoundIsSet'
    <3>1. Typed(main') /\ MainRight(main') /\ main'.desc = main.desc
      BY <1>2, <2>1
    <3>2. \A i \in 1..Len(returned) : returned'[i].ref = returned[i].ref
      BY <2>2
    <3> QED BY <1>1, <2>3, <2>4, <2>5, <3>1, <3>2, ReadingKeeps
  <2>7. GivenCarried'
    BY <1>1, <1>3, <1>6, <2>1 DEF BufferInv, GivenCarried, Carries
  <2>8. ObjectShown'
    <3>1. returned' /= <<>>
      BY <1>4, <1>6, <2>3
    <3> QED BY <3>1 DEF ObjectShown
  <2>9. ColumnsAreRead'
    <3>1. CASE use = "query"
      BY <1>1, <2>1, <3>1 DEF ColumnsAreRead
    <3>2. CASE use = "returning"
      <4>1. UnderReturning /\ told' = told
        BY <1>3, <2>1, <3>2
      <4>2. Len(told) = returnedCount
        BY <1>1, <4>1 DEF UnderReturning
      <4>3. ASSUME NEW i \in 1..returnedCount PROVE told'[i] = Shown(returned[i])'
        <5>1. i \in 1..Len(returned) /\ HoldsValue(returned[i], told[i], lobs)
          BY <1>2, <1>3, <1>4, <4>1, <4>2 DEF UnderReturning
        <5>2. ShownIn(returned'[i], lobs) = told[i]
          BY <2>2, <5>1
        <5> QED BY <1>1, <4>1, <5>2 DEF Shown, ShownIn, HasHandles
      <4>4. told' = [i \in 1..returnedCount |-> told'[i]]
        BY <1>2, <4>1, <4>2
      <4>5. told' = [i \in 1..returnedCount |-> Shown(returned[i])]'
        BY <1>1, <4>3, <4>4
      <4> QED BY <1>1, <3>2, <4>5 DEF ColumnsAreRead
    <3> QED BY <1>3, <3>1, <3>2
  <2> QED BY <2>6, <2>7, <2>8, <2>9 DEF BufferInv
<1> QED BY <1>5, <1>6

-----------------------------------------------------------------------------
\* The theorems.

LEMMA BufferInvAtFirst ==
    ASSUME BufferInit
    PROVE  BufferInv
<1> DEFINE first == [i \in 1..1 |-> CHOOSE h \in Handle : TRUE]
<1>1. PICK p \in Pairs, long \in BOOLEAN : NewVariable(p, long)
  BY DEF BufferInit
<1>2. /\ returned = <<>> /\ returnedCount = 0 /\ usable = TRUE
      /\ inLob = FALSE /\ lobs = [h \in Handle |-> <<>>]
      /\ use = "none" /\ row = 0 /\ pending = <<>>
      /\ transfers = 0
      /\ given = Nothing /\ sent = <<Unknown, Unknown>> /\ told = <<Unknown>> /\ kept = {}
  BY DEF BufferInit
<1>3. /\ type = p.type /\ native = p.native /\ isDynamic = IsLong(p.type, long)
      /\ prefetch = isDynamic
      /\ stage = IF Accepted(p.type, p.native) THEN "idle" ELSE "refused"
      /\ main = IF isDynamic THEN NoElement ELSE InitBuffer(p.type, <<NoElement>>, first)[1]
  BY <1>1 DEF NewVariable
<1>4. Accepted(p.type, p.native) /\ stage = "idle"
  BY <1>3, PairsRight
<1>5. isDynamic \in BOOLEAN
  BY <1>3 DEF IsLong
<1>6. PairRight(type, native, isDynamic)
  BY <1>3, PairsKept
<1>7. KindsRight
  BY <1>2, <1>3, <1>4, <1>5, <1>6 DEF KindsRight, PairRight
<1>8. PICK h \in HandleOrNone :
        /\ main = NewElement(h)
        /\ type \in Renewed \ {"object"} => h \in Handle
        /\ type \notin Renewed => h = NoHandle
  <2>1. CASE isDynamic
    <3>1. main = NewElement(NoHandle)
      BY <1>3, <2>1, WithoutHandle
    <3>2. type \notin Renewed
      BY <1>6, <2>1 DEF PairRight
    <3> QED BY <3>1, <3>2 DEF HandleOrNone
  <2>2. CASE ~isDynamic
    <3> DEFINE h == IF p.type \in Renewed \ {"object"} THEN first[1] ELSE NoHandle
    <3>1. first[1] \in Handle
      BY HandlesAssumption
    <3>2. 1 \in DOMAIN <<NoElement>> /\ <<NoElement>>[1] = NoElement
      OBVIOUS
    <3> HIDE DEF first
    <3>3. InitBuffer(p.type, <<NoElement>>, first)[1] = NewElement(h)
      BY <3>2 DEF InitBuffer, NewElement
    <3>4. main = NewElement(h)
      BY <1>3, <2>2, <3>3
    <3> QED BY <1>3, <3>1, <3>4 DEF HandleOrNone
  <2> QED BY <1>5, <2>1, <2>2
<1>9. Typed(main) /\ main.ref = h /\ main.desc = h /\ main.null
  <2>1. /\ Typed(NoElement) /\ NoElement.null
    BY NoElementTyped
  <2> QED BY <1>8, <2>1 DEF NewElement, Typed, ElementRecords
<1>10. BufferTypes
  <2>1. prefetch \in BOOLEAN /\ inLob \in BOOLEAN /\ usable \in BOOLEAN
    BY <1>2, <1>3, <1>5
  <2>2. /\ returned \in Seq(ElementRecords) /\ \A i \in 1..Len(returned) : Typed(returned[i])
        /\ returnedCount \in 0..Len(returned)
    BY <1>2
  <2>3. lobs \in [Handle -> Value] /\ pending \in Value /\ told \in Seq(Value) /\ given \in Value
    BY <1>2, ConstantValues
  <2>4. row \in Nat /\ transfers \in Nat
    BY <1>2
  <2> QED BY <1>5, <1>9, <2>1, <2>2, <2>3, <2>4 DEF BufferTypes
<1>11. HandlesRight
  BY <1>2, <1>8, <1>9 DEF HandlesRight, MainRight
<1>12. HandlesApart
  BY <1>2 DEF HandlesApart, NotReturned
<1>13. KeptRight
  BY <1>2 DEF KeptRight
<1>14. GivenCarried
  BY <1>2, <1>9 DEF GivenCarried, Carries
<1>15. UnderWay
  BY <1>2, <1>4 DEF UnderWay
<1>16. ObjectShown
  BY <1>9 DEF ObjectShown
<1>17. BoundIsSet /\ ColumnsAreRead
  BY <1>2, <1>4 DEF BoundIsSet, ColumnsAreRead
<1> QED
  BY <1>7, <1>10, <1>11, <1>12, <1>13, <1>14, <1>15, <1>16, <1>17 DEF BufferInv

LEMMA BufferStutterKeeps ==
    ASSUME BufferInv, UNCHANGED bufferVars
    PROVE  BufferInv'
<1>1. /\ UNCHANGED <<type, native, isDynamic, prefetch, inLob>>
      /\ UNCHANGED <<returned, returnedCount, usable>>
      /\ UNCHANGED <<given, sent, told, kept>>
      /\ UNCHANGED <<main, lobs, use, stage, row, pending, transfers, failed>>
  BY DEF bufferVars, typeVars, rowVars, ghosts
<1>2. BufferTypes'
  BY <1>1 DEF BufferInv, BufferTypes
<1>3. KindsRight'
  BY <1>1 DEF BufferInv, KindsRight
<1>4. HandlesRight'
  BY <1>1 DEF BufferInv, HandlesRight, MainRight, ReturnedRight
<1>5. HandlesApart'
  BY <1>1 DEF BufferInv, HandlesApart, NotReturned
<1>6. KeptRight'
  BY <1>1 DEF BufferInv, KeptRight, HasHandles
<1>7. GivenCarried'
  BY <1>1 DEF BufferInv, GivenCarried, Carries
<1>8. UnderWay'
  BY <1>1 DEF BufferInv, UnderWay, UnderQuery, UnderReturning, HoldsValue, Filling
<1>9. ObjectShown'
  BY <1>1 DEF BufferInv, ObjectShown
<1>10. BoundIsSet'
  BY <1>1 DEF BufferInv, BoundIsSet
<1>11. ColumnsAreRead'
  BY <1>1 DEF BufferInv, ColumnsAreRead, Shown, HasHandles
<1> QED
  BY <1>2, <1>3, <1>4, <1>5, <1>6, <1>7, <1>8, <1>9, <1>10, <1>11 DEF BufferInv

LEMMA BufferInvKept == BufferInv /\ [BufferNext]_bufferVars => BufferInv'
<1> SUFFICES ASSUME BufferInv, [BufferNext]_bufferVars PROVE BufferInv'
  OBVIOUS
<1>1. CASE UNCHANGED bufferVars
  BY <1>1, BufferStutterKeeps
<1>2. CASE SetNull \/ \E v \in CallerValue : SetPlain(v) \/ SetFromBytes(v) \/ SetFromBytesFails(v)
  BY <1>2, NullIsSet, PlainIsSet, BytesAreSet, BytesAreNotSet
<1>3. CASE \E h \in Handle, v \in CallerValue : SetFromHandle(h, v)
  BY <1>3, HandleIsSet
<1>4. CASE Keep \/ ConvertToLob \/ ExecuteDml \/ Crash
  BY <1>4, KeepKeeps, ConversionKeeps, DmlKeeps, CrashKeeps
<1>5. CASE \E v \in ServerValue : ExecutePlsql(v) \/ Deliver(v)
  <2>1. PICK v \in ServerValue : ExecutePlsql(v) \/ Deliver(v)
    BY <1>5
  <2>2. isDynamic \in BOOLEAN
    BY DEF BufferInv, BufferTypes
  <2> QED BY <2>1, <2>2, PlsqlKeeps, DeliverLongKeeps, DeliverShortKeeps
<1>6. CASE \E n \in 1..MaxReturned : StartReturning(n) \/ StartReturningFails(n)
  BY <1>6, ReturningStarts, ReturningIsNotStarted
<1>7. CASE ReturnNothing \/ BeforeFetchValue \/ DeliverPiece \/ DeliverFails
  BY <1>7, NothingReturnedKeeps, FetchPrepared, DeliverPieceKeeps, DeliverFailsKeeps
<1>8. CASE ReadBack \/ ReadBackFails
  BY <1>8, ReadBackKeeps, ReadBackFailsKeeps
<1> QED
  BY <1>1, <1>2, <1>3, <1>4, <1>5, <1>6, <1>7, <1>8 DEF BufferNext

LEMMA BuffersStayRight == BufferSpec => []BufferInv
  BY BufferInvAtFirst, BufferInvKept, PTL DEF BufferSpec

\* What the server reads when a statement is executed is the value the caller
\* set, or was shown, last: through dpiVar_setFromBytes and its like,
\* dpiVar__setValue and dpiVar__convertToLob, and through any number of
\* executions, fetches, failures and rows returned in between.
THEOREM WhatIsBoundIsSet == BufferSpec => []BoundIsSet
<1>1. BufferInv => BoundIsSet
  BY DEF BufferInv
<1> QED BY <1>1, BuffersStayRight, PTL

\* A described column is never refused by dpiVar__allocate, and what the server
\* has written is what dpiVar__getValue and the callbacks leave for the caller:
\* the pieces joined in their order, and the rows returned and no other.
THEOREM EveryColumnIsRead == BufferSpec => []ColumnsAreRead
<1>1. BufferInv => ColumnsAreRead
  BY DEF BufferInv
<1> QED BY <1>1, BuffersStayRight, PTL

\* dpiVar__extendedPreFetch gives each element a new handle before it is fetched
\* into again: the one of an earlier row that the caller has kept is not written.
THEOREM KeptHandlesStay == BufferSpec => []KeptIsUnchanged
<1>1. BufferInv => KeptIsUnchanged
  BY DEF BufferInv, KeptRight, KeptIsUnchanged
<1> QED BY <1>1, BuffersStayRight, PTL

-----------------------------------------------------------------------------
\* Types: how far an execution is, and the bounds.

Stages == {"idle", "rows", "read", "refused", "crashed"}
BufferBounds ==
    /\ stage \in Stages /\ row \in 0..MaxReturned /\ returnedCount \in 0..MaxReturned
    /\ transfers \in 0..MaxTransfers /\ failed \in 0..MaxFailed

LEMMA TransfersBounded ==
    ASSUME BufferBounds, MoreTransfers
    PROVE  transfers' \in 0..MaxTransfers
BY TransfersAssumption DEF BufferBounds, MoreTransfers

LEMMA BoundsAtFirst == BufferInit => BufferBounds
BY TransfersAssumption, PiecesAssumption DEF BufferInit, BufferBounds, NewVariable, Stages

\* What a step may do to them.
FailedMore == failed' = failed \/ (failed' = failed + 1 /\ failed < MaxFailed)
RowMoves ==
    \/ row' \in {row, 0}
    \/ row' = 1 /\ MaxReturned >= 1
    \/ row' = row + 1 /\ row < returnedCount
CountMoves == returnedCount' \in {returnedCount, 0} \union 1..MaxReturned
Moves ==
    /\ transfers' = transfers \/ MoreTransfers
    /\ stage' \in Stages /\ RowMoves /\ CountMoves /\ FailedMore

LEMMA CallerMoves ==
    ASSUME BufferBounds, NEW v, Setting(v), FailedMore
    PROVE  Moves
BY DEF BufferBounds, Setting, rowVars, Moves, RowMoves, CountMoves

LEMMA ExecutionMoves ==
    ASSUME BufferBounds, NEW u, Executing(u), ResetRows \/ (returnedCount' \in 1..MaxReturned),
           FailedMore, row' = row \/ (row' = 1 /\ MaxReturned >= 1), stage' \in {stage, "rows"}
    PROVE  Moves
BY DEF BufferBounds, Executing, ResetRows, Moves, RowMoves, CountMoves, Stages

LEMMA RestMoves ==
    ASSUME BufferBounds, UNCHANGED returnedCount, transfers' = transfers \/ MoreTransfers,
           stage' \in Stages, RowMoves, FailedMore
    PROVE  Moves
BY DEF Moves, CountMoves

LEMMA DeliveredMoves ==
    ASSUME BufferBounds, NEW left, Delivered(left)
    PROVE  stage' \in Stages /\ RowMoves
BY DEF BufferBounds, Delivered, RowMoves, Stages

LEMMA StepMoves == BufferBounds /\ [BufferNext]_bufferVars => Moves
<1> SUFFICES ASSUME BufferBounds, [BufferNext]_bufferVars PROVE Moves
  OBVIOUS
<1>1. CASE SetNull
  BY <1>1, CallerMoves DEF SetNull, FailedMore
<1>2. CASE \E v \in CallerValue : SetPlain(v) \/ SetFromBytes(v) \/ SetFromBytesFails(v)
  <2>1. PICK v \in CallerValue : SetPlain(v) \/ SetFromBytes(v) \/ SetFromBytesFails(v)
    BY <1>2
  <2>2. CASE SetPlain(v)
    BY <2>2, CallerMoves DEF SetPlain, FailedMore
  <2>3. CASE SetFromBytes(v)
    BY <2>3, CallerMoves DEF SetFromBytes, FailedMore
  <2>4. CASE SetFromBytesFails(v)
    BY <2>4, CallerMoves DEF SetFromBytesFails, FailedMore
  <2>5. QED
    BY <2>1, <2>2, <2>3, <2>4
<1>3. CASE \E h \in Handle, v \in CallerValue : SetFromHandle(h, v)
  BY <1>3, CallerMoves DEF SetFromHandle, FailedMore
<1>4. CASE Keep \/ ConvertToLob \/ Crash
  <2>1. /\ UNCHANGED <<row, transfers, failed, returnedCount>>
        /\ stage' \in {stage, "crashed"}
    BY <1>4 DEF Keep, ConvertToLob, Crash, rowVars
  <2>2. QED
    BY <2>1, RestMoves DEF BufferBounds, Stages, RowMoves, FailedMore
<1>5. CASE ExecuteDml \/ ReturnNothing
  BY <1>5, ExecutionMoves DEF ExecuteDml, ReturnNothing, FailedMore
<1>6. CASE \E v \in ServerValue : ExecutePlsql(v)
  BY <1>6, ExecutionMoves DEF ExecutePlsql, FailedMore
<1>7. CASE \E n \in 1..MaxReturned : StartReturning(n)
  <2>1. PICK n \in 1..MaxReturned : StartReturning(n)
    BY <1>7
  <2>2. /\ Executing("returning") /\ returnedCount' = n /\ row' = 1 /\ stage' = "rows"
        /\ failed' = failed
    BY <2>1 DEF StartReturning
  <2>3. MaxReturned >= 1
    BY PiecesAssumption
  <2>4. QED
    BY <2>2, <2>3, ExecutionMoves DEF FailedMore
<1>8. CASE \E n \in 1..MaxReturned : StartReturningFails(n)
  BY <1>8, ExecutionMoves DEF StartReturningFails, FailedMore
<1>9. CASE BeforeFetchValue
  <2>1. /\ MoreTransfers /\ stage' = "rows" /\ row' = 0 /\ failed' = failed /\ returnedCount' = returnedCount
    BY <1>9 DEF BeforeFetchValue, rowVars
  <2>2. QED
    BY <2>1, RestMoves DEF RowMoves, FailedMore, Stages
<1>10. CASE \E v \in ServerValue : Deliver(v)
  <2>1. PICK v \in ServerValue : Deliver(v)
    BY <1>10
  <2>2. UNCHANGED <<returnedCount, transfers, failed>>
    BY <2>1 DEF Deliver
  <2>3. \E left : Delivered(left)
    BY <2>1, Zenon DEF Deliver
  <2>4. QED
    BY <2>2, <2>3, DeliveredMoves, RestMoves DEF FailedMore
<1>11. CASE DeliverPiece
  <2>1. UNCHANGED <<returnedCount, transfers, failed>>
    BY <1>11 DEF DeliverPiece
  <2>2. \E left : Delivered(left)
    BY <1>11, Zenon DEF DeliverPiece
  <2>3. QED
    BY <2>1, <2>2, DeliveredMoves, RestMoves DEF FailedMore
<1>12. CASE DeliverFails \/ ReadBackFails
  <2>1. Broken
    BY <1>12 DEF DeliverFails, ReadBackFails
  <2>2. QED
    BY <2>1, RestMoves DEF Broken, RowMoves, FailedMore, Stages
<1>13. CASE ReadBack
  <2>1. UNCHANGED <<returnedCount, row, transfers, failed>> /\ stage' = "idle"
    BY <1>13 DEF ReadBack
  <2>2. QED
    BY <2>1, RestMoves DEF RowMoves, FailedMore, Stages
<1>14. CASE UNCHANGED bufferVars
  <2>1. UNCHANGED <<returnedCount, row, transfers, failed, stage>>
    BY <1>14 DEF bufferVars, rowVars
  <2>2. QED
    BY <2>1, RestMoves DEF BufferBounds, Stages, RowMoves, FailedMore
<1>15. QED
  BY <1>1, <1>2, <1>3, <1>4, <1>5, <1>6, <1>7, <1>8, <1>9, <1>10, <1>11, <1>12, <1>13, <1>14 DEF BufferNext

LEMMA BoundsKept == BufferBounds /\ [BufferNext]_bufferVars => BufferBounds'
<1> SUFFICES ASSUME BufferBounds, Moves PROVE BufferBounds'
  BY StepMoves
<1>1. transfers' \in 0..MaxTransfers
  BY TransfersBounded DEF Moves, BufferBounds
<1>2. row' \in 0..MaxReturned /\ returnedCount' \in 0..MaxReturned
  BY PiecesAssumption DEF Moves, RowMoves, CountMoves, BufferBounds
<1>3. failed' \in 0..MaxFailed
  BY TransfersAssumption DEF Moves, FailedMore, BufferBounds
<1>4. QED
  BY <1>1, <1>2, <1>3 DEF Moves, BufferBounds

LEMMA BuffersTyped == BufferSpec => []BufferTypeOK
<1>1. BufferInv /\ BufferBounds => BufferTypeOK
  <2> SUFFICES ASSUME BufferInv, BufferBounds PROVE BufferTypeOK
    OBVIOUS
  <2>1. ASSUME NEW e \in {main} \union {returned[i] : i \in DOMAIN returned}
        PROVE  e.num \in 0..Len(e.chunks) /\ {e.ref, e.desc} \subseteq Handle \union {NoHandle}
    <3>1. Typed(e)
      BY DEF BufferInv, BufferTypes
    <3>2. e.num \in Nat /\ e.num <= Len(e.chunks) /\ e.ref \in HandleOrNone /\ e.desc \in HandleOrNone
      BY <3>1 DEF Typed, ElementRecords
    <3>3. Len(e.chunks) \in Nat
      BY <3>1 DEF Typed, ElementRecords
    <3>4. QED
      BY <3>2, <3>3 DEF HandleOrNone
  <2>2. QED
    BY <2>1 DEF BufferInv, BufferTypes, BufferBounds, Stages, BufferTypeOK
<1> QED BY <1>1, BoundsAtFirst, BoundsKept, BuffersStayRight, PTL DEF BufferSpec

=============================================================================
