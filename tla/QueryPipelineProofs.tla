------------------------- MODULE QueryPipelineProofs -------------------------
(***************************************************************************)
(* Theorems about QueryPipeline, for every number of parameters, every size*)
(* of a result and all the calls that may fail: of errors, of the answer,  *)
(* of the types; about ByteText, for bytes of any number; and about        *)
(* MCQuery, the sum of what is checked about the operations and what is    *)
(* below them: it is every one of its parts, so it has what is proved of   *)
(* them, here and in StatementProofs.                                      *)
(***************************************************************************)
EXTENDS MCQuery, StatementProofs, TLAPS

-----------------------------------------------------------------------------
\* Errors.  While an operation calls, no failure whose result is looked at has
\* happened; from then on its error is in the outcome, and in the answer.

Calling == {"prepare", "bind", "execute", "fetch", "count", "info", "value", "clob", "size", "read"}

\* o carries the error of the call that failed, or one the library made up.
CarriesError(o) ==
    /\ o.right \in BOOLEAN
    /\ failures > unseen => o = Left(failures)
    /\ ~o.right /\ failures = unseen => o.error = MadeUp

ErrInv ==
    /\ pc \in Calling \union {"idle", "release", "answer"}
    /\ failures \in Nat /\ unseen \in Nat /\ unseen <= failures
    /\ failures > 0 => lastError = failures
    /\ op = "none" => pc = "idle" /\ failures = 0
    /\ pc \in Calling => failures = unseen
    /\ pc \in {"release", "answer"} => CarriesError(outcome)
    /\ pc = "idle" /\ op /= "none" => CarriesError(answer)

LEMMA ErrInit == Init => ErrInv
BY DEF Init, ErrInv, Calling

\* What the operations make of an outcome keeps its error.
Answers == {outcome, decodeRows(outcome), queryOne(outcome), queryExactlyOne(outcome),
            queryJSON(outcome), queryJSONList(outcome)}

LEMMA AnswerCarries ==
    ASSUME ErrInv, CarriesError(outcome), NEW a \in Answers
    PROVE  CarriesError(a)
<1>1. CASE ~outcome.right
  <2>1. decodeRows(outcome) = outcome
    BY <1>1 DEF decodeRows
  <2>2. a = outcome
    BY <1>1, <2>1 DEF Answers, queryOne, queryExactlyOne, queryJSON, queryJSONList
  <2>3. QED
    BY <2>2
<1>2. CASE outcome.right
  <2>1. ~(failures > unseen)
    BY <1>2 DEF CarriesError, Left
  <2>2. decodeRows(outcome) = Left(MadeUp) \/ decodeRows(outcome) = outcome
    BY DEF decodeRows
  <2>3. \A rows : Right(rows).right
    BY DEF Right
  <2>4. a = Left(MadeUp) \/ (a.right /\ a.right \in BOOLEAN)
    BY <1>2, <2>2, <2>3 DEF Answers, queryOne, queryExactlyOne, queryJSON, queryJSONList, Right
  <2>5. CarriesError(Left(MadeUp))
    BY <2>1 DEF CarriesError, Left
  <2>6. QED
    BY <2>1, <2>4, <2>5 DEF CarriesError
<1>3. QED
  BY <1>1, <1>2 DEF CarriesError

\* A failing call is counted; when its result is looked at, its error is the
\* outcome.
LEMMA FailsCarries ==
    ASSUME ErrInv, pc \in Calling, NEW c, Fails(c)
    PROVE  /\ failures' \in Nat /\ unseen' \in Nat /\ unseen' <= failures'
           /\ failures' > 0 /\ lastError' = failures'
           /\ c \in Unchecked => failures' = unseen'
           /\ (c \notin Unchecked /\ outcome' = Left(lastError')) => CarriesError(outcome)'
<1>1. failures \in Nat /\ unseen = failures
  BY DEF ErrInv
<1>2. failures' = failures + 1 /\ lastError' = failures'
      /\ unseen' = IF c \in Unchecked THEN unseen + 1 ELSE unseen
  BY DEF Fails
<1>3. ASSUME c \notin Unchecked, outcome' = Left(lastError')
      PROVE  CarriesError(outcome)'
  <2>1. outcome' = Left(failures') /\ failures' > unseen' /\ failures' /= unseen'
    BY <1>1, <1>2, <1>3
  <2>2. outcome'.right = FALSE
    BY <2>1 DEF Left
  <2>3. QED
    BY <2>1, <2>2 DEF CarriesError, Left
<1>4. QED
  BY <1>1, <1>2, <1>3

\* The four ways a call can end.
GoesOn == UNCHANGED errors /\ pc' \in Calling
Ends ==
    /\ UNCHANGED errors /\ pc' = "release"
    /\ (outcome'.right /\ outcome'.right \in BOOLEAN) \/ outcome' = Left(MadeUp)
Unnoticed == pc' \in Calling /\ \E c \in Unchecked : Fails(c)
Noticed ==
    /\ pc' \in {"release", "answer"} /\ outcome' = Left(lastError')
    /\ \E c \in Calling \ Unchecked : Fails(c)

LEMMA RightIsRight == \A rows : Right(rows).right /\ Right(rows).right \in BOOLEAN
BY DEF Right

LEMMA CallKeepsErrors ==
    ASSUME ErrInv, pc \in Calling, op' = op, GoesOn \/ Ends \/ Unnoticed \/ Noticed
    PROVE  ErrInv'
<1>1. failures = unseen /\ failures \in Nat
  BY DEF ErrInv
<1>2. CASE GoesOn
  BY <1>1, <1>2 DEF GoesOn, ErrInv, Calling, errors
<1>3. CASE Ends
  <2>1. /\ pc' = "release"
        /\ lastError' = lastError /\ failures' = failures /\ unseen' = unseen
    BY <1>3 DEF Ends, errors
  <2>2. CarriesError(outcome)'
    <3>1. CASE outcome'.right /\ outcome'.right \in BOOLEAN
      BY <1>1, <2>1, <3>1 DEF CarriesError
    <3>2. CASE outcome' = Left(MadeUp)
      BY <1>1, <2>1, <3>2 DEF CarriesError, Left
    <3>3. QED
      BY <1>3, <3>1, <3>2 DEF Ends
  <2>3. QED
    BY <2>1, <2>2 DEF ErrInv, Calling
<1>4. CASE Unnoticed
  <2>1. PICK c \in Unchecked : Fails(c)
    BY <1>4 DEF Unnoticed
  <2>2. pc' \in Calling
    BY <1>4 DEF Unnoticed
  <2>3. /\ failures' \in Nat /\ unseen' = failures' /\ lastError' = failures'
    BY <2>1, FailsCarries
  <2>4. QED
    BY <2>2, <2>3 DEF ErrInv, Calling
<1>5. CASE Noticed
  <2>1. PICK c \in Calling \ Unchecked : Fails(c)
    BY <1>5 DEF Noticed
  <2>2. pc' \in {"release", "answer"} /\ outcome' = Left(lastError')
    BY <1>5 DEF Noticed
  <2>3. /\ failures' \in Nat /\ unseen' \in Nat /\ unseen' <= failures' /\ lastError' = failures'
        /\ CarriesError(outcome)'
    BY <2>1, <2>2, FailsCarries
  <2>4. QED
    BY <2>2, <2>3 DEF ErrInv, Calling
<1>6. QED
  BY <1>2, <1>3, <1>4, <1>5

LEMMA ErrStep == ErrInv /\ [Next]_vars => ErrInv'
<1> SUFFICES ASSUME ErrInv, [Next]_vars PROVE ErrInv'
  OBVIOUS
<1>1. CASE Start
  BY <1>1, OpsAssumption DEF Start, ErrInv, Calling, errors
<1>2. CASE Prepare
  <2>1. GoesOn \/ Noticed
    BY <1>2 DEF Prepare, GoesOn, Noticed, Succeeds, Calling, Unchecked
  <2>2. QED
    BY <1>2, <2>1, CallKeepsErrors DEF Prepare, control, Calling
<1>3. CASE Bind
  <2>1. GoesOn \/ Noticed
    BY <1>3 DEF Bind, GoesOn, Noticed, Succeeds, Leave, Calling, Unchecked
  <2>2. QED
    BY <1>3, <2>1, CallKeepsErrors DEF Bind, control, Calling
<1>4. CASE Execute
  <2>1. GoesOn \/ Ends \/ Noticed
    BY <1>4, RightIsRight DEF Execute, GoesOn, Ends, Noticed, Succeeds, Leave, Calling, Unchecked
  <2>2. QED
    BY <1>4, <2>1, CallKeepsErrors DEF Execute, control, Calling
<1>5. CASE Fetch
  <2>1. GoesOn \/ Ends \/ Noticed
    BY <1>5, RightIsRight DEF Fetch, GoesOn, Ends, Noticed, Succeeds, Leave, Calling, Unchecked
  <2>2. QED
    BY <1>5, <2>1, CallKeepsErrors DEF Fetch, control, Calling
<1>6. CASE ColumnCount
  <2>1. GoesOn \/ Unnoticed
    BY <1>6 DEF ColumnCount, GoesOn, Unnoticed, Succeeds, Calling, Unchecked
  <2>2. QED
    BY <1>6, <2>1, CallKeepsErrors DEF ColumnCount, control, Calling
<1>7. CASE ColumnInfo
  <2>1. GoesOn \/ Noticed
    BY <1>7 DEF ColumnInfo, GoesOn, Noticed, Succeeds, ColumnFails, Leave, Calling, Unchecked
  <2>2. QED
    BY <1>7, <2>1, CallKeepsErrors DEF ColumnInfo, control, Calling
<1>8. CASE ColumnValue
  <2>1. GoesOn \/ Ends \/ Noticed
    BY <1>8 DEF ColumnValue, GoesOn, Ends, Noticed, Succeeds, Decoded, ColumnFails, Leave, Calling, Unchecked
  <2>2. QED
    BY <1>8, <2>1, CallKeepsErrors DEF ColumnValue, control, Calling
<1>9. CASE ClobRead
  <2>1. GoesOn \/ Unnoticed
    BY <1>9 DEF ClobRead, GoesOn, Unnoticed, Succeeds, Decoded, Calling, Unchecked
  <2>2. QED
    BY <1>9, <2>1, CallKeepsErrors DEF ClobRead, control, Calling
<1>10. CASE BlobSize
  <2>1. GoesOn \/ Noticed
    BY <1>10 DEF BlobSize, GoesOn, Noticed, Succeeds, ColumnFails, Leave, Calling, Unchecked
  <2>2. QED
    BY <1>10, <2>1, CallKeepsErrors DEF BlobSize, control, Calling
<1>11. CASE BlobRead
  <2>1. GoesOn \/ Unnoticed
    BY <1>11 DEF BlobRead, GoesOn, Unnoticed, Succeeds, Decoded, Calling, Unchecked
  <2>2. QED
    BY <1>11, <2>1, CallKeepsErrors DEF BlobRead, control, Calling
<1>12. CASE Release
  BY <1>12 DEF Release, ErrInv, CarriesError, Calling, control, errors
<1>13. CASE Answer
  <2>1. /\ CarriesError(outcome) /\ pc' = "idle" /\ op' = op
        /\ lastError' = lastError /\ failures' = failures /\ unseen' = unseen
    BY <1>13 DEF Answer, ErrInv, errors
  <2>2. answer' \in Answers
    BY <1>13 DEF Answer, Answers
  <2>3. \A a \in Answers : CarriesError(a)
    BY <2>1, AnswerCarries
  <2>4. CarriesError(answer)'
    BY <2>1, <2>2, <2>3 DEF CarriesError, errors
  <2>5. QED
    BY <2>1, <2>4 DEF ErrInv, Calling
<1>14. CASE UNCHANGED vars
  BY <1>14 DEF vars, control, errors, ErrInv, CarriesError
<1>15. QED
  BY <1>1, <1>2, <1>3, <1>4, <1>5, <1>6, <1>7, <1>8, <1>9, <1>10, <1>11, <1>12, <1>13, <1>14 DEF Next

\* Whatever calls fail, an operation in which one failed whose result is looked
\* at returns that call's own error.
THEOREM CheckedFailuresReported == Spec => []CheckedIsReported
<1>1. ErrInv => CheckedIsReported
  <2> SUFFICES ASSUME ErrInv, pc = "idle", op /= "none", failures > unseen PROVE answer = Left(failures)
    BY DEF CheckedIsReported, Returned
  <2>1. CarriesError(answer)
    BY DEF ErrInv
  <2>2. QED
    BY <2>1 DEF CarriesError
<1>2. QED
  BY <1>1, ErrInit, ErrStep, PTL DEF Spec

\* An operation of which no such call failed returns no call's error.
THEOREM ErrorsAreOwn == Spec => []LeftIsOwn
<1>1. ErrInv => LeftIsOwn
  <2> SUFFICES ASSUME ErrInv, pc = "idle", op /= "none", ~answer.right, failures = unseen
               PROVE  answer.error = MadeUp
    BY DEF LeftIsOwn, Returned
  <2>1. CarriesError(answer)
    BY DEF ErrInv
  <2>2. QED
    BY <2>1 DEF CarriesError
<1>2. QED
  BY <1>1, ErrInit, ErrStep, PTL DEF Spec

-----------------------------------------------------------------------------
\* Rows.  The rows fetched and the cells of the current row are those of the
\* server, backwards, as long as no failure went unseen.

Columns == {"info", "value", "clob", "size", "read"}
Cell == Cells \union {"nothing"}
RowTypes ==
    /\ op \in Ops \union {"none"} /\ unseen \in Nat
    /\ server \in Seq(Seq(Cells)) /\ \A i \in DOMAIN server : server[i] /= <<>>
    /\ acc \in Seq(Seq(Cell)) /\ Len(acc) <= Len(server)
    /\ cells \in Seq(Cell)

\* Where an operation is among its rows and columns.
Reached ==
    /\ op = "execute_" => server = <<>>
    /\ op = "none" => pc = "idle" /\ acc = <<>>
    /\ pc \in {"prepare", "bind", "execute"} => acc = <<>>
    /\ pc \in Columns \union {"count"} => Len(acc) < Len(server)
    /\ pc \in Columns => at = Len(cells) + 1 /\ at <= Len(Row)
    /\ pc = "clob" => Row[at] = "clob"
    /\ pc \in {"size", "read"} => Row[at] = "blob"

RowsBackwards == \A i \in 1..Len(acc) : acc[i] = server[Len(acc) + 1 - i]
CellsBackwards == \A i \in 1..Len(cells) : cells[i] = Row[Len(cells) + 1 - i]
Whole ==
    /\ RowsBackwards
    /\ pc \in Columns => CellsBackwards
    /\ pc \in {"release", "answer"} /\ outcome.right => outcome.rows = server

RowInv == RowTypes /\ Reached /\ (unseen = 0 => Whole) /\ RightIsWhole

\* Sequences: an element in front, and reversing.
LEMMA InFront ==
    ASSUME NEW S, NEW s \in Seq(S), NEW e \in S
    PROVE  /\ <<e>> \o s \in Seq(S) /\ Len(<<e>> \o s) = Len(s) + 1
           /\ (<<e>> \o s)[1] = e
           /\ \A i \in 1..Len(s) : (<<e>> \o s)[i + 1] = s[i]
OBVIOUS

LEMMA Backwards ==
    ASSUME NEW S, NEW s \in Seq(S)
    PROVE  /\ Reverse(s) \in Seq(S) /\ Len(Reverse(s)) = Len(s)
           /\ \A t \in Seq(S) : Len(t) = Len(s) /\ (\A i \in 1..Len(s) : s[i] = t[Len(s) + 1 - i])
                                => Reverse(s) = t
<1>1. \A i \in 1..Len(s) : (Len(s) - i) + 1 \in 1..Len(s)
  OBVIOUS
<1>2. Reverse(s) \in [1..Len(s) -> S] /\ \A i \in 1..Len(s) : Reverse(s)[i] = s[(Len(s) - i) + 1]
  BY <1>1 DEF Reverse
<1>3. Reverse(s) \in Seq(S) /\ Len(Reverse(s)) = Len(s)
  BY <1>2
<1>4. ASSUME NEW t \in Seq(S), Len(t) = Len(s), \A i \in 1..Len(s) : s[i] = t[Len(s) + 1 - i]
      PROVE  Reverse(s) = t
  <2>1. \A i \in 1..Len(s) : t[i] = s[(Len(s) - i) + 1]
    <3> TAKE i \in 1..Len(s)
    <3>1. s[(Len(s) - i) + 1] = t[Len(s) + 1 - ((Len(s) - i) + 1)]
      BY <1>1, <1>4
    <3>2. Len(s) + 1 - ((Len(s) - i) + 1) = i
      OBVIOUS
    <3>3. QED
      BY <3>1, <3>2
  <2>2. t \in [1..Len(s) -> S]
    BY <1>4
  <2>3. QED
    BY <1>2, <2>1, <2>2
<1>5. QED
  BY <1>3, <1>4

LEMMA RowInit == Init => RowInv
BY DEF Init, RowInv, RowTypes, Reached, Whole, RowsBackwards, RightIsWhole, Returned, Columns, NoAnswer, Left

LEMMA ResultRows ==
    ASSUME NEW r \in Results
    PROVE  r \in Seq(Seq(Cells)) /\ \A i \in DOMAIN r : r[i] /= <<>>
<1>1. PICK n \in 1..MaxCols : r \in BoundedSeq([1..n -> Cells], MaxRows)
  BY DEF Results
<1>2. PICK m \in 0..MaxRows : r \in [1..m -> [1..n -> Cells]]
  BY <1>1 DEF BoundedSeq, SeqOf
<1>3. MaxCols \in Nat /\ MaxRows \in Nat
  BY BoundAssumption
<1>4. \A i \in 1..m : r[i] \in Seq(Cells) /\ Len(r[i]) = n
  BY <1>2, <1>3
<1>5. m \in Nat
  BY <1>3
<1>6. r \in [1..m -> Seq(Cells)]
  BY <1>2, <1>4
<1>7. r \in Seq(Seq(Cells)) /\ DOMAIN r = 1..m
  BY <1>5, <1>6
<1>8. \A i \in DOMAIN r : Len(r[i]) > 0
  BY <1>4, <1>7
<1>9. QED
  BY <1>7, <1>8

LEMMA StartRows == RowInv /\ Start => RowInv'
<1> SUFFICES ASSUME RowInv, Start PROVE RowInv'
  OBVIOUS
<1>1. /\ pc' = "prepare" /\ op' \in Ops /\ acc = <<>>
      /\ server' \in IF op' = "execute_" THEN {<<>>} ELSE Results
      /\ UNCHANGED <<acc, cells, unseen>>
  BY DEF Start, errors, RowInv, Reached
<1>2. op' = "execute_" => server' = <<>>
  BY <1>1
<1>3. server' \in Seq(Seq(Cells)) /\ \A i \in DOMAIN server' : server'[i] /= <<>>
  <2>1. CASE server' = <<>>
    BY <2>1
  <2>2. CASE server' \in Results
    BY <2>2, ResultRows
  <2>3. QED
    BY <1>1, <2>1, <2>2
<1>4. Len(acc') = 0
  BY <1>1
<1>5. op' /= "none"
  BY <1>1, OpsAssumption
<1>6. RowTypes'
  BY <1>1, <1>3, <1>4 DEF RowInv, RowTypes
<1>7. Reached' /\ RightIsWhole'
  BY <1>1, <1>2, <1>5 DEF Reached, RightIsWhole, Returned, Columns
<1>8. Whole'
  BY <1>1, <1>4 DEF Whole, RowsBackwards, Columns
<1>9. QED
  BY <1>6, <1>7, <1>8 DEF RowInv

\* Steps before the first row.
LEMMA EarlyRows ==
    ASSUME RowInv, Prepare \/ Bind \/ Execute
    PROVE  RowInv'
<1>1. UNCHANGED <<op, server, acc, cells>> /\ acc = <<>> /\ op /= "none"
  BY DEF RowInv, Reached, Prepare, Bind, Execute, control
<1>2. unseen' = unseen
  BY DEF Prepare, Bind, Execute, Succeeds, Fails, errors, Unchecked
<1>3. pc' \notin Columns \union {"count", "idle"}
  BY DEF Prepare, Bind, Execute, Leave, Columns
<1>4. pc' \in {"release", "answer"} /\ outcome'.right => outcome'.rows = server
  <2>1. CASE Prepare
    BY <2>1 DEF Prepare, Left
  <2>2. CASE Bind
    BY <2>2 DEF Bind, Left, Leave
  <2>3. CASE Execute
    BY <2>3 DEF Execute, Left, Right, Leave, RowInv, Reached
  <2>4. QED
    BY <2>1, <2>2, <2>3
<1>5. QED
  BY <1>1, <1>2, <1>3, <1>4
     DEF RowInv, RowTypes, Reached, Whole, RowsBackwards, RightIsWhole, Returned, Columns

LEMMA FetchRows == RowInv /\ Fetch => RowInv'
<1> SUFFICES ASSUME RowInv, Fetch PROVE RowInv'
  OBVIOUS
<1>1. UNCHANGED <<op, server, acc, cells, at>> /\ op /= "none"
  BY DEF Fetch, control, RowInv, Reached
<1>2. unseen' = unseen
  BY DEF Fetch, Succeeds, Fails, errors, Unchecked
<1>3. /\ pc' \in {"count", "release"}
      /\ pc' = "count" => Len(acc) < Len(server)
  BY DEF Fetch, Leave
<1>4. ASSUME unseen = 0, pc' = "release", outcome'.right PROVE outcome'.rows = server
  <2>1. outcome' = Right(Reverse(acc)) /\ Len(acc) = Len(server)
    BY <1>4 DEF Fetch, Leave, Left
  <2>2. acc \in Seq(Seq(Cell)) /\ server \in Seq(Seq(Cell))
    BY DEF RowInv, RowTypes, Cell
  <2>3. \A i \in 1..Len(acc) : acc[i] = server[Len(acc) + 1 - i]
    BY <1>4 DEF RowInv, Whole, RowsBackwards
  <2>4. Reverse(acc) = server
    BY <2>1, <2>2, <2>3, Backwards
  <2>5. QED
    BY <2>1, <2>4 DEF Right
<1>5. QED
  BY <1>1, <1>2, <1>3, <1>4
     DEF RowInv, RowTypes, Reached, Whole, RowsBackwards, RightIsWhole, Returned, Columns

LEMMA ColumnCountRows == RowInv /\ ColumnCount => RowInv'
<1> SUFFICES ASSUME RowInv, ColumnCount PROVE RowInv'
  OBVIOUS
<1>1. /\ UNCHANGED <<op, server>> /\ pc = "count" /\ Len(acc) < Len(server)
  BY DEF ColumnCount, control, RowInv, Reached
<1>2. CASE Succeeds /\ cells' = <<>> /\ at' = 1 /\ pc' = "info" /\ UNCHANGED acc
  <2>1. Row \in Seq(Cells) /\ Row /= <<>>
    BY <1>1 DEF Row, RowInv, RowTypes
  <2>2. Row' = Row
    BY <1>1, <1>2 DEF Row
  <2>3. Len(cells') = 0 /\ 1 <= Len(Row)
    BY <1>2, <2>1
  <2>4. Reached'
    BY <1>1, <1>2, <2>2, <2>3 DEF RowInv, Reached, Columns
  <2>5. RowTypes' /\ (unseen = 0 => Whole)' /\ RightIsWhole'
    BY <1>1, <1>2, <2>3
       DEF RowInv, RowTypes, Whole, RowsBackwards, CellsBackwards, RightIsWhole, Returned, Succeeds, errors, Columns
  <2>6. QED
    BY <2>4, <2>5 DEF RowInv
<1>3. CASE Fails("count") /\ acc' = <<<<>>>> \o acc /\ pc' = "fetch" /\ UNCHANGED <<at, cells>>
  <2>1. unseen' = unseen + 1
    BY <1>3 DEF Fails, Unchecked
  <2>2. acc \in Seq(Seq(Cell)) /\ <<>> \in Seq(Cell)
    BY DEF RowInv, RowTypes
  <2>3. acc' \in Seq(Seq(Cell)) /\ Len(acc') = Len(acc) + 1
    BY <1>3, <2>2, InFront
  <2>4. QED
    BY <1>1, <1>3, <2>1, <2>3
       DEF RowInv, RowTypes, Reached, Whole, RightIsWhole, Returned, Columns
<1>4. QED
  BY <1>2, <1>3 DEF ColumnCount

\* The cell of a column goes in front of the others, and with the last one the
\* row in front of the rows.
LEMMA DecodedRows ==
    ASSUME RowInv, pc \in Columns, NEW cell \in Cell, Decoded(cell), UNCHANGED control,
           unseen' \in Nat, unseen' = 0 => unseen = 0 /\ cell = Row[at]
    PROVE  RowInv'
<1> DEFINE more == <<cell>> \o cells
<1>1. /\ acc \in Seq(Seq(Cell)) /\ cells \in Seq(Cell) /\ server \in Seq(Seq(Cells))
      /\ Len(acc) < Len(server) /\ at = Len(cells) + 1 /\ at <= Len(Row) /\ op /= "none"
  BY DEF RowInv, RowTypes, Reached, Columns
<1>2. UNCHANGED <<op, server>>
  BY DEF control
<1>3. Row \in Seq(Cells) /\ Row \in Seq(Cell) /\ Row = server[Len(acc) + 1]
  BY <1>1 DEF Row, Cell
<1>4. /\ more \in Seq(Cell) /\ Len(more) = Len(cells) + 1
      /\ more[1] = cell /\ \A i \in 1..Len(cells) : more[i + 1] = cells[i]
  BY <1>1, InFront
<1>5. unseen' = 0 => \A i \in 1..Len(more) : more[i] = Row[Len(more) + 1 - i]
  <2> SUFFICES ASSUME unseen' = 0, NEW i \in 1..Len(more) PROVE more[i] = Row[Len(more) + 1 - i]
    OBVIOUS
  <2>1. cell = Row[at] /\ \A j \in 1..Len(cells) : cells[j] = Row[Len(cells) + 1 - j]
    BY DEF RowInv, Whole, CellsBackwards
  <2>2. CASE i = 1
    BY <1>1, <1>4, <2>1, <2>2
  <2>3. CASE i /= 1
    <3>1. i - 1 \in 1..Len(cells) /\ i = (i - 1) + 1
      BY <1>1, <1>4, <2>3
    <3>2. more[i] = cells[i - 1]
      BY <1>4, <3>1
    <3>3. Len(cells) + 1 - (i - 1) = Len(more) + 1 - i
      BY <1>1, <1>4, <3>1
    <3>4. QED
      BY <2>1, <3>1, <3>2, <3>3
  <2>4. QED
    BY <2>2, <2>3
<1>6. CASE at < Len(Row)
  <2>1. cells' = more /\ at' = at + 1 /\ pc' = "info" /\ UNCHANGED acc
    BY <1>6 DEF Decoded
  <2>2. Row' = Row
    BY <1>2, <2>1 DEF Row
  <2>3. RowTypes' /\ Reached' /\ RightIsWhole'
    BY <1>1, <1>2, <1>3, <1>4, <1>6, <2>1, <2>2
       DEF RowInv, RowTypes, Reached, Columns, RightIsWhole, Returned
  <2>4. unseen' = 0 => Whole'
    BY <1>2, <1>5, <2>1, <2>2 DEF RowInv, Whole, RowsBackwards, CellsBackwards
  <2>5. QED
    BY <2>3, <2>4 DEF RowInv
<1>7. CASE ~(at < Len(Row))
  <2>1. acc' = <<Reverse(more)>> \o acc /\ cells' = <<>> /\ pc' = "fetch"
    BY <1>7 DEF Decoded
  <2>2. Len(Row) = Len(more)
    BY <1>1, <1>3, <1>4, <1>7
  <2>3. Reverse(more) \in Seq(Cell)
    BY <1>4, Backwards
  <2>4. unseen' = 0 => Reverse(more) = Row
    BY <1>3, <1>4, <1>5, <2>2, Backwards
  <2>5. /\ acc' \in Seq(Seq(Cell)) /\ Len(acc') = Len(acc) + 1
        /\ acc'[1] = Reverse(more) /\ \A i \in 1..Len(acc) : acc'[i + 1] = acc[i]
    BY <1>1, <2>1, <2>3, InFront
  <2>6. RowTypes' /\ Reached' /\ RightIsWhole'
    BY <1>1, <1>2, <2>1, <2>5
       DEF RowInv, RowTypes, Reached, Columns, RightIsWhole, Returned
  <2>7. ASSUME unseen' = 0, NEW i \in 1..Len(acc') PROVE acc'[i] = server'[Len(acc') + 1 - i]
    <3>1. \A j \in 1..Len(acc) : acc[j] = server[Len(acc) + 1 - j]
      BY <2>7 DEF RowInv, Whole, RowsBackwards
    <3>2. CASE i = 1
      BY <1>1, <1>2, <1>3, <2>4, <2>5, <2>7, <3>2
    <3>3. CASE i /= 1
      <4>0. Len(acc) \in Nat /\ i \in 1..(Len(acc) + 1)
        BY <1>1, <2>5
      <4>1. i - 1 \in 1..Len(acc) /\ i = (i - 1) + 1
        BY <3>3, <4>0
      <4>2. acc'[i] = acc[i - 1]
        BY <2>5, <4>1
      <4>3. Len(acc) + 1 - (i - 1) = Len(acc') + 1 - i
        BY <1>1, <2>5, <4>1
      <4>4. QED
        BY <1>2, <3>1, <4>1, <4>2, <4>3
    <3>4. QED
      BY <3>2, <3>3
  <2>8. unseen' = 0 => Whole'
    BY <2>1, <2>7 DEF Whole, RowsBackwards, Columns
  <2>9. QED
    BY <2>6, <2>8 DEF RowInv
<1>8. QED
  BY <1>6, <1>7

\* A column fails, or the next call for the column follows.
LEMMA SameCell ==
    ASSUME RowInv, pc \in Columns, UNCHANGED <<control, acc, cells, at, unseen>>,
           \/ pc' = "release" /\ (outcome'.right => FALSE)
           \/ pc' = "value"
           \/ pc' = "clob" /\ Row[at] = "clob"
           \/ pc' \in {"size", "read"} /\ Row[at] = "blob"
    PROVE  RowInv'
<1>1. /\ UNCHANGED <<op, server>> /\ Len(acc) < Len(server) /\ at = Len(cells) + 1 /\ at <= Len(Row)
      /\ op /= "none"
  BY DEF control, RowInv, Reached, Columns
<1>2. Row' = Row
  BY <1>1 DEF Row
<1>3. RowTypes' /\ RightIsWhole'
  BY <1>1 DEF RowInv, RowTypes, RightIsWhole, Returned
<1>4. Reached'
  BY <1>1, <1>2 DEF Reached, Columns, RowInv
<1>5. unseen' = 0 => Whole'
  BY <1>1, <1>2 DEF RowInv, Whole, RowsBackwards, CellsBackwards
<1>6. QED
  BY <1>3, <1>4, <1>5 DEF RowInv

LEMMA ColumnRows ==
    ASSUME RowInv, ColumnInfo \/ ColumnValue \/ ClobRead \/ BlobSize \/ BlobRead
    PROVE  RowInv'
<1>1. pc \in Columns /\ UNCHANGED control /\ unseen \in Nat
  BY DEF ColumnInfo, ColumnValue, ClobRead, BlobSize, BlobRead, Columns, RowInv, RowTypes
<1>2. \A e : Left(e).right = FALSE
  BY DEF Left
<1>3. Row[at] \in Cells
  BY <1>1 DEF Row, RowInv, RowTypes, Reached
<1>4. CASE ColumnInfo
  BY <1>1, <1>2, <1>4, SameCell
     DEF ColumnInfo, Succeeds, Fails, ColumnFails, Leave, errors, Unchecked
<1>5. CASE ColumnValue
  <2>1. unseen' = unseen
    BY <1>5 DEF ColumnValue, Succeeds, Fails, errors, Unchecked
  <2>2. CASE Row[at] \in {"null", "text"} /\ Decoded(Row[at])
    BY <1>1, <1>3, <2>1, <2>2, DecodedRows DEF Cell
  <2>3. CASE ~(Row[at] \in {"null", "text"} /\ Decoded(Row[at]))
    BY <1>1, <1>2, <1>5, <2>1, <2>3, SameCell DEF ColumnValue, ColumnFails, Leave
  <2>4. QED
    BY <2>2, <2>3
<1>6. CASE ClobRead
  <2>1. CASE Succeeds /\ Decoded("clob")
    <3>1. Row[at] = "clob" /\ unseen' = unseen
      BY <1>6, <2>1 DEF ClobRead, RowInv, Reached, Succeeds, errors
    <3>2. QED
      BY <1>1, <1>3, <2>1, <3>1, DecodedRows DEF Cell
  <2>2. CASE Fails("clob") /\ Decoded("nothing")
    <3>1. unseen' = unseen + 1
      BY <2>2 DEF Fails, Unchecked
    <3>2. QED
      BY <1>1, <2>2, <3>1, DecodedRows DEF Cell
  <2>3. QED
    BY <1>6, <2>1, <2>2 DEF ClobRead
<1>7. CASE BlobSize
  <2>1. Row[at] = "blob"
    BY <1>7 DEF BlobSize, RowInv, Reached
  <2>2. QED
    BY <1>1, <1>2, <1>7, <2>1, SameCell
       DEF BlobSize, Succeeds, Fails, ColumnFails, Leave, errors, Unchecked
<1>8. CASE BlobRead
  <2>1. CASE Succeeds /\ Decoded("blob")
    <3>1. Row[at] = "blob" /\ unseen' = unseen
      BY <1>8, <2>1 DEF BlobRead, RowInv, Reached, Succeeds, errors
    <3>2. QED
      BY <1>1, <1>3, <2>1, <3>1, DecodedRows DEF Cell
  <2>2. CASE Fails("read") /\ Decoded("nothing")
    <3>1. unseen' = unseen + 1
      BY <2>2 DEF Fails, Unchecked
    <3>2. QED
      BY <1>1, <2>2, <3>1, DecodedRows DEF Cell
  <2>3. QED
    BY <1>8, <2>1, <2>2 DEF BlobRead
<1>9. QED
  BY <1>4, <1>5, <1>6, <1>7, <1>8

LEMMA ReleaseRows == RowInv /\ Release => RowInv'
BY DEF RowInv, RowTypes, Reached, Whole, RowsBackwards, RightIsWhole, Returned, Columns,
       Release, control, errors

\* What the operations make of the rows of the server.
Keeps(a) ==
    /\ a.rows = Promised
    /\ \A i \in DOMAIN a.rows : Wanted(a.rows[i])
    /\ op \in {"queryExactlyOne", "queryJSON"} => Len(server) = 1

LEMMA AnswerKeeps ==
    ASSUME RowInv, pc = "answer", unseen = 0, Answer, answer'.right
    PROVE  Keeps(answer')
<1>1. op \in Ops /\ server \in Seq(Seq(Cells))
  BY DEF RowInv, RowTypes, Reached
<1>2. outcome.right => outcome.rows = server
  BY DEF RowInv, Whole
<1>3. \A e : Left(e).right = FALSE
  BY DEF Left
<1>4. decodeRows(outcome).right =>
        /\ outcome.right /\ decodeRows(outcome) = outcome
        /\ \A i \in DOMAIN server : FromRow(server[i])
  BY <1>2, <1>3 DEF decodeRows
<1>5. \A i \in DOMAIN server : IsDocument(server[i]) => server[i] = <<"clob">>
  <2> SUFFICES ASSUME NEW i \in DOMAIN server, IsDocument(server[i]) PROVE server[i] = <<"clob">>
    OBVIOUS
  <2>1. server[i] \in Seq(Cells) /\ Len(server[i]) = 1 /\ server[i][1] \in {"clob", "nothing"}
    BY <1>1 DEF IsDocument
  <2>2. server[i][1] \in Cells
    BY <2>1
  <2>3. server[i][1] = "clob"
    BY <2>1, <2>2, CellAssumption
  <2>4. QED
    BY <2>1, <2>3
<1>6. CASE op = "query_"
  <2>1. answer' = decodeRows(outcome)
    BY <1>6 DEF Answer
  <2>2. QED
    BY <1>2, <1>4, <1>6, <2>1 DEF Keeps, Promised, Wanted
<1>7. CASE op = "queryOne"
  <2>1. answer' = queryOne(outcome)
    BY <1>7 DEF Answer
  <2>2. CASE decodeRows(outcome).right /\ decodeRows(outcome).rows /= <<>>
    <3>1. server /= <<>> /\ answer' = Right(<<Head(server)>>) /\ \A i \in DOMAIN server : FromRow(server[i])
      BY <1>2, <1>4, <2>1, <2>2 DEF queryOne
    <3>2. 1 \in DOMAIN server /\ Head(server) = server[1]
      BY <1>1, <3>1
    <3>3. answer'.rows = <<Head(server)>> /\ Promised = <<Head(server)>>
      BY <1>7, <3>1 DEF Right, Promised
    <3>4. QED
      BY <1>7, <3>1, <3>2, <3>3 DEF Keeps, Wanted
  <2>3. CASE decodeRows(outcome).right /\ decodeRows(outcome).rows = <<>>
    <3>1. server = <<>> /\ answer' = outcome
      BY <1>2, <1>4, <2>1, <2>3 DEF queryOne
    <3>2. QED
      BY <1>2, <1>4, <1>7, <2>3, <3>1 DEF Keeps, Promised, Wanted
  <2>4. CASE ~decodeRows(outcome).right
    BY <2>1, <2>4 DEF queryOne
  <2>5. QED
    BY <2>2, <2>3, <2>4
<1>8. CASE op = "queryExactlyOne"
  <2>1. answer' = queryExactlyOne(outcome)
    BY <1>8 DEF Answer
  <2>2. decodeRows(outcome).right /\ answer' = outcome /\ Len(server) = 1
    BY <1>2, <1>3, <1>4, <2>1 DEF queryExactlyOne
  <2>3. QED
    BY <1>2, <1>4, <1>8, <2>2 DEF Keeps, Promised, Wanted
<1>9. CASE op = "queryJSON"
  <2>1. answer' = queryJSON(outcome)
    BY <1>9 DEF Answer
  <2>2. outcome.right /\ answer' = outcome /\ Len(server) = 1 /\ IsDocument(server[1])
    BY <1>2, <1>3, <2>1 DEF queryJSON
  <2>3. \A i \in DOMAIN server : server[i] = <<"clob">>
    BY <1>1, <1>5, <2>2
  <2>4. QED
    BY <1>2, <1>9, <2>2, <2>3 DEF Keeps, Promised, Wanted
<1>10. CASE op = "queryJSONList"
  <2>1. answer' = queryJSONList(outcome)
    BY <1>10 DEF Answer
  <2>2. outcome.right /\ answer' = outcome /\ \A i \in DOMAIN server : IsDocument(server[i])
    BY <1>2, <1>3, <2>1 DEF queryJSONList
  <2>3. QED
    BY <1>2, <1>5, <1>10, <2>2 DEF Keeps, Promised, Wanted
<1>11. CASE op \in {"queryRaw", "execute_"}
  <2>1. answer' = outcome
    BY <1>11 DEF Answer
  <2>2. QED
    BY <1>2, <1>11, <2>1 DEF Keeps, Promised, Wanted
<1>12. QED
  BY <1>1, <1>6, <1>7, <1>8, <1>9, <1>10, <1>11, OpsAssumption

LEMMA AnswerRows == RowInv /\ Answer => RowInv'
<1> SUFFICES ASSUME RowInv, Answer PROVE RowInv'
  OBVIOUS
<1>1. /\ pc = "answer" /\ pc' = "idle"
      /\ UNCHANGED <<op, server, at, acc, cells, unseen>>
  BY DEF Answer, errors
<1>2. RowTypes' /\ Reached'
  BY <1>1 DEF RowInv, RowTypes, Reached, Columns
<1>3. unseen' = 0 => Whole'
  BY <1>1 DEF RowInv, Whole, RowsBackwards, Columns
<1>4. RightIsWhole'
  <2>1. answer'.right /\ unseen = 0 => Keeps(answer')
    BY <1>1, AnswerKeeps
  <2>2. answer'.right /\ unseen = 0 =>
          /\ answer'.rows = Promised
          /\ \A i \in DOMAIN answer'.rows : Wanted(answer'.rows[i])
          /\ op \in {"queryExactlyOne", "queryJSON"} => Len(server) = 1
    BY <2>1 DEF Keeps
  <2>3. QED
    BY <1>1, <2>2 DEF RightIsWhole, Promised, Wanted
<1>5. QED
  BY <1>2, <1>3, <1>4 DEF RowInv

LEMMA RowStep == RowInv /\ [Next]_vars => RowInv'
<1>1. RowInv /\ UNCHANGED vars => RowInv'
  BY DEF vars, control, errors, RowInv, RowTypes, Reached, Whole, RowsBackwards, CellsBackwards, Row,
         RightIsWhole, Returned, Promised, Wanted
<1>2. QED
  BY <1>1, StartRows, EarlyRows, FetchRows, ColumnCountRows, ColumnRows, ReleaseRows, AnswerRows DEF Next

\* For every size of a result: an operation that says Right, of which no
\* failure went unseen, returns the rows of the server in their order.
THEOREM RightMeansWhole == Spec => []RightIsWhole
<1>1. RowInv => RightIsWhole
  BY DEF RowInv
<1>2. QED
  BY <1>1, RowInit, RowStep, PTL DEF Spec

-----------------------------------------------------------------------------
\* Types, and the bracket of withStatement.

\* The sizes of what is fetched, what is in g_last_error, and the statement,
\* which is held between its prepare and its release.
FrameInv ==
    /\ Len(server) <= MaxRows /\ \A i \in DOMAIN server : Len(server[i]) <= MaxCols
    /\ at \in 0..(Params + MaxCols + 1) /\ (pc = "bind" => at <= Params)
    /\ lastError \in {Earlier, 0, failures}
    /\ held \in BOOLEAN /\ (held <=> pc \notin {"idle", "prepare", "answer"})

LEMMA Naturals == Params \in Nat /\ MaxCols \in Nat /\ MaxRows \in Nat
BY BoundAssumption

LEMMA FrameInit == Init => FrameInv
<1> SUFFICES ASSUME Init PROVE FrameInv
  OBVIOUS
<1>1. server = <<>> /\ at = 0 /\ pc = "idle" /\ held = FALSE /\ lastError \in {0, Earlier}
  BY DEF Init
<1>2. at \in 0..(Params + MaxCols + 1)
  BY <1>1, Naturals
<1>3. Len(server) <= MaxRows /\ \A i \in DOMAIN server : Len(server[i]) <= MaxCols
  BY <1>1, Naturals
<1>4. QED
  BY <1>1, <1>2, <1>3 DEF FrameInv

LEMMA ResultSizes ==
    ASSUME NEW r \in Results
    PROVE  Len(r) <= MaxRows /\ \A i \in DOMAIN r : Len(r[i]) <= MaxCols
<1>1. PICK n \in 1..MaxCols : r \in BoundedSeq([1..n -> Cells], MaxRows)
  BY DEF Results
<1>2. PICK m \in 0..MaxRows : r \in [1..m -> [1..n -> Cells]]
  BY <1>1 DEF BoundedSeq, SeqOf
<1>3. m \in Nat /\ n \in Nat /\ m <= MaxRows /\ n <= MaxCols
  BY Naturals
<1>4. DOMAIN r = 1..m /\ \A i \in 1..m : r[i] \in Seq(Cells) /\ Len(r[i]) = n
  BY <1>2, <1>3
<1>5. r \in [1..m -> Seq(Cells)]
  BY <1>2, <1>4
<1>6. Len(r) = m
  BY <1>3, <1>5
<1>7. QED
  BY <1>3, <1>4, <1>6

\* No call changes what g_last_error may hold.
LEMMA LastErrorTyped ==
    ASSUME FrameInv, Succeeds \/ \E c \in Calling : Fails(c)
    PROVE  lastError' \in {Earlier, 0, failures'}
BY DEF FrameInv, Succeeds, Fails, errors

\* The calls from prepare to the first fetch.
LEMMA EarlyFrame ==
    ASSUME ErrInv, FrameInv, Prepare \/ Bind \/ Execute \/ Fetch
    PROVE  FrameInv'
<1>1. server' = server
  BY DEF Prepare, Bind, Execute, Fetch, control
<1>2. lastError' \in {Earlier, 0, failures'}
  BY LastErrorTyped DEF Prepare, Bind, Execute, Fetch, Calling
<1>3. at' \in 0..(Params + MaxCols + 1) /\ (pc' = "bind" => at' <= Params)
  <2>1. CASE Prepare
    BY <2>1, Naturals DEF Prepare, FrameInv
  <2>2. CASE Bind
    BY <2>2, Naturals DEF Bind, FrameInv, Leave
  <2>3. CASE Execute
    BY <2>3 DEF Execute, FrameInv, Leave
  <2>4. CASE Fetch
    BY <2>4 DEF Fetch, FrameInv, Leave
  <2>5. QED
    BY <2>1, <2>2, <2>3, <2>4
<1>4. held' \in BOOLEAN /\ (held' <=> pc' \notin {"idle", "prepare", "answer"})
  <2>1. CASE Prepare
    <3>1. pc = "prepare" /\ held = FALSE
      BY <2>1 DEF Prepare, FrameInv
    <3>2. \/ held' = TRUE /\ pc' \in {"execute", "bind"}
          \/ held' = held /\ pc' = "answer"
      BY <2>1 DEF Prepare
    <3>3. QED
      BY <3>1, <3>2
  <2>2. CASE Bind
    BY <2>2 DEF Bind, FrameInv, Leave
  <2>3. CASE Execute
    BY <2>3 DEF Execute, FrameInv, Leave
  <2>4. CASE Fetch
    BY <2>4 DEF Fetch, FrameInv, Leave
  <2>5. QED
    BY <2>1, <2>2, <2>3, <2>4
<1>5. QED
  BY <1>1, <1>2, <1>3, <1>4 DEF FrameInv

\* The cell of a column is decoded, and at is the next column at most.
LEMMA DecodedFrame ==
    ASSUME RowInv, FrameInv, pc \in Columns, NEW cell, Decoded(cell)
    PROVE  /\ at' \in 0..(Params + MaxCols + 1)
           /\ pc' \in {"info", "fetch"}
<1>1. /\ Len(acc) + 1 \in DOMAIN server /\ Row \in Seq(Cells) /\ at \in Nat /\ at <= Len(Row)
  BY Naturals DEF RowInv, RowTypes, Reached, Columns, Row, FrameInv
<1>2. Len(Row) <= MaxCols /\ Len(Row) \in Nat
  BY <1>1 DEF Row, FrameInv
<1>3. QED
  BY <1>1, <1>2, Naturals DEF Decoded, FrameInv

LEMMA ColumnFrame ==
    ASSUME RowInv, FrameInv,
           ColumnCount \/ ColumnInfo \/ ColumnValue \/ ClobRead \/ BlobSize \/ BlobRead
    PROVE  FrameInv'
<1>1. server' = server /\ held' = held /\ pc \in Columns \union {"count"}
  BY DEF ColumnCount, ColumnInfo, ColumnValue, ClobRead, BlobSize, BlobRead, control, Columns
<1>2. lastError' \in {Earlier, 0, failures'}
  BY LastErrorTyped DEF ColumnCount, ColumnInfo, ColumnValue, ClobRead, BlobSize, BlobRead, Calling
<1>3. \/ at' = at /\ pc' \in {"value", "clob", "size", "read", "release", "fetch"}
      \/ at' = 1 /\ pc' = "info"
      \/ pc \in Columns /\ \E cell : Decoded(cell)
  <2>1. CASE ColumnCount
    BY <2>1 DEF ColumnCount
  <2>2. CASE ColumnInfo
    BY <2>2 DEF ColumnInfo, ColumnFails, Leave
  <2>3. CASE ColumnValue
    BY <2>3 DEF ColumnValue, ColumnFails, Leave, Columns
  <2>4. CASE ClobRead
    BY <2>4 DEF ClobRead, Columns
  <2>5. CASE BlobSize
    BY <2>5 DEF BlobSize, ColumnFails, Leave
  <2>6. CASE BlobRead
    BY <2>6 DEF BlobRead, Columns
  <2>7. QED
    BY <2>1, <2>2, <2>3, <2>4, <2>5, <2>6
<1>4. at' \in 0..(Params + MaxCols + 1) /\ pc' \in Columns \union {"release", "fetch"}
  <2>1. CASE pc \in Columns /\ \E cell : Decoded(cell)
    BY <2>1, DecodedFrame DEF Columns
  <2>2. CASE ~(pc \in Columns /\ \E cell : Decoded(cell))
    BY <1>3, <2>2, Naturals DEF FrameInv, Columns
  <2>3. QED
    BY <2>1, <2>2
<1>5. held /\ held' \in BOOLEAN /\ pc' \notin {"idle", "prepare", "answer", "bind"}
  BY <1>1, <1>4 DEF FrameInv, Columns
<1>6. QED
  BY <1>1, <1>2, <1>4, <1>5 DEF FrameInv

LEMMA FrameStep == ErrInv /\ RowInv /\ FrameInv /\ [Next]_vars => FrameInv'
<1> SUFFICES ASSUME ErrInv, RowInv, FrameInv, [Next]_vars PROVE FrameInv'
  OBVIOUS
<1>1. CASE Start
  <2>1. /\ pc = "idle" /\ pc' = "prepare" /\ UNCHANGED <<at, held, lastError, failures>>
        /\ server' \in (IF op' = "execute_" THEN {<<>>} ELSE Results)
    BY <1>1 DEF Start, errors
  <2>2. Len(server') <= MaxRows /\ \A i \in DOMAIN server' : Len(server'[i]) <= MaxCols
    <3>1. CASE server' = <<>>
      BY <3>1, Naturals
    <3>2. CASE server' \in Results
      BY <3>2, ResultSizes
    <3>3. QED
      BY <2>1, <3>1, <3>2
  <2>3. QED
    BY <2>1, <2>2 DEF FrameInv
<1>2. CASE Release \/ Answer
  <2>1. /\ UNCHANGED <<server, at, lastError, failures>> /\ pc' \in {"answer", "idle"}
        /\ (held' = FALSE \/ (held' = held /\ pc = "answer"))
    BY <1>2 DEF Release, Answer, control, errors
  <2>2. held' = FALSE
    BY <2>1 DEF FrameInv
  <2>3. QED
    BY <2>1, <2>2 DEF FrameInv
<1>3. CASE UNCHANGED vars
  BY <1>3 DEF vars, control, errors, FrameInv
<1>4. QED
  BY <1>1, <1>2, <1>3, EarlyFrame, ColumnFrame DEF Next

LEMMA PipelineInvariant == Spec => [](ErrInv /\ RowInv /\ FrameInv)
BY ErrInit, ErrStep, RowInit, RowStep, FrameInit, FrameStep, PTL DEF Spec

\* withStatement's bracket, for any number of parameters and any size of a
\* result: a statement is held from a successful prepare until its release, on
\* every path, and no operation returns while it holds one.
THEOREM StatementIsReleased == Spec => []TypeOK
<1>1. ErrInv /\ RowInv /\ FrameInv => TypeOK
  BY DEF ErrInv, RowInv, RowTypes, FrameInv, TypeOK
<1>2. QED
  BY <1>1, PipelineInvariant, PTL

-----------------------------------------------------------------------------
\* RAW and BLOB columns: the bytes come back from their digits.

Byte == 0..255
DigitCode == 48..57 \union 65..70

LEMMA ElementsOfSeq ==
    ASSUME NEW S, NEW s \in Seq(S)
    PROVE  /\ Len(s) \in Nat /\ DOMAIN s = 1..Len(s) /\ \A i \in 1..Len(s) : s[i] \in S
           /\ s \in [1..Len(s) -> S]
OBVIOUS

LEMMA FunctionIsSeq ==
    ASSUME NEW S, NEW n \in Nat, NEW f \in [1..n -> S]
    PROVE  f \in Seq(S) /\ Len(f) = n
OBVIOUS

LEMMA DigitsAreValues ==
    ASSUME NEW n \in 0..15
    PROVE  /\ hexDigit(n) \in DigitCode
           /\ hexValue(hexDigit(n)) = n
           /\ digits[n + 1] = hexDigit(n)
<1>1. hexDigit(n) \in DigitCode
  BY DEF hexDigit, DigitCode
<1>2. hexValue(hexDigit(n)) = n
  BY DEF hexDigit, hexValue
<1>3. digits[n + 1] = hexDigit(n)
  <2>1. /\ digits[1] = 48 /\ digits[2] = 49 /\ digits[3] = 50 /\ digits[4] = 51
        /\ digits[5] = 52 /\ digits[6] = 53 /\ digits[7] = 54 /\ digits[8] = 55
        /\ digits[9] = 56 /\ digits[10] = 57 /\ digits[11] = 65 /\ digits[12] = 66
        /\ digits[13] = 67 /\ digits[14] = 68 /\ digits[15] = 69 /\ digits[16] = 70
    BY DEF digits
  <2>2. \/ n = 0 \/ n = 1 \/ n = 2 \/ n = 3 \/ n = 4 \/ n = 5 \/ n = 6 \/ n = 7
        \/ n = 8 \/ n = 9 \/ n = 10 \/ n = 11 \/ n = 12 \/ n = 13 \/ n = 14 \/ n = 15
    OBVIOUS
  <2>3. QED
    BY <2>1, <2>2 DEF hexDigit
<1>4. QED
  BY <1>1, <1>2, <1>3

LEMMA HalvesOfAByte ==
    ASSUME NEW b \in Byte
    PROVE  b \div 16 \in 0..15 /\ b % 16 \in 0..15 /\ 16 * (b \div 16) + (b % 16) = b
BY DEF Byte

\* Two digits for each byte.
LEMMA EncodedText ==
    ASSUME NEW b \in Seq(Byte)
    PROVE  /\ hexEncode(b) \in Seq(DigitCode) /\ Len(hexEncode(b)) = 2 * Len(b)
           /\ \A i \in 1..Len(b) : /\ hexEncode(b)[2 * i - 1] = hexDigit(b[i] \div 16)
                                   /\ hexEncode(b)[2 * i] = hexDigit(b[i] % 16)
<1> DEFINE High(i) == hexDigit(b[(i + 1) \div 2] \div 16)
           Low(i) == hexDigit(b[i \div 2] % 16)
           t == [i \in 1..2 * Len(b) |-> IF i % 2 = 1 THEN High(i) ELSE Low(i)]
<1>1. t = hexEncode(b)
  BY DEF hexEncode
<1>2. Len(b) \in Nat /\ \A i \in 1..Len(b) : b[i] \in Byte
  BY ElementsOfSeq
<1>3. ASSUME NEW i \in 1..2 * Len(b)
      PROVE  (IF i % 2 = 1 THEN High(i) ELSE Low(i)) \in DigitCode
  <2>1. CASE i % 2 = 1
    <3>1. (i + 1) \div 2 \in 1..Len(b)
      BY <1>2, <2>1
    <3>2. b[(i + 1) \div 2] \div 16 \in 0..15
      BY <1>2, <3>1, HalvesOfAByte
    <3>3. QED
      BY <2>1, <3>2, DigitsAreValues
  <2>2. CASE i % 2 /= 1
    <3>1. i \div 2 \in 1..Len(b)
      BY <1>2, <2>2
    <3>2. b[i \div 2] % 16 \in 0..15
      BY <1>2, <3>1, HalvesOfAByte
    <3>3. QED
      BY <2>2, <3>2, DigitsAreValues
  <2>3. QED
    BY <2>1, <2>2
<1>4. ASSUME NEW i \in 1..Len(b)
      PROVE  t[2 * i - 1] = hexDigit(b[i] \div 16) /\ t[2 * i] = hexDigit(b[i] % 16)
  <2>1. /\ 2 * i - 1 \in 1..2 * Len(b) /\ (2 * i - 1) % 2 = 1 /\ ((2 * i - 1) + 1) \div 2 = i
        /\ 2 * i \in 1..2 * Len(b) /\ (2 * i) % 2 = 0 /\ (2 * i) \div 2 = i
    BY <1>2
  <2>2. QED
    BY <2>1
<1>5. 2 * Len(b) \in Nat
  BY <1>2
<1>6. t \in [1..2 * Len(b) -> DigitCode]
  BY <1>3
<1> HIDE DEF t
<1>7. t \in Seq(DigitCode) /\ Len(t) = 2 * Len(b)
  BY <1>5, <1>6, FunctionIsSeq
<1>8. QED
  BY <1>1, <1>4, <1>7

\* hexDecode undoes hexEncode, for bytes of any number.
LEMMA DecodeUndoesEncode ==
    ASSUME NEW b \in Seq(Byte)
    PROVE  hexDecode(hexEncode(b)) = b
<1> DEFINE t == hexEncode(b)
<1>1. /\ t \in Seq(DigitCode) /\ Len(t) = 2 * Len(b)
      /\ \A i \in 1..Len(b) : t[2 * i - 1] = hexDigit(b[i] \div 16) /\ t[2 * i] = hexDigit(b[i] % 16)
  BY EncodedText
<1> HIDE DEF t
<1>2. Len(b) \in Nat /\ Len(t) % 2 = 0 /\ Len(t) \div 2 = Len(b)
  BY <1>1
<1>3. ~ (Len(t) % 2 = 1 \/ \E i \in DOMAIN t : hexValue(t[i]) = NoDigit)
  BY <1>1, <1>2 DEF hexValue, NoDigit, DigitCode
<1>4. hexDecode(t) = [i \in 1..Len(b) |-> hexPair(t[2 * i - 1], t[2 * i])]
  <2>1. hexDecode(t) = [i \in 1..Len(t) \div 2 |-> hexPair(t[2 * i - 1], t[2 * i])]
    BY <1>3, Zenon DEF hexDecode
  <2>2. QED
    BY <1>2, <2>1
<1>5. ASSUME NEW i \in 1..Len(b)
      PROVE  hexPair(t[2 * i - 1], t[2 * i]) = b[i]
  <2>1. b[i] \in Byte
    BY ElementsOfSeq
  <2>2. hexValue(hexDigit(b[i] \div 16)) = b[i] \div 16 /\ hexValue(hexDigit(b[i] % 16)) = b[i] % 16
    BY <2>1, HalvesOfAByte, DigitsAreValues
  <2>3. hexPair(t[2 * i - 1], t[2 * i]) = 16 * (b[i] \div 16) + (b[i] % 16)
    BY <1>1, <2>2 DEF hexPair
  <2>4. QED
    BY <2>1, <2>3, HalvesOfAByte
<1>6. b = [i \in 1..Len(b) |-> b[i]]
  OBVIOUS
<1>7. [i \in 1..Len(b) |-> hexPair(t[2 * i - 1], t[2 * i])] = [i \in 1..Len(b) |-> b[i]]
  BY <1>5
<1>8. QED
  BY <1>4, <1>6, <1>7 DEF t

\* The digits of extra.c are those of Internal/Hex.idr.
LEMMA SameDigits ==
    ASSUME NEW b \in Seq(Byte)
    PROVE  bytesHex(b) = hexEncode(b)
<1>1. Len(b) \in Nat /\ \A i \in 1..Len(b) : b[i] \in Byte
  BY ElementsOfSeq
<1>2. ASSUME NEW i \in 1..2 * Len(b)
      PROVE  /\ i % 2 = 1 => b[(i + 1) \div 2] \in Byte
             /\ i % 2 /= 1 => b[(i + 1) \div 2] = b[i \div 2] /\ b[i \div 2] \in Byte
  <2>1. i % 2 = 1 => (i + 1) \div 2 \in 1..Len(b)
    BY <1>1
  <2>2. i % 2 /= 1 => (i + 1) \div 2 = i \div 2 /\ i \div 2 \in 1..Len(b)
    BY <1>1
  <2>3. QED
    BY <1>1, <2>1, <2>2
<1>3. ASSUME NEW i \in 1..2 * Len(b)
      PROVE  (IF i % 2 = 1 THEN digits[(b[(i + 1) \div 2] \div 16) + 1]
                           ELSE digits[(b[(i + 1) \div 2] % 16) + 1])
             = (IF i % 2 = 1 THEN hexDigit(b[(i + 1) \div 2] \div 16) ELSE hexDigit(b[i \div 2] % 16))
  <2>1. CASE i % 2 = 1
    BY <1>2, <2>1, HalvesOfAByte, DigitsAreValues
  <2>2. CASE i % 2 /= 1
    BY <1>2, <2>2, HalvesOfAByte, DigitsAreValues
  <2>3. QED
    BY <2>1, <2>2
<1>4. QED
  BY <1>3 DEF bytesHex, hexEncode

\* A text that hexDecode takes is one of digits, and an even number of them.
LEMMA DecodedText ==
    ASSUME NEW t \in Seq(Int), hexDecode(t) /= NoBytes
    PROVE  /\ ~ (Len(t) % 2 = 1) /\ \A i \in 1..Len(t) : hexValue(t[i]) /= NoDigit
           /\ hexDecode(t) = [i \in 1..Len(t) \div 2 |-> hexPair(t[2 * i - 1], t[2 * i])]
<1>1. ~ (Len(t) % 2 = 1 \/ \E i \in DOMAIN t : hexValue(t[i]) = NoDigit)
  BY Zenon DEF hexDecode
<1>2. hexDecode(t) = [i \in 1..Len(t) \div 2 |-> hexPair(t[2 * i - 1], t[2 * i])]
  BY <1>1, Zenon DEF hexDecode
<1>3. QED
  BY <1>1, <1>2, ElementsOfSeq

\* What hexDecode makes of a text, if anything, is bytes.
LEMMA DecodedIsBytes ==
    ASSUME NEW t \in Seq(Int), hexDecode(t) /= NoBytes
    PROVE  hexDecode(t) \in Seq(Byte)
<1>1. Len(t) \in Nat /\ Len(t) \div 2 \in Nat /\ \A i \in 1..Len(t) : t[i] \in Int
  BY ElementsOfSeq
<1>2. /\ hexDecode(t) = [i \in 1..Len(t) \div 2 |-> hexPair(t[2 * i - 1], t[2 * i])]
      /\ \A i \in 1..Len(t) : hexValue(t[i]) /= NoDigit
  BY DecodedText
<1>3. ASSUME NEW i \in 1..Len(t) \div 2
      PROVE  hexPair(t[2 * i - 1], t[2 * i]) \in Byte
  <2>1. 2 * i - 1 \in 1..Len(t) /\ 2 * i \in 1..Len(t)
    BY <1>1
  <2>2. ASSUME NEW c \in Int, hexValue(c) /= NoDigit PROVE hexValue(c) \in 0..15
    BY <2>2 DEF hexValue, NoDigit
  <2>3. hexValue(t[2 * i - 1]) \in 0..15 /\ hexValue(t[2 * i]) \in 0..15
    BY <1>1, <1>2, <2>1, <2>2
  <2>4. hexPair(t[2 * i - 1], t[2 * i]) = 16 * hexValue(t[2 * i - 1]) + hexValue(t[2 * i])
    BY DEF hexPair
  <2>5. ASSUME NEW x \in 0..15, NEW y \in 0..15 PROVE 16 * x + y \in Byte
    BY DEF Byte
  <2>6. QED
    BY <2>3, <2>4, <2>5
<1>4. hexDecode(t) \in [1..Len(t) \div 2 -> Byte]
  BY <1>2, <1>3
<1>5. QED
  BY <1>1, <1>4, FunctionIsSeq

LEMMA BytesAreSome == NoBytes \notin Seq(Byte)
<1>1. Len(NoBytes) = 1 /\ NoBytes[1] = -1
  BY DEF NoBytes
<1>2. ASSUME NoBytes \in Seq(Byte) PROVE FALSE
  <2>1. NoBytes[1] \in Byte
    BY <1>1, <1>2, ElementsOfSeq
  <2>2. QED
    BY <1>1, <2>1 DEF Byte
<1>3. QED
  BY <1>2

LEMMA CodesAreNumbers ==
    ASSUME NEW S, S \subseteq Int, NEW s \in Seq(S)
    PROVE  s \in Seq(Int)
<1>1. Len(s) \in Nat /\ s \in [1..Len(s) -> S]
  BY ElementsOfSeq
<1>2. s \in [1..Len(s) -> Int]
  BY <1>1
<1>3. QED
  BY <1>1, <1>2, FunctionIsSeq

LEMMA BytesAreNumbers ==
    /\ \A b \in Seq(Byte) : b \in Seq(Int)
    /\ \A t \in Seq(DigitCode) : t \in Seq(Int)
<1>1. Byte \subseteq Int /\ DigitCode \subseteq Int
  BY DEF Byte, DigitCode
<1>2. QED
  BY <1>1, CodesAreNumbers

\* A C string ends before the first 0, and is the whole text if there is none.
LEMMA CutAtZero ==
    ASSUME NEW t \in Seq(Int)
    PROVE  /\ cString(t) \in Seq(Int)
           /\ (\A i \in 1..Len(t) : t[i] /= 0) => cString(t) = t
<1> DEFINE Before(n) == /\ \A i \in 1..n : t[i] /= 0
                        /\ n < Len(t) => t[n + 1] = 0
           end == CHOOSE n \in 0..Len(t) : Before(n)
<1>1. Len(t) \in Nat
  OBVIOUS
<1>2. \E n \in 0..Len(t) : Before(n)
  <2> DEFINE Zeros == {n \in Nat : n < Len(t) /\ t[n + 1] = 0}
  <2>1. CASE Zeros = {}
    <3>1. ASSUME NEW i \in 1..Len(t) PROVE t[i] /= 0
      <4>1. i - 1 \in Nat /\ i - 1 < Len(t) /\ (i - 1) + 1 = i
        BY <1>1
      <4>2. QED
        BY <2>1, <4>1
    <3>2. QED
      BY <1>1, <3>1
  <2>2. CASE Zeros /= {}
    <3>1. PICK k \in Zeros : \A y \in Zeros : k <= y
      BY <2>2, LeastExists
    <3>2. ASSUME NEW i \in 1..k PROVE t[i] /= 0
      <4>1. i - 1 \in Nat /\ i - 1 < Len(t) /\ (i - 1) + 1 = i /\ ~(k <= i - 1)
        BY <1>1, <3>1
      <4>2. QED
        BY <3>1, <4>1
    <3>3. QED
      BY <1>1, <3>1, <3>2
  <2>3. QED
    BY <2>1, <2>2
<1>3. end \in 0..Len(t) /\ Before(end) /\ cString(t) = SubSeq(t, 1, end)
  BY <1>2 DEF cString
<1> HIDE DEF end
<1>4. cString(t) \in Seq(Int)
  BY <1>1, <1>3, SubSeqProperties
<1>5. ASSUME \A i \in 1..Len(t) : t[i] /= 0 PROVE cString(t) = t
  <2>1. end = Len(t)
    BY <1>1, <1>3, <1>5
  <2>2. QED
    BY <1>3, <2>1
<1>6. QED
  BY <1>4, <1>5

\* The server stores bytes.
LEMMA StoredIsBytes ==
    ASSUME NEW t \in Seq(Int), AsBytes(t) /= NoBytes
    PROVE  AsBytes(t) \in Seq(Byte)
<1>1. <<48>> \o t \in Seq(Int)
  OBVIOUS
<1>2. QED
  BY <1>1, DecodedIsBytes DEF AsBytes

\* Digits survive the C string and the server's conversion.
LEMMA DigitsArrive ==
    ASSUME NEW t \in Seq(Int), hexDecode(t) /= NoBytes
    PROVE  AsBytes(cString(t)) = hexDecode(t)
<1>1. Len(t) % 2 /= 1 /\ \A i \in 1..Len(t) : hexValue(t[i]) /= NoDigit
  BY DecodedText
<1>2. hexValue(0) = NoDigit
  BY DEF hexValue, NoDigit
<1>3. \A i \in 1..Len(t) : t[i] /= 0
  BY <1>1, <1>2
<1>4. cString(t) = t
  BY <1>3, CutAtZero
<1>5. QED
  BY <1>1, <1>4 DEF AsBytes

\* What the program finds in the column.
Reading(type_, bytes) ==
    IF bytes = <<>> THEN Null
    ELSE IF type_ = "blob" THEN Found(bytesHex(bytes)) ELSE Found(bytes)

\* The inductive invariant: what is stored is what the bound text was converted
\* to, and what was read is what is stored.
ByteInv ==
    /\ columnType \in {"raw", "blob"}
    /\ stored \in Seq(Byte)
    /\ bound = NoBytes \/ (bound \in Seq(Byte) /\ stored = AsBytes(Sent(bound)))
    /\ readBack = YetUnread \/ readBack = Reading(columnType, stored)

LEMMA ContentsAreBytes == \A b \in Contents : b \in Seq(Byte)
<1>1. ASSUME NEW n \in 0..MaxLength, NEW b \in [1..n -> Alphabet] PROVE b \in Seq(Byte)
  <2>1. n \in Nat
    BY ByteAssumption
  <2>2. Alphabet \subseteq Byte
    BY ByteAssumption DEF Byte
  <2>3. b \in [1..n -> Byte]
    BY <2>2
  <2>4. QED
    BY <2>1, <2>3, FunctionIsSeq
<1>2. QED
  BY <1>1 DEF Contents

LEMMA ByteInitInv == ByteInit => ByteInv
BY DEF ByteInit, ByteInv

LEMMA ByteStep == ByteInv /\ [ByteNext]_byteVars => ByteInv'
<1> SUFFICES ASSUME ByteInv, [ByteNext]_byteVars PROVE ByteInv'
  OBVIOUS
<1>1. ASSUME NEW b \in Contents, Write(b) PROVE ByteInv'
  <2>1. b \in Seq(Byte) /\ b \in Seq(Int)
    BY ContentsAreBytes, BytesAreNumbers
  <2>2. hexEncode(b) \in Seq(Int)
    BY <2>1, EncodedText, BytesAreNumbers
  <2>3. Sent(b) \in Seq(Int)
    BY <2>1, <2>2, CutAtZero DEF Sent
  <2>4. stored' \in Seq(Byte)
    BY <1>1, <2>3, StoredIsBytes DEF Write
  <2>5. Sent(b)' = Sent(b)
    BY <1>1 DEF Write, Sent
  <2>6. QED
    BY <1>1, <2>1, <2>4, <2>5 DEF Write, ByteInv, Sent
<1>2. ASSUME NEW b \in Contents, WriteElsewhere(b) PROVE ByteInv'
  BY <1>2, ContentsAreBytes DEF WriteElsewhere, ByteInv
<1>3. CASE ReadColumn
  <2>1. bytesHex(stored) = hexEncode(stored) /\ hexDecode(bytesHex(stored)) = stored
    BY SameDigits, DecodeUndoesEncode DEF ByteInv
  <2>2. stored /= NoBytes
    BY BytesAreSome DEF ByteInv
  <2>3. readBack' = Reading(columnType, stored)
    BY <1>3, <2>1, <2>2 DEF ReadColumn, Reading
  <2>4. QED
    BY <1>3, <2>3 DEF ReadColumn, ByteInv, Sent
<1>4. CASE UNCHANGED byteVars
  BY <1>4 DEF byteVars, ByteInv, Sent
<1>5. QED
  BY <1>1, <1>2, <1>3, <1>4 DEF ByteNext

\* For bytes of any values and any number: a RAW is read as it is and as it was
\* bound, and a BLOB as the digits of its bytes.
THEOREM BytesSurvive == ByteSpec => []BytesComeBack
<1>1. ByteInv => BytesComeBack
  <2> SUFFICES ASSUME ByteInv PROVE BytesComeBack
    OBVIOUS
  <2>1. stored \in Seq(Byte) /\ stored \in Seq(Int)
    BY BytesAreNumbers DEF ByteInv
  <2>2. bytesHex(stored) = hexEncode(stored) /\ hexDecode(bytesHex(stored)) = stored
    BY <2>1, SameDigits, DecodeUndoesEncode
  <2>3. /\ readBack.is \in {"unread", "null", "right"}
        /\ readBack.is = "null" => stored = <<>>
        /\ readBack.is = "right" => readBack.bytes = IF columnType = "blob" THEN bytesHex(stored) ELSE stored
    BY DEF ByteInv, Reading, YetUnread, Null, Found
  <2>4. ASSUME columnType = "raw", bound /= NoBytes PROVE stored = bound
    <3>1. bound \in Seq(Byte) /\ stored = AsBytes(cString(hexEncode(bound)))
      BY <2>4 DEF ByteInv, Sent
    <3>2. hexEncode(bound) \in Seq(Int) /\ hexDecode(hexEncode(bound)) = bound
      BY <3>1, EncodedText, BytesAreNumbers, DecodeUndoesEncode
    <3>3. QED
      BY <2>4, <3>1, <3>2, DigitsArrive
  <2>5. ASSUME columnType = "blob", bound /= NoBytes, hexDecode(bound) /= NoBytes
        PROVE  stored = hexDecode(bound)
    <3>1. bound \in Seq(Int) /\ stored = AsBytes(cString(bound))
      BY <2>5, BytesAreNumbers DEF ByteInv, Sent
    <3>2. QED
      BY <2>5, <3>1, DigitsArrive
  <2>6. QED
    BY <2>2, <2>3, <2>4, <2>5 DEF BytesComeBack
<1>2. QED
  BY <1>1, ByteInitInv, ByteStep, PTL DEF ByteSpec

-----------------------------------------------------------------------------
\* The sum of the five parts that share no state.

LEMMA PartsBegin == PartInit => Init /\ CursorInit /\ ExecInit /\ BufferInit /\ ByteInit
BY DEF PartInit

LEMMA PartsStep ==
    [PartNext]_partVars =>
        /\ [Next]_vars /\ [CursorNext]_cursorVars /\ [ExecNext]_execVars
        /\ [BufferNext]_bufferVars /\ [ByteNext]_byteVars
BY DEF PartNext, partVars

\* What is checked as a sum is every part: each behaviour of the sum is one of
\* the operations, of the cursor, of the execution, of the buffers and of the bytes,
\* so that every theorem about one of them holds of it.
THEOREM SumIsEveryPart == PartSpec => Spec /\ CursorSpec /\ ExecSpec /\ BufferSpec /\ ByteSpec
BY PartsBegin, PartsStep, PTL DEF PartSpec, Spec, CursorSpec, ExecSpec, BufferSpec, ByteSpec

\* The types of the parts, for every value of the constants: among them the
\* bracket of withStatement, and the indices into the buffers of the cursor and
\* of a variable, which stay inside them.
THEOREM PartsAreTyped == PartSpec => []TypesOK
<1>1. CursorSpec => []CursorTypeOK
  <2>1. CursorInv => CursorTypeOK
    BY DEF CursorInv
  <2>2. QED
    BY <2>1, CursorInvariant, PTL
<1>2. TypeOK /\ CursorTypeOK /\ ExecTypeOK /\ BufferTypeOK => TypesOK
  BY DEF TypesOK
<1>3. QED
  BY <1>1, <1>2, SumIsEveryPart, StatementIsReleased, ExecTyped, BuffersTyped, PTL

\* The sum has the safety properties of its parts.
THEOREM PartsAreSafe ==
    PartSpec => [](/\ RightIsWhole /\ CheckedIsReported /\ LeftIsOwn
                   /\ RowsAreRight
                   /\ ErrorsAreCurrent /\ CacheIsSound
                   /\ BoundIsSet /\ ColumnsAreRead /\ KeptIsUnchanged
                   /\ BytesComeBack)
BY SumIsEveryPart, RightMeansWhole, CheckedFailuresReported, ErrorsAreOwn, RowsStayRight,
   ErrorsKeptCurrent, RefusedLeavesCache, WhatIsBoundIsSet, EveryColumnIsRead, KeptHandlesStay, BytesSurvive, PTL

=============================================================================
