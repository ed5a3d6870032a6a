----------------------------- MODULE OdpiHandles -----------------------------
(***************************************************************************)
(* The lifetime of the native handles behind one Connection: the dpiConn,  *)
(* its dpiStmts, the dpiVars bound to or fetched through them, and the     *)
(* dpiLobs in the row buffers of those variables, as one thread of the     *)
(* Idris library drives them through support/extra.c.                      *)
(*                                                                         *)
(* Every handle has a reference count.  dpiGen__setRefCount(h, -1) at one  *)
(* frees h, and freeing releases in turn what h refers to, depth first:    *)
(* `pending` is that stack of decrements to come, and one step is one      *)
(* decrement.  The library calls in again when the stack is empty.         *)
(*                                                                         *)
(* A statement has one query column; with LobColumn it is a LOB, so the    *)
(* variable fetched through keeps one dpiLob per row of its buffer.        *)
(* Handles are not reused: a freed one stays freed, and a decrement of it  *)
(* is undefined behaviour, after which the model takes no step.            *)
(***************************************************************************)
EXTENDS Integers, Sequences, FiniteSets

CONSTANTS
    Conn, Stmt, Var, Lob,   \* the handles there may be (a bound)
    None,           \* a NULL pointer
    Params,         \* number of distinct bind names of a statement
    Rows,           \* fetchArraySize
    LobColumn,      \* the query column is a LOB
    NonNullLobs,    \* some row's LOB is not NULL, so decodeColumn reads it
    DefineMayFail,  \* an OCI define, or copying a bind value, may fail
    ReExecutions    \* references re-executions may add to a variable (a bound)

Handle == {Conn} \union Stmt \union Var \union Lob
Param == 1..Params
Row == 1..Rows

ASSUME HandleAssumption ==
    /\ Conn \notin Stmt \union Var \union Lob
    /\ Stmt \intersect Var = {} /\ Stmt \intersect Lob = {}
    /\ Var \intersect Lob = {} /\ None \notin Handle
    /\ IsFiniteSet(Stmt) /\ IsFiniteSet(Var) /\ IsFiniteSet(Lob)
ASSUME SizeAssumption == Params \in Nat /\ Rows \in Nat \ {0} /\ ReExecutions \in Nat
ASSUME ModeAssumption ==
    {LobColumn, NonNullLobs, DefineMayFail} \subseteq BOOLEAN

VARIABLES
    state,      \* none, open, or freed
    refs,       \* refCount
    extra,      \* those of refs that a re-execution took and nobody owns
    bound,      \* bindVars of a statement, by parameter
    column,     \* queryVars[0] of a statement
    row,        \* buffer.references of a variable
    openStmts, openLobs,    \* the connection's handle lists
    executed,   \* statements with rows to fetch
    rowsIn,     \* bufferRowCount of a statement
    cursor,     \* bufferRowIndex of a statement
    decoding,   \* the statement whose current row is being decoded
    held,       \* the handles the caller owns a reference to
    pending     \* decrements to come, the next one first; NULL is skipped

handles == <<state, refs, bound, column, row, openStmts, openLobs>>
buffers == <<executed, rowsIn, cursor>>
vars == <<handles, extra, buffers, decoding, held, pending>>

Init ==
    /\ state = [h \in Handle |-> "none"] /\ refs = [h \in Handle |-> 0]
    /\ extra = [v \in Var |-> 0]
    /\ bound = [s \in Stmt |-> [p \in Param |-> None]]
    /\ column = [s \in Stmt |-> None]
    /\ row = [v \in Var |-> [r \in Row |-> None]]
    /\ openStmts = {} /\ openLobs = {} /\ executed = {}
    /\ rowsIn = [s \in Stmt |-> 0] /\ cursor = [s \in Stmt |-> 0]
    /\ decoding = None /\ held = {} /\ pending = <<>>

\* The library is not inside a call: nothing is being released.
Idle == pending = <<>> /\ decoding = None

New(h) == state[h] = "none"

\* Which of the handles not used yet an allocation returns does not matter.
OneOf(S) == IF S = {} THEN {} ELSE {CHOOSE x \in S : TRUE}
NewVars == {v \in Var : New(v)}

\* dpiGen__allocate of the handles in New, each of which then retains the
\* connection; counts gives the references they are left with.
Allocated(news, counts) ==
    /\ state' = [h \in Handle |-> IF h \in news THEN "open" ELSE state[h]]
    /\ refs' = [h \in Handle |->
          IF h \in news THEN counts[h]
          ELSE IF h = Conn THEN refs[h] + Cardinality(news) ELSE refs[h]]

Once(news) == [h \in news |-> 1]

---------------------------------------------------------------------------
\* Connections.

\* dpiConn_create: the count starts at one, the caller's.
Connect ==
    /\ Idle /\ New(Conn)
    /\ state' = [state EXCEPT ![Conn] = "open"] /\ refs' = [refs EXCEPT ![Conn] = 1]
    /\ held' = {Conn}
    /\ UNCHANGED <<extra, bound, column, row, openStmts, openLobs, buffers, decoding, pending>>

\* oracle_disconnect: the caller's reference is released, no more.
Disconnect ==
    /\ Idle /\ Conn \in held
    /\ held' = held \ {Conn} /\ pending' = <<Conn>>
    /\ UNCHANGED <<extra, handles, buffers, decoding>>

---------------------------------------------------------------------------
\* Statements.

\* dpiConn_prepareStmt.
Prepare(s) ==
    /\ Idle /\ Conn \in held /\ New(s)
    /\ Allocated({s}, Once({s}))
    /\ openStmts' = openStmts \union {s} /\ held' = held \union {s}
    /\ UNCHANGED <<extra, bound, column, row, openLobs, buffers, decoding, pending>>

\* MUTANT of PrepareFails: the error path forgets dpiStmt__free.
PrepareFailsLeaking(s) ==
    /\ Idle /\ Conn \in held /\ New(s)
    /\ Allocated({s}, Once({s}))
    /\ UNCHANGED <<extra, bound, column, row, openStmts, openLobs, buffers, decoding, held, pending>>

\* dpiStmt__prepare failed: the new statement is freed at once.
PrepareFails(s) ==
    /\ Idle /\ Conn \in held /\ New(s)
    /\ Allocated({s}, Once({s})) /\ pending' = <<s>>
    /\ UNCHANGED <<extra, bound, column, row, openStmts, openLobs, buffers, decoding, held>>

\* oracle_release_stmt.
Release(s) ==
    /\ Idle /\ s \in held
    /\ held' = held \ {s} /\ pending' = <<s>>
    /\ UNCHANGED <<extra, handles, buffers, decoding>>

\* MUTANT of Bind: the statement does not retain the variable.
BindBorrowed(s, p, v) ==
    /\ Idle /\ s \in held
    /\ Allocated({v}, [h \in {v} |-> 1])
    /\ bound' = [bound EXCEPT ![s][p] = v]
    /\ pending' = <<bound[s][p], v>>
    /\ UNCHANGED <<extra, column, row, openStmts, openLobs, buffers, decoding, held>>

\* MUTANT of Bind: the variable bound before under that name is not released.
BindOver(s, p, v) ==
    /\ Idle /\ s \in held
    /\ Allocated({v}, [h \in {v} |-> 2])
    /\ bound' = [bound EXCEPT ![s][p] = v]
    /\ pending' = <<v>>
    /\ UNCHANGED <<extra, column, row, openStmts, openLobs, buffers, decoding, held>>

\* oracle_bind_typed and, through dpiStmt__createBindVar, oracle_bind_native:
\* a variable of its own is created, retained by the statement in the place
\* of the one bound under that name before, and released by its creator.
\* The statement keeps it when the OCI bind then fails.
Bind(s, p, v) ==
    /\ Idle /\ s \in held
    /\ Allocated({v}, [h \in {v} |-> 2])
    /\ bound' = [bound EXCEPT ![s][p] = v]
    /\ pending' = <<bound[s][p], v>>
    /\ UNCHANGED <<extra, column, row, openStmts, openLobs, buffers, decoding, held>>

\* dpiVar__copyData failed: dpiStmt__createBindVar returns without releasing
\* the variable it created.
BindCopyFails(s, v) ==
    /\ DefineMayFail /\ Idle /\ s \in held
    /\ Allocated({v}, Once({v}))
    /\ UNCHANGED <<extra, bound, column, row, openStmts, openLobs, buffers, decoding, held, pending>>

\* dpiStmt_execute of a query: the next fetch goes to the server.  The query
\* variables are kept unless the number of columns has changed.
Execute(s, changed) ==
    /\ Idle /\ s \in held
    /\ changed => column[s] /= None
    /\ executed' = executed \union {s}
    /\ rowsIn' = [rowsIn EXCEPT ![s] = 0] /\ cursor' = [cursor EXCEPT ![s] = 0]
    /\ column' = [column EXCEPT ![s] = IF changed THEN None ELSE @]
    /\ pending' = IF changed THEN <<column[s]>> ELSE <<>>
    /\ UNCHANGED <<extra, state, refs, bound, row, openStmts, openLobs, decoding, held>>

\* The references to h that binding the parameters in `again` once more adds.
Rebound(s, again, h) == Cardinality({p \in again : bound[s][p] = h})

\* dpiStmt__reExecute, when the query variables no longer fit the columns: the
\* query variables are released, and every variable bound is bound again after
\* the pointer to it was set to NULL, so that it gets one more reference and the
\* one it had is given up by nobody.  A bind, or the execution, may fail again;
\* what has been bound until then has its reference too many, and the rows in
\* the buffer have no variable any more.
ReExecute(s, again) ==
    /\ Idle /\ s \in held
    /\ \A v \in Var : extra[v] + Rebound(s, again, v) <= ReExecutions
    /\ refs' = [h \in Handle |-> refs[h] + Rebound(s, again, h)]
    /\ extra' = [v \in Var |-> extra[v] + Rebound(s, again, v)]
    /\ column' = [column EXCEPT ![s] = None] /\ pending' = <<column[s]>>
    /\ \/ /\ again = Param /\ executed' = executed \union {s}
          /\ rowsIn' = [rowsIn EXCEPT ![s] = 0] /\ cursor' = [cursor EXCEPT ![s] = 0]
       \/ UNCHANGED buffers
    /\ UNCHANGED <<state, bound, row, openStmts, openLobs, decoding, held>>

---------------------------------------------------------------------------
\* Fetching.

\* MUTANT of FetchBuffered: the end of the buffer is checked off by one.
FetchPastBuffer(s) ==
    /\ Idle /\ s \in held /\ cursor[s] <= rowsIn[s]
    /\ cursor' = [cursor EXCEPT ![s] = @ + 1]
    /\ decoding' = IF column[s] = None THEN None ELSE s
    /\ UNCHANGED <<extra, handles, executed, rowsIn, held, pending>>

\* dpiStmt_fetch serves the next row from the buffer.  There is nothing to
\* decode when a failed re-execution took the query variables.
FetchBuffered(s) ==
    /\ Idle /\ s \in held /\ cursor[s] < rowsIn[s]
    /\ cursor' = [cursor EXCEPT ![s] = @ + 1]
    /\ decoding' = IF column[s] = None THEN None ELSE s
    /\ UNCHANGED <<extra, handles, executed, rowsIn, held, pending>>

MustFetch(s) == Idle /\ s \in held /\ s \in executed /\ cursor[s] = rowsIn[s]

\* The LOB of every row of a buffer, where the buffer has LOBs.
LobRows == IF LobColumn THEN Row ELSE {}
Fresh(lobs) ==
    /\ \A r \in Row : r \in LobRows <=> lobs[r] /= None
    /\ \A r \in LobRows : New(lobs[r])
    /\ \A r, q \in LobRows : lobs[r] = lobs[q] => r = q
FreshLobs == OneOf({lobs \in [Row -> {l \in Lob : New(l)} \union {None}] : Fresh(lobs)})
LobsIn(lobs) == {lobs[r] : r \in DOMAIN lobs} \ {None}

\* dpiStmt__beforeFetch the first time: the column's variable is allocated
\* with its LOBs, defined (retained by the statement) and released.
FirstBuffer(s, v, lobs) ==
    /\ column[s] = None
    /\ Allocated({v} \union LobsIn(lobs), Once({v} \union LobsIn(lobs)))
    /\ column' = [column EXCEPT ![s] = v] /\ row' = [row EXCEPT ![v] = lobs]
    /\ openLobs' = openLobs \union LobsIn(lobs)
    /\ pending' = <<>>

\* MUTANT of NextBuffer: the LOBs of the rows before are forgotten.
NextBufferLeaking(s, lobs) ==
    LET v == column[s] IN
    /\ v /= None
    /\ Allocated(LobsIn(lobs), Once(LobsIn(lobs)))
    /\ row' = [row EXCEPT ![v] = lobs]
    /\ openLobs' = openLobs \union LobsIn(lobs)
    /\ pending' = <<>>
    /\ UNCHANGED column

\* dpiStmt__beforeFetch later on: dpiVar__extendedPreFetch releases the LOB
\* of every row and allocates another.
NextBuffer(s, lobs) ==
    LET v == column[s] IN
    /\ v /= None
    /\ Allocated(LobsIn(lobs), Once(LobsIn(lobs)))
    /\ row' = [row EXCEPT ![v] = lobs]
    /\ openLobs' = openLobs \union LobsIn(lobs)
    /\ pending' = row[v]
    /\ UNCHANGED column

Buffer(s) ==
    /\ \E lobs \in FreshLobs :
          NextBuffer(s, lobs) \/ \E v \in OneOf(NewVars) : FirstBuffer(s, v, lobs)
    /\ UNCHANGED <<bound, openStmts>>

\* dpiStmt__fetch: n rows arrive and the first of them is current, or none
\* is left.
Fetch(s, n) ==
    /\ MustFetch(s) /\ Buffer(s)
    /\ rowsIn' = [rowsIn EXCEPT ![s] = n]
    /\ cursor' = [cursor EXCEPT ![s] = IF n > 0 THEN 1 ELSE 0]
    /\ executed' = IF n < Rows THEN executed \ {s} ELSE executed
    /\ decoding' = IF n > 0 THEN s ELSE None
    /\ UNCHANGED <<extra, held>>

\* The OCI fetch failed, after the buffer was made ready.
FetchFails(s) ==
    /\ MustFetch(s) /\ Buffer(s)
    /\ UNCHANGED <<extra, buffers, decoding, held>>

\* Allocating the LOB of row r failed: a new variable is freed with the LOBs
\* it has so far; one in use keeps those and the old ones of later rows.
FetchAllocationFails(s, r, lobs) ==
    LET kept(old) == [q \in Row |-> IF q < r THEN lobs[q] ELSE IF q = r THEN None ELSE old[q]]
        new == LobsIn(SubSeq(lobs, 1, r - 1))
    IN
    /\ MustFetch(s) /\ LobColumn
    /\ openLobs' = openLobs \union new
    /\ \/ \E v \in OneOf(NewVars) :
             /\ column[s] = None
             /\ Allocated({v} \union new, Once({v} \union new))
             /\ row' = [row EXCEPT ![v] = kept(@)]
             /\ pending' = <<v>>
       \/ /\ column[s] /= None
          /\ Allocated(new, Once(new))
          /\ row' = [row EXCEPT ![column[s]] = kept(@)]
          /\ pending' = SubSeq(row[column[s]], 1, r)
    /\ UNCHANGED <<extra, bound, column, openStmts, buffers, decoding, held>>

\* dpiStmt__define failed: dpiStmt__beforeFetch returns without releasing the
\* variable it allocated.
DefineFails(s, v, lobs) ==
    /\ DefineMayFail /\ MustFetch(s) /\ column[s] = None
    /\ Allocated({v} \union LobsIn(lobs), Once({v} \union LobsIn(lobs)))
    /\ row' = [row EXCEPT ![v] = lobs] /\ openLobs' = openLobs \union LobsIn(lobs)
    /\ UNCHANGED <<extra, bound, column, openStmts, buffers, decoding, held, pending>>

\* decodeColumn of a value that is NULL, or is copied out of the buffer.
Decode ==
    /\ decoding /= None /\ pending = <<>>
    /\ decoding' = None
    /\ UNCHANGED <<extra, handles, buffers, held, pending>>

\* decodeColumn of a LOB: oracle_data_lob lends the buffer's handle, which
\* the bracket then releases as if it were its own.
DecodeLob ==
    /\ decoding /= None /\ pending = <<>> /\ LobColumn /\ NonNullLobs
    /\ decoding' = None
    /\ pending' = <<row[column[decoding]][cursor[decoding]]>>
    /\ UNCHANGED <<extra, handles, buffers, held>>

---------------------------------------------------------------------------
\* dpiGen__setRefCount(h, -1): the next decrement.

Down(h) == pending /= <<>> /\ h = Head(pending) /\ state[h] = "open"
Last(h) == Down(h) /\ refs[h] = 1

\* h is freed, then the references it holds are released in order.
Freed(h, releases) ==
    /\ state' = [state EXCEPT ![h] = "freed"] /\ refs' = [refs EXCEPT ![h] = 0]
    /\ pending' = releases \o Tail(pending)

\* A place of an array that holds no handle.
Skip ==
    /\ pending /= <<>> /\ Head(pending) = None /\ pending' = Tail(pending)
    /\ UNCHANGED <<extra, handles, buffers, decoding, held>>

Decrement(h) ==
    /\ Down(h) /\ refs[h] > 1
    /\ refs' = [refs EXCEPT ![h] = @ - 1] /\ pending' = Tail(pending)
    /\ UNCHANGED <<extra, state, bound, column, row, openStmts, openLobs, buffers, decoding, held>>

\* dpiStmt__free: bind variables, query variables, then the connection.
FreeStmt(s) ==
    /\ Last(s) /\ Freed(s, bound[s] \o <<column[s], Conn>>)
    /\ bound' = [bound EXCEPT ![s] = [p \in Param |-> None]]
    /\ column' = [column EXCEPT ![s] = None]
    /\ openStmts' = openStmts \ {s} /\ executed' = executed \ {s}
    /\ UNCHANGED <<extra, row, openLobs, rowsIn, cursor, decoding, held>>

\* dpiVar__free: the references of the buffer, then the connection.
FreeVar(v) ==
    /\ Last(v) /\ Freed(v, row[v] \o <<Conn>>)
    /\ row' = [row EXCEPT ![v] = [r \in Row |-> None]]
    /\ UNCHANGED <<extra, bound, column, openStmts, openLobs, buffers, decoding, held>>

\* dpiLob__free.
FreeLob(l) ==
    /\ Last(l) /\ Freed(l, <<Conn>>)
    /\ openLobs' = openLobs \ {l}
    /\ UNCHANGED <<extra, bound, column, row, openStmts, buffers, decoding, held>>

\* dpiConn__free: dpiConn__close rolls back, closes what is in the lists and
\* ends the session.
FreeConn ==
    /\ Last(Conn) /\ Freed(Conn, <<>>)
    /\ UNCHANGED <<extra, bound, column, row, openStmts, openLobs, buffers, decoding, held>>

Releasing ==
    \/ Skip
    \/ \E h \in Handle : Decrement(h)
    \/ \E s \in Stmt : FreeStmt(s)
    \/ \E v \in Var : FreeVar(v)
    \/ \E l \in Lob : FreeLob(l)
    \/ FreeConn

Calling ==
    \/ Connect \/ Disconnect
    \/ \E s \in Stmt :
          \/ Prepare(s) \/ PrepareFails(s) \/ Release(s) \/ FetchBuffered(s) \/ FetchFails(s)
          \/ \E v \in OneOf(NewVars) : BindCopyFails(s, v) \/ \E p \in Param : Bind(s, p, v)
          \/ \E changed \in BOOLEAN : Execute(s, changed)
          \/ \E again \in SUBSET Param : ReExecute(s, again)
          \/ \E n \in 0..Rows : Fetch(s, n)
          \/ \E lobs \in FreshLobs :
                \/ \E r \in Row : FetchAllocationFails(s, r, lobs)
                \/ \E v \in OneOf(NewVars) : DefineFails(s, v, lobs)
    \/ Decode \/ DecodeLob

Next == Calling \/ Releasing

Spec == Init /\ [][Next]_vars

---------------------------------------------------------------------------
TypeOK ==
    /\ state \in [Handle -> {"none", "open", "freed"}] /\ refs \in [Handle -> Nat]
    /\ extra \in [Var -> Nat]
    /\ bound \in [Stmt -> [Param -> Var \union {None}]]
    /\ column \in [Stmt -> Var \union {None}]
    /\ row \in [Var -> [Row -> Lob \union {None}]]
    /\ openStmts \subseteq Stmt /\ openLobs \subseteq Lob /\ executed \subseteq Stmt
    /\ rowsIn \in [Stmt -> 0..Rows] /\ cursor \in [Stmt -> 0..Rows]
    /\ decoding \in Stmt \union {None} /\ held \subseteq {Conn} \union Stmt
    /\ pending \in Seq(Handle \union {None})

Open(h) == state[h] = "open"

\* The references to h there are: the caller's, those open handles keep, and
\* those given up whose decrement is still to come.
References(h) ==
    Cardinality({g \in held : g = h})
    + Cardinality({sp \in Stmt \X Param : bound[sp[1]][sp[2]] = h})
    + Cardinality({s \in Stmt : column[s] = h})
    + Cardinality({vr \in Var \X Row : row[vr[1]][vr[2]] = h})
    + Cardinality({g \in Handle \ {Conn} : h = Conn /\ Open(g)})
    + Cardinality({i \in DOMAIN pending : pending[i] = h})

\* The references to h that a re-execution took and nobody will give up.
Extra(h) == IF h \in Var THEN extra[h] ELSE 0

\* The count of every open handle is the number of references there are to
\* it, between any two decrements of a cascade: the bookkeeping of
\* dpiGen__setRefCount calls over bind, define, fetch, release and every error
\* path neither leaks a reference nor gives one up twice.  One call leaks:
\* dpiStmt__reExecute takes a reference too many to every variable it binds
\* again, and the count is too high by exactly those.
CountsExact == \A h \in Handle : Open(h) => refs[h] = References(h) + Extra(h)

\* Whatever goes wrong on the way - an OCI define that fails, a LOB handle the
\* decoder gives back without owning it - no count of the connection, a
\* statement or a variable falls below the references there are to it, so
\* none of these is freed while it is in use.
CountsSuffice == \A h \in Handle \ Lob : Open(h) => refs[h] >= References(h)

Pointers ==
    held \union openStmts \union openLobs
    \union {bound[s][p] : s \in Stmt, p \in Param} \union {column[s] : s \in Stmt}
    \union {row[v][r] : v \in Var, r \in Row} \union {pending[i] : i \in DOMAIN pending}
    \union (IF \E g \in Handle \ {Conn} : Open(g) THEN {Conn} ELSE {})

\* Nothing the caller, a statement, a row buffer, a list of the connection or
\* a decrement to come points at has been freed ("The handle is assumed to be
\* valid at this point", dpiGen__setRefCount).
NoDanglingPointer == \A h \in Pointers \ {None} : Open(h)

Lost == {v \in Var : extra[v] > 0}

\* When the caller has given up all the references it held, in whatever order,
\* and the releases are done, nothing is left open: after withConnection around
\* calls of withStatement, as after manual management, the connection is
\* closed, its transaction rolled back and its session ended.  The exceptions
\* are the variables dpiStmt__reExecute has bound again, with what their buffers
\* hold, and the connection they depend on.  No statement is left in any case.
NothingLeft ==
    held = {} /\ pending = <<>> => \A h \in Handle : Open(h) =>
        \/ h \in Lost \/ \E v \in Lost, r \in Row : row[v][r] = h
        \/ h = Conn /\ Lost /= {}

=============================================================================
