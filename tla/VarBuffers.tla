----------------------------- MODULE VarBuffers -----------------------------
(* The buffers of a variable (dpiVar.c): the way of a value from the caller  *)
(* to the server and back.  Values set by the caller and values written by   *)
(* the server are sequences of pieces, the pieces of long data OCI delivers. *)
(* The variable has one element, as the elements do not influence each       *)
(* other, and for the rows of a DML returning statement the buffer           *)
(* dynBindBuffers[0], whose elements are the rows of one iteration.  An      *)
(* element is [null, raw, data, chunks, num, ref, desc]: the flag isNull of  *)
(* externalData, the value in OCI's buffer and the one externalData holds or *)
(* points at, the dynamic bytes with numChunks, and the handle referenced    *)
(* with the one whose descriptor OCI's buffer holds.                         *)
EXTENDS Integers, Sequences, VarTypes

CONSTANTS
    Handle,         \* LOBs, rowids, JSON values, vectors, statements, objects
    MaxPieces,      \* of a value the server writes
    MaxReturned,    \* rows of a DML returning statement
    MaxTransfers,   \* of the caller and of the server,
    Thorough,       \* for these types, and two for the others
    MaxFailed,      \* allocations that fail
    ChunkGrowth     \* chunks made at once

ASSUME PiecesAssumption ==
    MaxPieces \in Nat \ {0} /\ ChunkGrowth \in Nat \ {0} /\ MaxReturned \in Nat
ASSUME TransfersAssumption == MaxTransfers \in Nat \ {0, 1} /\ MaxFailed \in Nat

VARIABLES
    type, native,   \* of the variable
    isDynamic,      \* long data, in chunks
    prefetch,       \* requiresPreFetch of the variable
    main, returned, \* buffer, and the rows of dynBindBuffers[0]
    returnedCount,  \* their actualArraySize
    usable,         \* the returned rows have their arrays
    inLob,          \* the long data was moved into a LOB
    lobs,           \* what each handle holds
    use, stage,     \* the kind of the last execution, and how far it is
    row, pending,   \* the returned row and the pieces OCI has to deliver
    transfers, failed,
    given,          \* what the caller set last
    sent,           \* what the server read, and what the caller had set
    told,           \* what the server wrote in the last execution
    kept            \* handles of earlier fetches the caller holds, with what they held

typeVars == <<type, native, isDynamic, prefetch, inLob>>
rowVars == <<returned, returnedCount, usable>>
ghosts == <<given, sent, told, kept>>
bufferVars == <<typeVars, main, rowVars, lobs, use, stage, row, pending, transfers, failed, ghosts>>

\* Values that are not the pieces <<transfer, piece>> of one.
Nothing == << <<-1, 0>> >>      \* NULL
Unknown == << <<-2, 0>> >>      \* no promise about the value
NoMemory == << <<-3, 0>> >>
NoHandle == "none"

ASSUME HandlesAssumption == Handle /= {} /\ NoHandle \notin Handle

NoChunk == [cap |-> 0, data |-> NoMemory]
NoElement == [null |-> TRUE, ind |-> TRUE, raw |-> Unknown, data |-> Unknown,
              chunks |-> <<>>, num |-> 0, ref |-> NoHandle, desc |-> NoHandle]

Held == {main.ref, main.desc} \union {k[1] : k \in kept}
        \union {returned[i].ref : i \in DOMAIN returned}
Free == Handle \ Held
\* Rows from before the long data was moved into a LOB: they have none.
Mixed == inLob /\ returned # <<>>
HasHandles == type \in Renewed /\ ~isDynamic
Elements(n) == [i \in 1..n |-> NoElement]

---------------------------------------------------------------------------
\* Dynamic bytes.

\* dpiVar__allocateChunks: more chunks, after those there are.
AllocateChunks(e) == [e EXCEPT !.chunks = @ \o [i \in 1..ChunkGrowth |-> NoChunk]]

\* The value externalData shows when it points at the first chunk.
PointingAtChunk(e) == [e EXCEPT !.data = e.chunks[1].data]

\* dpiVar__allocateDynamicBytes and the copy into it: one chunk, large enough.
InOneChunk(e, v) ==
    LET a == IF e.chunks = <<>> THEN AllocateChunks(e) ELSE e
        c == a.chunks[1]
    IN [a EXCEPT !.num = 1,
                 !.chunks[1] = [cap |-> IF Len(v) > c.cap THEN Len(v) ELSE c.cap, data |-> v]]

\* The same when the chunk cannot be had: its memory is gone, its size is not.
ChunkLost(e, v) ==
    LET a == IF e.chunks = <<>> THEN AllocateChunks(e) ELSE e
    IN [a EXCEPT !.num = 0, !.data = Unknown,
                 !.chunks[1] = [cap |-> Len(v), data |-> NoMemory]]

\* The value fits a chunk whose memory is gone: it is copied to NULL.
CopiesToNull(e, v) ==
    e.chunks # <<>> /\ Len(v) <= e.chunks[1].cap /\ e.chunks[1].data = NoMemory /\ v # <<>>

\* What a chunk takes; one without memory gets some.
Room(c) == IF c.data = NoMemory THEN 1 ELSE c.cap
WithRoom(e) == IF e.num = Len(e.chunks) THEN AllocateChunks(e) ELSE e

\* dpiVar__defineCallback and the branch for long data of
\* dpiVar__outBindCallback: OCI is given the next chunk and fills it.
NextChunk(e, v) ==
    LET a == WithRoom(e)
        size == Room(a.chunks[a.num + 1])
        most == IF Len(v) < size THEN Len(v) ELSE size
    IN [element |-> [a EXCEPT !.num = @ + 1,
                              !.chunks[a.num + 1] = [cap |-> size, data |-> SubSeq(v, 1, most)]],
        left |-> SubSeq(v, most + 1, Len(v))]

\* What the chunks in use hold together.
Together(e) ==
    LET upTo[n \in 0..e.num] == IF n = 0 THEN <<>> ELSE upTo[n - 1] \o e.chunks[n].data
    IN upTo[e.num]

\* MUTANT of SetBytesFromDynamicBytes: the number of chunks is left.
SetBytesFromFirstChunk(e) == PointingAtChunk(e)

\* dpiVar__setBytesFromDynamicBytes: several chunks become one, the others
\* stay without memory.
SetBytesFromDynamicBytes(e) ==
    IF e.num = 1 THEN PointingAtChunk(e)
    ELSE PointingAtChunk([e EXCEPT
            !.num = 1,
            !.chunks = [i \in DOMAIN @ |->
                IF i = 1 THEN [cap |-> Len(Together(e)), data |-> Together(e)]
                ELSE IF i <= e.num THEN NoChunk ELSE @[i]]])

\* dpiVar__setBytesFromLob: the whole LOB is read into one chunk.
SetBytesFromLob(e, v) == PointingAtChunk([InOneChunk(e, v) EXCEPT !.num = 0])

---------------------------------------------------------------------------
\* Handles.

\* MUTANT of ExtendedPreFetch: a handle that is there is used again.
PreFetchKeeping(es, hs) ==
    [i \in DOMAIN es |->
        LET h == IF es[i].ref # NoHandle THEN es[i].ref
                 ELSE IF type = "object" THEN NoHandle ELSE hs[i]
        IN [es[i] EXCEPT !.ref = h, !.desc = h]]

\* dpiVar__extendedPreFetch: what the elements refer to is released and made
\* anew; the object of an element comes with its value.
ExtendedPreFetch(es, hs) ==
    [i \in DOMAIN es |->
        LET h == IF type = "object" THEN NoHandle ELSE hs[i]
        IN [es[i] EXCEPT !.ref = h, !.desc = h]]

\* dpiVar__initBuffer for elements that exist: those of a variable with
\* handles get them; the missing kind of rowid has none.
InitBuffer(t, es, hs) ==
    [i \in DOMAIN es |->
        LET h == IF t \in Renewed \ {"object"} THEN hs[i] ELSE NoHandle
        IN [es[i] EXCEPT !.ref = h, !.desc = h]]

\* Sequences of different free handles, the first ones for the model.
FreeHandles(n) == {hs \in [1..n -> Free] : \A i, j \in 1..n : i # j => hs[i] # hs[j]}
Choice(n) == CHOOSE hs \in FreeHandles(n) : TRUE

---------------------------------------------------------------------------
\* Values.

\* dpiVar__setValue: externalData is transferred to OCI's buffer before an
\* execution.  OCI needs an object even for NULL.
SetValue(e, h) ==
    IF e.null THEN [e EXCEPT !.ind = TRUE,
                    !.ref = IF type = "object" /\ e.desc = NoHandle THEN h ELSE @,
                    !.desc = IF type = "object" /\ @ = NoHandle THEN h ELSE @]
    ELSE [e EXCEPT !.ind = FALSE, !.raw = IF Copied(type, native) THEN e.data ELSE @]

\* dpiVar__inBindCallback and dpiVar__assignCallbackBuffer: what OCI reads.
Read(e) ==
    IF e.ind THEN Nothing
    ELSE IF isDynamic THEN (IF e.chunks = <<>> THEN Nothing ELSE e.chunks[1].data)
    ELSE IF e.desc # NoHandle THEN lobs[e.desc]
    ELSE e.raw

\* dpiVar__getValue: OCI's buffer is transferred to externalData after an
\* execution or a fetch; contents is what the handles hold by then.
GetValue(e, contents) ==
    IF e.ind THEN [e EXCEPT !.null = TRUE]
    ELSE LET f == [e EXCEPT !.null = FALSE]
         IN IF isDynamic THEN SetBytesFromDynamicBytes(f)
            ELSE IF inLob THEN SetBytesFromLob(f, contents[e.desc])
            ELSE IF type = "object" /\ e.ref = NoHandle THEN [f EXCEPT !.ref = e.desc]
            ELSE IF Copied(type, native) THEN [f EXCEPT !.data = e.raw]
            ELSE f

\* The value the caller finds in externalData.
Shown(e) ==
    IF e.null THEN Nothing
    ELSE IF HasHandles /\ native # "bytes" THEN lobs[e.ref] ELSE e.data

\* The element after the server has written v, not in pieces.
Written(e, v) == [e EXCEPT !.ind = v = Nothing, !.raw = IF HasHandles THEN @ ELSE v]

ServerValue == {Nothing} \union {[i \in 1..n |-> <<transfers, i + 10 * row>>] : n \in 1..MaxPieces}
CallerValue == {<<>>} \union {[i \in 1..n |-> <<transfers, -i>>] : n \in 1..2}

---------------------------------------------------------------------------
\* The types of a variable: those of a described column, or those of the caller
\* that are accepted.  A rowid of the other kind and the parts of a JSON value
\* are let pass too, but nothing is done for them.
Given(t, n) == Accepted(t, n) /\ t \notin {"urowid", "json_object", "json_array"}
Pairs ==
    Described \union {p \in [type : DOMAIN Types, native : Native] : Given(p.type, p.native)}

\* dpiVar__allocate for a described column, or for types of the caller.
NewVariable(p, long) ==
    /\ type = p.type /\ native = p.native
    /\ isDynamic = IsLong(p.type, long)
    /\ prefetch = isDynamic
    /\ stage = IF Accepted(p.type, p.native) THEN "idle" ELSE "refused"
    /\ LET first == [i \in 1..1 |-> CHOOSE h \in Handle : TRUE]
       IN main = IF isDynamic THEN NoElement ELSE InitBuffer(p.type, <<NoElement>>, first)[1]

BufferInit ==
    /\ \E p \in Pairs, long \in BOOLEAN : NewVariable(p, long)
    /\ returned = <<>> /\ returnedCount = 0 /\ usable = TRUE
    /\ inLob = FALSE /\ lobs = [h \in Handle |-> <<>>]
    /\ use = "none" /\ row = 0 /\ pending = <<>>
    /\ transfers = 0 /\ failed = 0
    /\ given = Nothing /\ sent = <<Unknown, Unknown>> /\ told = <<Unknown>> /\ kept = {}

---------------------------------------------------------------------------
\* The caller between executions.

MoreTransfers ==
    /\ transfers < IF type \in Thorough THEN MaxTransfers ELSE 2
    /\ transfers' = transfers + 1

\* A call of the caller that sets the element: what the server has read and
\* written before is no longer there to compare.
Setting(v) ==
    /\ stage = "idle" /\ MoreTransfers
    /\ given' = v /\ sent' = <<Unknown, Unknown>> /\ told' = <<Unknown>>
    /\ kept' = {} /\ UNCHANGED <<typeVars, rowVars, use, stage, row, pending>>

\* The caller sets isNull of externalData, or a value of a type without calls.
SetNull == Setting(Nothing) /\ main' = [main EXCEPT !.null = TRUE] /\ UNCHANGED <<lobs, failed>>
SetPlain(v) ==
    /\ native # "bytes" /\ ~HasHandles
    /\ Setting(v) /\ main' = [main EXCEPT !.null = FALSE, !.data = v]
    /\ UNCHANGED <<lobs, failed>>

\* dpiVar_setFromBytes and dpiVar__setFromBytes: into the LOB, into a chunk,
\* or into OCI's buffer itself; for numbers into a buffer of their own.
SetFromBytes(v) ==
    /\ native \in {"bytes", "lob"} /\ UNCHANGED failed
    /\ Setting(v)
    /\ \/ HasHandles /\ lobs' = [lobs EXCEPT ![main.ref] = v]
          /\ main' = [main EXCEPT !.null = FALSE]
       \/ isDynamic /\ ~CopiesToNull(main, v) /\ UNCHANGED lobs
          /\ main' = PointingAtChunk(InOneChunk([main EXCEPT !.null = FALSE], v))
       \/ ~HasHandles /\ ~isDynamic /\ UNCHANGED lobs
          /\ main' = [main EXCEPT !.null = FALSE, !.data = v]

\* The chunk for the value cannot be allocated.
SetFromBytesFails(v) ==
    /\ isDynamic /\ failed < MaxFailed /\ failed' = failed + 1
    /\ main.chunks # <<>> => Len(v) > main.chunks[1].cap
    /\ Setting(Unknown) /\ main' = ChunkLost(main, v) /\ UNCHANGED lobs

\* The handles the caller may set: the one that is set already, and one of its
\* own, with the value v.
Offered(h, v) ==
    /\ HasHandles /\ native # "bytes"
    /\ \/ h = main.ref /\ v = lobs[h] /\ UNCHANGED lobs
       \/ Free # {} /\ h = Choice(1)[1] /\ lobs' = [lobs EXCEPT ![h] = v]

\* dpiVar__setFromLob, and its like for the other kinds: the element refers to
\* the handle and OCI's buffer holds its descriptor.
SetFromHandle(h, v) ==
    /\ Offered(h, v) /\ Setting(v) /\ UNCHANGED failed
    /\ main' = [main EXCEPT !.null = FALSE, !.ref = h, !.desc = h]

\* The caller adds a reference of its own to the handle of a fetched element,
\* if there is one.
Keep ==
    /\ stage = "idle" /\ use = "query" /\ HasHandles /\ native # "bytes" /\ ~main.null
    /\ main.ref # NoHandle /\ kept = {}
    /\ kept' = {<<main.ref, lobs[main.ref]>>}
    /\ UNCHANGED <<typeVars, main, rowVars, lobs, use, stage, row, pending, transfers, failed,
                   given, sent, told>>

---------------------------------------------------------------------------
\* Binding and executing.

\* MUTANT of ConvertToLob: the value set before the conversion is not copied.
ConvertEmpty ==
    /\ stage = "idle" /\ isDynamic /\ Free # {}
    /\ LET h == Choice(1)[1]
       IN main' = [main EXCEPT !.ref = h, !.desc = h] /\ lobs' = [lobs EXCEPT ![h] = <<>>]
    /\ type' = IF type \in {"raw", "long_raw"} THEN "blob"
               ELSE IF type = "nchar" THEN "nclob" ELSE "clob"
    /\ isDynamic' = FALSE /\ inLob' = TRUE /\ UNCHANGED <<native, prefetch>>
    /\ UNCHANGED <<rowVars, use, stage, row, pending, transfers, failed, ghosts>>

\* dpiStmt__bind for PL/SQL and dpiVar__convertToLob: long data goes into a
\* temporary LOB, with what its first chunk holds.
ConvertToLob ==
    /\ stage = "idle" /\ isDynamic /\ Free # {}
    /\ LET h == Choice(1)[1]
       IN /\ main' = [main EXCEPT !.ref = h, !.desc = h]
          /\ lobs' = [lobs EXCEPT ![h] = IF main.num = 0 THEN <<>> ELSE main.chunks[1].data]
    /\ type' = IF type \in {"raw", "long_raw"} THEN "blob"
               ELSE IF type = "nchar" THEN "nclob" ELSE "clob"
    /\ isDynamic' = FALSE /\ inLob' = TRUE /\ UNCHANGED <<native, prefetch>>
    /\ UNCHANGED <<rowVars, use, stage, row, pending, transfers, failed, ghosts>>

\* Before dpiStmt__execute calls OCI: the element is transferred, and the rows
\* of an earlier execution are no longer counted.
Transferred == SetValue(main, IF Free = {} THEN NoHandle ELSE Choice(1)[1])
Executing(u) ==
    /\ stage = "idle" /\ MoreTransfers
    /\ type = "object" => Free # {}
    /\ use' = u /\ kept' = {}
    /\ sent' = <<Read(Transferred), given>>

\* MUTANT of ResetRows: the rows of the execution before still count.
ResetNothing == UNCHANGED returnedCount

\* The loop of dpiStmt__execute over dynBindBuffers.
ResetRows == returnedCount' = 0

\* A statement that only reads the variable.
ExecuteDml ==
    /\ Executing("dml") /\ ResetRows
    /\ main' = Transferred /\ told' = <<Unknown>>
    /\ UNCHANGED <<typeVars, returned, usable, lobs, stage, row, pending, failed, given>>

\* A PL/SQL block that assigns v, and dpiVar__getValue.  A variable with rows of
\* a DML returning statement shows those again, and not what was assigned.
ExecutePlsql(v) ==
    /\ ~isDynamic /\ ~Mixed /\ Executing("plsql") /\ ResetRows
    /\ LET e == Written(Transferred, v)
           contents == IF e.desc = NoHandle \/ v = Nothing THEN lobs ELSE [lobs EXCEPT ![e.desc] = v]
       IN /\ lobs' = contents
          /\ main' = IF returned = <<>> THEN GetValue(e, contents) ELSE e
    /\ LET shown == IF returned = <<>> THEN v ELSE Unknown
       IN given' = shown /\ told' = <<shown>>
    /\ UNCHANGED <<typeVars, returned, usable, stage, row, pending, failed>>

\* A DML returning statement that returns rows: dpiVar__outBindCallback for the
\* first of them makes larger buffers if need be.
StartReturning(n) ==
    /\ usable /\ ~inLob /\ Executing("returning")
    /\ main' = Transferred
    /\ returnedCount' = n
    /\ IF n > Len(returned)
       THEN \E hs \in {IF HasHandles THEN Choice(n) ELSE [i \in 1..n |-> NoHandle]} :
            /\ HasHandles => FreeHandles(n) # {}
            /\ returned' = IF isDynamic THEN Elements(n) ELSE InitBuffer(type, Elements(n), hs)
       ELSE UNCHANGED returned
    /\ told' = <<>> /\ row' = 1 /\ stage' = "rows"
    /\ UNCHANGED <<typeVars, usable, lobs, pending, failed, given>>

\* It returns none: OCI asks for no buffer.
ReturnNothing ==
    /\ usable /\ ~inLob /\ Executing("returning") /\ ResetRows
    /\ main' = Transferred /\ told' = <<>>
    /\ UNCHANGED <<typeVars, returned, usable, lobs, stage, row, pending, failed, given>>

\* The larger buffers cannot be had: the new size stays.
StartReturningFails(n) ==
    /\ usable /\ ~inLob /\ failed < MaxFailed /\ failed' = failed + 1
    /\ n > Len(returned) /\ Executing("returning") /\ ResetRows
    /\ main' = Transferred /\ returned' = Elements(n) /\ usable' = FALSE
    /\ told' = <<Unknown>>
    /\ UNCHANGED <<typeVars, lobs, stage, row, pending, given>>

\* Where the code dereferences NULL: in rows whose arrays could not be had, for
\* rows of a variable whose long data is in a LOB, and in a chunk that could not
\* be had.
Crash ==
    /\ \/ stage = "idle" /\ (~usable \/ inLob)
       \/ stage = "read" /\ Mixed
       \/ stage = "idle" /\ \E v \in CallerValue : isDynamic /\ CopiesToNull(main, v)
    /\ stage' = "crashed"
    /\ UNCHANGED <<typeVars, main, rowVars, lobs, use, row, pending, transfers, failed, ghosts>>

---------------------------------------------------------------------------
\* Fetching, and what OCI delivers.

\* dpiStmt__beforeFetch: handles and chunks are made ready for new values.
BeforeFetchValue ==
    /\ stage = "idle" /\ MoreTransfers
    /\ HasHandles => Free # {}
    /\ use' = "query" /\ stage' = "rows" /\ row' = 0 /\ told' = <<>>
    /\ given' = Unknown /\ sent' = <<Unknown, Unknown>>
    /\ main' = IF ~prefetch THEN main
               ELSE IF isDynamic THEN [main EXCEPT !.num = 0]
               ELSE ExtendedPreFetch(<<main>>, Choice(1))[1]
    /\ UNCHANGED <<typeVars, rowVars, lobs, pending, failed, kept>>

\* The element OCI fills, and where the result goes.
Filled == IF row = 0 THEN main ELSE returned[row]
Put(e) ==
    \/ row = 0 /\ main' = e /\ UNCHANGED returned
    \/ row > 0 /\ returned' = [returned EXCEPT ![row] = e] /\ UNCHANGED main

\* OCI has delivered a value but for the pieces left.
Delivered(left) ==
    /\ pending' = left
    /\ IF left # <<>> THEN UNCHANGED <<row, stage>>
       ELSE IF row < returnedCount /\ use = "returning" THEN row' = row + 1 /\ UNCHANGED stage
       ELSE stage' = "read" /\ UNCHANGED row

\* OCI has the next value: it asks for the first chunk, or for the buffer the
\* value goes to; objects it fetches are its own.
Deliver(v) ==
    /\ stage = "rows" /\ pending = <<>>
    /\ told' = Append(told, v)
    /\ IF isDynamic
       THEN LET e == [Filled EXCEPT !.ind = v = Nothing, !.num = IF row = 0 THEN @ ELSE 0]
                next == NextChunk(e, IF v = Nothing THEN <<>> ELSE v)
            IN Put(next.element) /\ Delivered(next.left) /\ UNCHANGED lobs
       ELSE LET new == IF Free = {} THEN NoHandle ELSE Choice(1)[1]
                e == IF row > 0 THEN SetValue(Filled, new)
                     ELSE IF type = "object" /\ main.desc = NoHandle /\ v # Nothing
                     THEN [main EXCEPT !.desc = new] ELSE main
            IN /\ (type = "object" => Free # {})
               /\ Put(Written(e, v)) /\ Delivered(<<>>)
               /\ lobs' = IF e.desc = NoHandle \/ v = Nothing THEN lobs
                          ELSE [lobs EXCEPT ![e.desc] = v]
    /\ UNCHANGED <<typeVars, returnedCount, usable, use, transfers, failed, given, sent, kept>>

\* OCI asks for the next chunk of the value.
DeliverPiece ==
    /\ stage = "rows" /\ pending # <<>>
    /\ LET next == NextChunk(Filled, pending)
       IN Put(next.element) /\ Delivered(next.left)
    /\ UNCHANGED <<typeVars, returnedCount, usable, lobs, use, transfers, failed, ghosts>>

\* The execution or the fetch has failed.
Broken ==
    /\ failed < MaxFailed /\ failed' = failed + 1
    /\ stage' = "idle" /\ pending' = <<>> /\ told' = <<Unknown>>
    /\ given' = IF use = "query" THEN Unknown ELSE given
    /\ UNCHANGED <<typeVars, returnedCount, usable, lobs, use, row, transfers, sent, kept>>

\* The callback cannot have its chunk.
DeliverFails ==
    /\ stage = "rows" /\ isDynamic /\ Broken
    /\ Put(IF pending = <<>> /\ row > 0 THEN [Filled EXCEPT !.num = 0] ELSE Filled)

\* The rows of dynBindBuffers are read in place of the element, if there are any.
ReadBack ==
    /\ stage = "read" /\ ~Mixed /\ stage' = "idle"
    /\ IF returned = <<>>
       THEN main' = GetValue(main, lobs) /\ UNCHANGED <<returned, told>>
       ELSE /\ returned' = [i \in DOMAIN returned |-> GetValue(returned[i], lobs)]
            /\ told' = IF use = "returning" THEN told ELSE <<Unknown>>
            /\ UNCHANGED main
    /\ given' = IF use = "returning" THEN given ELSE IF returned = <<>> THEN told[1] ELSE Unknown
    /\ prefetch' = (prefetch \/ (use = "query" /\ type \in Renewed))
    /\ UNCHANGED <<type, native, isDynamic, inLob, returnedCount, usable, lobs, use, row, pending,
                   transfers, failed, sent, kept>>

\* The value of an element that is not NULL could not be read.
Unread(e) == [e EXCEPT !.null = FALSE, !.data = Unknown]

\* A chunk for a value in pieces or in a LOB cannot be had; the rows before it
\* have been read.
ReadBackFails ==
    /\ stage = "read" /\ (isDynamic \/ inLob) /\ ~Mixed /\ Broken
    /\ \/ returned = <<>> /\ main' = Unread(main)
          /\ UNCHANGED returned
       \/ \E k \in DOMAIN returned :
            /\ returned' = [i \in DOMAIN returned |->
                IF i < k THEN GetValue(returned[i], lobs)
                ELSE IF i = k THEN Unread(returned[i])
                ELSE returned[i]]
            /\ UNCHANGED main

---------------------------------------------------------------------------
BufferNext ==
    \/ SetNull
    \/ \E v \in CallerValue : SetPlain(v) \/ SetFromBytes(v) \/ SetFromBytesFails(v)
    \/ \E h \in Handle, v \in CallerValue : SetFromHandle(h, v)
    \/ Keep \/ ConvertToLob \/ ExecuteDml \/ Crash
    \/ \E v \in ServerValue : ExecutePlsql(v) \/ Deliver(v)
    \/ \E n \in 1..MaxReturned : StartReturning(n) \/ StartReturningFails(n)
    \/ ReturnNothing \/ BeforeFetchValue \/ DeliverPiece \/ DeliverFails
    \/ ReadBack \/ ReadBackFails

BufferSpec == BufferInit /\ [][BufferNext]_bufferVars

---------------------------------------------------------------------------
BufferTypeOK ==
    /\ isDynamic \in BOOLEAN /\ prefetch \in BOOLEAN /\ inLob \in BOOLEAN
    /\ \A e \in {main} \union {returned[i] : i \in DOMAIN returned} :
        /\ e.num \in 0..Len(e.chunks)
        /\ {e.ref, e.desc} \subseteq Handle \union {NoHandle}
    /\ returnedCount \in 0..Len(returned) /\ usable \in BOOLEAN
    /\ stage \in {"idle", "rows", "read", "refused", "crashed"}
    /\ row \in 0..MaxReturned /\ transfers \in 0..MaxTransfers /\ failed \in 0..MaxFailed

\* What the server reads when a statement is executed is what the caller set
\* last or was shown last, whichever way it was set: before or after the
\* variable was converted, as bytes, chunk, LOB or handle, after rows were
\* fetched into it.
BoundIsSet == sent[2] # Unknown => sent[1] = sent[2]

\* Every column that can be described can be fetched.  After an execution or a
\* fetch that succeeds the caller finds what the server has written: the pieces
\* of a value together and in order, every row of a DML returning statement and
\* no row of an earlier one.
ColumnsAreRead ==
    /\ stage # "refused"
    /\ (stage = "idle" /\ told # <<Unknown>>) =>
        told = IF use = "returning" THEN [i \in 1..returnedCount |-> Shown(returned[i])]
               ELSE <<Shown(main)>>

\* A LOB, JSON value or other handle of a fetched row that the caller has kept
\* is not written to by the fetches that follow.
KeptIsUnchanged == \A k \in kept : lobs[k[1]] = k[2]

=============================================================================
