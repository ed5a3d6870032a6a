------------------------------- MODULE MCQuery -------------------------------
(* The operations of the query API and, below it, the row buffer and the     *)
(* execution of a statement of ODPI-C, the buffers of a variable, and the    *)
(* bytes of RAW and BLOB columns as text: five modules that share no state,  *)
(* checked in one run.  A behaviour is one of one of them, the part.         *)
EXTENDS QueryPipeline, StmtCursor, StmtExecution, VarBuffers, ByteText

VARIABLE part

partVars == <<vars, cursorVars, execVars, bufferVars, byteVars, part>>

\* The other parts stay in one of their initial states.
PartInit ==
    /\ part \in {"operation", "cursor", "execution", "buffers", "bytes"}
    /\ BufferInit
    /\ part = "buffers" \/ (type = "number" /\ native = "double")
    /\ Init /\ CursorInit /\ ExecInit /\ ByteInit
    /\ part = "operation" \/ lastError = 0
    /\ part = "cursor" \/ fetchArraySize = 1
    /\ part = "execution" \/ (kind = "select" /\ cached = "none")
    /\ part = "bytes" \/ columnType = "raw"

PartNext ==
    /\ UNCHANGED part
    /\ \/ part = "operation" /\ Next /\ UNCHANGED <<cursorVars, execVars, bufferVars, byteVars>>
       \/ part = "cursor" /\ CursorNext /\ UNCHANGED <<vars, execVars, bufferVars, byteVars>>
       \/ part = "execution" /\ ExecNext /\ UNCHANGED <<vars, cursorVars, bufferVars, byteVars>>
       \/ part = "buffers" /\ BufferNext /\ UNCHANGED <<vars, cursorVars, execVars, byteVars>>
       \/ part = "bytes" /\ ByteNext /\ UNCHANGED <<vars, cursorVars, execVars, bufferVars>>

PartSpec == PartInit /\ [][PartNext]_partVars

---------------------------------------------------------------------------
\* The types of the parts.
TypesOK == TypeOK /\ CursorTypeOK /\ ExecTypeOK /\ BufferTypeOK

=============================================================================
