---------------------------- MODULE ErrorChannel ----------------------------
(***************************************************************************)
(* How the error of a failing call reaches the OracleError an operation    *)
(* returns, across threads.                                                *)
(*                                                                         *)
(* ODPI-C leaves an error in a buffer: one per thread, or one shared by    *)
(* all while the library is not initialised.  support/extra.c copies it    *)
(* field by field into the static g_last_error, the message as a pointer   *)
(* into that buffer.  Oracle.Error.getLastError then reads the code in one *)
(* call and the message in another.  The buffer of a thread is freed when  *)
(* the thread ends.                                                        *)
(*                                                                         *)
(* The n-th failure has code n and text n; 0 is no code and no text, and   *)
(* Freed is what is read through a pointer to a freed buffer.  An          *)
(* operation is one failing or succeeding call.                            *)
(***************************************************************************)
EXTENDS Integers

CONSTANTS
    Threads,
    Shared,         \* the buffer used before the library is initialised
    Nowhere,        \* the NULL pointer, and the holder when there is none
    MaxFailures     \* bound: failing calls in a behaviour

ASSUME NamesAssumption == Shared \notin Threads /\ Nowhere \notin Threads \union {Shared}
ASSUME BoundAssumption == MaxFailures \in Nat

VARIABLES
    pc,         \* where a thread is
    kind,       \* what it calls
    turns,      \* the program lets one operation run at a time
    holder,     \* the thread whose operation runs, if they take turns
    context,    \* g_context is set
    buffer,     \* the error buffers
    local,      \* the dpiErrorInfo on the stack of the failing function
    lastError,  \* g_last_error
    hasError,   \* g_has_error
    failures,   \* failures so far
    early,      \* those whose error was left in the shared buffer
    own,        \* the failure of a thread's operation
    answered,   \* failures whose operations have returned
    stale,      \* those that had when a thread's call failed
    answer      \* the OracleError a thread's last operation returned

library == <<context, buffer, failures, early, own, stale>>
captured == <<lastError, hasError>>
vars == <<pc, kind, turns, holder, library, local, captured, answered, answer>>

Kinds == {"connect", "call"}
Owners == Threads \union {Shared}
Freed == -1
Code == Nat
Text == Nat \union {Freed}
NoInfo == [code |-> 0, message |-> Nowhere]

\* Types; and an error is only asked for when one has been captured.
TypeOK ==
    /\ pc \in [Threads -> {"idle", "start", "call", "info", "clear", "code", "message", "flag",
                           "readCode", "readMessage", "ended"}]
    /\ kind \in [Threads -> Kinds \union {"none"}]
    /\ turns \in BOOLEAN /\ holder \in Threads \union {Nowhere}
    /\ context \in BOOLEAN /\ hasError \in BOOLEAN
    /\ buffer \in [Owners -> [code : Code, text : Text]]
    /\ local \in [Threads -> [code : Code, message : Owners \union {Nowhere}]]
    /\ lastError \in [code : Code, message : Owners \union {Nowhere}]
    /\ failures \in Nat /\ early \subseteq Nat
    /\ own \in [Threads -> Nat]
    /\ answered \subseteq Nat /\ stale \in [Threads -> SUBSET Nat]
    /\ answer \in [Threads -> [code : Code, text : Text]]
    /\ (\E t \in Threads : pc[t] \in {"readCode", "readMessage"}) => hasError = TRUE

Init ==
    /\ pc = [t \in Threads |-> "idle"] /\ kind = [t \in Threads |-> "none"]
    /\ turns \in BOOLEAN /\ holder = Nowhere /\ context = FALSE /\ hasError = FALSE
    /\ buffer = [o \in Owners |-> [code |-> 0, text |-> 0]]
    /\ local = [t \in Threads |-> NoInfo] /\ lastError = NoInfo
    /\ failures = 0 /\ early = {} /\ own = [t \in Threads |-> 0]
    /\ answered = {} /\ stale = [t \in Threads |-> {}]
    /\ answer = [t \in Threads |-> [code |-> 0, text |-> 0]]

---------------------------------------------------------------------------
goto(t, label) == pc' = [pc EXCEPT ![t] = label]

\* An operation begins: connect, or one that has a connection already.
Enter(t, k) ==
    /\ pc[t] = "idle" /\ (k = "call" => context)
    /\ turns => holder = Nowhere
    /\ holder' = IF turns THEN t ELSE holder
    /\ kind' = [kind EXCEPT ![t] = k]
    /\ own' = [own EXCEPT ![t] = 0]
    /\ goto(t, IF k = "connect" /\ ~context THEN "start" ELSE "call")
    /\ UNCHANGED <<context, buffer, failures, early, stale, local, captured, answered, answer>>

\* The next failure, with its error left in buffer o.
FailsIn(t, o) ==
    /\ failures < MaxFailures
    /\ failures' = failures + 1
    /\ early' = IF o = Shared THEN early \union {failures'} ELSE early
    /\ buffer' = [buffer EXCEPT ![o] = [code |-> failures', text |-> failures']]
    /\ own' = [own EXCEPT ![t] = failures']
    /\ stale' = [stale EXCEPT ![t] = answered]
    /\ UNCHANGED <<kind, holder, context, captured, answered, answer>>

\* oracle_init_context: the library is initialised, or the shared buffer says
\* why not and dpiContext_create copies that.
StartLibrary(t) ==
    /\ pc[t] = "start"
    /\ context' = TRUE /\ goto(t, "call")
    /\ UNCHANGED <<kind, holder, buffer, failures, early, own, stale, local, captured, answered, answer>>
StartLibraryFails(t) ==
    /\ pc[t] = "start" /\ FailsIn(t, Shared)
    /\ local' = [local EXCEPT ![t] = [code |-> failures', message |-> Shared]]
    /\ goto(t, "clear")

\* dpiOci__loadLib finds no library, and the shared buffer holds an error of
\* an earlier attempt: it is left there, and dpiContext_create copies it.
StartLibraryFailsAgain(t) ==
    /\ pc[t] = "start" /\ failures < MaxFailures /\ buffer[Shared].code /= 0
    /\ failures' = failures + 1
    /\ own' = [own EXCEPT ![t] = failures']
    /\ stale' = [stale EXCEPT ![t] = answered]
    /\ local' = [local EXCEPT ![t] = [code |-> buffer[Shared].code, message |-> Shared]]
    /\ goto(t, "clear")
    /\ UNCHANGED <<kind, holder, context, buffer, early, captured, answered, answer>>

\* A call into ODPI-C clears the code in the buffer of its thread, not the text.
Leave(t) == holder' = IF turns THEN Nowhere ELSE holder
CallSucceeds(t) ==
    /\ pc[t] = "call"
    /\ buffer' = [buffer EXCEPT ![t].code = 0]
    /\ Leave(t) /\ goto(t, "idle")
    /\ UNCHANGED <<kind, context, failures, early, own, stale, local, captured, answered, answer>>

\* After dpiConn_create fails oracle_connect does not ask for the error: it
\* captures the dpiErrorInfo it has zeroed.
CallFails(t) ==
    /\ pc[t] = "call" /\ FailsIn(t, t)
    /\ IF kind[t] = "connect"
       THEN local' = [local EXCEPT ![t] = NoInfo] /\ goto(t, "clear")
       ELSE goto(t, "info") /\ UNCHANGED local

\* MUTANT of GetError: the shared buffer is read instead of the thread's.
GetErrorShared(t) ==
    /\ pc[t] = "info"
    /\ local' = [local EXCEPT ![t] = [code |-> buffer[Shared].code, message |-> Shared]]
    /\ goto(t, "clear")
    /\ UNCHANGED <<kind, holder, library, captured, answered, answer>>

\* dpiContext_getError
GetError(t) ==
    /\ pc[t] = "info"
    /\ local' = [local EXCEPT ![t] = [code |-> buffer[t].code, message |-> t]]
    /\ goto(t, "clear")
    /\ UNCHANGED <<kind, holder, library, captured, answered, answer>>

\* MUTANT of Clear: an error captured before is kept.
ClearOnce(t) ==
    /\ pc[t] = "clear"
    /\ IF hasError THEN goto(t, "readCode") /\ UNCHANGED lastError
       ELSE lastError' = NoInfo /\ goto(t, "code")
    /\ UNCHANGED <<kind, holder, library, local, hasError, answered, answer>>

\* oracle_capture_error: memset, then field by field.
Clear(t) ==
    /\ pc[t] = "clear"
    /\ lastError' = NoInfo /\ goto(t, "code")
    /\ UNCHANGED <<kind, holder, library, local, hasError, answered, answer>>
SetCode(t) ==
    /\ pc[t] = "code"
    /\ lastError' = [lastError EXCEPT !.code = local[t].code] /\ goto(t, "message")
    /\ UNCHANGED <<kind, holder, library, local, hasError, answered, answer>>
SetMessage(t) ==
    /\ pc[t] = "message"
    /\ lastError' = [lastError EXCEPT !.message = local[t].message] /\ goto(t, "flag")
    /\ UNCHANGED <<kind, holder, library, local, hasError, answered, answer>>

\* MUTANT of SetFlag: the flag is forgotten.
SetFlagForgotten(t) ==
    /\ pc[t] = "flag"
    /\ goto(t, "readCode")
    /\ UNCHANGED <<kind, holder, library, local, captured, answered, answer>>

SetFlag(t) ==
    /\ pc[t] = "flag"
    /\ hasError' = TRUE /\ goto(t, "readCode")
    /\ UNCHANGED <<kind, holder, library, local, lastError, answered, answer>>

\* get_error_code
ReadCode(t) ==
    /\ pc[t] = "readCode"
    /\ answer' = [answer EXCEPT ![t].code = IF hasError THEN lastError.code ELSE 0]
    /\ goto(t, "readMessage")
    /\ UNCHANGED <<kind, holder, library, local, captured, answered>>

\* get_error_message, and the copy of its characters; the operation returns.
ReadMessage(t) ==
    /\ pc[t] = "readMessage"
    /\ answer' = [answer EXCEPT ![t].text =
                    IF hasError /\ lastError.message /= Nowhere THEN buffer[lastError.message].text ELSE 0]
    /\ answered' = answered \union {own[t]}
    /\ Leave(t) /\ goto(t, "idle")
    /\ UNCHANGED <<kind, library, local, captured>>

\* A thread ends, and its buffer is freed.
End(t) ==
    /\ pc[t] = "idle" /\ goto(t, "ended")
    /\ buffer' = [buffer EXCEPT ![t].text = Freed]
    /\ UNCHANGED <<kind, holder, context, failures, early, own, stale, local, captured, answered, answer>>

Step(t) ==
    \/ \E k \in Kinds : Enter(t, k)
    \/ StartLibrary(t) \/ StartLibraryFails(t) \/ StartLibraryFailsAgain(t) \/ CallSucceeds(t) \/ CallFails(t)
    \/ GetError(t) \/ Clear(t) \/ SetCode(t) \/ SetMessage(t) \/ SetFlag(t)
    \/ ReadCode(t) \/ ReadMessage(t) \/ End(t)

Next == UNCHANGED turns /\ \E t \in Threads : Step(t)
Spec == Init /\ [][Next]_vars

---------------------------------------------------------------------------
\* Thread t's last operation has returned Left.
ReturnedLeft(t) == pc[t] = "idle" /\ own[t] \in answered

\* What its failing function captured was its error: not none at all, and not
\* the one of an earlier attempt to load the library.
Captured(t) ==
    /\ local[t] /= NoInfo
    /\ kind[t] = "connect" /\ local[t].message = Shared => local[t].code = own[t]

Own(t) == answer[t] = [code |-> own[t], text |-> own[t]]

\* When operations take turns, an operation that returns Left returns its own
\* error, in both fields, if its failing function captured that.
LeftIsOwn == turns => \A t \in Threads : ReturnedLeft(t) /\ Captured(t) => Own(t)

\* "Every Oracle operation that can fail returns an `OracleError` describing
\* the underlying Oracle error code and message."
EveryLeftIsOwn == turns => \A t \in Threads : ReturnedLeft(t) => Own(t)

\* Whatever the interleaving, an operation never reports the error of an
\* operation that had returned before its own call failed: every failing call
\* captures its error before getLastError looks at it.  Errors once left in the
\* shared buffer are the exception: another thread's pointer may lead there,
\* and the next attempt to load the library may leave them there.
NeverStale ==
    \A t \in Threads :
        ReturnedLeft(t) => answer[t].code \notin stale[t] \ early /\ answer[t].text \notin stale[t] \ early

=============================================================================
