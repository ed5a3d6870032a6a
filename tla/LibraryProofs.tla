---------------------------- MODULE LibraryProofs -----------------------------
(***************************************************************************)
(* Theorems about ErrorChannel and LibraryContext, and about MCLibrary, the*)
(* sum of what is checked about the native library.                        *)
(*                                                                         *)
(*  - For every set of threads whose operations take turns, an operation   *)
(*    whose failing function captured an error returns its own.            *)
(*  - Whether they take turns or not, an operation never returns the error *)
(*    of one that had returned before its own call failed.                 *)
(*  - For every set of threads and any number of attempts, the library is  *)
(*    set up once, and a thread that fails learns of a reason that stands. *)
(*  - The sum is every one of its parts, so it has what is proved of them, *)
(*    here and in HandleProofs and ConnectionProofs.                       *)
(***************************************************************************)
EXTENDS MCLibrary, HandleProofs, ConnectionProofs, FiniteSetTheorems, TLAPS

-----------------------------------------------------------------------------
\* The error channel.

Resting(t) == pc[t] \in {"idle", "ended"}
Reporting == {"clear", "code", "message", "flag", "readCode", "readMessage"}

\* One operation at a time.
TakeTurns == \A t \in Threads : ~Resting(t) => holder = t

\* What is known of the error on its way from its buffer to the answer.
InBuffer(t) == pc[t] = "info" => buffer[t] = [code |-> own[t], text |-> own[t]]
InLocal(t) ==
    pc[t] \in Reporting /\ Captured(t) =>
        /\ local[t].message \in {t, Shared} /\ local[t].code = own[t]
        /\ buffer[local[t].message].text = own[t]
InCell(t) ==
    /\ pc[t] \in {"message", "flag", "readCode", "readMessage"} => lastError.code = local[t].code
    /\ pc[t] \in {"flag", "readCode", "readMessage"} => lastError.message = local[t].message
    /\ pc[t] \in {"readCode", "readMessage"} => hasError
InAnswer(t) ==
    /\ pc[t] = "readMessage" => answer[t].code = local[t].code
    /\ pc[t] \in {"start", "call"} => own[t] = 0
    /\ pc[t] \in Reporting \union {"info"} => own[t] /= 0
    /\ Resting(t) => own[t] = 0 \/ ~Captured(t) \/ Own(t)
Travels == \A t \in Threads : InBuffer(t) /\ InLocal(t) /\ InCell(t) /\ InAnswer(t)

\* The shared buffer is read by a thread that is connecting, and is whole.
SharedWhole ==
    /\ \A t \in Threads : pc[t] = "start" => kind[t] = "connect"
    /\ buffer[Shared].code = buffer[Shared].text

\* The inductive invariant, with TypeOK.
IInv == SharedWhole /\ (turns => TakeTurns /\ Travels /\ 0 \notin answered)

---------------------------------------------------------------------------
\* Every reachable state is well typed, whoever calls and whatever fails.
LEMMA BufferUpdates ==
    ASSUME TypeOK, NEW o \in Owners, NEW b \in [code : Code, text : Text]
    PROVE  [buffer EXCEPT ![o] = b] \in [Owners -> [code : Code, text : Text]]
BY DEF TypeOK

THEOREM TypeCorrect == Spec => []TypeOK
<1> USE NamesAssumption, BoundAssumption DEF Kinds, Owners, Code, Text, Freed, NoInfo
<1>1. Init => TypeOK
  <2> SUFFICES ASSUME Init PROVE TypeOK
    OBVIOUS
  <2> USE DEF Init
  <2>1. buffer \in [Owners -> [code : Code, text : Text]]
    OBVIOUS
  <2>2. local \in [Threads -> [code : Code, message : Owners \union {Nowhere}]]
    OBVIOUS
  <2>3. lastError \in [code : Code, message : Owners \union {Nowhere}]
    OBVIOUS
  <2>4. answer \in [Threads -> [code : Code, text : Text]]
    OBVIOUS
  <2>5. ~(\E t \in Threads : pc[t] \in {"readCode", "readMessage"})
    OBVIOUS
  <2> HIDE DEF Code, Text, NoInfo
  <2> QED
    BY <2>1, <2>2, <2>3, <2>4, <2>5 DEF TypeOK
<1>2. TypeOK /\ [Next]_vars => TypeOK'
  <2> SUFFICES ASSUME TypeOK, [Next]_vars PROVE TypeOK'
    OBVIOUS
  <2>0. UNCHANGED turns
    BY DEF Next, vars
  <2> USE <2>0 DEF TypeOK, goto, library, captured
  <2>1. ASSUME NEW t \in Threads, NEW k \in Kinds, Enter(t, k) PROVE TypeOK'
    BY <2>1 DEF Enter
  <2>2. ASSUME NEW t \in Threads, StartLibrary(t) PROVE TypeOK'
    BY <2>2 DEF StartLibrary
  <2>3. ASSUME NEW t \in Threads, StartLibraryFails(t) PROVE TypeOK'
    <3> USE <2>3 DEF StartLibraryFails, FailsIn
    <3>1. failures' \in Nat
      OBVIOUS
    <3>2. [code |-> failures', text |-> failures'] \in [code : Code, text : Text]
      BY <3>1
    <3>3. buffer' \in [Owners -> [code : Code, text : Text]]
      BY <3>2, BufferUpdates
    <3>4. local' \in [Threads -> [code : Code, message : Owners \union {Nowhere}]]
      BY <3>1
    <3> QED
      BY <3>1, <3>3, <3>4
  <2>12. ASSUME NEW t \in Threads, StartLibraryFailsAgain(t) PROVE TypeOK'
    <3> USE <2>12 DEF StartLibraryFailsAgain
    <3>1. failures' \in Nat /\ buffer[Shared].code \in Nat
      OBVIOUS
    <3>2. local' \in [Threads -> [code : Code, message : Owners \union {Nowhere}]]
      BY <3>1
    <3> QED
      BY <3>1, <3>2
  <2>4. ASSUME NEW t \in Threads, CallSucceeds(t) PROVE TypeOK'
    <3> USE <2>4 DEF CallSucceeds, Leave
    <3>1. buffer[t] \in [code : Code, text : Text]
      OBVIOUS
    <3>2. [buffer[t] EXCEPT !.code = 0] \in [code : Code, text : Text]
      BY <3>1
    <3>3. buffer' \in [Owners -> [code : Code, text : Text]]
      BY <3>2, BufferUpdates
    <3> HIDE DEF Owners, Code, Text
    <3> QED
      BY <3>3
  <2>5. ASSUME NEW t \in Threads, CallFails(t) PROVE TypeOK'
    <3> USE <2>5 DEF CallFails, FailsIn
    <3>1. failures' \in Nat
      OBVIOUS
    <3>2. [code |-> failures', text |-> failures'] \in [code : Code, text : Text]
      BY <3>1
    <3>3. buffer' \in [Owners -> [code : Code, text : Text]]
      BY <3>2, BufferUpdates
    <3>4. local' \in [Threads -> [code : Code, message : Owners \union {Nowhere}]]
      <4>1. NoInfo \in [code : Code, message : Owners \union {Nowhere}]
        OBVIOUS
      <4> HIDE DEF NoInfo, Owners, Code, Text
      <4> QED
        BY <4>1
    <3>5. pc' \in {[pc EXCEPT ![t] = "clear"], [pc EXCEPT ![t] = "info"]}
      OBVIOUS
    <3> HIDE DEF CallFails, NoInfo, Owners, Code, Text
    <3>6. UNCHANGED <<kind, holder, context, lastError, hasError, answered, answer>>
      BY DEF CallFails
    <3>7. own' \in [Threads -> Nat] /\ stale' \in [Threads -> SUBSET Nat] /\ early' \subseteq Nat
      BY <3>1 DEF CallFails
    <3> HIDE DEF FailsIn
    <3> QED
      BY <3>1, <3>3, <3>4, <3>5, <3>6, <3>7
  <2>6. ASSUME NEW t \in Threads, GetError(t) PROVE TypeOK'
    <3> USE <2>6 DEF GetError
    <3>1. buffer[t].code \in Code
      OBVIOUS
    <3>2. local' \in [Threads -> [code : Code, message : Owners \union {Nowhere}]]
      BY <3>1
    <3> HIDE DEF Owners, Code, Text
    <3> QED
      BY <3>2
  <2>7. ASSUME NEW t \in Threads, Clear(t) \/ SetCode(t) \/ SetMessage(t) \/ SetFlag(t) PROVE TypeOK'
    <3>1. CASE Clear(t)
      BY <3>1 DEF Clear
    <3>2. CASE SetCode(t)
      BY <3>2 DEF SetCode
    <3>3. CASE SetMessage(t)
      BY <3>3 DEF SetMessage
    <3>4. CASE SetFlag(t)
      BY <3>4 DEF SetFlag
    <3> QED
      BY <2>7, <3>1, <3>2, <3>3, <3>4
  <2>8. ASSUME NEW t \in Threads, ReadCode(t) PROVE TypeOK'
    BY <2>8 DEF ReadCode
  <2>9. ASSUME NEW t \in Threads, ReadMessage(t) PROVE TypeOK'
    BY <2>9 DEF ReadMessage, Leave
  <2>10. ASSUME NEW t \in Threads, End(t) PROVE TypeOK'
    <3> USE <2>10 DEF End
    <3>1. [buffer[t] EXCEPT !.text = Freed] \in [code : Code, text : Text]
      OBVIOUS
    <3>2. buffer' \in [Owners -> [code : Code, text : Text]]
      BY <3>1, BufferUpdates
    <3> QED
      BY <3>2
  <2>11. CASE UNCHANGED vars
    BY <2>11 DEF vars
  <2> HIDE DEF TypeOK, goto, library, captured, Kinds
  <2> QED
    BY <2>1, <2>2, <2>3, <2>4, <2>5, <2>6, <2>7, <2>8, <2>9, <2>10, <2>11, <2>12 DEF Next, Step
<1> QED
  BY <1>1, <1>2, PTL DEF Spec

---------------------------------------------------------------------------
\* While one thread's operation runs all the others rest.
LEMMA OthersRest ==
    ASSUME TypeOK, TakeTurns, NEW t \in Threads, ~Resting(t), NEW u \in Threads, u /= t
    PROVE  Resting(u)
BY DEF TakeTurns

\* What is known of a resting thread depends on nothing but its own answer.
LEMMA RestingKeeps ==
    ASSUME NEW u \in Threads, Resting(u), InAnswer(u),
           pc'[u] = pc[u], kind'[u] = kind[u], own'[u] = own[u], answer'[u] = answer[u],
           local'[u] = local[u]
    PROVE  InBuffer(u)' /\ InLocal(u)' /\ InCell(u)' /\ InAnswer(u)'
BY DEF Resting, Reporting, InBuffer, InLocal, InCell, InAnswer, Captured, Own

\* Operations that take turns return their own errors, whatever fails, if the
\* failing function captured those.
THEOREM OwnErrors == Spec => []LeftIsOwn
<1> USE NamesAssumption DEF Owners, IInv
<1>1. Init => IInv
  BY DEF Init, SharedWhole, TakeTurns, Travels, Resting, Reporting, InBuffer, InLocal, InCell, InAnswer
<1>3. TypeOK /\ SharedWhole /\ [Next]_vars => SharedWhole'
  <2> SUFFICES ASSUME TypeOK, SharedWhole, [Next]_vars PROVE SharedWhole'
    OBVIOUS
  <2> USE DEF SharedWhole, TypeOK, goto, library, captured, Leave
  <2>1. ASSUME NEW t \in Threads, NEW k \in Kinds, Enter(t, k) PROVE SharedWhole'
    BY <2>1 DEF Enter, Kinds
  <2>2. ASSUME NEW t \in Threads, StartLibrary(t) PROVE SharedWhole'
    BY <2>2 DEF StartLibrary
  <2>3. ASSUME NEW t \in Threads, StartLibraryFails(t) PROVE SharedWhole'
    BY <2>3 DEF StartLibraryFails, FailsIn
  <2>4. ASSUME NEW t \in Threads, StartLibraryFailsAgain(t) PROVE SharedWhole'
    BY <2>4 DEF StartLibraryFailsAgain
  <2>5. ASSUME NEW t \in Threads, CallSucceeds(t) PROVE SharedWhole'
    BY <2>5 DEF CallSucceeds
  <2>6. ASSUME NEW t \in Threads, CallFails(t) PROVE SharedWhole'
    BY <2>6 DEF CallFails, FailsIn
  <2>7. ASSUME NEW t \in Threads, GetError(t) \/ Clear(t) \/ SetCode(t) \/ SetMessage(t) \/ SetFlag(t)
        PROVE  SharedWhole'
    BY <2>7 DEF GetError, Clear, SetCode, SetMessage, SetFlag
  <2>8. ASSUME NEW t \in Threads, ReadCode(t) \/ ReadMessage(t) PROVE SharedWhole'
    BY <2>8 DEF ReadCode, ReadMessage
  <2>9. ASSUME NEW t \in Threads, End(t) PROVE SharedWhole'
    BY <2>9 DEF End
  <2>10. CASE UNCHANGED vars
    BY <2>10 DEF vars
  <2> HIDE DEF SharedWhole, TypeOK, goto, library, captured, Leave
  <2> QED
    BY <2>1, <2>2, <2>3, <2>4, <2>5, <2>6, <2>7, <2>8, <2>9, <2>10 DEF Next, Step
<1>2. TypeOK /\ TypeOK' /\ IInv /\ [Next]_vars => IInv'
  <2> SUFFICES ASSUME TypeOK, TypeOK', IInv, [Next]_vars, turns', SharedWhole' PROVE IInv'
    BY <1>3
  <2>0. turns
    BY DEF Next, vars
  <2> USE <2>0
  <2> DEFINE Here(u) == InBuffer(u) /\ InLocal(u) /\ InCell(u) /\ InAnswer(u)
  <2>1. ASSUME NEW t \in Threads, Step(t) PROVE IInv'
    <3>1. ASSUME NEW k \in Kinds, Enter(t, k) PROVE IInv'
      <4> USE <3>1 DEF Enter, goto, captured, Resting, Reporting, Captured, Own, NoInfo, TypeOK
      <4>1. \A u \in Threads : Resting(u)
        BY DEF TakeTurns
      <4>2. TakeTurns'
        BY <4>1 DEF TakeTurns
      <4>3. ASSUME NEW u \in Threads PROVE Here(u)'
        BY <4>1 DEF Travels, InBuffer, InLocal, InCell, InAnswer
      <4> QED
        BY <4>2, <4>3 DEF Travels
    <3>2. CASE StartLibrary(t)
      <4> USE <3>2 DEF StartLibrary, goto, captured, Resting, Reporting, Captured, Own, NoInfo, TypeOK
      <4>1. TakeTurns'
        BY DEF TakeTurns
      <4>2. ASSUME NEW u \in Threads PROVE Here(u)'
        BY DEF Travels, InBuffer, InLocal, InCell, InAnswer
      <4> QED
        BY <4>1, <4>2 DEF Travels
    <3>3. CASE StartLibraryFails(t)
      <4> USE <3>3 DEF StartLibraryFails, FailsIn, goto, captured, Resting, Reporting, Captured, Own, NoInfo, TypeOK
      <4>1. TakeTurns'
        BY DEF TakeTurns
      <4>2. Here(t)'
        BY DEF Travels, InBuffer, InLocal, InCell, InAnswer
      <4>3. ASSUME NEW u \in Threads, u /= t PROVE Here(u)'
        <5>1. Resting(u) /\ InAnswer(u)
          BY <4>3, OthersRest DEF Travels
        <5>2. pc'[u] = pc[u] /\ kind'[u] = kind[u] /\ own'[u] = own[u] /\ answer'[u] = answer[u] /\ local'[u] = local[u]
          BY <4>3
        <5> QED
          BY <5>1, <5>2, RestingKeeps
      <4> QED
        BY <4>1, <4>2, <4>3 DEF Travels
    <3>14. CASE StartLibraryFailsAgain(t)
      <4> USE <3>14 DEF StartLibraryFailsAgain, SharedWhole, goto, captured, Resting, Reporting, Captured, Own, NoInfo, TypeOK
      <4>1. TakeTurns'
        BY DEF TakeTurns
      <4>2. Here(t)'
        BY DEF Travels, InBuffer, InLocal, InCell, InAnswer
      <4>3. ASSUME NEW u \in Threads, u /= t PROVE Here(u)'
        <5>1. Resting(u) /\ InAnswer(u)
          BY <4>3, OthersRest DEF Travels
        <5>2. pc'[u] = pc[u] /\ kind'[u] = kind[u] /\ own'[u] = own[u] /\ answer'[u] = answer[u] /\ local'[u] = local[u]
          BY <4>3
        <5> QED
          BY <5>1, <5>2, RestingKeeps
      <4> QED
        BY <4>1, <4>2, <4>3 DEF Travels
    <3>4. CASE CallSucceeds(t)
      <4> USE <3>4 DEF CallSucceeds, Leave, goto, captured, Resting, Reporting, Captured, Own, NoInfo, TypeOK
      <4>1. TakeTurns'
        BY OthersRest DEF TakeTurns
      <4>2. own[t] = 0
        BY DEF Travels, InAnswer
      <4>3. ASSUME NEW u \in Threads PROVE Here(u)'
        BY <4>2, OthersRest DEF Travels, InBuffer, InLocal, InCell, InAnswer
      <4> QED
        BY <4>1, <4>3 DEF Travels
    <3>5. CASE CallFails(t)
      <4>0. /\ ~Resting(t) /\ holder' = holder
            /\ \A u \in Threads : u /= t => pc'[u] = pc[u]
        BY <3>5 DEF CallFails, FailsIn, goto, Resting, TypeOK
      <4>1. TakeTurns'
        BY <4>0 DEF TakeTurns, Resting
      <4> USE <3>5 DEF CallFails, FailsIn, goto, captured, Resting, Reporting, Captured, Own, NoInfo, TypeOK
      <4>2. Here(t)'
        BY DEF Travels, InBuffer, InLocal, InCell, InAnswer
      <4>3. ASSUME NEW u \in Threads, u /= t PROVE Here(u)'
        <5>1. Resting(u) /\ InAnswer(u)
          BY <4>3, OthersRest DEF Travels
        <5>2. pc'[u] = pc[u] /\ kind'[u] = kind[u] /\ own'[u] = own[u] /\ answer'[u] = answer[u] /\ local'[u] = local[u]
          BY <4>3
        <5> QED
          BY <5>1, <5>2, RestingKeeps
      <4> QED
        BY <4>1, <4>2, <4>3 DEF Travels
    <3>6. CASE GetError(t)
      <4> USE <3>6 DEF GetError, goto, library, captured, Resting, Reporting, Captured, Own, NoInfo, TypeOK
      <4>1. TakeTurns'
        BY DEF TakeTurns
      <4>2. Here(t)'
        BY DEF Travels, InBuffer, InLocal, InCell, InAnswer
      <4>3. ASSUME NEW u \in Threads, u /= t PROVE Here(u)'
        <5>1. Resting(u) /\ InAnswer(u)
          BY <4>3, OthersRest DEF Travels
        <5>2. pc'[u] = pc[u] /\ kind'[u] = kind[u] /\ own'[u] = own[u] /\ answer'[u] = answer[u] /\ local'[u] = local[u]
          BY <4>3
        <5> QED
          BY <5>1, <5>2, RestingKeeps
      <4> QED
        BY <4>1, <4>2, <4>3 DEF Travels
    <3>7. CASE Clear(t)
      <4> USE <3>7 DEF Clear, goto, library, captured, Resting, Reporting, Captured, Own, NoInfo, TypeOK
      <4>1. TakeTurns'
        BY DEF TakeTurns
      <4>2. Here(t)'
        BY DEF Travels, InBuffer, InLocal, InCell, InAnswer
      <4>3. ASSUME NEW u \in Threads, u /= t PROVE Here(u)'
        <5>1. Resting(u) /\ InAnswer(u)
          BY <4>3, OthersRest DEF Travels
        <5>2. pc'[u] = pc[u] /\ kind'[u] = kind[u] /\ own'[u] = own[u] /\ answer'[u] = answer[u] /\ local'[u] = local[u]
          BY <4>3
        <5> QED
          BY <5>1, <5>2, RestingKeeps
      <4> QED
        BY <4>1, <4>2, <4>3 DEF Travels
    <3>8. CASE SetCode(t)
      <4> USE <3>8 DEF SetCode, goto, library, captured, Resting, Reporting, Captured, Own, NoInfo, TypeOK
      <4>1. TakeTurns'
        BY DEF TakeTurns
      <4>2. Here(t)'
        BY DEF Travels, InBuffer, InLocal, InCell, InAnswer
      <4>3. ASSUME NEW u \in Threads, u /= t PROVE Here(u)'
        <5>1. Resting(u) /\ InAnswer(u)
          BY <4>3, OthersRest DEF Travels
        <5>2. pc'[u] = pc[u] /\ kind'[u] = kind[u] /\ own'[u] = own[u] /\ answer'[u] = answer[u] /\ local'[u] = local[u]
          BY <4>3
        <5> QED
          BY <5>1, <5>2, RestingKeeps
      <4> QED
        BY <4>1, <4>2, <4>3 DEF Travels
    <3>9. CASE SetMessage(t)
      <4> USE <3>9 DEF SetMessage, goto, library, captured, Resting, Reporting, Captured, Own, NoInfo, TypeOK
      <4>1. TakeTurns'
        BY DEF TakeTurns
      <4>2. Here(t)'
        BY DEF Travels, InBuffer, InLocal, InCell, InAnswer
      <4>3. ASSUME NEW u \in Threads, u /= t PROVE Here(u)'
        <5>1. Resting(u) /\ InAnswer(u)
          BY <4>3, OthersRest DEF Travels
        <5>2. pc'[u] = pc[u] /\ kind'[u] = kind[u] /\ own'[u] = own[u] /\ answer'[u] = answer[u] /\ local'[u] = local[u]
          BY <4>3
        <5> QED
          BY <5>1, <5>2, RestingKeeps
      <4> QED
        BY <4>1, <4>2, <4>3 DEF Travels
    <3>10. CASE SetFlag(t)
      <4> USE <3>10 DEF SetFlag, goto, library, captured, Resting, Reporting, Captured, Own, NoInfo, TypeOK
      <4>1. TakeTurns'
        BY DEF TakeTurns
      <4>2. Here(t)'
        BY DEF Travels, InBuffer, InLocal, InCell, InAnswer
      <4>3. ASSUME NEW u \in Threads, u /= t PROVE Here(u)'
        <5>1. Resting(u) /\ InAnswer(u)
          BY <4>3, OthersRest DEF Travels
        <5>2. pc'[u] = pc[u] /\ kind'[u] = kind[u] /\ own'[u] = own[u] /\ answer'[u] = answer[u] /\ local'[u] = local[u]
          BY <4>3
        <5> QED
          BY <5>1, <5>2, RestingKeeps
      <4> QED
        BY <4>1, <4>2, <4>3 DEF Travels
    <3>11. CASE ReadCode(t)
      <4> USE <3>11 DEF ReadCode, goto, library, captured, Resting, Reporting, Captured, Own, NoInfo, TypeOK
      <4>1. TakeTurns'
        BY DEF TakeTurns
      <4>2. Here(t)'
        BY DEF Travels, InBuffer, InLocal, InCell, InAnswer
      <4>3. ASSUME NEW u \in Threads, u /= t PROVE Here(u)'
        <5>1. Resting(u) /\ InAnswer(u)
          BY <4>3, OthersRest DEF Travels
        <5>2. pc'[u] = pc[u] /\ kind'[u] = kind[u] /\ own'[u] = own[u] /\ answer'[u] = answer[u] /\ local'[u] = local[u]
          BY <4>3
        <5> QED
          BY <5>1, <5>2, RestingKeeps
      <4> QED
        BY <4>1, <4>2, <4>3 DEF Travels
    <3>12. CASE ReadMessage(t)
      <4> USE <3>12 DEF ReadMessage, Leave, goto, library, captured, Resting, Reporting, Captured, Own, NoInfo, TypeOK
      <4>1. TakeTurns'
        BY OthersRest DEF TakeTurns
      <4>2. Here(t)'
        BY DEF Travels, InBuffer, InLocal, InCell, InAnswer
      <4>3. ASSUME NEW u \in Threads, u /= t PROVE Here(u)'
        <5>1. Resting(u) /\ InAnswer(u)
          BY <4>3, OthersRest DEF Travels
        <5>2. pc'[u] = pc[u] /\ kind'[u] = kind[u] /\ own'[u] = own[u] /\ answer'[u] = answer[u] /\ local'[u] = local[u]
          BY <4>3
        <5> QED
          BY <5>1, <5>2, RestingKeeps
      <4>4. 0 \notin answered'
        BY DEF Travels, InAnswer
      <4> QED
        BY <4>1, <4>2, <4>3, <4>4 DEF Travels
    <3>13. CASE End(t)
      <4> USE <3>13 DEF End, goto, captured, Resting, Reporting, Captured, Own, NoInfo, TypeOK
      <4>1. TakeTurns'
        BY DEF TakeTurns
      <4>2. ASSUME NEW u \in Threads PROVE Here(u)'
        BY DEF Travels, InBuffer, InLocal, InCell, InAnswer
      <4> QED
        BY <4>1, <4>2 DEF Travels
    <3> QED
      BY <2>1, <3>1, <3>2, <3>3, <3>4, <3>5, <3>6, <3>7, <3>8, <3>9, <3>10, <3>11, <3>12, <3>13, <3>14 DEF Step
  <2>2. CASE UNCHANGED vars
    BY <2>2 DEF vars, library, captured, TakeTurns, Travels, Resting, Reporting, Captured, Own,
               InBuffer, InLocal, InCell, InAnswer
  <2> QED
    BY <2>1, <2>2 DEF Next
<1>4. IInv => LeftIsOwn
  BY DEF LeftIsOwn, ReturnedLeft, Travels, InAnswer, Resting
<1> QED
  BY <1>1, <1>2, <1>4, TypeCorrect, PTL DEF Spec

---------------------------------------------------------------------------
\* Whatever the interleaving: what makes NeverStale inductive.

\* The number n is not that of a failure that t must not report.
Fresh(t, n) == n \notin stale[t] \ early
FreshNext(t, n) == n \notin stale'[t] \ early'

\* Failures are numbered as they happen; each is one thread's, and is answered
\* when its operation returns.
ErrorsNumbered ==
    /\ 0 \notin answered /\ \A n \in answered : n <= failures
    /\ \A t \in Threads : stale[t] \subseteq answered /\ own[t] <= failures
    /\ \A t, u \in Threads : own[t] = own[u] /\ own[t] /= 0 => t = u
Unanswered(t) ==
    /\ pc[t] \in {"start", "call"} => own[t] = 0
    /\ pc[t] \in Reporting \union {"info"} => own[t] /= 0 /\ own[t] \notin answered

\* What the shared buffer holds has been left there.
SharedEarly == {buffer[Shared].code, buffer[Shared].text} \subseteq early \union {0}

\* What a thread is about to put into the cell is none's but its own.
Carried(t) ==
    /\ InBuffer(t)
    /\ local[t].message \in {Nowhere, Shared, t}
    /\ pc[t] \in Reporting =>
         /\ local[t].code \in {0, own[t]} \union early
         /\ local[t].message = t => buffer[t].text = own[t]

\* From the moment a thread has cleared the cell it finds nothing there, itself
\* or behind its pointer, that it must not report.
CellFresh(t) ==
    pc[t] \in Reporting \ {"clear"} =>
        /\ Fresh(t, lastError.code)
        /\ lastError.message /= Nowhere => Fresh(t, buffer[lastError.message].text)
AnswerFresh(t) ==
    /\ pc[t] = "readMessage" => Fresh(t, answer[t].code)
    /\ Resting(t) /\ own[t] /= 0 => Fresh(t, answer[t].code) /\ Fresh(t, answer[t].text)

StaleInv ==
    /\ ErrorsNumbered /\ SharedEarly
    /\ \A t \in Threads : Unanswered(t) /\ Carried(t) /\ CellFresh(t) /\ AnswerFresh(t)

\* A number that no answered failure has is fresh, and so is one left early.
LEMMA FreshNumbers ==
    ASSUME TypeOK, ErrorsNumbered, NEW t \in Threads
    PROVE  /\ \A n \in early \union {0, Freed} : Fresh(t, n)
           /\ \A n : n \notin answered => Fresh(t, n)
BY DEF ErrorsNumbered, Fresh, TypeOK, Freed

\* What is fresh stays so until the thread's next call fails.
LEMMA FreshStays ==
    ASSUME NEW t \in Threads, stale'[t] = stale[t], early \subseteq early'
    PROVE  \A n : Fresh(t, n) => FreshNext(t, n)
BY DEF Fresh, FreshNext

\* A step of thread t that counts no failure, and answers none.
LEMMA NumberedStays ==
    ASSUME ErrorsNumbered, UNCHANGED <<answered, stale, own, failures>>
    PROVE  ErrorsNumbered'
BY DEF ErrorsNumbered

\* The next failure is a new one.
LEMMA NextFailure ==
    ASSUME TypeOK, ErrorsNumbered, NEW t \in Threads, failures' = failures + 1,
           own' = [own EXCEPT ![t] = failures'], stale' = [stale EXCEPT ![t] = answered],
           answered' = answered
    PROVE  ErrorsNumbered' /\ failures' \notin answered /\ failures' /= 0
<1> USE DEF TypeOK
<1>1. failures' \in Nat /\ failures' /= 0 /\ failures' > failures
  OBVIOUS
<1>2. \A n \in answered : n <= failures' /\ n /= failures'
  BY <1>1 DEF ErrorsNumbered
<1>3. \A u \in Threads : stale'[u] \subseteq answered /\ own'[u] <= failures'
  BY <1>1 DEF ErrorsNumbered
<1>4. \A u, v \in Threads : own'[u] = own'[v] /\ own'[u] /= 0 => u = v
  BY <1>1 DEF ErrorsNumbered
<1> QED
  BY <1>1, <1>2, <1>3, <1>4 DEF ErrorsNumbered

\* Everything is as the step finds it for a thread whose own state it leaves
\* alone, whose buffer too, and for whom the cell stays fresh.
LEMMA OthersStay ==
    ASSUME NEW u \in Threads, Unanswered(u), Carried(u), AnswerFresh(u),
           pc'[u] = pc[u], own'[u] = own[u], local'[u] = local[u], buffer'[u] = buffer[u],
           answer'[u] = answer[u], stale'[u] = stale[u], early \subseteq early',
           pc[u] \in Reporting \union {"info"} => own[u] \notin answered'
    PROVE  Unanswered(u)' /\ Carried(u)' /\ AnswerFresh(u)'
BY FreshStays DEF Fresh, FreshNext, Unanswered, Carried, AnswerFresh, InBuffer, Resting, Reporting

\* The cell stays fresh for a thread if it is not touched, and no buffer gets
\* a text that the thread must not report.
LEMMA CellStays ==
    ASSUME TypeOK, NEW u \in Threads, CellFresh(u), UNCHANGED lastError,
           pc'[u] \in Reporting \ {"clear"} =>
               /\ pc[u] \in Reporting \ {"clear"}
               /\ stale'[u] = stale[u] /\ early \subseteq early'
               /\ \A o \in Owners : buffer'[o].text = buffer[o].text \/ FreshNext(u, buffer'[o].text)
    PROVE  CellFresh(u)'
<1> SUFFICES ASSUME pc'[u] \in Reporting \ {"clear"}
             PROVE  /\ FreshNext(u, lastError'.code)
                    /\ lastError'.message /= Nowhere => FreshNext(u, buffer'[lastError'.message].text)
  BY DEF CellFresh, Fresh, FreshNext, FreshNext, Reporting
<1>1. FreshNext(u, lastError'.code)
  BY FreshStays DEF CellFresh
<1>2. ASSUME lastError'.message /= Nowhere PROVE FreshNext(u, buffer'[lastError'.message].text)
  <2>1. lastError.message \in Owners /\ Fresh(u, buffer[lastError.message].text)
    BY <1>2 DEF CellFresh, TypeOK
  <2> QED
    BY <2>1, FreshStays
<1> QED
  BY <1>1, <1>2

\* Every step keeps what NeverStale needs.
LEMMA StaleStep == TypeOK /\ TypeOK' /\ StaleInv /\ [Next]_vars => StaleInv'
<1> SUFFICES ASSUME TypeOK, TypeOK', StaleInv, [Next]_vars PROVE StaleInv'
  OBVIOUS
<1> DEFINE Here(u) == Unanswered(u) /\ Carried(u) /\ AnswerFresh(u)
<1>0. /\ ErrorsNumbered /\ SharedEarly
      /\ \A u \in Threads : Unanswered(u) /\ Carried(u) /\ CellFresh(u) /\ AnswerFresh(u)
  BY DEF StaleInv
<1> USE NamesAssumption, <1>0 DEF goto
<1>1. ASSUME NEW t \in Threads, Step(t) PROVE StaleInv'
  <2>1. ASSUME NEW k \in Kinds, Enter(t, k) PROVE StaleInv'
    <3> USE <2>1
    <3>1. ErrorsNumbered'
      BY DEF Enter, TypeOK, ErrorsNumbered
    <3>2. SharedEarly'
      BY DEF SharedEarly, TypeOK, Owners, Enter, captured
    <3>3. Here(t)'
      BY DEF TypeOK, Unanswered, Carried, AnswerFresh, InBuffer, Resting, Reporting, Owners, Enter, captured
    <3>4. ASSUME NEW u \in Threads, u /= t PROVE Here(u)'
      BY <3>4, OthersStay DEF TypeOK, Unanswered, Enter, captured
    <3>5. ASSUME NEW u \in Threads PROVE CellFresh(u)'
      BY <3>5, CellStays DEF TypeOK, Reporting, Enter, captured
    <3> QED
      BY <3>1, <3>2, <3>3, <3>4, <3>5 DEF StaleInv
  <2>2. CASE StartLibrary(t)
    <3> USE <2>2
    <3>1. ErrorsNumbered'
      BY NumberedStays DEF StartLibrary, captured
    <3>2. SharedEarly'
      BY DEF SharedEarly, TypeOK, Owners, StartLibrary, captured
    <3>3. Here(t)'
      BY DEF TypeOK, Unanswered, Carried, AnswerFresh, InBuffer, Resting, Reporting, Owners, StartLibrary, captured
    <3>4. ASSUME NEW u \in Threads, u /= t PROVE Here(u)'
      BY <3>4, OthersStay DEF TypeOK, Unanswered, StartLibrary, captured
    <3>5. ASSUME NEW u \in Threads PROVE CellFresh(u)'
      BY <3>5, CellStays DEF TypeOK, Reporting, StartLibrary, captured
    <3> QED
      BY <3>1, <3>2, <3>3, <3>4, <3>5 DEF StaleInv
  <2>3. CASE StartLibraryFails(t)
    <3> USE <2>3
    <3>1. ErrorsNumbered' /\ failures' \notin answered /\ failures' /= 0 /\ failures' \in Nat
      BY NextFailure DEF StartLibraryFails, FailsIn, TypeOK
    <3>2. SharedEarly'
      BY <3>1 DEF SharedEarly, TypeOK, Owners, FailsIn, StartLibraryFails
    <3>3. Here(t)'
      BY <3>1 DEF TypeOK, Unanswered, Carried, AnswerFresh, InBuffer, Resting, Reporting, SharedEarly, Owners, FailsIn, StartLibraryFails
    <3>4. ASSUME NEW u \in Threads, u /= t PROVE Here(u)'
      BY <3>4, OthersStay DEF TypeOK, Owners, Unanswered, FailsIn, StartLibraryFails, captured
    <3>5. ASSUME NEW u \in Threads PROVE CellFresh(u)'
      <4>1. CASE u = t
        BY <4>1, CellStays DEF TypeOK, Reporting, captured, FailsIn, StartLibraryFails
      <4>2. CASE u /= t
        <5>1. stale'[u] = stale[u] /\ early \subseteq early' /\ pc'[u] = pc[u] /\ UNCHANGED lastError
          BY <4>2 DEF TypeOK, captured, FailsIn, StartLibraryFails
        <5>2. FreshNext(u, failures')
          BY <3>1, <5>1, FreshNumbers, FreshStays
        <5>3. \A o \in Owners : buffer'[o].text = buffer[o].text \/ buffer'[o].text = failures'
          BY DEF TypeOK, Owners, FailsIn, StartLibraryFails
        <5> QED
          BY <5>1, <5>2, <5>3, CellStays
      <4> QED
        BY <4>1, <4>2
    <3> QED
      BY <3>1, <3>2, <3>3, <3>4, <3>5 DEF StaleInv
  <2>4. CASE StartLibraryFailsAgain(t)
    <3> USE <2>4
    <3>1. ErrorsNumbered' /\ failures' \notin answered /\ failures' /= 0 /\ failures' \in Nat
      BY NextFailure DEF StartLibraryFailsAgain, TypeOK
    <3>2. SharedEarly'
      BY <3>1 DEF SharedEarly, TypeOK, Owners, StartLibraryFailsAgain
    <3>3. Here(t)'
      BY <3>1 DEF TypeOK, Unanswered, Carried, AnswerFresh, InBuffer, Resting, Reporting, SharedEarly, Owners, StartLibraryFailsAgain
    <3>4. ASSUME NEW u \in Threads, u /= t PROVE Here(u)'
      BY <3>4, OthersStay DEF TypeOK, Owners, Unanswered, StartLibraryFailsAgain, captured
    <3>5. ASSUME NEW u \in Threads PROVE CellFresh(u)'
      BY <3>5, CellStays DEF TypeOK, Reporting, captured, StartLibraryFailsAgain
    <3> QED
      BY <3>1, <3>2, <3>3, <3>4, <3>5 DEF StaleInv
  <2>5. CASE CallSucceeds(t)
    <3> USE <2>5
    <3>1. ErrorsNumbered'
      BY NumberedStays DEF CallSucceeds, Leave, captured
    <3>2. SharedEarly'
      BY DEF SharedEarly, TypeOK, Owners, CallSucceeds, Leave, captured
    <3>3. Here(t)'
      BY DEF TypeOK, Unanswered, Carried, AnswerFresh, InBuffer, Resting, Reporting, Owners, CallSucceeds, Leave, captured
    <3>4. ASSUME NEW u \in Threads, u /= t PROVE Here(u)'
      BY <3>4, OthersStay DEF TypeOK, Unanswered, CallSucceeds, Leave, captured
    <3>5. ASSUME NEW u \in Threads PROVE CellFresh(u)'
      <4>1. \A o \in Owners : buffer'[o].text = buffer[o].text
        BY DEF TypeOK, Owners, CallSucceeds
      <4> QED
        BY <4>1, CellStays DEF TypeOK, Reporting, CallSucceeds, captured
    <3> QED
      BY <3>1, <3>2, <3>3, <3>4, <3>5 DEF StaleInv
  <2>6. CASE CallFails(t)
    <3> USE <2>6
    <3>1. ErrorsNumbered' /\ failures' \notin answered /\ failures' /= 0 /\ failures' \in Nat
      BY NextFailure DEF CallFails, FailsIn, TypeOK
    <3>2. SharedEarly'
      BY <3>1 DEF SharedEarly, TypeOK, Owners, FailsIn, CallFails
    <3>3. Here(t)'
      <4>1. buffer'[t] = [code |-> failures', text |-> failures'] /\ own'[t] = failures' /\ answered' = answered
        BY <3>1 DEF TypeOK, Owners, FailsIn, CallFails
      <4>2. CASE kind[t] = "connect"
        <5>1. pc'[t] = "clear" /\ local'[t] = NoInfo
          BY <4>2 DEF TypeOK, CallFails
        <5> QED
          BY <3>1, <4>1, <5>1 DEF Unanswered, Carried, AnswerFresh, InBuffer, Resting, Reporting, NoInfo
      <4>3. CASE kind[t] /= "connect"
        <5>1. pc'[t] = "info" /\ local'[t] = local[t]
          BY <4>3 DEF TypeOK, CallFails
        <5> QED
          BY <3>1, <4>1, <5>1 DEF Unanswered, Carried, AnswerFresh, InBuffer, Resting, Reporting
      <4> QED
        BY <4>2, <4>3
    <3>4. ASSUME NEW u \in Threads, u /= t PROVE Here(u)'
      BY <3>4, OthersStay DEF TypeOK, Owners, Unanswered, FailsIn, CallFails, captured
    <3>5. ASSUME NEW u \in Threads PROVE CellFresh(u)'
      <4>1. CASE u = t
        <5>1. pc'[u] \in {"clear", "info"} /\ UNCHANGED lastError
          BY <4>1 DEF TypeOK, captured, FailsIn, CallFails
        <5> QED
          BY <5>1, CellStays DEF Reporting
      <4>2. CASE u /= t
        <5>1. stale'[u] = stale[u] /\ early \subseteq early' /\ pc'[u] = pc[u] /\ UNCHANGED lastError
          BY <4>2 DEF TypeOK, captured, FailsIn, CallFails
        <5>2. FreshNext(u, failures')
          BY <3>1, <5>1, FreshNumbers, FreshStays
        <5>3. \A o \in Owners : buffer'[o].text = buffer[o].text \/ buffer'[o].text = failures'
          BY DEF TypeOK, Owners, FailsIn, CallFails
        <5> QED
          BY <5>1, <5>2, <5>3, CellStays
      <4> QED
        BY <4>1, <4>2
    <3> QED
      BY <3>1, <3>2, <3>3, <3>4, <3>5 DEF StaleInv
  <2>7. CASE GetError(t)
    <3> USE <2>7
    <3>1. ErrorsNumbered'
      BY NumberedStays DEF GetError, library, captured
    <3>2. SharedEarly'
      BY DEF SharedEarly, TypeOK, Owners, GetError, library, captured
    <3>3. Here(t)'
      BY DEF TypeOK, Unanswered, Carried, AnswerFresh, InBuffer, Resting, Reporting, Owners, GetError, library, captured
    <3>4. ASSUME NEW u \in Threads, u /= t PROVE Here(u)'
      BY <3>4, OthersStay DEF TypeOK, Unanswered, GetError, library, captured
    <3>5. ASSUME NEW u \in Threads PROVE CellFresh(u)'
      BY <3>5, CellStays DEF TypeOK, Reporting, GetError, library, captured
    <3> QED
      BY <3>1, <3>2, <3>3, <3>4, <3>5 DEF StaleInv
  <2>8. CASE Clear(t)
    <3> USE <2>8
    <3>1. ErrorsNumbered'
      BY NumberedStays DEF Clear, library, captured
    <3>2. SharedEarly'
      BY DEF SharedEarly, TypeOK, Owners, Clear, library, captured
    <3>3. Here(t)'
      BY DEF TypeOK, Unanswered, Carried, AnswerFresh, InBuffer, Resting, Reporting, Owners, Clear, library, captured
    <3>4. ASSUME NEW u \in Threads, u /= t PROVE Here(u)'
      BY <3>4, OthersStay DEF TypeOK, Unanswered, Clear, library, captured
    <3>5. ASSUME NEW u \in Threads PROVE CellFresh(u)'
      BY FreshNumbers, FreshStays DEF CellFresh, Fresh, FreshNext, NoInfo, Reporting, TypeOK, Clear, library, captured
    <3> QED
      BY <3>1, <3>2, <3>3, <3>4, <3>5 DEF StaleInv
  <2>9. CASE SetCode(t)
    <3> USE <2>9
    <3>1. ErrorsNumbered'
      BY NumberedStays DEF SetCode, library, captured
    <3>2. SharedEarly'
      BY DEF SharedEarly, TypeOK, Owners, SetCode, library, captured
    <3>3. Here(t)'
      BY DEF TypeOK, Unanswered, Carried, AnswerFresh, InBuffer, Resting, Reporting, Owners, SetCode, library, captured
    <3>4. ASSUME NEW u \in Threads, u /= t PROVE Here(u)'
      BY <3>4, OthersStay DEF TypeOK, Unanswered, SetCode, library, captured
    <3>5. ASSUME NEW u \in Threads PROVE CellFresh(u)'
      <4>1. Fresh(u, local[t].code) /\ local[t].code \in Nat
        BY FreshNumbers DEF Carried, Unanswered, Reporting, SetCode, TypeOK, Code
      <4>2. lastError'.code = local[t].code /\ lastError'.message = lastError.message
        BY DEF SetCode, TypeOK
      <4> QED
        BY <4>1, <4>2 DEF CellFresh, Fresh, FreshNext, Reporting, TypeOK, SetCode, library, captured
    <3> QED
      BY <3>1, <3>2, <3>3, <3>4, <3>5 DEF StaleInv
  <2>10. CASE SetMessage(t)
    <3> USE <2>10
    <3>1. ErrorsNumbered'
      BY NumberedStays DEF SetMessage, library, captured
    <3>2. SharedEarly'
      BY DEF SharedEarly, TypeOK, Owners, SetMessage, library, captured
    <3>3. Here(t)'
      BY DEF TypeOK, Unanswered, Carried, AnswerFresh, InBuffer, Resting, Reporting, Owners, SetMessage, library, captured
    <3>4. ASSUME NEW u \in Threads, u /= t PROVE Here(u)'
      BY <3>4, OthersStay DEF TypeOK, Unanswered, SetMessage, library, captured
    <3>5. ASSUME NEW u \in Threads PROVE CellFresh(u)'
      <4>1. local[t].message /= Nowhere => Fresh(u, buffer[local[t].message].text)
        BY FreshNumbers DEF SharedEarly, Carried, Unanswered, Reporting, SetMessage, TypeOK, Owners
      <4>2. lastError'.message = local[t].message /\ lastError'.code = lastError.code
        BY DEF SetMessage, TypeOK
      <4> QED
        BY <4>1, <4>2 DEF CellFresh, Fresh, FreshNext, Reporting, TypeOK, SetMessage, library, captured
    <3> QED
      BY <3>1, <3>2, <3>3, <3>4, <3>5 DEF StaleInv
  <2>11. CASE SetFlag(t)
    <3> USE <2>11
    <3>1. ErrorsNumbered'
      BY NumberedStays DEF SetFlag, library, captured
    <3>2. SharedEarly'
      BY DEF SharedEarly, TypeOK, Owners, SetFlag, library, captured
    <3>3. Here(t)'
      BY DEF TypeOK, Unanswered, Carried, AnswerFresh, InBuffer, Resting, Reporting, Owners, SetFlag, library, captured
    <3>4. ASSUME NEW u \in Threads, u /= t PROVE Here(u)'
      BY <3>4, OthersStay DEF TypeOK, Unanswered, SetFlag, library, captured
    <3>5. ASSUME NEW u \in Threads PROVE CellFresh(u)'
      BY <3>5, CellStays DEF TypeOK, Reporting, library, captured, SetFlag
    <3> QED
      BY <3>1, <3>2, <3>3, <3>4, <3>5 DEF StaleInv
  <2>12. CASE ReadCode(t)
    <3> USE <2>12
    <3>1. ErrorsNumbered'
      BY NumberedStays DEF ReadCode, library, captured
    <3>2. SharedEarly'
      BY DEF SharedEarly, TypeOK, Owners, ReadCode, library, captured
    <3>3. Here(t)'
      <4>1. answer'[t].code = IF hasError THEN lastError.code ELSE 0
        BY DEF ReadCode, TypeOK
      <4>2. FreshNext(t, answer'[t].code)
        BY <4>1, FreshNumbers DEF CellFresh, Fresh, FreshNext, Reporting, ReadCode, library, captured
      <4> QED
        BY <4>2 DEF Fresh, FreshNext, TypeOK, Unanswered, Carried, AnswerFresh, InBuffer, Resting, Reporting, ReadCode, library, captured
    <3>4. ASSUME NEW u \in Threads, u /= t PROVE Here(u)'
      BY <3>4, OthersStay DEF TypeOK, Unanswered, ReadCode, library, captured
    <3>5. ASSUME NEW u \in Threads PROVE CellFresh(u)'
      BY <3>5, CellStays DEF TypeOK, Reporting, ReadCode, library, captured
    <3> QED
      BY <3>1, <3>2, <3>3, <3>4, <3>5 DEF StaleInv
  <2>13. CASE ReadMessage(t)
    <3> USE <2>13
    <3>1. ErrorsNumbered'
      BY DEF ErrorsNumbered, Unanswered, Reporting, TypeOK, ReadMessage, library, captured
    <3>2. SharedEarly'
      BY DEF SharedEarly, TypeOK, Owners, ReadMessage, Leave, library, captured
    <3>3. Here(t)'
      <4>1. answer'[t].text = IF hasError /\ lastError.message /= Nowhere THEN buffer[lastError.message].text ELSE 0
        BY DEF ReadMessage, TypeOK
      <4>2. FreshNext(t, answer'[t].text)
        BY <4>1, FreshNumbers DEF CellFresh, Fresh, FreshNext, Reporting, ReadMessage, library, captured
      <4>3. answer'[t].code = answer[t].code /\ FreshNext(t, answer[t].code)
        BY DEF ReadMessage, TypeOK, AnswerFresh, Fresh, FreshNext, library, captured
      <4> QED
        BY <4>2, <4>3 DEF Fresh, FreshNext, TypeOK, Unanswered, Carried, AnswerFresh, InBuffer, Resting, Reporting, ReadMessage, library, captured
    <3>4. ASSUME NEW u \in Threads, u /= t PROVE Here(u)'
      <4>1. pc[u] \in Reporting \union {"info"} => own[u] \notin answered'
        BY <3>4 DEF Unanswered, ErrorsNumbered, Reporting, ReadMessage
      <4> QED
        BY <3>4, <4>1, OthersStay DEF TypeOK, ReadMessage, library, captured
    <3>5. ASSUME NEW u \in Threads PROVE CellFresh(u)'
      BY <3>5, CellStays DEF TypeOK, Reporting, ReadMessage, Leave, library, captured
    <3> QED
      BY <3>1, <3>2, <3>3, <3>4, <3>5 DEF StaleInv
  <2>14. CASE End(t)
    <3> USE <2>14
    <3>1. ErrorsNumbered'
      BY NumberedStays DEF End, captured
    <3>2. SharedEarly'
      BY DEF SharedEarly, TypeOK, Owners, End, captured
    <3>3. Here(t)'
      <4>1. pc[t] = "idle" /\ pc'[t] = "ended" /\ UNCHANGED <<own, local, answer, stale, early>>
        BY DEF TypeOK, End
      <4> QED
        BY <4>1 DEF Unanswered, Carried, AnswerFresh, InBuffer, Resting, Reporting, Fresh
    <3>4. ASSUME NEW u \in Threads, u /= t PROVE Here(u)'
      BY <3>4, OthersStay DEF TypeOK, Unanswered, End, captured
    <3>5. ASSUME NEW u \in Threads PROVE CellFresh(u)'
      <4>1. \A o \in Owners : buffer'[o].text = buffer[o].text \/ buffer'[o].text = Freed
        BY DEF TypeOK, Owners, End
      <4>2. FreshNext(u, Freed)
        BY <3>5, FreshNumbers, FreshStays DEF End
      <4>3. UNCHANGED <<lastError, stale, early>> /\ (pc'[u] = pc[u] \/ pc'[u] = "ended")
        BY DEF TypeOK, End, captured
      <4> QED
        BY <3>5, <4>1, <4>2, <4>3, CellStays DEF Reporting
    <3> QED
      BY <3>1, <3>2, <3>3, <3>4, <3>5 DEF StaleInv
  <2> QED
    BY <1>1, <2>1, <2>2, <2>3, <2>4, <2>5, <2>6, <2>7, <2>8, <2>9, <2>10, <2>11, <2>12, <2>13, <2>14 DEF Step
<1>2. CASE UNCHANGED vars
  <2> USE <1>2 DEF vars, library, captured
  <2>1. ErrorsNumbered' /\ SharedEarly'
    BY DEF ErrorsNumbered, SharedEarly
  <2>2. ASSUME NEW u \in Threads PROVE Here(u)' /\ CellFresh(u)'
    BY OthersStay, CellStays DEF Unanswered
  <2> QED
    BY <2>1, <2>2 DEF StaleInv
<1> QED
  BY <1>1, <1>2 DEF Next

\* Whatever the interleaving of the threads, and whether or not operations take
\* turns: an operation never reports the error of one that had returned before
\* its own call failed, errors of the shared buffer excepted.  (It may report
\* that of another operation still under way.)
THEOREM NeverAnOldError == Spec => []NeverStale
<1>1. Init => StaleInv
  <2> SUFFICES ASSUME Init PROVE StaleInv
    OBVIOUS
  <2> USE NamesAssumption DEF Init
  <2>1. ErrorsNumbered /\ SharedEarly
    BY DEF ErrorsNumbered, SharedEarly, Owners
  <2>2. ASSUME NEW t \in Threads PROVE Unanswered(t) /\ Carried(t) /\ CellFresh(t) /\ AnswerFresh(t)
    BY DEF Unanswered, Carried, CellFresh, AnswerFresh, InBuffer, Resting, Reporting, NoInfo
  <2> QED
    BY <2>1, <2>2 DEF StaleInv
<1>2. StaleInv => NeverStale
  BY DEF StaleInv, AnswerFresh, NeverStale, ReturnedLeft, Resting, Fresh, ErrorsNumbered
<1> QED
  BY <1>1, <1>2, StaleStep, TypeCorrect, PTL DEF Spec

-----------------------------------------------------------------------------
\* The library context.

Stages == {"out", "create", "lock", "load", "env", "key", "unlock", "again", "buffer", "failed", "call"}
Initialising == {"load", "env", "key"}
OnTheWay == {t \in Loaders : stage[t] \notin {"out", "call"}}

\* The types a proof needs.
LibraryTypes ==
    /\ stage \in [Loaders -> Stages] /\ mine \in [Loaders -> Nat] /\ told \in [Loaders -> Nat]
    /\ attempts \in Nat /\ shared \in Nat /\ contexts \in Nat

\* A thread that initialises holds the mutex, and finds what it has set up.
HeldWhile == \A t \in Loaders : stage[t] \in Initialising \union {"unlock"} => mutex = t
SetUpSoFar ==
    /\ \A t \in Loaders :
          /\ stage[t] \in Initialising => ~initialized
          /\ stage[t] \in {"env", "key"} => libHandle
          /\ stage[t] = "key" => envHandle = "live"
    /\ initialized => libHandle /\ envHandle = "live" /\ key

\* Until exit, the library is initialised once a thread has found it so.
FoundIsSetUp ==
    ~exiting => /\ \A t \in Loaders : stage[t] \in {"buffer", "call"} => initialized
                /\ current /= 0 => initialized

\* Every thread on the way to a context has room for it, and in turns only the
\* first makes one.
RoomForContexts ==
    /\ current = contexts
    /\ contexts + Cardinality(OnTheWay) <= Cardinality(Loaders)
InTurns ==
    oneByOne => /\ \A t, u \in Loaders : stage[t] /= "out" /\ stage[u] /= "out" => t = u
                /\ contexts <= 1
                /\ OnTheWay /= {} => contexts = 0
FreedHalfway == freedTwice \/ envHandle = "freed" => halfway

SetUpInv ==
    LibraryTypes /\ HeldWhile /\ SetUpSoFar /\ FoundIsSetUp /\ RoomForContexts /\ InTurns /\ FreedHalfway

\* In turns, what the shared buffer tells of is the last attempt, or one that
\* all since could not replace; not counting the attempt under way.
Since(s, a) == s > 0 => (s + 1)..a \subseteq nothing
Told ==
    /\ \A t \in Loaders : stage[t] /= "out" => told[t] = 0
    /\ oneByOne /\ ~exiting =>
          \A t \in Loaders :
             /\ Since(told[t], mine[t])
             /\ stage[t] \in Initialising => mine[t] = attempts /\ Since(shared, attempts - 1)
             /\ stage[t] \in {"unlock", "again", "failed"} /\ ~initialized => mine[t] = attempts
             /\ stage[t] = "failed" => ~initialized
SinceLast ==
    oneByOne /\ ~exiting /\ ~initialized /\ (\A t \in Loaders : stage[t] \notin Initialising)
        => Since(shared, attempts)

LibraryInv == SetUpInv /\ Told /\ SinceLast

-----------------------------------------------------------------------------
\* A thread that moves on.
LEMMA MovedOn ==
    ASSUME LibraryTypes, NEW t \in Loaders, NEW label \in Stages, moveTo(t, label)
    PROVE  /\ stage' \in [Loaders -> Stages] /\ stage'[t] = label
           /\ \A u \in Loaders : u /= t => stage'[u] = stage[u]
BY DEF LibraryTypes, moveTo

\* Threads that leave the way, or stay on it, keep the room there is.
LEMMA OnTheWayIsFinite == IsFiniteSet(OnTheWay) /\ Cardinality(OnTheWay) \in Nat
<1>1. OnTheWay \in SUBSET Loaders
  BY DEF OnTheWay
<1>2. QED
  BY <1>1, LoadersAssumption, FS_Subset, FS_CardinalityType

LEMMA RoomStays ==
    ASSUME RoomForContexts, OnTheWay' \subseteq OnTheWay, contexts' = contexts, current' = current,
           contexts \in Nat
    PROVE  RoomForContexts'
<1>1. Cardinality(OnTheWay') <= Cardinality(OnTheWay) /\ IsFiniteSet(OnTheWay')
  BY OnTheWayIsFinite, FS_Subset
<1>2. Cardinality(OnTheWay') \in Nat /\ Cardinality(OnTheWay) \in Nat /\ Cardinality(Loaders) \in Nat
  BY <1>1, OnTheWayIsFinite, LoadersAssumption, FS_CardinalityType
<1>3. contexts' + Cardinality(OnTheWay') <= Cardinality(Loaders)
  BY <1>1, <1>2 DEF RoomForContexts
<1>4. QED
  BY <1>3 DEF RoomForContexts

LEMMA RoomAtFirst ==
    ASSUME contexts' = 0, current' = 0
    PROVE  RoomForContexts'
<1>1. OnTheWay' \in SUBSET Loaders
  BY DEF OnTheWay
<1>2. Cardinality(OnTheWay') <= Cardinality(Loaders) /\ IsFiniteSet(OnTheWay')
  BY <1>1, LoadersAssumption, FS_Subset
<1>3. Cardinality(OnTheWay') \in Nat
  BY <1>2, FS_CardinalityType
<1>4. contexts' + Cardinality(OnTheWay') <= Cardinality(Loaders)
  BY <1>2, <1>3
<1>5. QED
  BY <1>4 DEF RoomForContexts

LEMMA SetUpInitInv == LibraryInit => SetUpInv
<1> SUFFICES ASSUME LibraryInit PROVE SetUpInv
  OBVIOUS
<1>1. LibraryTypes
  BY DEF LibraryInit, LibraryTypes, Stages
<1>2. HeldWhile /\ SetUpSoFar /\ FoundIsSetUp /\ FreedHalfway
  BY DEF LibraryInit, HeldWhile, SetUpSoFar, FoundIsSetUp, FreedHalfway, Initialising
<1>3. RoomForContexts
  <2>1. OnTheWay = {}
    BY DEF LibraryInit, OnTheWay
  <2>2. Cardinality(Loaders) \in Nat /\ Cardinality(OnTheWay) = 0
    BY <2>1, LoadersAssumption, FS_CardinalityType, FS_EmptySet
  <2>3. QED
    BY <2>2 DEF LibraryInit, RoomForContexts
<1>4. InTurns
  BY DEF LibraryInit, InTurns, OnTheWay
<1>5. QED
  BY <1>1, <1>2, <1>3, <1>4 DEF SetUpInv

\* Steps of a thread that set up nothing: looking, locking a mutex that need not
\* be held, failing, calling.
LEMMA MovingKeeps ==
    ASSUME SetUpInv, NEW t \in Loaders, NEW label \in Stages, moveTo(t, label),
           stage[t] /= "out", stage[t] = "call" => label = "out",
           label \notin {"env", "key"},
           label \in Initialising => mutex' = t /\ ~initialized,
           label = "unlock" => mutex' = t,
           label \in {"buffer", "call"} => initialized \/ exiting,
           \/ mutex' = mutex
           \/ mutex = Nobody
           \/ stage[t] = "unlock",
           attempts' \in Nat, mine' \in [Loaders -> Nat], told' \in [Loaders -> Nat], shared' \in Nat,
           UNCHANGED <<oneByOne, initialized, libHandle, envHandle, key, current, contexts,
                       exiting, freedTwice, halfway>>
    PROVE  SetUpInv'
<1>1. /\ LibraryTypes /\ HeldWhile /\ SetUpSoFar /\ FoundIsSetUp /\ RoomForContexts /\ InTurns /\ FreedHalfway
  BY DEF SetUpInv
<1>2. /\ stage' \in [Loaders -> Stages] /\ stage'[t] = label
      /\ \A u \in Loaders : u /= t => stage'[u] = stage[u]
  BY <1>1, MovedOn
<1>3. LibraryTypes'
  BY <1>1, <1>2 DEF LibraryTypes
<1>4. HeldWhile'
  <2>1. ASSUME NEW u \in Loaders, u /= t, stage'[u] \in Initialising \union {"unlock"}
        PROVE  mutex' = u
    <3>1. mutex = u
      BY <1>1, <1>2, <2>1 DEF HeldWhile
    <3>2. mutex /= Nobody /\ stage[t] /= "unlock"
      BY <1>1, <2>1, <3>1, LoadersAssumption DEF HeldWhile
    <3>3. QED
      BY <3>1, <3>2
  <2>2. stage'[t] \in Initialising \union {"unlock"} => mutex' = t
    BY <1>2
  <2>3. QED
    BY <2>1, <2>2 DEF HeldWhile
<1>5. SetUpSoFar'
  BY <1>1, <1>2 DEF SetUpSoFar
<1>6. FoundIsSetUp'
  BY <1>1, <1>2 DEF FoundIsSetUp
<1>7. OnTheWay' \subseteq OnTheWay
  BY <1>2 DEF OnTheWay
<1>8. RoomForContexts'
  BY <1>1, <1>7, RoomStays DEF LibraryTypes
<1>9. InTurns'
  <2>1. \A u \in Loaders : stage'[u] /= "out" => stage[u] /= "out"
    BY <1>2
  <2>2. QED
    BY <1>1, <1>7, <2>1 DEF InTurns
<1>10. FreedHalfway'
  BY <1>1 DEF FreedHalfway
<1>11. QED
  BY <1>3, <1>4, <1>5, <1>6, <1>8, <1>9, <1>10 DEF SetUpInv

\* Steps of the thread that initialises.
LEMMA InitialisingKeeps ==
    ASSUME SetUpInv, NEW t \in Loaders, NEW label \in {"env", "key", "unlock"}, moveTo(t, label),
           stage[t] \in Initialising, mutex' = mutex,
           label = "env" => libHandle' /\ ~initialized',
           label = "key" => libHandle' /\ envHandle' = "live" /\ ~initialized',
           initialized' => libHandle' /\ envHandle' = "live" /\ key',
           envHandle' = "freed" => envHandle = "freed" \/ halfway',
           halfway => halfway', shared' \in Nat,
           UNCHANGED <<oneByOne, attempts, mine, told, current, contexts, exiting, freedTwice>>
    PROVE  SetUpInv'
<1>1. /\ LibraryTypes /\ HeldWhile /\ SetUpSoFar /\ FoundIsSetUp /\ RoomForContexts /\ InTurns /\ FreedHalfway
  BY DEF SetUpInv
<1>2. /\ stage' \in [Loaders -> Stages] /\ stage'[t] = label
      /\ \A u \in Loaders : u /= t => stage'[u] = stage[u]
  BY <1>1, MovedOn DEF Stages
<1>3. LibraryTypes'
  BY <1>1, <1>2 DEF LibraryTypes
<1>4. mutex = t /\ \A u \in Loaders : u /= t => stage[u] \notin Initialising \union {"unlock"}
  BY <1>1 DEF HeldWhile
<1>5. HeldWhile'
  BY <1>2, <1>4 DEF HeldWhile
<1>6. SetUpSoFar'
  BY <1>2, <1>4 DEF SetUpSoFar, Initialising
<1>7. FoundIsSetUp'
  <2>1. ~initialized
    BY <1>1 DEF SetUpSoFar
  <2>2. QED
    BY <1>1, <1>2, <2>1 DEF FoundIsSetUp
<1>8. OnTheWay' \subseteq OnTheWay
  BY <1>2 DEF OnTheWay, Initialising
<1>9. RoomForContexts'
  BY <1>1, <1>8, RoomStays DEF LibraryTypes
<1>10. InTurns'
  <2>1. \A u \in Loaders : stage'[u] /= "out" => stage[u] /= "out"
    BY <1>2 DEF Initialising
  <2>2. QED
    BY <1>1, <1>8, <2>1 DEF InTurns
<1>11. FreedHalfway'
  BY <1>1 DEF FreedHalfway
<1>12. QED
  BY <1>3, <1>5, <1>6, <1>7, <1>9, <1>10, <1>11 DEF SetUpInv

LEMMA ConnectSetUp ==
    ASSUME SetUpInv, NEW t \in Loaders, Connect(t)
    PROVE  SetUpInv'
<1> DEFINE label == IF current = 0 THEN "create" ELSE "call"
<1>1. /\ LibraryTypes /\ HeldWhile /\ SetUpSoFar /\ FoundIsSetUp /\ RoomForContexts /\ InTurns /\ FreedHalfway
  BY DEF SetUpInv
<1>2. /\ stage[t] = "out" /\ (oneByOne => \A u \in Loaders : stage[u] = "out")
      /\ told' = [told EXCEPT ![t] = 0] /\ moveTo(t, label)
      /\ UNCHANGED <<mutex, initialized, libHandle, envHandle, key, oneByOne, attempts, shared, mine,
                     current, contexts, exiting, freedTwice, halfway>>
  BY DEF Connect, standsAt, globals, atExit
<1>3. /\ stage' \in [Loaders -> Stages] /\ stage'[t] = label
      /\ \A u \in Loaders : u /= t => stage'[u] = stage[u]
  BY <1>1, <1>2, MovedOn DEF Stages
<1>4. label \in {"create", "call"} /\ (label = "call" => current /= 0)
  OBVIOUS
<1> HIDE DEF label
<1>5. LibraryTypes'
  <2>1. told' \in [Loaders -> Nat]
    BY <1>1, <1>2 DEF LibraryTypes
  <2>2. QED
    BY <1>1, <1>2, <1>3, <2>1 DEF LibraryTypes
<1>6. HeldWhile'
  BY <1>1, <1>2, <1>3, <1>4 DEF HeldWhile, Initialising
<1>7. SetUpSoFar'
  BY <1>1, <1>2, <1>3, <1>4 DEF SetUpSoFar, Initialising
<1>8. FoundIsSetUp'
  BY <1>1, <1>2, <1>3, <1>4 DEF FoundIsSetUp
<1>9. RoomForContexts'
  <2>1. CASE current = 0
    BY <1>1, <1>2, <2>1, RoomAtFirst DEF RoomForContexts
  <2>2. CASE current /= 0
    <3>1. stage'[t] = "call"
      BY <1>3, <2>2 DEF label
    <3>2. OnTheWay' \subseteq OnTheWay
      BY <1>3, <3>1 DEF OnTheWay
    <3>3. QED
      BY <1>1, <1>2, <3>2, RoomStays DEF LibraryTypes
  <2>3. QED
    BY <2>1, <2>2
<1>10. InTurns'
  <2> SUFFICES ASSUME oneByOne PROVE InTurns'
    BY <1>2 DEF InTurns
  <2>1. \A u \in Loaders : stage'[u] /= "out" => u = t
    BY <1>2, <1>3
  <2>2. OnTheWay' /= {} => contexts' = 0
    <3>1. CASE current = 0
      BY <1>1, <1>2, <3>1 DEF RoomForContexts
    <3>2. CASE current /= 0
      <4>1. stage'[t] = "call"
        BY <1>3, <3>2 DEF label
      <4>2. QED
        BY <2>1, <4>1 DEF OnTheWay
    <3>3. QED
      BY <3>1, <3>2
  <2>3. contexts' <= 1
    BY <1>1, <1>2 DEF InTurns
  <2>4. QED
    BY <2>1, <2>2, <2>3 DEF InTurns
<1>11. FreedHalfway'
  BY <1>1, <1>2 DEF FreedHalfway
<1>12. QED
  BY <1>5, <1>6, <1>7, <1>8, <1>9, <1>10, <1>11 DEF SetUpInv

LEMMA CreateContextSetUp ==
    ASSUME SetUpInv, NEW t \in Loaders, CreateContext(t)
    PROVE  SetUpInv'
<1>1. /\ LibraryTypes /\ HeldWhile /\ SetUpSoFar /\ FoundIsSetUp /\ RoomForContexts /\ InTurns /\ FreedHalfway
  BY DEF SetUpInv
<1>2. /\ stage[t] = "buffer" /\ moveTo(t, "out") /\ contexts' = contexts + 1 /\ current' = contexts'
      /\ UNCHANGED <<mutex, initialized, libHandle, envHandle, key, oneByOne, attempts, shared, mine, told,
                     exiting, freedTwice, halfway>>
  BY DEF CreateContext, standsAt, globals, errors, atExit
<1>3. /\ stage' \in [Loaders -> Stages] /\ stage'[t] = "out"
      /\ \A u \in Loaders : u /= t => stage'[u] = stage[u]
  BY <1>1, <1>2, MovedOn DEF Stages
<1>4. LibraryTypes'
  BY <1>1, <1>2, <1>3 DEF LibraryTypes
<1>5. HeldWhile'
  BY <1>1, <1>2, <1>3 DEF HeldWhile, Initialising
<1>6. SetUpSoFar'
  BY <1>1, <1>2, <1>3 DEF SetUpSoFar, Initialising
<1>7. FoundIsSetUp'
  BY <1>1, <1>2, <1>3 DEF FoundIsSetUp
<1>8. t \in OnTheWay /\ OnTheWay' = OnTheWay \ {t}
  BY <1>2, <1>3 DEF OnTheWay
<1>9. RoomForContexts'
  <2>1. IsFiniteSet(OnTheWay) /\ Cardinality(OnTheWay) \in Nat
    BY OnTheWayIsFinite
  <2>2. Cardinality(OnTheWay') = Cardinality(OnTheWay) - 1
    BY <1>8, <2>1, FS_RemoveElement
  <2>3. Cardinality(Loaders) \in Nat /\ contexts \in Nat
    BY <1>1, LoadersAssumption, FS_CardinalityType DEF LibraryTypes
  <2>4. contexts' + Cardinality(OnTheWay') <= Cardinality(Loaders)
    BY <1>1, <1>2, <2>1, <2>2, <2>3 DEF RoomForContexts
  <2>5. QED
    BY <1>2, <2>4 DEF RoomForContexts
<1>10. InTurns'
  <2> SUFFICES ASSUME oneByOne PROVE InTurns'
    BY <1>2 DEF InTurns
  <2>1. \A u \in Loaders : stage'[u] = "out"
    BY <1>1, <1>2, <1>3 DEF InTurns
  <2>2. contexts' = 1
    BY <1>1, <1>2, <1>8 DEF InTurns
  <2>3. OnTheWay' = {}
    BY <2>1 DEF OnTheWay
  <2>4. QED
    BY <2>1, <2>2, <2>3 DEF InTurns
<1>11. FreedHalfway'
  BY <1>1, <1>2 DEF FreedHalfway
<1>12. QED
  BY <1>4, <1>5, <1>6, <1>7, <1>9, <1>10, <1>11 DEF SetUpInv

LEMMA FinalizeSetUp ==
    ASSUME SetUpInv, Finalize
    PROVE  SetUpInv'
<1>1. /\ LibraryTypes /\ HeldWhile /\ SetUpSoFar /\ FoundIsSetUp /\ RoomForContexts /\ InTurns /\ FreedHalfway
  BY DEF SetUpInv
<1>2. /\ mutex = Nobody /\ exiting' = TRUE /\ initialized' = FALSE /\ envHandle' = "null"
      /\ freedTwice' = (envHandle = "freed")
      /\ UNCHANGED <<stage, oneByOne, mutex, attempts, shared, mine, told, current, contexts, halfway>>
  BY DEF Finalize, errors
<1>3. \A u \in Loaders : stage[u] \notin Initialising
  BY <1>1, <1>2, LoadersAssumption DEF HeldWhile
<1>4. LibraryTypes' /\ HeldWhile' /\ FoundIsSetUp' /\ FreedHalfway'
  BY <1>1, <1>2 DEF LibraryTypes, HeldWhile, FoundIsSetUp, FreedHalfway
<1>5. SetUpSoFar'
  BY <1>2, <1>3 DEF SetUpSoFar, Initialising
<1>6. OnTheWay' = OnTheWay
  BY <1>2 DEF OnTheWay
<1>7. RoomForContexts' /\ InTurns'
  BY <1>1, <1>2, <1>6 DEF RoomForContexts, InTurns
<1>8. QED
  BY <1>4, <1>5, <1>7 DEF SetUpInv

-----------------------------------------------------------------------------
\* What a thread is told.

\* Steps that report nothing and begin nothing.
LEMMA ToldStays ==
    ASSUME LibraryInv, NEW t \in Loaders, NEW label \in Stages, moveTo(t, label), stage[t] /= "out",
           label \in Initialising => stage[t] \in Initialising,
           label \in {"unlock", "again", "failed"} => initialized' \/ stage[t] \in {"unlock", "again"},
           label = "failed" => ~initialized',
           stage[t] \in Initialising /\ label \notin Initialising => initialized',
           initialized => initialized',
           UNCHANGED <<oneByOne, shared, mine, told, attempts, nothing, exiting>>
    PROVE  Told' /\ SinceLast'
<1>1. LibraryTypes /\ InTurns /\ Told /\ SinceLast
  BY DEF LibraryInv, SetUpInv
<1>2. /\ stage' \in [Loaders -> Stages] /\ stage'[t] = label
      /\ \A u \in Loaders : u /= t => stage'[u] = stage[u]
  BY <1>1, MovedOn
<1>3. oneByOne => \A u \in Loaders : u /= t => stage[u] = "out"
  BY <1>1 DEF InTurns
<1>4. \A u \in Loaders : stage'[u] /= "out" => told'[u] = 0
  BY <1>1, <1>2 DEF Told
<1>5. ASSUME oneByOne', ~exiting', NEW u \in Loaders
      PROVE  /\ Since(told[u], mine[u])'
             /\ stage'[u] \in Initialising => mine'[u] = attempts' /\ Since(shared, attempts - 1)'
             /\ stage'[u] \in {"unlock", "again", "failed"} /\ ~initialized' => mine'[u] = attempts'
             /\ stage'[u] = "failed" => ~initialized'
  <2>1. Since(told[u], mine[u])'
    BY <1>1, <1>5 DEF Told, Since
  <2>2. CASE u = t
    BY <1>1, <1>2, <1>5, <2>1, <2>2 DEF Told, Since
  <2>3. CASE u /= t
    <3>1. stage'[u] = "out"
      BY <1>2, <1>3, <1>5, <2>3
    <3>2. QED
      BY <2>1, <3>1 DEF Initialising
  <2>4. QED
    BY <2>2, <2>3
<1>6. Told'
  BY <1>4, <1>5 DEF Told
<1>7. SinceLast'
  <2> SUFFICES ASSUME oneByOne, ~exiting, ~initialized', \A u \in Loaders : stage'[u] \notin Initialising
               PROVE  Since(shared, attempts)'
    BY DEF SinceLast
  <2>1. \A u \in Loaders : stage[u] \notin Initialising
    BY <1>2, <1>3 DEF Initialising
  <2>2. QED
    BY <1>1, <2>1 DEF SinceLast, Since
<1>8. QED
  BY <1>6, <1>7

\* The attempt fails: it is reported, or no library was found.
LEMMA Reported ==
    ASSUME LibraryInv, NEW t \in Loaders, moveTo(t, "unlock"), stage[t] \in Initialising,
           nothing \subseteq nothing', shared' = mine[t] \/ (shared' = shared /\ mine[t] \in nothing'),
           UNCHANGED <<oneByOne, initialized, mine, told, attempts, exiting>>
    PROVE  Told' /\ SinceLast'
<1>1. LibraryTypes /\ InTurns /\ Told /\ SinceLast /\ SetUpSoFar
  BY DEF LibraryInv, SetUpInv
<1>2. /\ stage' \in [Loaders -> Stages] /\ stage'[t] = "unlock"
      /\ \A u \in Loaders : u /= t => stage'[u] = stage[u]
  BY <1>1, MovedOn DEF Stages
<1>3. stage[t] /= "out"
  BY DEF Initialising
<1>4. oneByOne => \A u \in Loaders : u /= t => stage[u] = "out"
  BY <1>1, <1>3 DEF InTurns
<1>5. oneByOne /\ ~exiting => mine[t] = attempts /\ Since(shared, attempts - 1)
  BY <1>1 DEF Told
<1>6. oneByOne /\ ~exiting => Since(shared, attempts)'
  <2> SUFFICES ASSUME oneByOne, ~exiting, shared' > 0, NEW k \in (shared' + 1)..attempts
               PROVE  k \in nothing'
    BY DEF Since
  <2>1. attempts \in Nat /\ shared \in Nat
    BY <1>1 DEF LibraryTypes
  <2>2. CASE shared' = mine[t]
    BY <1>5, <2>1, <2>2
  <2>3. CASE shared' = shared /\ mine[t] \in nothing'
    <3>1. CASE k = attempts
      BY <1>5, <2>3, <3>1
    <3>2. CASE k /= attempts
      <4>1. k \in (shared + 1)..(attempts - 1)
        BY <2>1, <2>3, <3>2
      <4>2. QED
        BY <1>5, <2>3, <4>1 DEF Since
    <3>3. QED
      BY <3>1, <3>2
  <2>4. QED
    BY <2>2, <2>3
<1>7. \A u \in Loaders : stage'[u] /= "out" => told'[u] = 0
  BY <1>1, <1>2, <1>3 DEF Told
<1>8. ASSUME oneByOne', ~exiting', NEW u \in Loaders
      PROVE  /\ Since(told[u], mine[u])'
             /\ stage'[u] \in Initialising => mine'[u] = attempts' /\ Since(shared, attempts - 1)'
             /\ stage'[u] \in {"unlock", "again", "failed"} /\ ~initialized' => mine'[u] = attempts'
             /\ stage'[u] = "failed" => ~initialized'
  <2>1. Since(told[u], mine[u])'
    BY <1>1, <1>8 DEF Told, Since
  <2>2. stage'[u] = "out" \/ (u = t /\ stage'[u] = "unlock")
    BY <1>2, <1>4, <1>8
  <2>3. QED
    BY <1>5, <1>8, <2>1, <2>2 DEF Initialising
<1>9. QED
  BY <1>6, <1>7, <1>8 DEF Told, SinceLast

LEMMA ConnectTold ==
    ASSUME LibraryInv, NEW t \in Loaders, Connect(t)
    PROVE  Told' /\ SinceLast'
<1>1. LibraryTypes /\ Told /\ SinceLast
  BY DEF LibraryInv, SetUpInv
<1>2. /\ stage[t] = "out" /\ (oneByOne => \A u \in Loaders : stage[u] = "out")
      /\ told' = [told EXCEPT ![t] = 0]
      /\ UNCHANGED <<initialized, oneByOne, attempts, shared, mine, nothing, exiting>>
  BY DEF Connect, standsAt, globals, atExit
<1>3. /\ stage'[t] \in {"create", "call"}
      /\ \A u \in Loaders : u /= t => stage'[u] = stage[u]
  BY <1>1, MovedOn DEF Connect, Stages
<1>4. /\ told'[t] = 0 /\ \A u \in Loaders : u /= t => told'[u] = told[u]
  BY <1>1, <1>2 DEF LibraryTypes
<1>5. \A u \in Loaders : stage'[u] /= "out" => told'[u] = 0
  BY <1>1, <1>3, <1>4 DEF Told
<1>6. ASSUME oneByOne', ~exiting', NEW u \in Loaders
      PROVE  /\ Since(told[u], mine[u])'
             /\ stage'[u] \in {"out", "create", "call"}
  BY <1>1, <1>2, <1>3, <1>4, <1>6 DEF Told, Since
<1>7. Told'
  BY <1>5, <1>6 DEF Told, Initialising
<1>8. SinceLast'
  <2> SUFFICES ASSUME oneByOne, ~exiting, ~initialized
               PROVE  Since(shared, attempts)'
    BY <1>2 DEF SinceLast
  <2>1. \A u \in Loaders : stage[u] \notin Initialising
    BY <1>2 DEF Initialising
  <2>2. QED
    BY <1>1, <1>2, <2>1 DEF SinceLast, Since
<1>9. QED
  BY <1>7, <1>8

\* An attempt begins.
LEMMA BeginTold ==
    ASSUME LibraryInv, NEW t \in Loaders, Lock(t), ~initialized
    PROVE  Told' /\ SinceLast'
<1>1. LibraryTypes /\ InTurns /\ Told /\ SinceLast
  BY DEF LibraryInv, SetUpInv
<1>2. /\ stage[t] = "lock" /\ attempts' = attempts + 1 /\ mine' = [mine EXCEPT ![t] = attempts'] /\ moveTo(t, "load")
      /\ UNCHANGED <<initialized, oneByOne, shared, told, nothing, exiting>>
  BY DEF Lock, standsAt, atExit
<1>3. /\ stage'[t] = "load"
      /\ \A u \in Loaders : u /= t => stage'[u] = stage[u]
  BY <1>1, <1>2, MovedOn DEF Stages
<1>4. mine'[t] = attempts + 1 /\ (\A u \in Loaders : u /= t => mine'[u] = mine[u]) /\ told[t] = 0
  BY <1>1, <1>2 DEF LibraryTypes, Told
<1>5. oneByOne => \A u \in Loaders : u /= t => stage[u] = "out"
  BY <1>1, <1>2 DEF InTurns
<1>6. oneByOne /\ ~exiting => Since(shared, attempts - 1)'
  <2>1. oneByOne => \A u \in Loaders : stage[u] \notin Initialising
    BY <1>2, <1>5 DEF Initialising
  <2>2. attempts' - 1 = attempts
    BY <1>1, <1>2 DEF LibraryTypes
  <2>3. QED
    BY <1>1, <1>2, <2>1, <2>2 DEF SinceLast, Since
<1>7. \A u \in Loaders : stage'[u] /= "out" => told'[u] = 0
  BY <1>1, <1>2, <1>3, <1>4 DEF Told
<1>8. ASSUME oneByOne', ~exiting', NEW u \in Loaders
      PROVE  /\ Since(told[u], mine[u])'
             /\ stage'[u] \in Initialising => mine'[u] = attempts' /\ Since(shared, attempts - 1)'
             /\ stage'[u] \notin {"unlock", "again", "failed"}
  <2>1. CASE u = t
    BY <1>2, <1>3, <1>4, <1>6, <1>8, <2>1 DEF Since
  <2>2. CASE u /= t
    <3>1. stage'[u] = "out"
      BY <1>2, <1>3, <1>5, <1>8, <2>2
    <3>2. Since(told[u], mine[u])'
      BY <1>1, <1>2, <1>4, <1>8, <2>2 DEF Told, Since
    <3>3. QED
      BY <3>1, <3>2 DEF Initialising
  <2>3. QED
    BY <2>1, <2>2
<1>9. Told'
  BY <1>7, <1>8 DEF Told
<1>10. SinceLast'
  BY <1>3 DEF SinceLast, Initialising
<1>11. QED
  BY <1>9, <1>10

\* What the buffer says is handed out.
LEMMA FailTold ==
    ASSUME LibraryInv, NEW t \in Loaders, Fail(t)
    PROVE  Told' /\ SinceLast'
<1>1. LibraryTypes /\ InTurns /\ Told /\ SinceLast
  BY DEF LibraryInv, SetUpInv
<1>2. /\ stage[t] = "failed" /\ told' = [told EXCEPT ![t] = shared] /\ moveTo(t, "out")
      /\ UNCHANGED <<initialized, oneByOne, attempts, shared, mine, nothing, exiting>>
  BY DEF Fail, standsAt, globals, atExit
<1>3. /\ stage'[t] = "out"
      /\ \A u \in Loaders : u /= t => stage'[u] = stage[u]
  BY <1>1, <1>2, MovedOn DEF Stages
<1>4. told'[t] = shared /\ \A u \in Loaders : u /= t => told'[u] = told[u]
  BY <1>1, <1>2 DEF LibraryTypes
<1>5. oneByOne => \A u \in Loaders : u /= t => stage[u] = "out"
  BY <1>1, <1>2 DEF InTurns
<1>6. oneByOne /\ ~exiting => mine[t] = attempts /\ ~initialized
  BY <1>1, <1>2 DEF Told
<1>7. oneByOne /\ ~exiting => Since(shared, attempts)
  <2>1. oneByOne => \A u \in Loaders : stage[u] \notin Initialising
    BY <1>2, <1>5 DEF Initialising
  <2>2. QED
    BY <1>1, <1>6, <2>1 DEF SinceLast
<1>8. \A u \in Loaders : stage'[u] /= "out" => told'[u] = 0
  BY <1>1, <1>3, <1>4 DEF Told
<1>9. ASSUME oneByOne', ~exiting', NEW u \in Loaders
      PROVE  Since(told[u], mine[u])' /\ stage'[u] = "out"
  <2>1. CASE u = t
    BY <1>2, <1>3, <1>4, <1>6, <1>7, <1>9, <2>1 DEF Since
  <2>2. CASE u /= t
    BY <1>1, <1>2, <1>3, <1>4, <1>5, <1>9, <2>2 DEF Told, Since
  <2>3. QED
    BY <2>1, <2>2
<1>10. Told'
  BY <1>8, <1>9 DEF Told, Initialising
<1>11. SinceLast'
  BY <1>2, <1>7 DEF SinceLast, Since
<1>12. QED
  BY <1>10, <1>11

-----------------------------------------------------------------------------
\* Every step keeps the invariant.

LEMMA LoadLibKeeps ==
    ASSUME LibraryInv, NEW t \in Loaders, NEW loaded, LoadLib(t, loaded)
    PROVE  LibraryInv'
<1>1. /\ stage[t] = "load" /\ stage[t] \in Initialising /\ stage[t] /= "out"
      /\ nothing' = IF loaded = "none" THEN nothing \union {mine[t]} ELSE nothing
      /\ UNCHANGED <<oneByOne, mutex, initialized, envHandle, key, attempts, mine, told,
                     current, contexts, exiting, freedTwice, halfway>>
  BY DEF LoadLib, standsAt, Initialising, atExit
<1>2. ~initialized /\ mine[t] \in Nat /\ shared \in Nat
  BY <1>1 DEF LibraryInv, SetUpInv, SetUpSoFar, LibraryTypes
<1>3. CASE libHandle'
  <2>1. moveTo(t, "env") /\ shared' = shared /\ nothing' = nothing
    BY <1>3 DEF LoadLib
  <2>2. SetUpInv'
    BY <1>1, <1>2, <1>3, <2>1, InitialisingKeeps DEF LibraryInv
  <2>3. Told' /\ SinceLast'
    BY <1>1, <1>2, <2>1, ToldStays DEF Stages, Initialising
  <2>4. QED
    BY <2>2, <2>3 DEF LibraryInv
<1>4. CASE ~libHandle'
  <2>1. moveTo(t, "unlock") /\ (shared' = mine[t] \/ (shared' = shared /\ loaded = "none"))
    BY <1>4 DEF LoadLib, Report
  <2>2. SetUpInv'
    BY <1>1, <1>2, <2>1, InitialisingKeeps DEF LibraryInv
  <2>3. nothing \subseteq nothing' /\ (loaded = "none" => mine[t] \in nothing')
    BY <1>1
  <2>4. Told' /\ SinceLast'
    BY <1>1, <2>1, <2>3, Reported
  <2>5. QED
    BY <2>2, <2>4 DEF LibraryInv
<1>5. QED
  BY <1>3, <1>4

LEMMA CreateEnvKeeps ==
    ASSUME LibraryInv, NEW t \in Loaders, NEW created \in BOOLEAN, NEW ok \in BOOLEAN,
           CreateEnv(t, created, ok)
    PROVE  LibraryInv'
<1>1. /\ stage[t] = "env" /\ stage[t] \in Initialising /\ stage[t] /= "out" /\ (ok => created)
      /\ envHandle' = IF created THEN "live" ELSE "null"
      /\ UNCHANGED <<oneByOne, mutex, initialized, libHandle, key, attempts, mine, told, nothing,
                     current, contexts, exiting, freedTwice, halfway>>
  BY DEF CreateEnv, standsAt, Initialising, atExit
<1>2. ~initialized /\ libHandle /\ mine[t] \in Nat /\ shared \in Nat
  BY <1>1 DEF LibraryInv, SetUpInv, SetUpSoFar, LibraryTypes
<1>3. CASE ok
  <2>1. moveTo(t, "key") /\ shared' = shared /\ envHandle' = "live"
    BY <1>1, <1>3 DEF CreateEnv
  <2>2. SetUpInv'
    BY <1>1, <1>2, <2>1, InitialisingKeeps DEF LibraryInv
  <2>3. Told' /\ SinceLast'
    BY <1>1, <1>2, <2>1, ToldStays DEF Stages, Initialising
  <2>4. QED
    BY <2>2, <2>3 DEF LibraryInv
<1>4. CASE ~ok
  <2>1. moveTo(t, "unlock") /\ shared' = mine[t] /\ envHandle' /= "freed"
    BY <1>1, <1>4 DEF CreateEnv
  <2>2. SetUpInv'
    BY <1>1, <1>2, <2>1, InitialisingKeeps DEF LibraryInv
  <2>3. Told' /\ SinceLast'
    BY <1>1, <2>1, Reported
  <2>4. QED
    BY <2>2, <2>3 DEF LibraryInv
<1>5. QED
  BY <1>3, <1>4

LEMMA CreateKeyKeeps ==
    ASSUME LibraryInv, NEW t \in Loaders, NEW ok \in BOOLEAN, CreateKey(t, ok)
    PROVE  LibraryInv'
<1>1. /\ stage[t] = "key" /\ stage[t] \in Initialising /\ stage[t] /= "out" /\ moveTo(t, "unlock")
      /\ UNCHANGED <<oneByOne, mutex, libHandle, attempts, mine, told, nothing, current, contexts,
                     exiting, freedTwice>>
  BY DEF CreateKey, standsAt, Initialising
<1>2. ~initialized /\ libHandle /\ envHandle = "live" /\ mine[t] \in Nat /\ shared \in Nat
  BY <1>1 DEF LibraryInv, SetUpInv, SetUpSoFar, LibraryTypes
<1>3. CASE ok
  <2>1. /\ key' = TRUE /\ initialized' = TRUE /\ UNCHANGED <<envHandle, shared, halfway>>
    BY <1>3 DEF CreateKey
  <2>2. SetUpInv'
    BY <1>1, <1>2, <2>1, InitialisingKeeps DEF LibraryInv
  <2>3. Told' /\ SinceLast'
    BY <1>1, <1>2, <2>1, ToldStays DEF Stages, Initialising
  <2>4. QED
    BY <2>2, <2>3 DEF LibraryInv
<1>4. CASE ~ok
  <2>1. envHandle' = "freed" /\ halfway' = TRUE /\ shared' = mine[t] /\ UNCHANGED <<key, initialized>>
    BY <1>4 DEF CreateKey, Report
  <2>2. SetUpInv'
    BY <1>1, <1>2, <2>1, InitialisingKeeps DEF LibraryInv
  <2>3. Told' /\ SinceLast'
    BY <1>1, <2>1, Reported
  <2>4. QED
    BY <2>2, <2>3 DEF LibraryInv
<1>5. QED
  BY <1>3, <1>4

LEMMA LockKeeps ==
    ASSUME LibraryInv, NEW t \in Loaders, Lock(t)
    PROVE  LibraryInv'
<1>1. /\ stage[t] = "lock" /\ mutex = Nobody /\ mutex' = t
      /\ UNCHANGED <<oneByOne, initialized, libHandle, envHandle, key, shared, told, nothing,
                     current, contexts, exiting, freedTwice, halfway>>
  BY DEF Lock, standsAt, atExit
<1>2. LibraryTypes
  BY DEF LibraryInv, SetUpInv
<1>3. CASE initialized
  <2>1. moveTo(t, "unlock") /\ UNCHANGED <<attempts, mine>>
    BY <1>3 DEF Lock
  <2>2. SetUpInv'
    BY <1>1, <1>2, <2>1, MovingKeeps DEF LibraryInv, LibraryTypes, Stages, Initialising
  <2>3. Told' /\ SinceLast'
    BY <1>1, <1>3, <2>1, ToldStays DEF Stages, Initialising
  <2>4. QED
    BY <2>2, <2>3 DEF LibraryInv
<1>4. CASE ~initialized
  <2>1. moveTo(t, "load") /\ attempts' = attempts + 1 /\ mine' = [mine EXCEPT ![t] = attempts']
    BY <1>4 DEF Lock
  <2>2. attempts' \in Nat /\ mine' \in [Loaders -> Nat]
    BY <1>2, <2>1 DEF LibraryTypes
  <2>3. SetUpInv'
    BY <1>1, <1>2, <1>4, <2>1, <2>2, MovingKeeps DEF LibraryInv, LibraryTypes, Stages, Initialising
  <2>4. Told' /\ SinceLast'
    BY <1>4, BeginTold
  <2>5. QED
    BY <2>3, <2>4 DEF LibraryInv
<1>5. QED
  BY <1>3, <1>4

\* Steps that look, give up the mutex, or return.
LEMMA LookingKeeps ==
    ASSUME LibraryInv, NEW t \in Loaders, Look(t) \/ Unlock(t) \/ LookAgain(t) \/ CallFunction(t)
    PROVE  LibraryInv'
<1>1. /\ LibraryTypes /\ FoundIsSetUp
  BY DEF LibraryInv, SetUpInv
<1>2. PICK label \in Stages :
         /\ moveTo(t, label) /\ stage[t] /= "out" /\ stage[t] \notin Initialising
         /\ stage[t] = "call" => label = "out"
         /\ label \in {"lock", "again", "buffer", "failed", "out"}
         /\ label = "buffer" => initialized
         /\ label = "failed" => ~initialized
         /\ label \in {"again", "failed"} => stage[t] \in {"unlock", "again"}
  BY DEF Look, Unlock, LookAgain, CallFunction, standsAt, Stages, Initialising
<1>3. mutex' = mutex \/ stage[t] = "unlock"
  BY DEF Look, Unlock, LookAgain, CallFunction, standsAt, globals
<1>4. UNCHANGED <<oneByOne, initialized, libHandle, envHandle, key, attempts, shared, mine, told, nothing,
                  current, contexts, exiting, freedTwice, halfway>>
  BY DEF Look, Unlock, LookAgain, CallFunction, globals, errors, atExit
<1>5. SetUpInv'
  BY <1>1, <1>2, <1>3, <1>4, MovingKeeps DEF LibraryInv, LibraryTypes, Initialising
<1>6. Told' /\ SinceLast'
  BY <1>2, <1>4, ToldStays DEF Initialising
<1>7. QED
  BY <1>5, <1>6 DEF LibraryInv

LEMMA FailKeeps ==
    ASSUME LibraryInv, NEW t \in Loaders, Fail(t)
    PROVE  LibraryInv'
<1>1. LibraryTypes
  BY DEF LibraryInv, SetUpInv
<1>2. /\ stage[t] = "failed" /\ moveTo(t, "out") /\ told' = [told EXCEPT ![t] = shared]
      /\ UNCHANGED <<oneByOne, mutex, initialized, libHandle, envHandle, key, attempts, shared, mine,
                     current, contexts, exiting, freedTwice, halfway>>
  BY DEF Fail, standsAt, globals, atExit
<1>3. told' \in [Loaders -> Nat]
  BY <1>1, <1>2 DEF LibraryTypes
<1>4. SetUpInv'
  BY <1>1, <1>2, <1>3, MovingKeeps DEF LibraryInv, LibraryTypes, Stages, Initialising
<1>5. QED
  BY <1>4, FailTold DEF LibraryInv

LEMMA CreateContextKeeps ==
    ASSUME LibraryInv, NEW t \in Loaders, CreateContext(t)
    PROVE  LibraryInv'
<1>1. /\ stage[t] = "buffer" /\ moveTo(t, "out")
      /\ UNCHANGED <<oneByOne, initialized, attempts, shared, mine, told, nothing, exiting>>
  BY DEF CreateContext, standsAt, globals, errors, atExit
<1>2. Told' /\ SinceLast'
  BY <1>1, ToldStays DEF Stages, Initialising
<1>3. QED
  BY <1>2, CreateContextSetUp DEF LibraryInv

LEMMA FinalizeKeeps ==
    ASSUME LibraryInv, Finalize
    PROVE  LibraryInv'
<1>1. exiting' = TRUE /\ UNCHANGED <<stage, told>>
  BY DEF Finalize, errors
<1>2. Told' /\ SinceLast'
  BY <1>1 DEF LibraryInv, Told, SinceLast
<1>3. QED
  BY <1>2, FinalizeSetUp DEF LibraryInv

LEMMA LibraryInitInv == LibraryInit => LibraryInv
<1> SUFFICES ASSUME LibraryInit PROVE LibraryInv
  OBVIOUS
<1>1. Told
  BY DEF LibraryInit, Told, Since, Initialising
<1>2. SinceLast
  BY DEF LibraryInit, SinceLast, Since
<1>3. QED
  BY <1>1, <1>2, SetUpInitInv DEF LibraryInv

LEMMA LibraryKeeps == LibraryInv /\ [LibraryNext]_libraryVars => LibraryInv'
<1> SUFFICES ASSUME LibraryInv, [LibraryNext]_libraryVars PROVE LibraryInv'
  OBVIOUS
<1>1. CASE Finalize
  BY <1>1, FinalizeKeeps
<1>2. ASSUME NEW t \in Loaders, Connect(t) PROVE LibraryInv'
  BY <1>2, ConnectSetUp, ConnectTold DEF LibraryInv
<1>3. ASSUME NEW t \in Loaders, LibraryStep(t) PROVE LibraryInv'
  <2>1. CASE Look(t) \/ Unlock(t) \/ LookAgain(t) \/ CallFunction(t)
    BY <2>1, LookingKeeps
  <2>2. CASE Lock(t)
    BY <2>2, LockKeeps
  <2>3. CASE \E loaded \in Outcomes : LoadLib(t, loaded)
    BY <2>3, LoadLibKeeps
  <2>4. CASE \E created, ok \in BOOLEAN : CreateEnv(t, created, ok)
    BY <2>4, CreateEnvKeeps
  <2>5. CASE \E ok \in BOOLEAN : CreateKey(t, ok)
    BY <2>5, CreateKeyKeeps
  <2>6. CASE Fail(t)
    BY <2>6, FailKeeps
  <2>7. CASE CreateContext(t)
    BY <2>7, CreateContextKeeps
  <2>8. QED
    BY <1>3, <2>1, <2>2, <2>3, <2>4, <2>5, <2>6, <2>7 DEF LibraryStep
<1>4. CASE UNCHANGED libraryVars
  <2>1. UNCHANGED <<stage, oneByOne, mutex, initialized, libHandle, envHandle, key, attempts, shared,
                    errorNum, mine, told, nothing, current, contexts, exiting, freedTwice, halfway>>
    BY <1>4 DEF libraryVars, globals, errors, atExit
  <2>2. OnTheWay' = OnTheWay
    BY <2>1 DEF OnTheWay
  <2>3. SetUpInv'
    BY <2>1, <2>2 DEF LibraryInv, SetUpInv, LibraryTypes, HeldWhile, SetUpSoFar, FoundIsSetUp, RoomForContexts,
                      InTurns, FreedHalfway
  <2>4. Told' /\ SinceLast'
    BY <2>1 DEF LibraryInv, Told, SinceLast, Since
  <2>5. QED
    BY <2>3, <2>4 DEF LibraryInv
<1>5. QED
  BY <1>1, <1>2, <1>3, <1>4 DEF LibraryNext

LEMMA LibraryInvariant == LibrarySpec => []LibraryInv
BY LibraryInitInv, LibraryKeeps, PTL DEF LibrarySpec

\* For any number of threads that connect for the first time, whatever fails:
\* who finds the library initialised finds all of it, in turns one context is
\* made and otherwise no more than one per thread, and the environment is
\* freed twice only after an attempt that failed halfway.
THEOREM LibrarySetUpOnce == LibrarySpec => []SetUpOnce
<1>1. LibraryInv => SetUpOnce
  <2> SUFFICES ASSUME LibraryInv PROVE SetUpOnce
    OBVIOUS
  <2>1. LibraryTypes /\ SetUpSoFar /\ FoundIsSetUp /\ RoomForContexts /\ InTurns /\ FreedHalfway
    BY DEF LibraryInv, SetUpInv
  <2>2. ReadyWhenUsed
    BY <2>1 DEF ReadyWhenUsed, SetUpSoFar, FoundIsSetUp
  <2>3. contexts <= Cardinality(Loaders)
    <3>1. contexts \in Nat /\ Cardinality(OnTheWay) \in Nat /\ Cardinality(Loaders) \in Nat
      BY <2>1, OnTheWayIsFinite, LoadersAssumption, FS_CardinalityType DEF LibraryTypes
    <3>2. QED
      BY <2>1, <3>1 DEF RoomForContexts
  <2>4. contexts <= IF oneByOne THEN 1 ELSE Cardinality(Loaders)
    BY <2>1, <2>3 DEF InTurns
  <2>5. QED
    BY <2>1, <2>2, <2>4 DEF SetUpOnce, OncePerProcess, FreedHalfway
<1>2. QED
  BY <1>1, LibraryInvariant, PTL

\* For any number of threads that take turns and any number of attempts: a
\* thread that fails is told of its own attempt, or of an earlier one that every
\* attempt since has found no library to replace.
THEOREM ReasonIsTheLast == LibrarySpec => []ReasonIsOwnOrInherited
<1>1. LibraryInv => ReasonIsOwnOrInherited
  BY DEF LibraryInv, Told, Since, ReasonIsOwnOrInherited
<1>2. QED
  BY <1>1, LibraryInvariant, PTL

-----------------------------------------------------------------------------
\* The parts of the library, checked as one sum.

LEMMA LibraryPartsBegin ==
    PartInit => Init /\ PoolInit /\ SessionInit /\ LibraryInit /\ ListInit /\ QueueInit /\ SubscrInit /\ CountInit
BY DEF PartInit

LEMMA LibraryPartsStep ==
    [PartNext]_partVars =>
        /\ [Next]_vars /\ [PoolNext]_poolVars /\ [SessionNext]_sessionVars /\ [LibraryNext]_libraryVars
        /\ [ListNext]_listVars /\ [QueueNext]_queueVars /\ [SubscrNext]_subscrVars /\ [CountNext]_countVars
BY DEF PartNext, partVars, libraryPart, messaging

\* What is checked as a sum is every part: each behaviour of the sum is one of
\* the error channel, of the pool of handles, of the sessions, of the set-up of
\* the library, of the lists, of a queue, of a subscription and of a count of
\* references, so that every theorem about one of them holds of it.
THEOREM LibrarySumIsEveryPart ==
    PartSpec => /\ Spec /\ PoolSpec /\ SessionSpec /\ LibrarySpec
                /\ ListSpec /\ QueueSpec /\ SubscrSpec /\ CountSpec
BY LibraryPartsBegin, LibraryPartsStep, PTL
   DEF PartSpec, Spec, PoolSpec, SessionSpec, LibrarySpec, ListSpec, QueueSpec, SubscrSpec, CountSpec

\* The types of the parts, for every value of the constants: among them that the
\* indices into the pool of handles and into the lists stay inside them.
THEOREM LibraryPartsAreTyped == PartSpec => []TypesOK
<1>1. PoolInv => PoolTypeOK
  BY DEF PoolInv
<1>2. ListInv => ListTypeOK
  BY DEF ListInv
<1>3. TypeOK /\ PoolTypeOK /\ SessionTypeOK /\ ListTypeOK => TypesOK
  BY DEF TypesOK
<1>4. QED
  BY <1>1, <1>2, <1>3, LibrarySumIsEveryPart, TypeCorrect, PoolInvariant, SessionsAreTyped, ListInvariant, PTL

\* The sum has the safety properties of its parts; that a record is released once
\* is of a build with the mutex.
THEOREM LibraryPartsAreSafe ==
    PartSpec => [](/\ LeftIsOwn /\ NeverStale
                   /\ PoolIsSound
                   /\ IdleIsClean /\ DeathNoticed /\ (Threaded => ReleasedOnce)
                   /\ SetUpOnce /\ ReasonIsOwnOrInherited
                   /\ ListsAreKept /\ HandedOverOnce /\ NotificationsAreSafe
                   /\ FreedWithTheLast)
<1>1. SessionSpec => [](Threaded => ReleasedOnce)
  <2>1. CASE Threaded
    BY <2>1, SessionsReleasedOnce, PTL
  <2>2. CASE ~Threaded
    <3>1. Threaded => ReleasedOnce
      BY <2>2
    <3>2. QED
      BY <3>1, PTL
  <2>3. QED
    BY <2>1, <2>2
<1>2. QED
  BY <1>1, LibrarySumIsEveryPart, OwnErrors, NeverAnOldError, RingStaysSound,
     PooledSessionsAreClean, DeathsAreNoticed, LibrarySetUpOnce, ReasonIsTheLast, ListsStayRight,
     MessagesAreHandedOverOnce, NotificationsStaySafe, HandleFreedWithTheLast, PTL

===============================================================================
