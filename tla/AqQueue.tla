------------------------------ MODULE AqQueue ------------------------------
(* A queue of advanced queuing (dpiQueue.c) with the message properties it   *)
(* hands out (dpiMsgProps.c).  The queue keeps a buffer: OCI's arrays, and a *)
(* dpiMsgProps for each element to dequeue into, which is made when the      *)
(* buffer has none there and stays for the next call when no message came.   *)
(* A call on the queue is one step, as it runs on one thread; messages come  *)
(* from other sessions in between.  The transaction a message is dequeued in *)
(* is left to the server, and is not rolled back.                            *)
EXTENDS Integers, Sequences, FiniteSets

CONSTANTS
    MaxProps,       \* dpiMsgProps there can be at once (a bound)
    MaxElements,    \* messages of one call
    MaxMessages,    \* messages sent (a bound)
    MaxQueueErrors  \* calls that fail for want of memory or in OCI (a bound)

ASSUME QueueAssumption ==
    MaxProps \in Nat /\ MaxElements \in Nat /\ MaxMessages \in Nat /\ MaxQueueErrors \in Nat

VARIABLES
    payloadKind,    \* the queue has payloads of this kind
    queueBuffer,    \* numElements, arrays allocated, whether the freed
                    \* scalarIndicators are still pointed at, and props
    msgProps,       \* who holds each dpiMsgProps, its msgIdRaw and payloads
    server, sentIds, \* messages waiting, the last id
    queueErrors,
    handedOver,     \* ids of the messages handed to the caller, in order
    withheld,       \* and those of a call that failed after it dequeued them
    known           \* what each dpiMsgProps of the caller shall hold

queueVars == <<payloadKind, queueBuffer, msgProps, server, sentIds, queueErrors,
               handedOver, withheld, known>>

PayloadKinds == {"object", "raw", "json"}
Props == 1..MaxProps
Elements == 1..MaxElements
NullProps == 0

\* Payloads: none, an instance without a message in it, one the caller set.
\* That of a message another session sent is its id.
NoPayload == 0
EmptyPayload == -1
CallersPayload == -2

Unused == [at |-> "none", id |-> 0, load |-> [k \in PayloadKinds |-> NoPayload]]
NoBuffer == [num |-> 0, arrays |-> {}, dangling |-> FALSE, props |-> [i \in Elements |-> NullProps]]

\* dpiQueue__allocate
QueueInit ==
    /\ payloadKind \in PayloadKinds /\ queueBuffer = NoBuffer
    /\ msgProps = [p \in Props |-> Unused] /\ server = <<>> /\ sentIds = 0
    /\ queueErrors = 0 /\ handedOver = <<>> /\ withheld = {}
    /\ known = [p \in Props |-> [id |-> 0, load |-> NoPayload]]

---------------------------------------------------------------------------
\* The buffer.

\* The arrays in the order they are allocated in.
Arrays == <<"props", "handles", "instances", "indicators">>
          \o (IF payloadKind = "object" THEN <<>> ELSE <<"scalarIndicators">>) \o <<"msgIds">>

\* dpiQueue__freeBuffer: the pointer to the scalar indicators is not cleared.
FreeBuffer(b) == [NoBuffer EXCEPT !.num = b.num,
                                  !.dangling = @ \/ b.dangling \/ "scalarIndicators" \in b.arrays]

\* dpiQueue__allocateBuffer, which gets the first k arrays.
AllocateBuffer(b, n, k) ==
    [FreeBuffer(b) EXCEPT !.num = n, !.arrays = {Arrays[i] : i \in 1..k}, !.dangling = @ /\ k < 4]

\* The message properties freed with the buffer: it has their only reference.
FreedWith(b) == [p \in Props |-> IF \E i \in Elements : b.props[i] = p THEN Unused ELSE msgProps[p]]

\* The buffer is too small for n messages.
TooSmall(n) == queueBuffer.num < n
BufferFor(n) == IF TooSmall(n) THEN AllocateBuffer(queueBuffer, n, Len(Arrays)) ELSE queueBuffer
PropsFor(n) == IF TooSmall(n) THEN FreedWith(queueBuffer) ELSE msgProps

\* A call for n messages finds arrays missing since the last allocation failed,
\* or frees the scalar indicators a second time: the program ends there.
Unsound(n) ==
    IF TooSmall(n) THEN queueBuffer.dangling ELSE n > 0 /\ Len(Arrays) > Cardinality(queueBuffer.arrays)

FailsOnce == queueErrors < MaxQueueErrors /\ queueErrors' = queueErrors + 1

\* A call fails to allocate the buffer.
BufferFails(n, k) ==
    /\ TooSmall(n) /\ ~Unsound(n) /\ k < Len(Arrays) /\ FailsOnce
    /\ queueBuffer' = AllocateBuffer(queueBuffer, n, k) /\ msgProps' = FreedWith(queueBuffer)
    /\ UNCHANGED <<payloadKind, server, sentIds, handedOver, withheld, known>>

\* The last reference to the queue is released (dpiQueue__free), and another is
\* made.  With the scalar indicators dangling the program ends here too.
QueueFree ==
    /\ ~queueBuffer.dangling /\ queueBuffer /= NoBuffer
    /\ queueBuffer' = NoBuffer /\ msgProps' = FreedWith(queueBuffer)
    /\ UNCHANGED <<payloadKind, server, sentIds, queueErrors, handedOver, withheld, known>>

---------------------------------------------------------------------------
\* Dequeuing.

\* How many members of a set come before x.
CountBefore(S, x) == Cardinality({y \in S : y < x})

\* Slots of the buffer with new message properties in the first n that have
\* none: the free ones in turn, as far as there are any.
Populated(sl, n, holders) ==
    LET unused == {p \in Props : holders[p].at = "none" /\ \A j \in Elements : sl[j] /= p}
        empty == {i \in 1..n : sl[i] = NullProps}
        for(i) == {p \in unused : CountBefore(unused, p) = CountBefore(empty, i)}
    IN [i \in Elements |->
           IF i \in empty /\ for(i) /= {} THEN CHOOSE p \in for(i) : TRUE ELSE sl[i]]

\* The payload to dequeue into: an object is kept, a JSON value is made anew.
ToFill(load) ==
    CASE payloadKind = "object" /\ load["object"] = NoPayload -> [load EXCEPT !["object"] = EmptyPayload]
      [] payloadKind = "json" -> [load EXCEPT !["json"] = EmptyPayload]
      [] OTHER -> load

\* Message properties with payloads in the first m of the slots.
WithPayloads(holders, sl, m) ==
    [p \in Props |->
        IF \E i \in 1..m : sl[i] = p
        THEN [holders[p] EXCEPT !.at = IF @ = "none" THEN "buffer" ELSE @, !.load = ToFill(@)]
        ELSE IF \E i \in Elements : sl[i] = p /\ holders[p].at = "none"
        THEN [holders[p] EXCEPT !.at = "buffer"] ELSE holders[p]]

\* The loop that populates the buffer fails at one of the n elements, with or
\* without message properties, or the type cannot be had after it.
DeqPopulateFails(n, i, made) ==
    /\ ~Unsound(n) /\ FailsOnce /\ i <= n /\ made \in {i, i + 1} /\ made <= n
    /\ LET sl == Populated(BufferFor(n).props, made, PropsFor(n))
       IN /\ \A j \in 1..made : sl[j] /= NullProps
          /\ queueBuffer' = [BufferFor(n) EXCEPT !.props = sl]
          /\ msgProps' = WithPayloads(PropsFor(n), sl, i)
    /\ UNCHANGED <<payloadKind, server, sentIds, handedOver, withheld, known>>

\* OCI writes the first d messages: objects and JSON values in place.
Written(holders, sl, d) ==
    [p \in Props |->
        IF payloadKind /= "raw" /\ \E i \in 1..d : sl[i] = p
        THEN [holders[p] EXCEPT !.load[payloadKind] = server[CHOOSE i \in 1..d : sl[i] = p].load]
        ELSE holders[p]]

\* MUTANT of Transferred: the buffer keeps the message properties.
TransferredKept(holders, sl, d) ==
    [holders |-> [p \in Props |->
        IF \E i \in 1..d : sl[i] = p
        THEN LET m == server[CHOOSE i \in 1..d : sl[i] = p]
             IN [holders[p] EXCEPT !.at = "caller", !.id = m.id, !.load[payloadKind] = m.load]
        ELSE holders[p]],
     slots |-> sl]

\* The transfer of the messages out of the buffer: message properties with the
\* payload and the id, and the slots left.
Transferred(holders, sl, d) ==
    [holders |-> [p \in Props |->
        IF \E i \in 1..d : sl[i] = p
        THEN LET m == server[CHOOSE i \in 1..d : sl[i] = p]
             IN [holders[p] EXCEPT !.at = "caller", !.id = m.id, !.load[payloadKind] = m.load]
        ELSE holders[p]],
     slots |-> [i \in Elements |-> IF i <= d THEN NullProps ELSE sl[i]]]

\* What the caller is told of the first d messages.
Handed(sl, d) ==
    [p \in Props |-> IF \E i \in 1..d : sl[i] = p THEN server[CHOOSE i \in 1..d : sl[i] = p]
                     ELSE known[p]]

\* dpiQueue__deq gets d of n messages.  When there are fewer, the code 25228 (no
\* more messages) is success and any other a failure, which hands over nothing.
Deq(n, d, code) ==
    LET sl == Populated(BufferFor(n).props, n, PropsFor(n))
        written == Written(WithPayloads(PropsFor(n), sl, n), sl, d)
        done == Transferred(written, sl, d)
    IN /\ ~Unsound(n) /\ d <= n /\ d <= Len(server) /\ (d = n => code = 0)
       /\ (d < n => code /= 0) /\ \A i \in 1..n : sl[i] /= NullProps
       /\ server' = SubSeq(server, d + 1, Len(server))
       /\ IF code \in {0, 25228}
          THEN /\ msgProps' = done.holders /\ known' = Handed(sl, d)
               /\ queueBuffer' = [BufferFor(n) EXCEPT !.props = done.slots]
               /\ handedOver' = handedOver \o [i \in 1..d |-> server[i].id]
               /\ UNCHANGED <<withheld, queueErrors>>
          ELSE /\ FailsOnce /\ msgProps' = written
               /\ queueBuffer' = [BufferFor(n) EXCEPT !.props = sl]
               /\ withheld' = withheld \union {server[i].id : i \in 1..d}
               /\ UNCHANGED <<known, handedOver>>
       /\ UNCHANGED <<payloadKind, sentIds>>

---------------------------------------------------------------------------
\* Enqueuing.

\* The payload that is sent: a JSON value, if there is one, from a queue of raw
\* payloads too.
Sent(p) ==
    LET load == msgProps[p].load
    IN IF payloadKind = "object" THEN load["object"]
       ELSE IF load["json"] /= NoPayload THEN load["json"] ELSE load["raw"]

\* A payload of the kind of the queue is missing, or (an object of the caller's)
\* is of another type.
Refused(ps) == \E i \in DOMAIN ps : LET load == msgProps[ps[i]].load[payloadKind]
                                   IN load = NoPayload \/ (payloadKind = "object" /\ load = CallersPayload)

\* The first e of them arrive at the server.
SentFirst(ps, e) ==
    /\ sentIds + e <= MaxMessages /\ sentIds' = sentIds + e
    /\ server' = server \o [i \in 1..e |-> [id |-> sentIds + i, load |-> Sent(ps[i])]]

EnqFails(ps, e) ==
    /\ ~Unsound(Len(ps)) /\ FailsOnce /\ e < Len(ps) /\ SentFirst(ps, e)
    /\ queueBuffer' = BufferFor(Len(ps)) /\ msgProps' = PropsFor(Len(ps))
    /\ e > 0 => \A i \in DOMAIN ps : msgProps[ps[i]].load[payloadKind] /= NoPayload
    /\ UNCHANGED <<payloadKind, handedOver, withheld, known>>

EnqRefuses(ps) ==
    /\ ~Unsound(Len(ps)) /\ Refused(ps)
    /\ queueBuffer' = BufferFor(Len(ps)) /\ msgProps' = PropsFor(Len(ps))
    /\ UNCHANGED <<payloadKind, server, sentIds, queueErrors, handedOver, withheld, known>>

\* dpiQueue__enq: the ids come back into the message properties.
Enq(ps) ==
    /\ ~Unsound(Len(ps)) /\ SentFirst(ps, Len(ps))
    /\ \A i \in DOMAIN ps : msgProps[ps[i]].load[payloadKind] /= NoPayload
    /\ queueBuffer' = BufferFor(Len(ps))
    /\ LET idOf(p) == sentIds + CHOOSE i \in DOMAIN ps : ps[i] = p /\ \A j \in DOMAIN ps : ps[j] = p => j <= i
           sent == {ps[i] : i \in DOMAIN ps}
       IN /\ msgProps' = [p \in Props |-> IF p \in sent THEN [PropsFor(Len(ps))[p] EXCEPT !.id = idOf(p)]
                                         ELSE PropsFor(Len(ps))[p]]
          /\ known' = [p \in Props |-> IF p \in sent THEN [known[p] EXCEPT !.id = idOf(p)] ELSE known[p]]
    /\ UNCHANGED <<payloadKind, queueErrors, handedOver, withheld>>

---------------------------------------------------------------------------
\* The caller's message properties, and other sessions.

Callers == {p \in Props : msgProps[p].at = "caller"}

\* dpiMsgProps__allocate
NewMsgProps(p) ==
    /\ msgProps[p].at = "none" /\ \A q \in 1..p - 1 : msgProps[q].at /= "none"
    /\ msgProps' = [msgProps EXCEPT ![p] = [Unused EXCEPT !.at = "caller"]]
    /\ known' = [known EXCEPT ![p] = [id |-> 0, load |-> NoPayload]]
    /\ UNCHANGED <<payloadKind, queueBuffer, server, sentIds, queueErrors, handedOver, withheld>>

\* dpiMsgProps_setPayloadBytes, setPayloadJson, setPayloadObject: the payloads
\* of other kinds stay.
SetPayload(p, k) ==
    /\ msgProps' = [msgProps EXCEPT ![p].load[k] = CallersPayload]
    /\ known' = IF k = payloadKind THEN [known EXCEPT ![p].load = CallersPayload] ELSE known
    /\ UNCHANGED <<payloadKind, queueBuffer, server, sentIds, queueErrors, handedOver, withheld>>

\* dpiMsgProps__free
FreeMsgProps(p) ==
    /\ msgProps' = [msgProps EXCEPT ![p] = Unused]
    /\ known' = [known EXCEPT ![p] = [id |-> 0, load |-> NoPayload]]
    /\ UNCHANGED <<payloadKind, queueBuffer, server, sentIds, queueErrors, handedOver, withheld>>

Arrives ==
    /\ sentIds < MaxMessages /\ sentIds' = sentIds + 1
    /\ server' = Append(server, [id |-> sentIds + 1, load |-> sentIds + 1])
    /\ UNCHANGED <<payloadKind, queueBuffer, msgProps, queueErrors, handedOver, withheld, known>>

QueueNext ==
    \/ QueueFree \/ Arrives
    \/ \E n \in Elements : \/ \E k \in 0..5 : BufferFails(n, k)
                           \/ \E i, made \in 0..n : DeqPopulateFails(n, i, made)
                           \/ \E d \in 0..n, code \in {0, 25228, 1} : Deq(n, d, code)
    \/ \E n \in Elements : \E ps \in [1..n -> Callers] :
           Enq(ps) \/ EnqRefuses(ps) \/ \E e \in 0..n - 1 : EnqFails(ps, e)
    \/ \E p \in Props : NewMsgProps(p)
    \/ \E p \in Callers : \/ FreeMsgProps(p) \/ SetPayload(p, payloadKind)
                         \/ (payloadKind = "raw" /\ SetPayload(p, "json"))

QueueSpec == QueueInit /\ [][QueueNext]_queueVars

---------------------------------------------------------------------------
\* The buffer is reused by every call, so that what a call hands over must have
\* left it.  Messages are handed over in the order they were sent, each once;
\* only those are not that a failing call had dequeued already.  And what the
\* caller holds stays as it is, whatever is dequeued, enqueued or freed later.
HandedOverOnce ==
    /\ \A i \in 1..Len(handedOver) - 1 : handedOver[i] < handedOver[i + 1]
    /\ LET handed == {handedOver[i] : i \in DOMAIN handedOver}
           waiting == {server[i].id : i \in DOMAIN server}
       IN /\ handed \union withheld \union waiting = 1..sentIds
          /\ handed \cap withheld = {} /\ waiting \cap (handed \union withheld) = {}
    /\ \A p \in Callers : known[p] = [id |-> msgProps[p].id, load |-> msgProps[p].load[payloadKind]]
    /\ \A i \in Elements : queueBuffer.props[i] /= NullProps => msgProps[queueBuffer.props[i]].at = "buffer"

=============================================================================
