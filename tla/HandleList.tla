----------------------------- MODULE HandleList -----------------------------
(* The list of the open handles of a connection (dpiHandleList.c), of which  *)
(* it has one for objects, one for LOBs and one for statements, with what    *)
(* puts handles on it and takes them off: dpiObject.c and dpiLob.c (closing a*)
(* statement does to its list what closing a LOB does).  Threads create,     *)
(* share, close and release handles while one of them closes the connection, *)
(* which goes through the list without its mutex.  The environment is in     *)
(* threaded mode, so that each flag and count changes in one step.           *)
EXTENDS Integers, FiniteSets

CONSTANTS
    ListUsers,      \* threads
    Listed,         \* handles, 1..n: each is used once
    SlotChunk,      \* the list grows by so many slots (8 in the code)
    MaxListFailures \* calls that fail (a bound)

NoListed == 0
ASSUME ListAssumption == Listed \subseteq Nat \ {NoListed} /\ SlotChunk \in Nat \ {0}

VARIABLES
    listKind,   \* "object" or "lob"
    listed,     \* each handle
    slots, usedSlots, currentPos, \* (only compared, so that -1 stands for 2^32 - 1)
    connState,  \* "open", "closing", "closed"
    doing,      \* how far each thread is, with which handle and slot, and what
                \* is to be done in the end
    listFailures,
    spoiled     \* slot 0 was cleared for a handle that was never added, or
                \* closing the connection has failed

slotVars == <<slots, usedSlots, currentPos>>
listVars == <<listKind, listed, slotVars, connState, doing, listFailures, spoiled>>

Starts(step, h, then) == [step |-> step, h |-> h, i |-> 0, then |-> then]
Idle0 == Starts("idle", NoListed, "back")
NotMade == [is |-> "none", held |-> FALSE, slot |-> 0, closing |-> FALSE, count |-> 0, by |-> {},
          late |-> FALSE, ociFrees |-> 0]

\* dpiHandleList__create
ListInit ==
    /\ listKind \in {"object", "lob"} /\ listed = [h \in Listed |-> NotMade]
    /\ slots = [i \in 0..SlotChunk - 1 |-> NoListed] /\ usedSlots = 0 /\ currentPos = 0
    /\ connState = "open" /\ doing = [t \in ListUsers |-> Idle0]
    /\ listFailures = 0 /\ spoiled = FALSE

NumSlots == Cardinality(DOMAIN slots)
IsIdle(t) == doing[t].step = "idle"
At(t, step) == doing[t].step = step
Goes(t, step) == doing' = [doing EXCEPT ![t].step = step]
Hand(t) == doing[t].h
FailsInList == listFailures < MaxListFailures /\ listFailures' = listFailures + 1

---------------------------------------------------------------------------
\* Creating a handle, with the OCI instance or descriptor it holds.
CreateListed(t, h) ==
    /\ IsIdle(t) /\ connState = "open" /\ listed[h].is = "none"
    /\ \A g \in Listed : g < h => listed[g].is /= "none"
    /\ listed' = [listed EXCEPT ![h].is = "live", ![h].held = TRUE, ![h].count = 1]
    /\ doing' = [doing EXCEPT ![t] = Starts("add", h, "back")]
    /\ UNCHANGED <<listKind, slotVars, connState, listFailures, spoiled>>

\* The slot for a handle when one should be empty: the next that is, from the
\* current position on, or else the one there.
IsNextSlot(slot) ==
    LET steps(i) == (i - currentPos) % NumSlots
        empty == {i \in 0..NumSlots - 1 : slots[i] = NoListed}
    IN IF empty = {} THEN steps(slot) = 0 /\ slot < NumSlots
       ELSE slot \in empty /\ \A i \in empty : steps(slot) <= steps(i)

\* dpiHandleList__addHandle: the slot is a new one when all are in use.
AddHandle(t) ==
    /\ At(t, "add")
    /\ LET full == usedSlots = NumSlots
           grown == IF full THEN NumSlots + SlotChunk ELSE NumSlots
       IN \E slot \in 0..NumSlots :
              /\ IF full THEN slot = usedSlots ELSE IsNextSlot(slot)
              /\ slots' = [i \in 0..grown - 1 |-> IF i = slot THEN Hand(t)
                                                 ELSE IF i < NumSlots THEN slots[i] ELSE NoListed]
              /\ currentPos' = IF full THEN slot + 1 ELSE (slot + 1) % NumSlots
              /\ listed' = [listed EXCEPT ![Hand(t)].slot = slot, ![Hand(t)].by = {t},
                                          ![Hand(t)].late = connState /= "open"]
    /\ usedSlots' = usedSlots + 1 /\ Goes(t, "idle")
    /\ UNCHANGED <<listKind, connState, listFailures, spoiled>>

\* The indicator of a new object cannot be had, or there is no memory for more
\* slots: the object is freed with slot number 0, its instance still held.
ObjectFails(t) ==
    /\ At(t, "add") /\ listKind = "object" /\ FailsInList
    /\ doing' = [doing EXCEPT ![t].step = "close", ![t].then = "free"] /\ spoiled' = TRUE
    /\ UNCHANGED <<listKind, listed, slotVars, connState>>

\* The descriptor of a LOB is freed before the LOB is.
LobFails(t) ==
    /\ At(t, "add") /\ listKind = "lob" /\ usedSlots = NumSlots /\ FailsInList
    /\ listed' = [listed EXCEPT ![Hand(t)].held = FALSE, ![Hand(t)].ociFrees = @ + 1]
    /\ doing' = [doing EXCEPT ![t].step = "close", ![t].then = "free"]
    /\ UNCHANGED <<listKind, slotVars, connState, spoiled>>

---------------------------------------------------------------------------
\* References.

ShareListed(t, h) ==
    /\ IsIdle(t) /\ t \notin listed[h].by /\ \E u \in listed[h].by : IsIdle(u)
    /\ listed' = [listed EXCEPT ![h].count = @ + 1, ![h].by = @ \union {t}]
    /\ UNCHANGED <<listKind, slotVars, connState, doing, listFailures, spoiled>>

\* The last one frees the handle: dpiObject__free, dpiLob__free.
ReleaseListed(t, h) ==
    /\ IsIdle(t) /\ t \in listed[h].by
    /\ listed' = [listed EXCEPT ![h].count = @ - 1, ![h].by = @ \ {t}]
    /\ doing' = [doing EXCEPT ![t] = IF listed[h].count > 1 THEN Idle0
                                     ELSE Starts("close", h, "free")]
    /\ UNCHANGED <<listKind, slotVars, connState, listFailures, spoiled>>

---------------------------------------------------------------------------
\* Closing a handle: dpiObject__close, dpiLob__close.

\* dpiLob_close; an object cannot be closed.
CloseListed(t, h) ==
    /\ IsIdle(t) /\ t \in listed[h].by /\ listKind = "lob" /\ connState = "open" /\ listed[h].held
    /\ doing' = [doing EXCEPT ![t] = Starts("close", h, "back")]
    /\ UNCHANGED <<listKind, listed, slotVars, connState, listFailures, spoiled>>

\* MUTANT of MarkClosing: the flag is not looked at.
MarkClosingAlways(t) ==
    /\ At(t, "close")
    /\ listed' = [listed EXCEPT ![Hand(t)].closing = TRUE]
    /\ Goes(t, IF listed[Hand(t)].held THEN "oci" ELSE "end")
    /\ UNCHANGED <<listKind, slotVars, connState, listFailures, spoiled>>

MarkClosing(t) ==
    /\ At(t, "close")
    /\ listed' = [listed EXCEPT ![Hand(t)].closing = TRUE]
    /\ Goes(t, IF listed[Hand(t)].held /\ ~listed[Hand(t)].closing THEN "oci" ELSE "end")
    /\ UNCHANGED <<listKind, slotVars, connState, listFailures, spoiled>>

OciFree(t) ==
    /\ At(t, "oci") /\ Goes(t, "remove")
    /\ listed' = [listed EXCEPT ![Hand(t)].held = FALSE, ![Hand(t)].ociFrees = @ + 1]
    /\ UNCHANGED <<listKind, slotVars, connState, listFailures, spoiled>>

\* OCI fails, and that is looked at: an object can be closed again, a LOB is
\* closed nevertheless.
OciFails(t) ==
    /\ At(t, "oci") /\ doing[t].then \in {"back", "loop"} /\ FailsInList
    /\ doing' = [doing EXCEPT ![t].step = IF listKind = "object" THEN "end" ELSE "remove",
                              ![t].then = IF @ = "loop" THEN "loopFails" ELSE "backFails"]
    /\ listed' = IF listKind = "object" THEN [listed EXCEPT ![Hand(t)].closing = FALSE]
                 ELSE [listed EXCEPT ![Hand(t)].held = FALSE, ![Hand(t)].ociFrees = @ + 1]
    /\ UNCHANGED <<listKind, slotVars, connState, spoiled>>

\* dpiHandleList__removeHandle, but not while or after the connection closes.
RemoveHandle(t) ==
    /\ At(t, "remove") /\ Goes(t, "end")
    /\ IF connState = "open"
       THEN /\ slots' = [slots EXCEPT ![listed[Hand(t)].slot] = NoListed]
            /\ usedSlots' = usedSlots - 1
       ELSE UNCHANGED <<slots, usedSlots>>
    /\ listed' = [listed EXCEPT ![Hand(t)].closing = doing[t].then \notin {"backFails", "loopFails"}]
    /\ UNCHANGED <<listKind, currentPos, connState, listFailures, spoiled>>

\* The call returns, or goes on to free the memory.
CloseEnds(t) ==
    /\ At(t, "end") /\ doing[t].then \in {"back", "backFails", "free"}
    /\ doing' = [doing EXCEPT ![t] = Idle0]
    /\ listed' = IF doing[t].then = "free" THEN [listed EXCEPT ![Hand(t)].is = "freed"] ELSE listed
    /\ UNCHANGED <<listKind, slotVars, connState, listFailures, spoiled>>

---------------------------------------------------------------------------
\* Closing the connection: dpiConn_close and dpiConn__close.

CloseConn(t) ==
    /\ IsIdle(t) /\ connState = "open" /\ connState' = "closing"
    /\ doing' = [doing EXCEPT ![t] = Starts("read", NoListed, "back")]
    /\ UNCHANGED <<listKind, listed, slotVars, listFailures, spoiled>>

\* The next slot is read.
ReadSlot(t) ==
    /\ At(t, "read") /\ doing[t].i < NumSlots
    /\ LET h == slots[doing[t].i]
       IN doing' = IF h = NoListed THEN [doing EXCEPT ![t].i = @ + 1]
                   ELSE [doing EXCEPT ![t].step = "pin", ![t].h = h]
    /\ UNCHANGED <<listKind, listed, slotVars, connState, listFailures, spoiled>>

\* MUTANT of PinListed: no reference is taken.
PinWithoutReference(t) ==
    /\ At(t, "pin")
    /\ doing' = IF listed[Hand(t)].is = "live" /\ listed[Hand(t)].count > 0
                THEN [doing EXCEPT ![t].step = "close", ![t].then = "loop"]
                ELSE [doing EXCEPT ![t].step = "read", ![t].i = @ + 1]
    /\ UNCHANGED <<listKind, listed, slotVars, connState, listFailures, spoiled>>

\* A reference is taken to the handle, if it is valid.  One that was freed after
\* its slot was read, or whose slot was kept because the connection is closing,
\* is looked at all the same: its check integer is taken to be as it was left.
PinListed(t) ==
    /\ At(t, "pin")
    /\ IF listed[Hand(t)].is = "live" /\ listed[Hand(t)].count > 0
       THEN /\ listed' = [listed EXCEPT ![Hand(t)].count = @ + 1]
            /\ doing' = [doing EXCEPT ![t].step = "close", ![t].then = "loop"]
       ELSE /\ doing' = [doing EXCEPT ![t].step = "read", ![t].i = @ + 1]
            /\ UNCHANGED listed
    /\ UNCHANGED <<listKind, slotVars, connState, listFailures, spoiled>>

\* The reference is given up, and with the last one the handle is freed.
Unpinned(h) ==
    listed' = [listed EXCEPT ![h].count = @ - 1, ![h].is = IF listed[h].count = 1 THEN "freed" ELSE @]

NextListed(t) ==
    /\ At(t, "end") /\ doing[t].then = "loop" /\ Unpinned(Hand(t))
    /\ doing' = [doing EXCEPT ![t].step = "read", ![t].i = @ + 1]
    /\ UNCHANGED <<listKind, slotVars, connState, listFailures, spoiled>>

\* A handle could not be closed: the connection is open again.  An object that
\* nobody else has is freed, which closes it without looking at errors.
CloseConnFails(t) ==
    /\ At(t, "end") /\ doing[t].then = "loopFails" /\ Unpinned(Hand(t))
    /\ listed[Hand(t)].count > 1 \/ ~listed[Hand(t)].held
    /\ doing' = [doing EXCEPT ![t] = Idle0] /\ connState' = "open" /\ spoiled' = TRUE
    /\ UNCHANGED <<listKind, slotVars, listFailures>>

CloseConnFrees(t) ==
    /\ At(t, "end") /\ doing[t].then = "loopFails"
    /\ listed[Hand(t)].count = 1 /\ listed[Hand(t)].held
    /\ listed' = [listed EXCEPT ![Hand(t)].count = 0]
    /\ doing' = [doing EXCEPT ![t].step = "close", ![t].then = "freeAndFail"]
    /\ UNCHANGED <<listKind, slotVars, connState, listFailures, spoiled>>

CloseConnFailsFreed(t) ==
    /\ At(t, "end") /\ doing[t].then = "freeAndFail"
    /\ listed' = [listed EXCEPT ![Hand(t)].is = "freed"]
    /\ doing' = [doing EXCEPT ![t] = Idle0] /\ connState' = "open" /\ spoiled' = TRUE
    /\ UNCHANGED <<listKind, slotVars, listFailures>>

\* The session is ended.
ConnClosed(t) ==
    /\ At(t, "read") /\ doing[t].i >= NumSlots
    /\ connState' = "closed" /\ Goes(t, "idle")
    /\ UNCHANGED <<listKind, listed, slotVars, listFailures, spoiled>>

SessionEndFails(t) ==
    /\ At(t, "read") /\ doing[t].i >= NumSlots /\ FailsInList
    /\ connState' = "open" /\ spoiled' = TRUE /\ Goes(t, "idle")
    /\ UNCHANGED <<listKind, listed, slotVars>>

ListNext ==
    \E t \in ListUsers :
        \/ \E h \in Listed : \/ CreateListed(t, h) \/ ShareListed(t, h) \/ ReleaseListed(t, h)
                            \/ CloseListed(t, h)
        \/ AddHandle(t) \/ ObjectFails(t) \/ LobFails(t)
        \/ MarkClosing(t) \/ OciFree(t) \/ OciFails(t) \/ RemoveHandle(t) \/ CloseEnds(t)
        \/ CloseConn(t) \/ ReadSlot(t) \/ PinListed(t) \/ NextListed(t) \/ CloseConnFails(t)
        \/ CloseConnFrees(t) \/ CloseConnFailsFreed(t) \/ ConnClosed(t) \/ SessionEndFails(t)

ListSpec == ListInit /\ [][ListNext]_listVars

---------------------------------------------------------------------------
Records == [is : {"none", "live", "freed"}, held : BOOLEAN, slot : Int, closing : BOOLEAN,
            count : Int, by : SUBSET ListUsers, late : BOOLEAN, ociFrees : Nat]
Doings == [step : {"idle", "add", "close", "oci", "remove", "end", "read", "pin"},
           h : Listed \union {NoListed}, i : Nat,
           then : {"back", "backFails", "free", "freeAndFail", "loop", "loopFails"}]

ListTypeOK ==
    /\ listed \in [Listed -> Records] /\ doing \in [ListUsers -> Doings]
    /\ slots \in [0..NumSlots - 1 -> Listed \union {NoListed}] /\ NumSlots \in Nat \ {0}
    /\ usedSlots \in Int /\ currentPos \in Int

BeingDone(h, steps) == \E t \in ListUsers : Hand(t) = h /\ doing[t].step \in steps

\* As long as the connection is open, an open handle is on the list, in a slot
\* of its own, and nothing else is; the count of slots, which alone tells that
\* the list is full, is right.  (Not after slot 0 was cleared for an object that
\* could not be made, nor after closing the connection has failed.)
OpenAreListed ==
    connState = "open" /\ ~spoiled =>
        /\ \A h \in Listed : listed[h].held /\ ~BeingDone(h, {"add"}) => slots[listed[h].slot] = h
        /\ \A i \in DOMAIN slots : slots[i] /= NoListed =>
               listed[slots[i]].slot = i /\ (listed[slots[i]].held \/ BeingDone(slots[i], {"remove"}))
        /\ usedSlots = Cardinality({i \in DOMAIN slots : slots[i] /= NoListed})

\* OCI frees what a handle holds once, and never while it is held.
OciFreesOnce(h) == listed[h].ociFrees <= 1 /\ (listed[h].held => listed[h].ociFrees = 0)

\* OCI is asked to free what a handle holds once, and the memory of a handle
\* stays while someone closes it, whoever releases it meanwhile.
ClosedSoundly ==
    \A h \in Listed : /\ OciFreesOnce(h)
                      /\ BeingDone(h, {"close", "oci", "remove", "end"}) => listed[h].is = "live"

\* "This is needed to avoid trying to do so after the connection which created
\* the object is closed" (dpiObject.c:162): what is open when the connection
\* has been closed is being closed by another thread, or was only added to the
\* list while it was closed.
NoneOutlivesConnection ==
    connState = "closed" /\ ~spoiled =>
        \A h \in Listed : listed[h].held => listed[h].late \/ BeingDone(h, {"add", "close", "oci"})

ListsAreKept == OpenAreListed /\ ClosedSoundly /\ NoneOutlivesConnection

=============================================================================
