---------------------------- MODULE Subscription ----------------------------
(* A subscription to events of the database (dpiSubscr.c): OCI calls         *)
(* dpiSubscr__callback on a thread of its own, the notifier, while the       *)
(* threads of the program share the subscription, unsubscribe and release    *)
(* it.  The subscription's mutex is held while a message is put together and *)
(* while the program's own callback runs.  Counts are adjusted in one step:  *)
(* events come with an environment in threaded mode.                         *)
EXTENDS Integers, Sequences

CONSTANTS
    Users,      \* threads of the program
    Notifier,   \* the thread OCI calls back on
    NoThread,   \* holder of a free mutex
    MaxEvents   \* events delivered (a bound)

ASSUME SubscriptionAssumption == Notifier \notin Users /\ NoThread \notin Users \union {Notifier}

VARIABLES
    subscr,     \* the dpiSubscr: none, live, freeing (its count was 0), freed
    registered, atServer,   \* its flag, and whether the server sends it events
    refCount, refs,         \* its count, and the references of each user
    subscrMutex,
    deregNfy,   \* DPI_SUBSCR_QOS_DEREG_NFY: the first event ends it
    aq,         \* DPI_SUBSCR_NAMESPACE_AQ
    user,       \* what each user is doing
    notified,   \* what the notifier is doing
    message,    \* the arrays of the message
    events, frees,
    lastUnsubscribe,    \* who has ended the registration by unsubscribing
    releasedRegistered, \* the last reference was released without that
    quiet, leaked

NoArray == [got |-> FALSE, num |-> 0, elems |-> <<>>]
EmptyMessage == [tables |-> NoArray, queries |-> NoArray]

handleVars == <<subscr, registered, atServer, refCount, refs, subscrMutex>>
modeVars == <<deregNfy, aq>>
callbackVars == <<notified, message, events>>
promiseVars == <<frees, lastUnsubscribe, releasedRegistered, quiet, leaked>>
subscrVars == <<handleVars, modeVars, user, callbackVars, promiseVars>>

SubscrInit ==
    /\ subscr = "none" /\ registered = FALSE /\ atServer = FALSE
    /\ refCount = 0 /\ refs = [u \in Users |-> 0] /\ subscrMutex = NoThread
    /\ deregNfy \in BOOLEAN /\ aq \in BOOLEAN
    /\ user = [u \in Users |-> "idle"] /\ notified = "idle" /\ message = EmptyMessage
    /\ events = 0 /\ frees = 0 /\ lastUnsubscribe = NoThread
    /\ releasedRegistered = FALSE /\ quiet = FALSE /\ leaked = FALSE

Does(u, what) == user' = [user EXCEPT ![u] = what]

---------------------------------------------------------------------------
\* Creating.

\* dpiSubscr__create up to dpiOci__subscriptionRegister; a failure before that
\* frees what there is.
Register(u) ==
    /\ subscr = "none" /\ subscr' = "live" /\ atServer' = TRUE
    /\ refCount' = 1 /\ refs' = [refs EXCEPT ![u] = 1] /\ Does(u, "registered")
    /\ UNCHANGED <<registered, subscrMutex, modeVars, callbackVars, promiseVars>>

SetRegistered(u) ==
    /\ user[u] = "registered" /\ registered' = TRUE /\ Does(u, "created")
    /\ UNCHANGED <<subscr, atServer, refCount, refs, subscrMutex, modeVars, callbackVars, promiseVars>>

Created(u) ==
    /\ user[u] = "created" /\ Does(u, "idle")
    /\ UNCHANGED <<handleVars, modeVars, callbackVars, promiseVars>>

\* The registration id cannot be had: the subscription is freed, whatever its
\* count.
CreateFails(u) ==
    /\ user[u] = "created" /\ Does(u, "free")
    /\ refs' = [refs EXCEPT ![u] = 0] /\ releasedRegistered' = TRUE
    /\ UNCHANGED <<subscr, registered, atServer, refCount, subscrMutex, modeVars, callbackVars, frees,
                   lastUnsubscribe, quiet, leaked>>

\* dpiSubscr_addRef, for another thread.
Share(u) ==
    /\ user[u] = "idle" /\ refs[u] = 0 /\ subscr = "live"
    /\ \E v \in Users : refs[v] > 0 /\ user[v] = "idle"
    /\ refCount' = refCount + 1 /\ refs' = [refs EXCEPT ![u] = 1]
    /\ UNCHANGED <<subscr, registered, atServer, subscrMutex, modeVars, user, callbackVars, promiseVars>>

---------------------------------------------------------------------------
\* Freeing.

\* dpiGen__setRefCount -1, which marks the handle invalid when it gets to 0.
Unreferenced == /\ refCount' = refCount - 1
                /\ subscr' = IF refCount = 1 THEN "freeing" ELSE subscr

\* dpiSubscr__free
FreeSubscr ==
    /\ subscrMutex = NoThread /\ frees' = frees + 1
    /\ subscr' = "freed" /\ atServer' = (atServer /\ ~registered)

\* A second call on freed memory does what it does: nothing is said of it.
UserFrees(u) ==
    /\ user[u] = "free" /\ frees < 2 /\ FreeSubscr /\ Does(u, "idle")
    /\ UNCHANGED <<registered, refCount, refs, subscrMutex, modeVars, callbackVars, lastUnsubscribe,
                   releasedRegistered, quiet, leaked>>

\* dpiSubscr_release
ReleaseSubscr(u) ==
    /\ user[u] = "idle" /\ refs[u] > 0 /\ Unreferenced /\ refs' = [refs EXCEPT ![u] = 0]
    /\ Does(u, IF refCount = 1 THEN "free" ELSE "idle")
    /\ releasedRegistered' = (releasedRegistered \/ (refCount = 1 /\ registered))
    /\ UNCHANGED <<registered, atServer, subscrMutex, modeVars, callbackVars, frees, lastUnsubscribe,
                   quiet, leaked>>

---------------------------------------------------------------------------
\* Unsubscribing.

\* dpiConn_unsubscribe looks at the flag without the mutex.
Unsubscribe(u) ==
    /\ user[u] = "idle" /\ refs[u] > 0 /\ Does(u, IF registered THEN "unregister" ELSE "drop")
    /\ UNCHANGED <<handleVars, modeVars, callbackVars, promiseVars>>

\* With the mutex it unregisters and clears the flag.
Unregister(u) ==
    /\ user[u] = "unregister" /\ subscrMutex = NoThread /\ atServer
    /\ atServer' = FALSE /\ registered' = FALSE /\ lastUnsubscribe' = u /\ Does(u, "drop")
    /\ UNCHANGED <<subscr, refCount, refs, subscrMutex, modeVars, callbackVars, frees,
                   releasedRegistered, quiet, leaked>>

\* OCI cannot, for instance as the server or another thread has ended the
\* registration: the reference is kept.
UnregisterFails(u) ==
    /\ user[u] = "unregister" /\ subscrMutex = NoThread /\ Does(u, "idle")
    /\ UNCHANGED <<handleVars, modeVars, callbackVars, promiseVars>>

\* The reference is given up, and the call returns.
Drop(u) ==
    /\ user[u] = "drop" /\ Unreferenced /\ refs' = [refs EXCEPT ![u] = 0]
    /\ Does(u, IF refCount = 1 THEN "free" ELSE "idle")
    /\ quiet' = (quiet \/ lastUnsubscribe = u)
    /\ UNCHANGED <<registered, atServer, subscrMutex, modeVars, callbackVars, frees, lastUnsubscribe,
                   releasedRegistered, leaked>>

---------------------------------------------------------------------------
\* The message.  An array is allocated, then its number of elements is set, and
\* then they are populated one by one, until one fails.

Allocated(n, elems) == [got |-> TRUE, num |-> n, elems |-> elems]

\* dpiSubscr__populateMessageTable: a table with the rows that changed.
RowArrays == {NoArray} \union {Allocated(n, <<>>) : n \in 0..1}

\* The tables of a message or a query: those that were populated.
TableArrays ==
    {NoArray, Allocated(0, <<>>)}
    \union {Allocated(2, rows) : rows \in UNION {[1..k -> RowArrays] : k \in 1..2}}

\* dpiSubscr__populateQueryChangeMessage and dpiSubscr__populateMessageQuery.
QueryArrays == {NoArray, Allocated(0, <<>>)} \union {Allocated(1, <<t>>) : t \in TableArrays}

\* dpiSubscr__populateMessage, whether it fails or not.
Messages ==
    IF aq THEN {EmptyMessage}
    ELSE {[EmptyMessage EXCEPT !.tables = t] : t \in TableArrays}
         \union {[EmptyMessage EXCEPT !.queries = q] : q \in QueryArrays}

\* The arrays with elements among those allocated: rows <<2, 0, i>> of table i,
\* the tables <<1, 0, 0>>; and of the query the tables <<1, 1, 0>> and so on.
InTables(t, q) ==
    IF t.num = 0 THEN {}
    ELSE {<<1, q, 0>>} \union {<<2, q, i>> : i \in {j \in DOMAIN t.elems : t.elems[j].num > 0}}
WithElements(m) ==
    InTables(m.tables, 0)
    \union IF m.queries.num = 0 THEN {}
           ELSE {<<0, 1, 0>>} \union UNION {InTables(m.queries.elems[i], i) : i \in DOMAIN m.queries.elems}

\* MUTANT of FreeMessage: the tables of a query are freed without their rows.
FreeMessageShallow(m) ==
    InTables(m.tables, 0)
    \union IF m.queries.num = 0 THEN {}
           ELSE {<<0, 1, 0>>} \union {<<1, i, 0>> : i \in {j \in 1..m.queries.num : m.queries.elems[j].num > 0}}

\* dpiSubscr__freeMessage: what it frees, going by the numbers of elements.
FreeMessage(m) ==
    LET rowsOf(t, q) == {<<2, q, i>> : i \in {j \in 1..t.num : j \in DOMAIN t.elems /\ t.elems[j].num > 0}}
        tables(t, q) == IF t.num > 0 THEN rowsOf(t, q) \union {<<1, q, 0>>} ELSE {}
        queries == 1..m.queries.num \cap DOMAIN m.queries.elems
    IN tables(m.tables, 0) \union (UNION {tables(m.queries.elems[i], i) : i \in queries})
       \union (IF m.queries.num > 0 THEN {<<0, 1, 0>>} ELSE {})

---------------------------------------------------------------------------
\* The notifier.

Notifies(what) == notified' = what

\* The server has an event; the first one, or one that says so, is the last.
Event ==
    /\ notified = "idle" /\ atServer /\ events < MaxEvents /\ events' = events + 1
    /\ \E over \in BOOLEAN : atServer' = ~(deregNfy \/ over)
    /\ Notifies("called")
    /\ UNCHANGED <<subscr, registered, refCount, refs, subscrMutex, modeVars, user, message, promiseVars>>

\* dpiSubscr__callback: is the handle valid?  In freed memory it finds anything,
\* and what follows is not followed.
CheckSubscr ==
    /\ notified = "called"
    /\ Notifies(CASE subscr = "live" -> "checked" [] subscr = "freeing" -> "idle"
                  [] subscr = "freed" -> "undefined")
    /\ UNCHANGED <<handleVars, modeVars, user, message, events, promiseVars>>

\* MUTANT of LockSubscr: the flag has been looked at before.
LockSubscrUnchecked ==
    /\ notified = "checked"
    /\ IF subscr = "freed" THEN Notifies("undefined") /\ UNCHANGED subscrMutex
       ELSE /\ subscrMutex = NoThread
            /\ Notifies("locked") /\ subscrMutex' = Notifier
    /\ UNCHANGED <<subscr, registered, atServer, refCount, refs, modeVars, user, message, events,
                   promiseVars>>

\* The mutex, and is it registered?  The mutex may have been destroyed.
LockSubscr ==
    /\ notified = "checked"
    /\ IF subscr = "freed" THEN Notifies("undefined") /\ UNCHANGED subscrMutex
       ELSE /\ subscrMutex = NoThread
            /\ IF registered THEN Notifies("locked") /\ subscrMutex' = Notifier
               ELSE Notifies("idle") /\ UNCHANGED subscrMutex
    /\ UNCHANGED <<subscr, registered, atServer, refCount, refs, modeVars, user, message, events,
                   promiseVars>>

\* The message is populated, perhaps with an error, and the callback called.  An
\* event that ends the registration clears the flag, unless it cannot be read.
Populate ==
    /\ notified = "locked" /\ message' \in Messages
    /\ registered' \in IF deregNfy THEN {FALSE} ELSE IF atServer THEN {TRUE} ELSE BOOLEAN
    /\ refCount' = refCount + 1 /\ Notifies("callback")
    /\ UNCHANGED <<subscr, atServer, refs, subscrMutex, modeVars, user, events, promiseVars>>

\* The program's callback unsubscribes in the place of a user.  It waits for the
\* mutex it holds unless the registration is over.
CallbackUnsubscribes(u) ==
    /\ notified = "callback" /\ user[u] = "idle" /\ refs[u] > 0
    /\ IF registered THEN Notifies("stuck") /\ UNCHANGED <<refCount, refs>>
       ELSE refCount' = refCount - 1 /\ refs' = [refs EXCEPT ![u] = 0] /\ UNCHANGED notified
    /\ UNCHANGED <<subscr, registered, atServer, subscrMutex, modeVars, user, message, events,
                   promiseVars>>

\* It returns; the message is freed, the mutex released.
CallbackReturns ==
    /\ notified = "callback" /\ Notifies("done") /\ message' = EmptyMessage
    /\ leaked' = (leaked \/ WithElements(message) \ FreeMessage(message) /= {})
    /\ subscrMutex' = NoThread
    /\ UNCHANGED <<subscr, registered, atServer, refCount, refs, modeVars, user, events, frees,
                   lastUnsubscribe, releasedRegistered, quiet>>

\* The reference of the callback, after which the subscription may be freed.
CallbackDrops ==
    /\ notified = "done" /\ refCount' = refCount - 1
    /\ subscr' = IF refCount = 1 /\ subscr = "live" THEN "freeing" ELSE subscr
    /\ Notifies(IF refCount = 1 THEN "free" ELSE "idle")
    /\ UNCHANGED <<registered, atServer, refs, subscrMutex, modeVars, user, message, events,
                   promiseVars>>

NotifierFrees ==
    /\ notified = "free" /\ frees < 2 /\ FreeSubscr /\ Notifies("idle")
    /\ UNCHANGED <<registered, refCount, refs, subscrMutex, modeVars, user, message, events,
                   lastUnsubscribe, releasedRegistered, quiet, leaked>>

SubscrNext ==
    \/ \E u \in Users : \/ Register(u) \/ SetRegistered(u) \/ Created(u) \/ CreateFails(u) \/ Share(u)
                       \/ UserFrees(u) \/ ReleaseSubscr(u) \/ Unsubscribe(u) \/ Unregister(u)
                       \/ UnregisterFails(u) \/ Drop(u) \/ CallbackUnsubscribes(u)
    \/ Event \/ CheckSubscr \/ LockSubscr \/ Populate \/ CallbackReturns \/ CallbackDrops
    \/ NotifierFrees

SubscrSpec == SubscrInit /\ [][SubscrNext]_subscrVars

---------------------------------------------------------------------------
\* "Once this call completes successfully no further notifications will be
\* sent" (dpiConn.c:2998): when a thread has unsubscribed, and itself found the
\* subscription registered, the program's callback neither runs nor will run.
QuietAfterUnsubscribe == quiet => notified /= "callback"

\* The subscription is freed once, whoever gives up the last reference; and
\* while the callback runs it is not freed at all.  (One that is released while
\* it is registered is freed twice when the callback has just passed the check
\* of the handle.)
FreedOnce ==
    ~releasedRegistered => frees <= 1 /\ (notified = "callback" => subscr = "live")

\* Of a message nothing is left but arrays of no elements, wherever putting it
\* together failed.
MessageIsFreed == ~leaked

NotificationsAreSafe == QuietAfterUnsubscribe /\ FreedOnce /\ MessageIsFreed

=============================================================================
