---------------------------- MODULE ReferenceCount ----------------------------
(* The count of references of a handle of ODPI-C, while threads take, hand on*)
(* and give up references: dpiGen__addRef, dpiGen__release and, in both,     *)
(* dpiGen__setRefCount.  The mutex of the environment is taken only when that*)
(* is in threaded mode, which that of a connection extra.c creates is not;   *)
(* without it the threads interleave the steps the count is read, written and*)
(* read again in.                                                            *)
EXTENDS Integers

CONSTANTS
    Keepers,        \* threads
    References,     \* references there can be at once
    NoHolder,
    MaxCounted      \* bound: the count a reference is added to

ASSUME HolderAssumption == NoHolder \notin Keepers
ASSUME CountedAssumption == MaxCounted \in Nat

VARIABLES
    threaded,   \* env->threaded
    alone,      \* the program lets one thread at a time call
    counted,    \* value->refCount, whose wrap below 0 is -1: it is only compared with 0
    checked,    \* value->checkInt is that of the type
    holding,    \* who has each reference, once it is counted and until it is not
    envMutex,
    counting,   \* how far a thread is in dpiGen__setRefCount, for which reference,
                \* the count it is adding to, and localRefCount
    timesFreed

countVars == <<threaded, alone, counted, checked, holding, envMutex, counting, timesFreed>>

Waiting == [step |-> "idle", ref |-> 0, by |-> 0, was |-> 0, now |-> 0]

Has(t, r) == holding[r] = t
Calling(t, s) == counting[t].step = s
Advances(t, s) == counting' = [counting EXCEPT ![t].step = s]
ReturnsFrom(t) == counting' = [counting EXCEPT ![t] = Waiting]

\* dpiGen__allocate: the caller has the only reference.
CountInit ==
    /\ threaded \in BOOLEAN /\ alone \in BOOLEAN
    /\ counted = 1 /\ checked = TRUE /\ timesFreed = 0
    /\ \E t \in Keepers, r \in References :
           holding = [q \in References |-> IF q = r THEN t ELSE NoHolder]
    /\ envMutex = NoHolder /\ counting = [t \in Keepers |-> Waiting]

\* dpiGen__startPublicFn has found the handle valid.
StartsCounting(t, r, increment) ==
    /\ Calling(t, "idle") /\ checked
    /\ alone => \A u \in Keepers : Calling(u, "idle")
    /\ counting' = [counting EXCEPT ![t] = [Waiting EXCEPT !.step = "acquire", !.ref = r, !.by = increment]]
    /\ UNCHANGED <<threaded, alone, counted, checked, holding, envMutex, timesFreed>>

\* Who has a reference takes another one (one that nobody has or is taking), or
\* gives one up.
AddRef(t) ==
    /\ \E q \in References : Has(t, q)
    /\ counted < MaxCounted
    /\ \E r \in References : Has(NoHolder, r) /\ (\A u \in Keepers : Calling(u, "idle") \/ counting[u].ref /= r)
                             /\ StartsCounting(t, r, 1)
ReleaseRef(t) == \E r \in References : Has(t, r) /\ StartsCounting(t, r, -1)

\* A reference is handed to another thread.
Pass(t, u) ==
    /\ Calling(t, "idle")
    /\ \E r \in References : Has(t, r) /\ holding' = [holding EXCEPT ![r] = u]
    /\ UNCHANGED <<threaded, alone, counted, checked, envMutex, counting, timesFreed>>

\* MUTANT of AcquireMutex: only who gives a reference up takes the mutex.
AcquireMutexToRelease(t) ==
    /\ Calling(t, "acquire") /\ (threaded /\ counting[t].by = -1 => envMutex = NoHolder)
    /\ envMutex' = IF threaded /\ counting[t].by = -1 THEN t ELSE envMutex
    /\ Advances(t, "load")
    /\ UNCHANGED <<threaded, alone, counted, checked, holding, timesFreed>>

\* dpiGen__setRefCount
AcquireMutex(t) ==
    /\ Calling(t, "acquire") /\ (threaded => envMutex = NoHolder)
    /\ envMutex' = IF threaded THEN t ELSE envMutex
    /\ Advances(t, "load")
    /\ UNCHANGED <<threaded, alone, counted, checked, holding, timesFreed>>

LoadCount(t) ==
    /\ Calling(t, "load")
    /\ counting' = [counting EXCEPT ![t].step = "store", ![t].was = counted]
    /\ UNCHANGED <<threaded, alone, counted, checked, holding, envMutex, timesFreed>>

StoreCount(t) ==
    /\ Calling(t, "store")
    /\ counted' = counting[t].was + counting[t].by
    /\ holding' = [holding EXCEPT ![counting[t].ref] = IF counting[t].by = 1 THEN t ELSE NoHolder]
    /\ Advances(t, "read")
    /\ UNCHANGED <<threaded, alone, checked, envMutex, timesFreed>>

\* localRefCount is read from the handle again.
ReadCount(t) ==
    /\ Calling(t, "read")
    /\ counting' = [counting EXCEPT ![t].step = "mark", ![t].now = counted]
    /\ UNCHANGED <<threaded, alone, counted, checked, holding, envMutex, timesFreed>>

MarkInvalid(t) ==
    /\ Calling(t, "mark") /\ checked' = (checked /\ counting[t].now /= 0)
    /\ Advances(t, "unlock")
    /\ UNCHANGED <<threaded, alone, counted, holding, envMutex, timesFreed>>

ReleaseMutex(t) ==
    /\ Calling(t, "unlock")
    /\ envMutex' = IF threaded THEN NoHolder ELSE envMutex
    /\ IF counting[t].now = 0 THEN Advances(t, "free") ELSE ReturnsFrom(t)
    /\ UNCHANGED <<threaded, alone, counted, checked, holding, timesFreed>>

\* typeDef->freeProc
FreeHandle(t) ==
    /\ Calling(t, "free") /\ timesFreed' = timesFreed + 1
    /\ ReturnsFrom(t)
    /\ UNCHANGED <<threaded, alone, counted, checked, holding, envMutex>>

CountNext ==
    \E t \in Keepers :
        \/ AddRef(t) \/ ReleaseRef(t) \/ \E u \in Keepers : Pass(t, u)
        \/ AcquireMutex(t) \/ LoadCount(t) \/ StoreCount(t) \/ ReadCount(t)
        \/ MarkInvalid(t) \/ ReleaseMutex(t) \/ FreeHandle(t)

CountSpec == CountInit /\ [][CountNext]_countVars

---------------------------------------------------------------------------
\* Where the mutex is taken, or the program lets one thread call at a time: while
\* someone has a reference the handle is valid and is not freed; once nobody has,
\* and the calls have returned, it has been freed; and it never is twice.
FreedWithTheLast ==
    threaded \/ alone =>
        /\ \A r \in References, t \in Keepers : Has(t, r) => checked /\ timesFreed = 0
        /\ (\A t \in Keepers : Calling(t, "idle")) /\ (\A r \in References : Has(NoHolder, r)) => timesFreed = 1
        /\ timesFreed <= 1

=============================================================================
