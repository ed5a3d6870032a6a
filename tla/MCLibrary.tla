------------------------------ MODULE MCLibrary ------------------------------
(* Eight modules about the native library that share no state, checked in one*)
(* run: the way of an error to the caller, the pool of error handles, the    *)
(* sessions of connections and pools, the set-up of the library, the lists of*)
(* open handles, queues, subscriptions, and the count of references.  A      *)
(* behaviour is one of one of them, the part.                                *)
EXTENDS ErrorChannel, HandlePool, Session, LibraryContext, HandleList, AqQueue, Subscription,
        ReferenceCount

VARIABLE part

libraryPart == <<poolVars, sessionVars, libraryVars, countVars>>
messaging == <<queueVars, subscrVars, listVars>>
partVars == <<vars, libraryPart, messaging, part>>

FirstHolding ==
    LET first == CHOOSE t \in Keepers : TRUE
        one == CHOOSE r \in References : TRUE
    IN  [r \in References |-> IF r = one THEN first ELSE NoHolder]

\* The other parts stay in one of their initial states.
PartInit ==
    /\ part \in {"errors", "handles", "sessions", "library", "lists", "queue", "subscription", "count"}
    /\ Init /\ PoolInit /\ SessionInit /\ LibraryInit /\ ListInit /\ QueueInit /\ SubscrInit /\ CountInit
    /\ part = "errors" \/ ~turns
    /\ part = "sessions" \/ Idle = {}
    /\ part = "library" \/ ~oneByOne
    /\ part = "lists" \/ listKind = "object"
    /\ part = "queue" \/ payloadKind = "raw"
    /\ part = "subscription" \/ ~(deregNfy \/ aq)
    /\ part = "count" \/ (threaded /\ ~alone /\ holding = FirstHolding)

PartNext ==
    /\ UNCHANGED part
    /\ \/ part = "errors" /\ Next /\ UNCHANGED <<libraryPart, messaging>>
       \/ part = "handles" /\ PoolNext /\ UNCHANGED <<vars, sessionVars, libraryVars, countVars, messaging>>
       \/ part = "sessions" /\ SessionNext /\ UNCHANGED <<vars, poolVars, libraryVars, countVars, messaging>>
       \/ part = "library" /\ LibraryNext /\ UNCHANGED <<vars, poolVars, sessionVars, countVars, messaging>>
       \/ part = "count" /\ CountNext /\ UNCHANGED <<vars, poolVars, sessionVars, libraryVars, messaging>>
       \/ part = "queue" /\ QueueNext /\ UNCHANGED <<vars, libraryPart, listVars, subscrVars>>
       \/ part = "subscription" /\ SubscrNext /\ UNCHANGED <<vars, libraryPart, listVars, queueVars>>
       \/ part = "lists" /\ ListNext /\ UNCHANGED <<vars, libraryPart, queueVars, subscrVars>>

PartSpec == PartInit /\ [][PartNext]_partVars

---------------------------------------------------------------------------
\* The types of the parts.
TypesOK == TypeOK /\ PoolTypeOK /\ SessionTypeOK /\ ListTypeOK

=============================================================================
