----------------------------- MODULE HandlePool -----------------------------
(***************************************************************************)
(* The pool of OCI error handles of an environment (dpiHandlePool.c) and   *)
(* the frame of a public call that uses it: a call takes a handle when it  *)
(* first needs one, dpiError__initHandle, and dpiGen__endPublicFn gives it *)
(* back.  The pool is a ring of slots: handles are acquired at acquirePos  *)
(* and released at releasePos, and equal positions mean it is empty.       *)
(*                                                                         *)
(* Handles are numbered as OCI allocates them; 0 is NULL.  Each operation  *)
(* of the pool runs under its mutex, so it is one step.                    *)
(***************************************************************************)
EXTENDS Integers

CONSTANTS
    Calls,      \* calls that may be under way at once
    Chunk,      \* slots of a new pool, and the slots it grows by (8 in the code)
    MaxHandles, \* bound: handles allocated
    MaxSlots    \* bound: slots

ASSUME ChunkAssumption == Chunk \in Nat \ {0}
ASSUME HandlesAssumption == MaxHandles \in Nat /\ MaxSlots \in Nat

VARIABLES
    handles, numSlots, acquirePos, releasePos, numUsedSlots,
    handle,     \* error->handle of each call
    last,       \* the handle allocated last
    filled,     \* handles once came back to all the slots at once
    kept        \* handles of functions that returned without endPublicFn

pool == <<handles, numSlots, acquirePos, releasePos, numUsedSlots>>
poolVars == <<pool, handle, last, filled, kept>>

NULL == 0
Slots == 0..numSlots - 1

PoolInit ==
    /\ numSlots = Chunk /\ handles = [i \in 0..Chunk - 1 |-> NULL]
    /\ acquirePos = 0 /\ releasePos = 0 /\ numUsedSlots = 0
    /\ handle = [c \in Calls |-> NULL] /\ last = 0 /\ filled = FALSE /\ kept = {}

\* The slots between the two positions, which are those to acquire from.
Pooled(i) ==
    IF acquirePos <= releasePos THEN acquirePos <= i /\ i < releasePos
                                ELSE acquirePos <= i \/ i < releasePos

\* MUTANT of After: the last slot is not used.
AfterShort(i) == IF i + 1 >= numSlots - 1 THEN 0 ELSE i + 1

After(i) == IF i + 1 = numSlots THEN 0 ELSE i + 1

\* dpiHandlePool__acquire finds a handle.
AcquireHandle(c) ==
    /\ handle[c] = NULL /\ acquirePos /= releasePos
    /\ handle' = [handle EXCEPT ![c] = handles[acquirePos]]
    /\ handles' = [handles EXCEPT ![acquirePos] = NULL]
    /\ acquirePos' = After(acquirePos)
    /\ UNCHANGED <<numSlots, releasePos, numUsedSlots, last, filled, kept>>

\* More handles are in use than there are slots.
Grow ==
    IF numUsedSlots' <= numSlots THEN UNCHANGED <<numSlots, handles>>
    ELSE /\ numSlots' = numSlots + Chunk
         /\ handles' = [i \in 0..numSlots + Chunk - 1 |-> IF i < numSlots THEN handles[i] ELSE NULL]

\* It finds none: a slot is counted in, the pool grows if it must, and
\* dpiError__initHandle has OCI allocate a handle.
AllocateHandle(c) ==
    /\ handle[c] = NULL /\ acquirePos = releasePos
    /\ last < MaxHandles /\ numUsedSlots < MaxSlots
    /\ numUsedSlots' = numUsedSlots + 1 /\ Grow
    /\ last' = last + 1 /\ handle' = [handle EXCEPT ![c] = last']
    /\ UNCHANGED <<acquirePos, releasePos, filled, kept>>

\* There is no memory for the slots, or none for the handle: the call fails
\* and the count keeps what it has counted in.
AllocateFails(c, grown) ==
    /\ handle[c] = NULL /\ acquirePos = releasePos /\ numUsedSlots < MaxSlots
    /\ numUsedSlots' = numUsedSlots + 1
    /\ IF grown THEN Grow ELSE numUsedSlots' > numSlots /\ UNCHANGED <<numSlots, handles>>
    /\ UNCHANGED <<acquirePos, releasePos, handle, last, filled, kept>>

\* dpiGen__endPublicFn, dpiHandlePool__release
ReleaseHandle(c) ==
    /\ handle[c] /= NULL
    /\ handles' = [handles EXCEPT ![releasePos] = handle[c]]
    /\ handle' = [handle EXCEPT ![c] = NULL]
    /\ releasePos' = After(releasePos)
    /\ filled' = (filled \/ releasePos' = acquirePos)
    /\ UNCHANGED <<numSlots, acquirePos, numUsedSlots, last, kept>>

\* Two functions return without endPublicFn when the call of OCI they have
\* made fails: getObjectType (the server's version) and reconfigure.
ReturnBare(c) ==
    /\ handle[c] /= NULL
    /\ handle' = [handle EXCEPT ![c] = NULL] /\ kept' = kept \union {handle[c]}
    /\ UNCHANGED <<pool, last, filled>>

PoolNext ==
    \E c \in Calls :
        \/ AcquireHandle(c) \/ AllocateHandle(c) \/ ReleaseHandle(c) \/ ReturnBare(c)
        \/ \E grown \in BOOLEAN : AllocateFails(c, grown)

PoolSpec == PoolInit /\ [][PoolNext]_poolVars

---------------------------------------------------------------------------
PoolTypeOK ==
    /\ numSlots \in Nat \ {0} /\ handles \in [Slots -> Nat]
    /\ acquirePos \in Slots /\ releasePos \in Slots /\ numUsedSlots \in Nat
    /\ handle \in [Calls -> Nat] /\ last \in Nat /\ filled \in BOOLEAN

\* A call that uses an error handle has it to itself, whatever the pool has
\* been through: no other call holds it, and no slot the next call would
\* acquire from holds it or nothing.
Exclusive ==
    /\ \A c, d \in Calls : c /= d /\ handle[c] = handle[d] => handle[c] = NULL
    /\ \A i \in Slots : Pooled(i) => handles[i] /= NULL /\ \A c \in Calls : handle[c] /= handles[i]
    /\ \A i, j \in Slots : Pooled(i) /\ Pooled(j) /\ handles[i] = handles[j] => i = j

\* A handle is only lost - neither in use nor to be acquired - by one of the two
\* functions that keep theirs, or when handles had come back to every slot at
\* once, which the positions take for an empty pool.
LostOnlyWhenFilled ==
    filled \/ \A h \in 1..last : h \in kept
                              \/ (\E c \in Calls : handle[c] = h)
                              \/ (\E i \in Slots : Pooled(i) /\ handles[i] = h)

\* Whatever calls of several threads take from the ring and give back to it,
\* while it wraps around and grows: nobody shares a handle, and none is lost but
\* in the two ways above.
PoolIsSound == Exclusive /\ LostOnlyWhenFilled

=============================================================================
