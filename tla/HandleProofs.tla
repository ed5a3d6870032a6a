----------------------------- MODULE HandleProofs -----------------------------
(***************************************************************************)
(* Theorems about HandlePool, HandleList and ReferenceCount.                *)
(*                                                                         *)
(*  - For any number of calls, size of the pool and growth: no two calls   *)
(*    ever use one error handle, and none is lost until every slot has been*)
(*    given one at once, but by the functions that do not return theirs.   *)
(*  - For any threads, handles and growth of the list: OCI is asked at most*)
(*    once to free what a handle holds, whoever closes and releases it while*)
(*    the connection is closed through the list, with any calls failing.   *)
(*  - The list of an open connection has exactly the handles that are open,*)
(*    in slots of their own, and the count of them; a handle is not freed  *)
(*    while a thread closes it; and what was listed in time does not outlive*)
(*    its connection.                                                      *)
(*  - For any threads that take, hand on and give up references, with the  *)
(*    mutex or in turn: a handle is freed once, when nobody has one.       *)
(***************************************************************************)
EXTENDS HandlePool, HandleList, ReferenceCount, FiniteSetTheorems, TLAPS

-----------------------------------------------------------------------------
\* The pool of error handles.

\* What OCI allocates next is new to the calls and to the ring.
Numbered ==
    /\ \A c \in Calls : handle[c] <= last
    /\ \A i \in Slots : Pooled(i) => handles[i] <= last

\* The inductive invariant.
PoolInv == PoolTypeOK /\ Numbered /\ Exclusive /\ LostOnlyWhenFilled

LEMMA MoreSlots ==
    ASSUME NEW few \in Nat, NEW many \in Nat, few <= many, NEW i \in 0..few - 1
    PROVE  i \in 0..many - 1
OBVIOUS

LEMMA AfterInSlots ==
    ASSUME PoolTypeOK, NEW i \in Slots
    PROVE  After(i) \in Slots
BY DEF PoolTypeOK, Slots, After

\* Acquiring takes the first slot off those pooled.
LEMMA PooledAfterAcquire ==
    ASSUME PoolTypeOK, acquirePos /= releasePos, acquirePos' = After(acquirePos),
           UNCHANGED <<numSlots, releasePos>>
    PROVE  /\ Pooled(acquirePos)
           /\ \A i \in Slots : Pooled(i)' <=> Pooled(i) /\ i /= acquirePos
BY DEF PoolTypeOK, Slots, After, Pooled

\* Releasing adds one slot to those pooled, or leaves none.
LEMMA PooledAfterRelease ==
    ASSUME PoolTypeOK, releasePos' = After(releasePos), UNCHANGED <<numSlots, acquirePos>>
    PROVE  /\ \A i \in Slots : Pooled(i)' => Pooled(i) \/ i = releasePos
           /\ releasePos' /= acquirePos =>
                 \A i \in Slots : Pooled(i)' <=> Pooled(i) \/ i = releasePos
           /\ ~Pooled(releasePos)
BY DEF PoolTypeOK, Slots, After, Pooled

LEMMA GrowTypes ==
    ASSUME PoolTypeOK, Grow, numUsedSlots' \in Nat
    PROVE  /\ numSlots' \in Nat \ {0} /\ numSlots <= numSlots'
           /\ handles' \in [0..numSlots' - 1 -> Nat]
BY ChunkAssumption DEF PoolTypeOK, Grow, Slots, NULL

THEOREM PoolInvariant == PoolSpec => []PoolInv
<1>1. PoolInit => PoolInv
  <2> SUFFICES ASSUME PoolInit PROVE PoolInv
    OBVIOUS
  <2>1. PoolTypeOK
    <3>1. handles \in [0..numSlots - 1 -> Nat] /\ 0 \in 0..numSlots - 1
      BY ChunkAssumption DEF PoolInit, NULL
    <3> QED
      BY <3>1, ChunkAssumption DEF PoolInit, PoolTypeOK, Slots, NULL
  <2>5. \A i \in Slots : ~Pooled(i)
    BY DEF PoolInit, Slots, Pooled
  <2>2. Numbered
    BY <2>5 DEF PoolInit, Numbered, NULL
  <2>3. Exclusive
    BY <2>5 DEF PoolInit, Exclusive, NULL
  <2>4. LostOnlyWhenFilled
    BY DEF PoolInit, LostOnlyWhenFilled
  <2> QED
    BY <2>1, <2>2, <2>3, <2>4 DEF PoolInv
<1>2. PoolInv /\ [PoolNext]_poolVars => PoolInv'
  <2> SUFFICES ASSUME PoolInv, [PoolNext]_poolVars PROVE PoolInv'
    OBVIOUS
  <2> USE DEF PoolInv
  <2>1. ASSUME NEW c \in Calls, AcquireHandle(c) PROVE PoolInv'
    <3>0. acquirePos \in Slots /\ handles \in [Slots -> Nat] /\ handle \in [Calls -> Nat] /\ Slots' = Slots
      BY <2>1 DEF AcquireHandle, PoolTypeOK, Slots
    <3>1. PoolTypeOK'
      BY <2>1, <3>0, AfterInSlots DEF AcquireHandle, PoolTypeOK, Slots, NULL
    <3>2. Pooled(acquirePos) /\ \A i \in Slots : Pooled(i)' <=> Pooled(i) /\ i /= acquirePos
      BY <2>1, PooledAfterAcquire DEF AcquireHandle
    <3>3. /\ \A i \in Slots : i /= acquirePos => handles'[i] = handles[i]
          /\ handle'[c] = handles[acquirePos]
          /\ \A d \in Calls : d /= c => handle'[d] = handle[d]
          /\ last' = last /\ filled' = filled /\ kept' = kept
      BY <2>1, <3>0 DEF AcquireHandle
    <3>4. Numbered'
      BY <3>0, <3>2, <3>3 DEF Numbered
    <3>5. Exclusive'
      BY <3>0, <3>2, <3>3 DEF Exclusive
    <3>6. LostOnlyWhenFilled'
      <4> SUFFICES ASSUME ~filled, NEW h \in 1..last
                   PROVE  h \in kept \/ (\E d \in Calls : handle'[d] = h) \/ \E i \in Slots : Pooled(i)' /\ handles'[i] = h
        BY <3>0, <3>3 DEF LostOnlyWhenFilled
      <4>1. CASE \E d \in Calls : handle[d] = h
        <5> PICK d \in Calls : handle[d] = h
          BY <4>1
        <5> d /= c
          BY <2>1 DEF AcquireHandle, NULL
        <5> QED
          BY <3>3
      <4>2. CASE \E i \in Slots : Pooled(i) /\ handles[i] = h
        BY <4>2, <3>0, <3>2, <3>3
      <4> QED
        BY <4>1, <4>2 DEF LostOnlyWhenFilled
    <3> QED
      BY <3>1, <3>4, <3>5, <3>6
  <2>2. ASSUME NEW c \in Calls, AllocateHandle(c) PROVE PoolInv'
    <3>0. handle \in [Calls -> Nat] /\ last \in Nat /\ last' = last + 1 /\ numUsedSlots' \in Nat
      BY <2>2 DEF AllocateHandle, PoolTypeOK
    <3>1. PoolTypeOK'
      BY <2>2, <3>0, GrowTypes DEF AllocateHandle, PoolTypeOK, Slots
    <3>2. \A i \in Slots' : ~Pooled(i)'
      BY <2>2, <3>1 DEF AllocateHandle, PoolTypeOK, Slots, Pooled
    <3>3. \A i \in Slots : ~Pooled(i)
      BY <2>2 DEF AllocateHandle, PoolTypeOK, Slots, Pooled
    <3>4. handle'[c] = last + 1 /\ \A d \in Calls : d /= c => handle'[d] = handle[d]
      BY <2>2, <3>0 DEF AllocateHandle
    <3>5. Numbered'
      BY <3>0, <3>2, <3>4 DEF Numbered
    <3>6. Exclusive'
      BY <3>0, <3>2, <3>4 DEF Exclusive, Numbered
    <3>7. LostOnlyWhenFilled'
      <4> SUFFICES ASSUME ~filled, NEW h \in 1..last + 1
                   PROVE  h \in kept \/ \E d \in Calls : handle'[d] = h
        BY <2>2, <3>0 DEF AllocateHandle, LostOnlyWhenFilled
      <4>1. CASE h = last + 1
        BY <4>1, <3>4
      <4>2. CASE h /= last + 1
        <5>1. h \in 1..last
          BY <4>2, <3>0
        <5> SUFFICES ASSUME h \notin kept PROVE \E d \in Calls : handle'[d] = h
          OBVIOUS
        <5>2. PICK d \in Calls : handle[d] = h
          BY <5>1, <3>3 DEF LostOnlyWhenFilled
        <5>3. d /= c
          BY <2>2, <5>1, <5>2 DEF AllocateHandle, NULL
        <5> QED
          BY <5>2, <5>3, <3>4
      <4> QED
        BY <4>1, <4>2
    <3> QED
      BY <3>1, <3>5, <3>6, <3>7
  <2>3. ASSUME NEW c \in Calls, \E grown \in BOOLEAN : AllocateFails(c, grown) PROVE PoolInv'
    <3>1. /\ acquirePos = releasePos /\ numUsedSlots' = numUsedSlots + 1
          /\ UNCHANGED <<acquirePos, releasePos, handle, last, filled, kept>>
          /\ Grow \/ UNCHANGED <<numSlots, handles>>
      BY <2>3, Zenon DEF AllocateFails
    <3>2. numUsedSlots' \in Nat
      BY <3>1 DEF PoolTypeOK
    <3>3. /\ numSlots' \in Nat \ {0} /\ numSlots <= numSlots'
          /\ handles' \in [0..numSlots' - 1 -> Nat]
      <4>1. CASE Grow
        BY <3>2, <4>1, GrowTypes
      <4>2. CASE UNCHANGED <<numSlots, handles>>
        BY <4>2 DEF PoolTypeOK, Slots
      <4> QED
        BY <3>1, <4>1, <4>2
    <3>4. PoolTypeOK'
      <4>1. acquirePos \in 0..numSlots' - 1
        BY <3>3, MoreSlots DEF PoolTypeOK, Slots
      <4> QED
        BY <3>1, <3>2, <3>3, <4>1 DEF PoolTypeOK, Slots
    <3>5. (\A i \in Slots' : ~Pooled(i)') /\ (\A i \in Slots : ~Pooled(i))
      <4>1. \A i \in Int : ~Pooled(i) /\ ~Pooled(i)'
        BY <3>1 DEF PoolTypeOK, Slots, Pooled
      <4>2. Slots \subseteq Int /\ Slots' \subseteq Int
        BY <3>3 DEF PoolTypeOK, Slots
      <4> QED
        BY <4>1, <4>2
    <3>6. Numbered' /\ Exclusive' /\ LostOnlyWhenFilled'
      BY <3>1, <3>5 DEF Numbered, Exclusive, LostOnlyWhenFilled
    <3> QED
      BY <3>4, <3>6
  <2>4. ASSUME NEW c \in Calls, ReleaseHandle(c) PROVE PoolInv'
    <3>0. releasePos \in Slots /\ handles \in [Slots -> Nat] /\ handle \in [Calls -> Nat] /\ Slots' = Slots
      BY <2>4 DEF ReleaseHandle, PoolTypeOK, Slots
    <3>1. PoolTypeOK'
      BY <2>4, <3>0, AfterInSlots DEF ReleaseHandle, PoolTypeOK, Slots, NULL
    <3>2. /\ \A i \in Slots : Pooled(i)' => Pooled(i) \/ i = releasePos
          /\ releasePos' /= acquirePos => \A i \in Slots : Pooled(i)' <=> Pooled(i) \/ i = releasePos
          /\ ~Pooled(releasePos)
      BY <2>4, PooledAfterRelease DEF ReleaseHandle
    <3>3. /\ \A i \in Slots : i /= releasePos => handles'[i] = handles[i]
          /\ handles'[releasePos] = handle[c] /\ handle[c] /= NULL /\ handle'[c] = NULL
          /\ \A d \in Calls : d /= c => handle'[d] = handle[d]
          /\ last' = last /\ kept' = kept
      BY <2>4, <3>0 DEF ReleaseHandle
    <3>4. Numbered'
      BY <3>0, <3>2, <3>3 DEF Numbered, NULL, PoolTypeOK
    <3>5. Exclusive'
      <4>1. \A d, e \in Calls : d /= e /\ handle'[d] = handle'[e] => handle'[d] = NULL
        BY <3>3 DEF Exclusive
      <4>2. \A i \in Slots : Pooled(i)' =>
                handles'[i] /= NULL /\ \A d \in Calls : handle'[d] /= handles'[i]
        <5> SUFFICES ASSUME NEW i \in Slots, Pooled(i)', NEW d \in Calls
                     PROVE  handles'[i] /= NULL /\ handle'[d] /= handles'[i]
          OBVIOUS
        <5>1. CASE i = releasePos
          BY <5>1, <3>3 DEF Exclusive
        <5>2. CASE i /= releasePos
          BY <5>2, <3>2, <3>3 DEF Exclusive
        <5> QED
          BY <5>1, <5>2
      <4>3. \A i, j \in Slots : Pooled(i)' /\ Pooled(j)' /\ handles'[i] = handles'[j] => i = j
        BY <3>0, <3>2, <3>3 DEF Exclusive
      <4> QED
        BY <4>1, <4>2, <4>3, <3>0 DEF Exclusive
    <3>6. LostOnlyWhenFilled'
      <4> SUFFICES ASSUME ~filled, releasePos' /= acquirePos, NEW h \in 1..last
                   PROVE  h \in kept \/ (\E d \in Calls : handle'[d] = h) \/ \E i \in Slots : Pooled(i)' /\ handles'[i] = h
        BY <2>4, <3>0, <3>3 DEF LostOnlyWhenFilled, ReleaseHandle
      <4>1. CASE handle[c] = h
        BY <4>1, <3>0, <3>2, <3>3
      <4>2. CASE \E d \in Calls : d /= c /\ handle[d] = h
        BY <4>2, <3>3
      <4>3. CASE \E i \in Slots : Pooled(i) /\ handles[i] = h
        BY <4>3, <3>0, <3>2, <3>3
      <4> QED
        BY <4>1, <4>2, <4>3 DEF LostOnlyWhenFilled
    <3> QED
      BY <3>1, <3>4, <3>5, <3>6
  <2>5. ASSUME NEW c \in Calls, ReturnBare(c) PROVE PoolInv'
    <3>1. /\ UNCHANGED <<handles, numSlots, acquirePos, releasePos, numUsedSlots, last, filled>>
          /\ handle \in [Calls -> Nat] /\ handle' = [handle EXCEPT ![c] = NULL]
          /\ kept' = kept \union {handle[c]}
      BY <2>5 DEF ReturnBare, pool, PoolTypeOK
    <3>2. Slots' = Slots /\ \A i : Pooled(i)' <=> Pooled(i)
      BY <3>1 DEF Slots, Pooled
    <3>3. handle'[c] = NULL /\ \A d \in Calls : d /= c => handle'[d] = handle[d]
      BY <3>1
    <3>4. PoolTypeOK'
      BY <3>1, <3>2 DEF PoolTypeOK, NULL
    <3>5. Numbered'
      BY <3>1, <3>2, <3>3 DEF Numbered, NULL, PoolTypeOK
    <3>6. Exclusive'
      BY <3>1, <3>2, <3>3 DEF Exclusive
    <3>7. LostOnlyWhenFilled'
      BY <3>1, <3>2, <3>3 DEF LostOnlyWhenFilled
    <3> QED
      BY <3>4, <3>5, <3>6, <3>7
  <2>6. CASE UNCHANGED poolVars
    <3>1. UNCHANGED <<handles, numSlots, acquirePos, releasePos, numUsedSlots, handle, last, filled, kept>>
      BY <2>6 DEF poolVars, pool
    <3>2. Slots' = Slots /\ \A i : Pooled(i)' <=> Pooled(i)
      BY <3>1 DEF Slots, Pooled
    <3> QED
      BY <3>1, <3>2 DEF PoolTypeOK, Numbered, Exclusive, LostOnlyWhenFilled
  <2> QED
    BY <2>1, <2>2, <2>3, <2>4, <2>5, <2>6 DEF PoolNext
<1> QED
  BY <1>1, <1>2, PTL DEF PoolSpec

\* No two calls of any number ever report into one error handle, and none is
\* handed out that another still uses.
THEOREM HandlesAreExclusive == PoolSpec => []Exclusive
<1>1. PoolInv => Exclusive
  BY DEF PoolInv
<1> QED
  BY <1>1, PoolInvariant, PTL

\* Handles are lost only by functions that keep theirs, or once the ring has
\* been filled.
THEOREM HandlesAreKept == PoolSpec => []LostOnlyWhenFilled
<1>1. PoolInv => LostOnlyWhenFilled
  BY DEF PoolInv
<1> QED
  BY <1>1, PoolInvariant, PTL

\* Both: what the runs check of the ring, for any calls and any slots.
THEOREM RingStaysSound == PoolSpec => []PoolIsSound
<1>1. Exclusive /\ LostOnlyWhenFilled => PoolIsSound
  BY DEF PoolIsSound
<1> QED
  BY <1>1, HandlesAreExclusive, HandlesAreKept, PTL

-----------------------------------------------------------------------------
\* The lists of open handles.

\* What every handle holds is freed once.
ListedFreedOnce == \A h \in Listed : OciFreesOnce(h)

\* A thread is at work on its handle; between two slots it keeps the last one.
Busy(t) == doing[t].step \notin {"idle", "read"}

\* A handle that was never made was never closed.
NotMadeIsNew ==
    \A h \in Listed : listed[h].is = "none" =>
        listed[h].ociFrees = 0 /\ listed[h].by = {} /\ ~listed[h].closing

\* Threads and slots hold handles that were made.
OnlyMadeAreUsed ==
    /\ \A t \in ListUsers : Busy(t) => Hand(t) \in Listed /\ listed[Hand(t)].is /= "none"
    /\ \A i \in DOMAIN slots : slots[i] /= NoListed => listed[slots[i]].is /= "none"

\* A handle that is being created is known to nobody else.
NewIsOwn ==
    \A t \in ListUsers : At(t, "add") =>
        /\ listed[Hand(t)].held /\ ~listed[Hand(t)].closing /\ listed[Hand(t)].by = {}
        /\ \A i \in DOMAIN slots : slots[i] /= Hand(t)
        /\ \A u \in ListUsers : u /= t /\ Busy(u) => Hand(u) /= Hand(t)

\* One thread at a time frees what a handle holds.
OneFrees ==
    /\ \A t \in ListUsers : At(t, "oci") => listed[Hand(t)].held /\ listed[Hand(t)].closing
    /\ \A t, u \in ListUsers : t /= u /\ At(t, "oci") /\ At(u, "oci") => Hand(t) /= Hand(u)
    /\ \A t \in ListUsers : At(t, "remove") => ~listed[Hand(t)].held

\* The inductive invariant.
ListInv == ListTypeOK /\ ListedFreedOnce /\ NotMadeIsNew /\ OnlyMadeAreUsed /\ NewIsOwn /\ OneFrees

\* The slots are numbered from 0.
LEMMA CountSlots ==
    ASSUME NEW n \in Nat
    PROVE  Cardinality(0..n - 1) = n
BY FS_Interval

LEMMA ListInitInv == ListInit => ListInv
<1> SUFFICES ASSUME ListInit PROVE ListInv
  OBVIOUS
<1> USE ListAssumption DEF ListInit, NoListed
<1>1. ListTypeOK
  <2>1. /\ slots \in [0..NumSlots - 1 -> Listed \union {NoListed}] /\ NumSlots \in Nat \ {0}
        /\ usedSlots \in Int /\ currentPos \in Int
    <3>1. DOMAIN slots = 0..SlotChunk - 1 /\ SlotChunk \in Nat \ {0}
      OBVIOUS
    <3>2. NumSlots = SlotChunk
      BY <3>1, CountSlots DEF NumSlots
    <3> QED
      BY <3>1, <3>2
  <2>2. NotMade \in Records
    BY DEF NotMade, Records
  <2>3. Idle0 \in Doings
    BY DEF Idle0, Starts, Doings
  <2> QED
    BY <2>1, <2>2, <2>3 DEF ListTypeOK
<1>2. ListedFreedOnce /\ NotMadeIsNew
  BY DEF ListedFreedOnce, OciFreesOnce, NotMadeIsNew, NotMade
<1>3. OnlyMadeAreUsed /\ NewIsOwn /\ OneFrees
  BY DEF OnlyMadeAreUsed, NewIsOwn, OneFrees, Busy, At, Hand, Idle0, Starts
<1> QED
  BY <1>1, <1>2, <1>3 DEF ListInv

\* What a thread does to a handle it works on, or has a reference to, keeps the
\* invariant: the handle is not one that another thread is creating, and no
\* other thread is freeing what it holds when that changes.
LEMMA StepKeeps ==
    ASSUME ListInv, ListTypeOK', NEW t \in ListUsers, NEW h \in Listed, listed[h].is /= "none",
           \A u \in ListUsers \ {t} : At(u, "add") => Hand(u) /= h,
           \A u \in ListUsers \ {t} : doing'[u] = doing[u],
           doing'[t].step /= "add", Busy(t)' => Hand(t)' = h,
           \A g \in Listed \ {h} : listed'[g] = listed[g],
           \A i \in DOMAIN slots' : i \in DOMAIN slots /\ slots'[i] \in {slots[i], NoListed},
           listed'[h].is /= "none",
           listed'[h].held => listed[h].held,
           \/ listed'[h].ociFrees = listed[h].ociFrees
           \/ /\ listed[h].held /\ ~listed'[h].held
              /\ listed'[h].ociFrees = listed[h].ociFrees + 1,
           At(t, "oci")' => /\ listed'[h].held /\ listed'[h].closing
                            /\ \A u \in ListUsers \ {t} : At(u, "oci") => Hand(u) /= h,
           \A u \in ListUsers \ {t} :
               At(u, "oci") /\ Hand(u) = h => listed'[h].held /\ listed'[h].closing,
           At(t, "remove")' => ~listed'[h].held
    PROVE  ListInv'
<1> USE DEF ListInv
<1>0. /\ \A u \in ListUsers \ {t} : /\ Hand(u)' = Hand(u) /\ (Busy(u)' <=> Busy(u))
                                    /\ (At(u, "add")' <=> At(u, "add"))
                                    /\ (At(u, "oci")' <=> At(u, "oci"))
                                    /\ (At(u, "remove")' <=> At(u, "remove"))
      /\ ~At(t, "add")'
  BY DEF Hand, Busy, At
<1>1. ListedFreedOnce'
  <2> SUFFICES ASSUME NEW g \in Listed
               PROVE  listed'[g].ociFrees <= 1 /\ (listed'[g].held => listed'[g].ociFrees = 0)
    BY DEF ListedFreedOnce, OciFreesOnce
  <2>1. CASE g /= h
    BY <2>1 DEF ListedFreedOnce, OciFreesOnce
  <2>2. CASE g = h
    BY <2>2 DEF ListedFreedOnce, OciFreesOnce
  <2> QED
    BY <2>1, <2>2
<1>2. NotMadeIsNew'
  BY DEF NotMadeIsNew
<1>3. OnlyMadeAreUsed'
  <2>1. \A u \in ListUsers : Busy(u)' => Hand(u)' \in Listed /\ listed'[Hand(u)'].is /= "none"
    BY <1>0 DEF OnlyMadeAreUsed
  <2>2. \A i \in DOMAIN slots' : slots'[i] /= NoListed => listed'[slots'[i]].is /= "none"
    <3> SUFFICES ASSUME NEW i \in DOMAIN slots', slots'[i] /= NoListed
                 PROVE  listed'[slots'[i]].is /= "none"
      OBVIOUS
    <3>1. slots'[i] = slots[i] /\ slots[i] \in Listed /\ i \in DOMAIN slots
      BY DEF ListTypeOK
    <3> QED
      BY <3>1 DEF OnlyMadeAreUsed
  <2> QED
    BY <2>1, <2>2 DEF OnlyMadeAreUsed
<1>4. NewIsOwn'
  <2> SUFFICES ASSUME NEW u \in ListUsers, At(u, "add")'
               PROVE  /\ listed'[Hand(u)'].held /\ ~listed'[Hand(u)'].closing
                      /\ listed'[Hand(u)'].by = {}
                      /\ \A i \in DOMAIN slots' : slots'[i] /= Hand(u)'
                      /\ \A v \in ListUsers : v /= u /\ Busy(v)' => Hand(v)' /= Hand(u)'
    BY DEF NewIsOwn
  <2>1. u /= t /\ At(u, "add") /\ Hand(u)' = Hand(u) /\ Hand(u) \in Listed \ {h}
    BY <1>0 DEF OnlyMadeAreUsed, Busy, At
  <2>2. \A i \in DOMAIN slots' : slots'[i] /= Hand(u)
    BY <2>1, ListAssumption DEF NewIsOwn, NoListed
  <2>3. \A v \in ListUsers : v /= u /\ Busy(v)' => Hand(v)' /= Hand(u)
    BY <2>1, <1>0 DEF NewIsOwn
  <2> QED
    BY <2>1, <2>2, <2>3 DEF NewIsOwn
<1>5. OneFrees'
  BY <1>0 DEF OneFrees, OnlyMadeAreUsed, Busy, At
<1> QED
  BY <1>1, <1>2, <1>3, <1>4, <1>5

\* A handle a thread is at work on is nobody else's new one.
LEMMA HasHandle ==
    ASSUME ListInv, NEW t \in ListUsers, Busy(t)
    PROVE  /\ Hand(t) \in Listed /\ listed[Hand(t)].is /= "none"
           /\ doing[t] \in Doings /\ doing[t].i + 1 \in Nat
           /\ \A u \in ListUsers \ {t} : At(u, "add") => Hand(u) /= Hand(t)
<1>1. doing[t] \in Doings /\ doing[t].i \in Nat
  BY DEF ListInv, ListTypeOK, Doings
<1> QED
  BY <1>1 DEF ListInv, OnlyMadeAreUsed, NewIsOwn

\* Nothing is done to the list or to a handle.
LEMMA IdleKeeps ==
    ASSUME ListInv, ListTypeOK', NEW t \in ListUsers, UNCHANGED <<listed, slots>>,
           \A u \in ListUsers \ {t} : doing'[u] = doing[u], ~Busy(t)'
    PROVE  ListInv'
<1> USE DEF ListInv
<1>1. /\ \A u \in ListUsers \ {t} : /\ Hand(u)' = Hand(u) /\ (Busy(u)' <=> Busy(u))
                                    /\ (At(u, "add")' <=> At(u, "add"))
                                    /\ (At(u, "oci")' <=> At(u, "oci"))
                                    /\ (At(u, "remove")' <=> At(u, "remove"))
      /\ ~At(t, "add")' /\ ~At(t, "oci")' /\ ~At(t, "remove")'
  BY DEF Hand, Busy, At
<1>2. ListedFreedOnce' /\ NotMadeIsNew'
  BY DEF ListedFreedOnce, OciFreesOnce, NotMadeIsNew
<1>3. OnlyMadeAreUsed' /\ NewIsOwn' /\ OneFrees'
  BY <1>1 DEF OnlyMadeAreUsed, NewIsOwn, OneFrees
<1> QED
  BY <1>2, <1>3

\* The same for a step that puts a record in place of the handle's, and one in
\* place of the thread's.
LEMMA RecordKeeps ==
    ASSUME ListInv, NEW t \in ListUsers, NEW h \in Listed, listed[h].is /= "none",
           \A u \in ListUsers \ {t} : At(u, "add") => Hand(u) /= h,
           NEW r \in Records, listed' = [listed EXCEPT ![h] = r],
           NEW d \in Doings, doing' = [doing EXCEPT ![t] = d],
           slots' = slots \/ \E k : slots' = [slots EXCEPT ![k] = NoListed],
           usedSlots' \in Int, currentPos' = currentPos,
           d.step /= "add", d.step \notin {"idle", "read"} => d.h = h,
           r.is /= "none", r.held => listed[h].held,
           \/ r.ociFrees = listed[h].ociFrees
           \/ listed[h].held /\ ~r.held /\ r.ociFrees = listed[h].ociFrees + 1,
           d.step = "oci" => /\ r.held /\ r.closing
                             /\ \A u \in ListUsers \ {t} : At(u, "oci") => Hand(u) /= h,
           \A u \in ListUsers \ {t} : At(u, "oci") /\ Hand(u) = h => r.held /\ r.closing,
           d.step = "remove" => ~r.held
    PROVE  ListInv'
<1>1. /\ listed' \in [Listed -> Records] /\ listed'[h] = r
      /\ \A g \in Listed \ {h} : listed'[g] = listed[g]
  BY DEF ListInv, ListTypeOK
<1>2. /\ doing' \in [ListUsers -> Doings] /\ doing'[t] = d
      /\ \A u \in ListUsers \ {t} : doing'[u] = doing[u]
  BY DEF ListInv, ListTypeOK
<1>3. /\ NumSlots' = NumSlots
      /\ slots' \in [0..NumSlots - 1 -> Listed \union {NoListed}]
      /\ \A i \in DOMAIN slots' : i \in DOMAIN slots /\ slots'[i] \in {slots[i], NoListed}
  <2>1. CASE slots' = slots
    BY <2>1 DEF ListInv, ListTypeOK, NumSlots
  <2>2. CASE \E k : slots' = [slots EXCEPT ![k] = NoListed]
    <3>1. PICK k : slots' = [slots EXCEPT ![k] = NoListed]
      BY <2>2
    <3>2. DOMAIN slots' = DOMAIN slots
      BY <3>1
    <3> QED
      BY <3>1, <3>2 DEF ListInv, ListTypeOK, NumSlots
  <2> QED
    BY <2>1, <2>2
<1>4. ListTypeOK'
  BY <1>1, <1>2, <1>3 DEF ListInv, ListTypeOK
<1>5. /\ (At(t, "oci")' <=> d.step = "oci") /\ (At(t, "remove")' <=> d.step = "remove")
      /\ (Busy(t)' => Hand(t)' = h)
  BY <1>2 DEF At, Busy, Hand
<1> QED
  BY <1>1, <1>2, <1>3, <1>4, <1>5, StepKeeps

\* The same for a step that does not change what the handle holds.
LEMMA QuietKeeps ==
    ASSUME ListInv, NEW t \in ListUsers, NEW h \in Listed, listed[h].is /= "none",
           \A u \in ListUsers \ {t} : At(u, "add") => Hand(u) /= h,
           NEW r \in Records, listed' = [listed EXCEPT ![h] = r],
           NEW d \in Doings, doing' = [doing EXCEPT ![t] = d], UNCHANGED slotVars,
           r.is /= "none", r.held = listed[h].held, r.closing = listed[h].closing,
           r.ociFrees = listed[h].ociFrees,
           d.step \notin {"add", "oci", "remove"}, d.step \notin {"idle", "read"} => d.h = h
    PROVE  ListInv'
<1>1. \A u \in ListUsers \ {t} : At(u, "oci") /\ Hand(u) = h => r.held /\ r.closing
  BY DEF ListInv, OneFrees
<1>2. slots' = slots /\ usedSlots' \in Int /\ currentPos' = currentPos
  BY DEF slotVars, ListInv, ListTypeOK
<1> QED
  BY <1>1, <1>2, RecordKeeps

\* What a thread does next is of its type.
LEMMA IdleDoing == Idle0 \in Doings /\ Idle0.step = "idle"
BY DEF Idle0, Starts, Doings

LEMMA StartsDoing ==
    ASSUME NEW h \in Listed
    PROVE  /\ Starts("close", h, "back") \in Doings /\ Starts("close", h, "free") \in Doings
           /\ Starts("add", h, "back") \in Doings
           /\ \A step, then : Starts(step, h, then).step = step /\ Starts(step, h, then).h = h
<1>1. Starts("close", h, "back") \in Doings /\ Starts("close", h, "free") \in Doings
  BY DEF Starts, Doings
<1>2. Starts("add", h, "back") \in Doings
  BY DEF Starts, Doings
<1>3. \A step, then : Starts(step, h, then).step = step /\ Starts(step, h, then).h = h
  BY DEF Starts
<1> QED
  BY <1>1, <1>2, <1>3

LEMMA StepDoing ==
    ASSUME NEW d \in Doings, NEW step \in {"read", "close"}
    PROVE  /\ \A i \in Nat : /\ [[d EXCEPT !.step = step] EXCEPT !.i = i] \in Doings
                            /\ [[d EXCEPT !.step = step] EXCEPT !.i = i].step = step
           /\ \A then \in {"free", "loop", "freeAndFail"} :
                  /\ [[d EXCEPT !.step = step] EXCEPT !.then = then] \in Doings
                  /\ [[d EXCEPT !.step = step] EXCEPT !.then = then].step = step
                  /\ [[d EXCEPT !.step = step] EXCEPT !.then = then].h = d.h
BY DEF Doings

\* What a thread does to a record and does not change what the handle holds.
SameHold(r, q) == r.held = q.held /\ r.closing = q.closing /\ r.ociFrees = q.ociFrees

LEMMA CountRecord ==
    ASSUME NEW q \in Records, NEW c \in Int
    PROVE  /\ [q EXCEPT !.count = c] \in Records /\ [q EXCEPT !.count = c].is = q.is
           /\ [q EXCEPT !.count = c].by = q.by /\ SameHold([q EXCEPT !.count = c], q)
BY DEF Records, SameHold

LEMMA ByRecord ==
    ASSUME NEW q \in Records, NEW by \in SUBSET ListUsers
    PROVE  /\ [q EXCEPT !.by = by] \in Records /\ [q EXCEPT !.by = by].is = q.is
           /\ SameHold([q EXCEPT !.by = by], q)
BY DEF Records, SameHold

LEMMA IsRecord ==
    ASSUME NEW q \in Records, NEW is \in {"live", "freed"}
    PROVE  /\ [q EXCEPT !.is = is] \in Records /\ [q EXCEPT !.is = is].is = is
           /\ SameHold([q EXCEPT !.is = is], q)
BY DEF Records, SameHold

LEMMA MarkClosingKeeps ==
    ASSUME ListInv, NEW t \in ListUsers, MarkClosing(t)
    PROVE  ListInv'
<1> DEFINE h == Hand(t)
           r == [listed[h] EXCEPT !.closing = TRUE]
           d == [doing[t] EXCEPT !.step = IF listed[h].held /\ ~listed[h].closing THEN "oci" ELSE "end"]
<1>1. /\ h \in Listed /\ listed[h].is /= "none" /\ listed[h] \in Records /\ doing[t] \in Doings
      /\ \A u \in ListUsers \ {t} : At(u, "add") => Hand(u) /= h
  BY HasHandle DEF MarkClosing, ListInv, ListTypeOK, Busy, At
<1>2. r \in Records /\ r.closing /\ r.held = listed[h].held /\ r.is = listed[h].is /\ r.ociFrees = listed[h].ociFrees
  BY <1>1 DEF Records
<1>3. d \in Doings /\ d.h = h /\ d.step \in {"oci", "end"}
      /\ (d.step = "oci" => listed[h].held /\ ~listed[h].closing)
  BY <1>1 DEF Doings, Hand
<1>4. listed' = [listed EXCEPT ![h] = r] /\ doing' = [doing EXCEPT ![t] = d]
  BY DEF MarkClosing, Goes
<1>5. \A u \in ListUsers : At(u, "oci") => listed[Hand(u)].held /\ listed[Hand(u)].closing
  BY DEF ListInv, OneFrees
<1>6. slots' = slots /\ usedSlots' \in Int /\ currentPos' = currentPos
  BY DEF MarkClosing, slotVars, ListInv, ListTypeOK
<1> HIDE DEF h, r, d
<1>7. /\ d.step /= "add" /\ d.step /= "remove" /\ r.is /= "none" /\ (r.held => listed[h].held)
      /\ r.ociFrees = listed[h].ociFrees
      /\ \A u \in ListUsers \ {t} : At(u, "oci") /\ Hand(u) = h => r.held /\ r.closing
  BY <1>1, <1>2, <1>3, <1>5
<1>8. d.step = "oci" => /\ r.held /\ r.closing
                        /\ \A u \in ListUsers \ {t} : At(u, "oci") => Hand(u) /= h
  BY <1>1, <1>2, <1>3, <1>5
<1> QED
  BY <1>1, <1>2, <1>3, <1>4, <1>6, <1>7, <1>8, RecordKeeps

\* One lemma for each action.
LEMMA ShareListedKeeps ==
    ASSUME ListInv, NEW t \in ListUsers, NEW h \in Listed, ShareListed(t, h)
    PROVE  ListInv'
<1> DEFINE q == [listed[h] EXCEPT !.count = listed[h].count + 1]
           r == [q EXCEPT !.by = listed[h].by \union {t}]
           d == doing[t]
<1>1. /\ listed[h].is /= "none" /\ listed[h] \in Records /\ doing[t] \in Doings
      /\ \A u \in ListUsers \ {t} : At(u, "add") => Hand(u) /= h
  BY DEF ShareListed, ListInv, ListTypeOK, NotMadeIsNew, NewIsOwn
<1>2. r \in Records /\ r.is /= "none" /\ SameHold(r, listed[h])
  <2>1. q \in Records /\ q.is = listed[h].is /\ SameHold(q, listed[h])
    BY <1>1, CountRecord DEF Records
  <2> HIDE DEF q
  <2> QED
    BY <2>1, <1>1, ByRecord DEF SameHold, Records
<1>3. d \in Doings /\ d.step = "idle"
  BY <1>1 DEF ShareListed, IsIdle
<1>4. listed' = [listed EXCEPT ![h] = r] /\ doing' = [doing EXCEPT ![t] = d]
  BY <1>1 DEF ShareListed, Goes, ListInv, ListTypeOK
<1>5. UNCHANGED slotVars
  BY DEF ShareListed
<1> HIDE DEF r, d
<1> QED
  BY <1>1, <1>2, <1>3, <1>4, <1>5, QuietKeeps DEF SameHold

LEMMA ReleaseListedKeeps ==
    ASSUME ListInv, NEW t \in ListUsers, NEW h \in Listed, ReleaseListed(t, h)
    PROVE  ListInv'
<1> DEFINE q == [listed[h] EXCEPT !.count = listed[h].count - 1]
           r == [q EXCEPT !.by = listed[h].by \ {t}]
           d == IF listed[h].count > 1 THEN Idle0
                ELSE Starts("close", h, "free")
<1>1. /\ listed[h].is /= "none" /\ listed[h] \in Records /\ doing[t] \in Doings
      /\ \A u \in ListUsers \ {t} : At(u, "add") => Hand(u) /= h
  BY DEF ReleaseListed, ListInv, ListTypeOK, NotMadeIsNew, NewIsOwn
<1>2. r \in Records /\ r.is /= "none" /\ SameHold(r, listed[h])
  <2>1. q \in Records /\ q.is = listed[h].is /\ SameHold(q, listed[h])
    BY <1>1, CountRecord DEF Records
  <2> HIDE DEF q
  <2> QED
    BY <2>1, <1>1, ByRecord DEF SameHold, Records
<1>3. d \in Doings /\ d.step \in {"idle", "close"} /\ (d.step = "close" => d.h = h)
  BY IdleDoing, StartsDoing
<1>4. listed' = [listed EXCEPT ![h] = r] /\ doing' = [doing EXCEPT ![t] = d]
  BY <1>1 DEF ReleaseListed, Goes, ListInv, ListTypeOK
<1>5. UNCHANGED slotVars
  BY DEF ReleaseListed
<1> HIDE DEF r, d
<1> QED
  BY <1>1, <1>2, <1>3, <1>4, <1>5, QuietKeeps DEF SameHold

LEMMA CloseListedKeeps ==
    ASSUME ListInv, NEW t \in ListUsers, NEW h \in Listed, CloseListed(t, h)
    PROVE  ListInv'
<1> DEFINE r == listed[h]
           d == Starts("close", h, "back")
<1>1. /\ listed[h].is /= "none" /\ listed[h] \in Records /\ doing[t] \in Doings
      /\ \A u \in ListUsers \ {t} : At(u, "add") => Hand(u) /= h
  BY DEF CloseListed, ListInv, ListTypeOK, NotMadeIsNew, NewIsOwn
<1>2. r \in Records /\ r.is /= "none" /\ SameHold(r, listed[h])
  BY <1>1 DEF SameHold
<1>3. d \in Doings /\ d.step = "close" /\ d.h = h
  BY StartsDoing
<1>4. listed' = [listed EXCEPT ![h] = r] /\ doing' = [doing EXCEPT ![t] = d]
  BY <1>1 DEF CloseListed, Goes, ListInv, ListTypeOK
<1>5. UNCHANGED slotVars
  BY DEF CloseListed
<1> HIDE DEF r, d
<1> QED
  BY <1>1, <1>2, <1>3, <1>4, <1>5, QuietKeeps DEF SameHold

LEMMA CloseEndsKeeps ==
    ASSUME ListInv, NEW t \in ListUsers, CloseEnds(t)
    PROVE  ListInv'
<1> DEFINE h == Hand(t)
           r == IF doing[t].then = "free" THEN [listed[h] EXCEPT !.is = "freed"] ELSE listed[h]
           d == Idle0
<1>1. /\ h \in Listed /\ listed[h].is /= "none" /\ listed[h] \in Records /\ doing[t] \in Doings
      /\ doing[t].i + 1 \in Nat
      /\ \A u \in ListUsers \ {t} : At(u, "add") => Hand(u) /= h
  BY HasHandle DEF CloseEnds, ListInv, ListTypeOK, Busy, At
<1>2. r \in Records /\ r.is /= "none" /\ SameHold(r, listed[h])
  BY <1>1, IsRecord DEF SameHold
<1>3. d \in Doings /\ d.step = "idle"
  BY IdleDoing
<1>4. listed' = [listed EXCEPT ![h] = r] /\ doing' = [doing EXCEPT ![t] = d]
  BY <1>1 DEF CloseEnds, Goes, ListInv, ListTypeOK
<1>5. UNCHANGED slotVars
  BY DEF CloseEnds
<1> HIDE DEF h, r, d
<1> QED
  BY <1>1, <1>2, <1>3, <1>4, <1>5, QuietKeeps DEF SameHold

LEMMA NextListedKeeps ==
    ASSUME ListInv, NEW t \in ListUsers, NextListed(t)
    PROVE  ListInv'
<1> DEFINE h == Hand(t)
           q == [listed[h] EXCEPT !.count = listed[h].count - 1]
           r == [q EXCEPT !.is = IF listed[h].count = 1 THEN "freed" ELSE listed[h].is]
           d == [doing[t] EXCEPT !.step = "read", !.i = doing[t].i + 1]
<1>1. /\ h \in Listed /\ listed[h].is /= "none" /\ listed[h] \in Records /\ doing[t] \in Doings
      /\ doing[t].i + 1 \in Nat
      /\ \A u \in ListUsers \ {t} : At(u, "add") => Hand(u) /= h
  BY HasHandle DEF NextListed, ListInv, ListTypeOK, Busy, At
<1>2. r \in Records /\ r.is /= "none" /\ SameHold(r, listed[h])
  <2>1. q \in Records /\ q.is = listed[h].is /\ SameHold(q, listed[h])
    BY <1>1, CountRecord DEF Records
  <2> HIDE DEF q
  <2> QED
    BY <2>1, <1>1, IsRecord DEF SameHold, Records
<1>3. d \in Doings /\ d.step = "read"
  BY <1>1, StepDoing
<1>4. listed' = [listed EXCEPT ![h] = r] /\ doing' = [doing EXCEPT ![t] = d]
  BY <1>1 DEF NextListed, Goes, ListInv, ListTypeOK, Unpinned
<1>5. UNCHANGED slotVars
  BY DEF NextListed
<1> HIDE DEF h, r, d
<1> QED
  BY <1>1, <1>2, <1>3, <1>4, <1>5, QuietKeeps DEF SameHold

LEMMA CloseConnFailsKeeps ==
    ASSUME ListInv, NEW t \in ListUsers, CloseConnFails(t)
    PROVE  ListInv'
<1> DEFINE h == Hand(t)
           q == [listed[h] EXCEPT !.count = listed[h].count - 1]
           r == [q EXCEPT !.is = IF listed[h].count = 1 THEN "freed" ELSE listed[h].is]
           d == Idle0
<1>1. /\ h \in Listed /\ listed[h].is /= "none" /\ listed[h] \in Records /\ doing[t] \in Doings
      /\ doing[t].i + 1 \in Nat
      /\ \A u \in ListUsers \ {t} : At(u, "add") => Hand(u) /= h
  BY HasHandle DEF CloseConnFails, ListInv, ListTypeOK, Busy, At
<1>2. r \in Records /\ r.is /= "none" /\ SameHold(r, listed[h])
  <2>1. q \in Records /\ q.is = listed[h].is /\ SameHold(q, listed[h])
    BY <1>1, CountRecord DEF Records
  <2> HIDE DEF q
  <2> QED
    BY <2>1, <1>1, IsRecord DEF SameHold, Records
<1>3. d \in Doings /\ d.step = "idle"
  BY IdleDoing
<1>4. listed' = [listed EXCEPT ![h] = r] /\ doing' = [doing EXCEPT ![t] = d]
  BY <1>1 DEF CloseConnFails, Goes, ListInv, ListTypeOK, Unpinned
<1>5. UNCHANGED slotVars
  BY DEF CloseConnFails
<1> HIDE DEF h, r, d
<1> QED
  BY <1>1, <1>2, <1>3, <1>4, <1>5, QuietKeeps DEF SameHold

LEMMA CloseConnFreesKeeps ==
    ASSUME ListInv, NEW t \in ListUsers, CloseConnFrees(t)
    PROVE  ListInv'
<1> DEFINE h == Hand(t)
           r == [listed[h] EXCEPT !.count = 0]
           d == [doing[t] EXCEPT !.step = "close", !.then = "freeAndFail"]
<1>1. /\ h \in Listed /\ listed[h].is /= "none" /\ listed[h] \in Records /\ doing[t] \in Doings
      /\ doing[t].i + 1 \in Nat
      /\ \A u \in ListUsers \ {t} : At(u, "add") => Hand(u) /= h
  BY HasHandle DEF CloseConnFrees, ListInv, ListTypeOK, Busy, At
<1>2. r \in Records /\ r.is /= "none" /\ SameHold(r, listed[h])
  BY <1>1, CountRecord
<1>3. d \in Doings /\ d.step = "close" /\ d.h = h
  BY <1>1, StepDoing DEF Hand
<1>4. listed' = [listed EXCEPT ![h] = r] /\ doing' = [doing EXCEPT ![t] = d]
  BY <1>1 DEF CloseConnFrees, Goes, ListInv, ListTypeOK
<1>5. UNCHANGED slotVars
  BY DEF CloseConnFrees
<1> HIDE DEF h, r, d
<1> QED
  BY <1>1, <1>2, <1>3, <1>4, <1>5, QuietKeeps DEF SameHold

LEMMA CloseConnFailsFreedKeeps ==
    ASSUME ListInv, NEW t \in ListUsers, CloseConnFailsFreed(t)
    PROVE  ListInv'
<1> DEFINE h == Hand(t)
           r == [listed[h] EXCEPT !.is = "freed"]
           d == Idle0
<1>1. /\ h \in Listed /\ listed[h].is /= "none" /\ listed[h] \in Records /\ doing[t] \in Doings
      /\ doing[t].i + 1 \in Nat
      /\ \A u \in ListUsers \ {t} : At(u, "add") => Hand(u) /= h
  BY HasHandle DEF CloseConnFailsFreed, ListInv, ListTypeOK, Busy, At
<1>2. r \in Records /\ r.is /= "none" /\ SameHold(r, listed[h])
  BY <1>1, IsRecord
<1>3. d \in Doings /\ d.step = "idle"
  BY IdleDoing
<1>4. listed' = [listed EXCEPT ![h] = r] /\ doing' = [doing EXCEPT ![t] = d]
  BY <1>1 DEF CloseConnFailsFreed, Goes, ListInv, ListTypeOK
<1>5. UNCHANGED slotVars
  BY DEF CloseConnFailsFreed
<1> HIDE DEF h, r, d
<1> QED
  BY <1>1, <1>2, <1>3, <1>4, <1>5, QuietKeeps DEF SameHold

LEMMA ObjectFailsKeeps ==
    ASSUME ListInv, NEW t \in ListUsers, ObjectFails(t)
    PROVE  ListInv'
<1> DEFINE h == Hand(t)
           r == listed[h]
           d == [doing[t] EXCEPT !.step = "close", !.then = "free"]
<1>1. /\ h \in Listed /\ listed[h].is /= "none" /\ listed[h] \in Records /\ doing[t] \in Doings
      /\ doing[t].i + 1 \in Nat
      /\ \A u \in ListUsers \ {t} : At(u, "add") => Hand(u) /= h
  BY HasHandle DEF ObjectFails, ListInv, ListTypeOK, Busy, At
<1>2. r \in Records /\ r.is /= "none" /\ SameHold(r, listed[h])
  BY <1>1 DEF SameHold
<1>3. d \in Doings /\ d.step = "close" /\ d.h = h
  BY <1>1, StepDoing DEF Hand
<1>4. listed' = [listed EXCEPT ![h] = r] /\ doing' = [doing EXCEPT ![t] = d]
  BY <1>1 DEF ObjectFails, Goes, ListInv, ListTypeOK
<1>5. UNCHANGED slotVars
  BY DEF ObjectFails
<1> HIDE DEF h, r, d
<1> QED
  BY <1>1, <1>2, <1>3, <1>4, <1>5, QuietKeeps DEF SameHold

LEMMA PinListedKeeps ==
    ASSUME ListInv, NEW t \in ListUsers, PinListed(t)
    PROVE  ListInv'
<1> DEFINE h == Hand(t)
           r == IF listed[h].is = "live" /\ listed[h].count > 0
                THEN [listed[h] EXCEPT !.count = listed[h].count + 1] ELSE listed[h]
           d == IF listed[h].is = "live" /\ listed[h].count > 0
                THEN [doing[t] EXCEPT !.step = "close", !.then = "loop"]
                ELSE [doing[t] EXCEPT !.step = "read", !.i = doing[t].i + 1]
<1>1. /\ h \in Listed /\ listed[h].is /= "none" /\ listed[h] \in Records /\ doing[t] \in Doings
      /\ doing[t].i + 1 \in Nat
      /\ \A u \in ListUsers \ {t} : At(u, "add") => Hand(u) /= h
  BY HasHandle DEF PinListed, ListInv, ListTypeOK, Busy, At
<1>2. r \in Records /\ r.is /= "none" /\ SameHold(r, listed[h])
  BY <1>1, CountRecord DEF Records, SameHold
<1>3. d \in Doings /\ d.step \in {"close", "read"} /\ (d.step = "close" => d.h = h)
  <2>1. CASE listed[h].is = "live" /\ listed[h].count > 0
    BY <2>1, <1>1, StepDoing DEF Hand
  <2>2. CASE ~(listed[h].is = "live" /\ listed[h].count > 0)
    <3>1. d = [doing[t] EXCEPT !.step = "read", !.i = doing[t].i + 1]
      BY <2>2
    <3> HIDE DEF d, r
    <3>2. d \in Doings /\ d.step = "read"
      BY <3>1, <1>1, StepDoing
    <3> QED
      BY <3>2
  <2> QED
    BY <2>1, <2>2
<1>4. listed' = [listed EXCEPT ![h] = r] /\ doing' = [doing EXCEPT ![t] = d]
  BY <1>1 DEF PinListed, Goes, ListInv, ListTypeOK
<1>5. UNCHANGED slotVars
  BY DEF PinListed
<1> HIDE DEF h, r, d
<1> QED
  BY <1>1, <1>2, <1>3, <1>4, <1>5, QuietKeeps DEF SameHold

\* The same for a step on a handle that no other thread is freeing.
LEMMA AloneKeeps ==
    ASSUME ListInv, NEW t \in ListUsers, NEW h \in Listed, listed[h].is /= "none",
           \A u \in ListUsers \ {t} : At(u, "add") => Hand(u) /= h,
           \A u \in ListUsers \ {t} : At(u, "oci") => Hand(u) /= h,
           NEW r \in Records, listed' = [listed EXCEPT ![h] = r],
           NEW d \in Doings, doing' = [doing EXCEPT ![t] = d],
           slots' = slots \/ \E k : slots' = [slots EXCEPT ![k] = NoListed],
           usedSlots' \in Int, currentPos' = currentPos, r.is = listed[h].is,
           \/ r.held = listed[h].held /\ r.ociFrees = listed[h].ociFrees
           \/ listed[h].held /\ ~r.held /\ r.ociFrees = listed[h].ociFrees + 1,
           d.step \in {"close", "end"} \/ (d.step = "remove" /\ ~r.held), d.h = h
    PROVE  ListInv'
<1>1. d.step /= "add" /\ d.step /= "oci" /\ (d.step = "remove" => ~r.held)
  OBVIOUS
<1>2. /\ r.is /= "none" /\ (r.held => listed[h].held)
      /\ \/ r.ociFrees = listed[h].ociFrees
         \/ listed[h].held /\ ~r.held /\ r.ociFrees = listed[h].ociFrees + 1
  OBVIOUS
<1>3. \A u \in ListUsers \ {t} : At(u, "oci") /\ Hand(u) = h => r.held /\ r.closing
  OBVIOUS
<1> QED
  BY <1>1, <1>2, <1>3, RecordKeeps

\* OCI frees what the handle holds: it is nobody else that does so.
LEMMA FreedRecord ==
    ASSUME NEW q \in Records
    PROVE  /\ [[q EXCEPT !.held = FALSE] EXCEPT !.ociFrees = q.ociFrees + 1] \in Records
           /\ [[q EXCEPT !.held = FALSE] EXCEPT !.ociFrees = q.ociFrees + 1].is = q.is
           /\ [[q EXCEPT !.held = FALSE] EXCEPT !.ociFrees = q.ociFrees + 1].held = FALSE
           /\ [[q EXCEPT !.held = FALSE] EXCEPT !.ociFrees = q.ociFrees + 1].ociFrees = q.ociFrees + 1
<1> DEFINE p == [q EXCEPT !.held = FALSE]
<1>0. q.ociFrees + 1 \in Nat
  BY DEF Records
<1>1. p \in Records /\ p.is = q.is /\ p.held = FALSE /\ p.ociFrees = q.ociFrees
  BY DEF Records
<1> HIDE DEF p
<1>2. /\ [p EXCEPT !.ociFrees = q.ociFrees + 1] \in Records
      /\ [p EXCEPT !.ociFrees = q.ociFrees + 1].is = q.is
      /\ [p EXCEPT !.ociFrees = q.ociFrees + 1].held = FALSE
      /\ [p EXCEPT !.ociFrees = q.ociFrees + 1].ociFrees = q.ociFrees + 1
  BY <1>0, <1>1 DEF Records
<1> QED
  BY <1>2 DEF p

LEMMA ClosingRecord ==
    ASSUME NEW q \in Records, NEW b \in BOOLEAN
    PROVE  /\ [q EXCEPT !.closing = b] \in Records /\ [q EXCEPT !.closing = b].is = q.is
           /\ [q EXCEPT !.closing = b].held = q.held
           /\ [q EXCEPT !.closing = b].ociFrees = q.ociFrees
BY DEF Records

LEMMA OciFreeKeeps ==
    ASSUME ListInv, NEW t \in ListUsers, OciFree(t)
    PROVE  ListInv'
<1> DEFINE h == Hand(t)
           r == [listed[h] EXCEPT !.held = FALSE, !.ociFrees = listed[h].ociFrees + 1]
           d == [doing[t] EXCEPT !.step = "remove"]
<1>1. /\ h \in Listed /\ listed[h].is /= "none" /\ listed[h] \in Records /\ doing[t] \in Doings
      /\ \A u \in ListUsers \ {t} : At(u, "add") => Hand(u) /= h
  BY HasHandle DEF OciFree, ListInv, ListTypeOK, Busy, At
<1>2. r \in Records /\ r.is = listed[h].is /\ ~r.held /\ r.ociFrees = listed[h].ociFrees + 1
  BY <1>1, FreedRecord
<1>3. d \in Doings /\ d.step = "remove" /\ d.h = h
  BY <1>1 DEF Doings, Hand
<1>4. listed' = [listed EXCEPT ![h] = r] /\ doing' = [doing EXCEPT ![t] = d]
  BY <1>1 DEF OciFree, Goes, ListInv, ListTypeOK
<1>5. listed[h].held /\ \A u \in ListUsers \ {t} : At(u, "oci") => Hand(u) /= h
  BY DEF OciFree, ListInv, OneFrees
<1>6. slots' = slots /\ usedSlots' \in Int /\ currentPos' = currentPos
  BY DEF OciFree, slotVars, ListInv, ListTypeOK
<1> HIDE DEF h, r, d
<1> QED
  BY <1>1, <1>2, <1>3, <1>4, <1>5, <1>6, AloneKeeps

LEMMA OciFailsKeeps ==
    ASSUME ListInv, NEW t \in ListUsers, OciFails(t)
    PROVE  ListInv'
<1> DEFINE h == Hand(t)
           after == IF doing[t].then = "loop" THEN "loopFails" ELSE "backFails"
<1>1. /\ h \in Listed /\ listed[h].is /= "none" /\ listed[h] \in Records /\ doing[t] \in Doings
      /\ \A u \in ListUsers \ {t} : At(u, "add") => Hand(u) /= h
  BY HasHandle DEF OciFails, ListInv, ListTypeOK, Busy, At
<1>2. listed[h].held /\ \A u \in ListUsers \ {t} : At(u, "oci") => Hand(u) /= h
  BY DEF OciFails, ListInv, OneFrees
<1>3. slots' = slots /\ usedSlots' \in Int /\ currentPos' = currentPos
  BY DEF OciFails, slotVars, ListInv, ListTypeOK
<1>4. CASE listKind = "object"
  <2> DEFINE r == [listed[h] EXCEPT !.closing = FALSE]
             d == [doing[t] EXCEPT !.step = "end", !.then = after]
  <2>1. r \in Records /\ r.is = listed[h].is /\ r.held = listed[h].held /\ r.ociFrees = listed[h].ociFrees
    BY <1>1, ClosingRecord
  <2>2. d \in Doings /\ d.step = "end" /\ d.h = h
    BY <1>1 DEF Doings, Hand
  <2>3. listed' = [listed EXCEPT ![h] = r] /\ doing' = [doing EXCEPT ![t] = d]
    BY <1>1, <1>4 DEF OciFails, ListInv, ListTypeOK
  <2> HIDE DEF h, r, d
  <2> QED
    BY <1>1, <1>2, <1>3, <2>1, <2>2, <2>3, AloneKeeps
<1>5. CASE listKind /= "object"
  <2> DEFINE r == [listed[h] EXCEPT !.held = FALSE, !.ociFrees = listed[h].ociFrees + 1]
             d == [doing[t] EXCEPT !.step = "remove", !.then = after]
  <2>1. r \in Records /\ r.is = listed[h].is /\ ~r.held /\ r.ociFrees = listed[h].ociFrees + 1
    BY <1>1, FreedRecord
  <2>2. d \in Doings /\ d.step = "remove" /\ d.h = h
    BY <1>1 DEF Doings, Hand
  <2>3. listed' = [listed EXCEPT ![h] = r] /\ doing' = [doing EXCEPT ![t] = d]
    BY <1>1, <1>5 DEF OciFails, ListInv, ListTypeOK
  <2> HIDE DEF h, r, d
  <2> QED
    BY <1>1, <1>2, <1>3, <2>1, <2>2, <2>3, AloneKeeps
<1> QED
  BY <1>4, <1>5

LEMMA RemoveHandleKeeps ==
    ASSUME ListInv, NEW t \in ListUsers, RemoveHandle(t)
    PROVE  ListInv'
<1> DEFINE h == Hand(t)
           b == doing[t].then \notin {"backFails", "loopFails"}
           r == [listed[h] EXCEPT !.closing = b]
           d == [doing[t] EXCEPT !.step = "end"]
<1>1. /\ h \in Listed /\ listed[h].is /= "none" /\ listed[h] \in Records /\ doing[t] \in Doings
      /\ \A u \in ListUsers \ {t} : At(u, "add") => Hand(u) /= h
  BY HasHandle DEF RemoveHandle, ListInv, ListTypeOK, Busy, At
<1>2. r \in Records /\ r.is = listed[h].is /\ r.held = listed[h].held /\ r.ociFrees = listed[h].ociFrees
  <2>1. b \in BOOLEAN
    OBVIOUS
  <2> HIDE DEF b
  <2> QED
    BY <1>1, <2>1, ClosingRecord
<1>3. d \in Doings /\ d.step = "end" /\ d.h = h
  BY <1>1 DEF Doings, Hand
<1>4. listed' = [listed EXCEPT ![h] = r] /\ doing' = [doing EXCEPT ![t] = d]
  BY <1>1 DEF RemoveHandle, Goes, ListInv, ListTypeOK
<1>5. ~listed[h].held /\ \A u \in ListUsers : At(u, "oci") => listed[Hand(u)].held
  BY DEF RemoveHandle, ListInv, OneFrees
<1>6. /\ slots' = slots \/ \E k : slots' = [slots EXCEPT ![k] = NoListed]
      /\ usedSlots' \in Int /\ currentPos' = currentPos
  <2>1. usedSlots \in Int /\ usedSlots - 1 \in Int
    BY DEF ListInv, ListTypeOK
  <2> QED
    BY <2>1 DEF RemoveHandle
<1> HIDE DEF h, r, d, b
<1>7. \A u \in ListUsers \ {t} : At(u, "oci") => Hand(u) /= h
  BY <1>5
<1> QED
  BY <1>1, <1>2, <1>3, <1>4, <1>5, <1>6, <1>7, AloneKeeps

LEMMA LobFailsKeeps ==
    ASSUME ListInv, NEW t \in ListUsers, LobFails(t)
    PROVE  ListInv'
<1> DEFINE h == Hand(t)
           r == [listed[h] EXCEPT !.held = FALSE, !.ociFrees = listed[h].ociFrees + 1]
           d == [doing[t] EXCEPT !.step = "close", !.then = "free"]
<1>1. /\ h \in Listed /\ listed[h].is /= "none" /\ listed[h] \in Records /\ doing[t] \in Doings
      /\ \A u \in ListUsers \ {t} : At(u, "add") => Hand(u) /= h
  BY HasHandle DEF LobFails, ListInv, ListTypeOK, Busy, At
<1>2. r \in Records /\ r.is = listed[h].is /\ ~r.held /\ r.ociFrees = listed[h].ociFrees + 1
  BY <1>1, FreedRecord
<1>3. d \in Doings /\ d.step = "close" /\ d.h = h
  BY <1>1, StepDoing DEF Hand
<1>4. listed' = [listed EXCEPT ![h] = r] /\ doing' = [doing EXCEPT ![t] = d]
  BY <1>1 DEF LobFails, ListInv, ListTypeOK
<1>5. listed[h].held /\ \A u \in ListUsers \ {t} : At(u, "oci") => Hand(u) /= h
  BY DEF LobFails, ListInv, NewIsOwn, Busy, At
<1>6. slots' = slots /\ usedSlots' \in Int /\ currentPos' = currentPos
  BY DEF LobFails, slotVars, ListInv, ListTypeOK
<1> HIDE DEF h, r, d
<1> QED
  BY <1>1, <1>2, <1>3, <1>4, <1>5, <1>6, AloneKeeps

LEMMA CloseConnKeeps ==
    ASSUME ListInv, NEW t \in ListUsers, CloseConn(t)
    PROVE  ListInv'
<1>1. /\ Starts("read", NoListed, "back") \in Doings
      /\ Starts("read", NoListed, "back").step = "read"
  BY DEF Starts, Doings
<1>2. /\ doing' \in [ListUsers -> Doings] /\ doing'[t].step = "read"
      /\ \A u \in ListUsers \ {t} : doing'[u] = doing[u]
  BY <1>1 DEF CloseConn, ListInv, ListTypeOK
<1>3. ListTypeOK' /\ UNCHANGED <<listed, slots>>
  BY <1>2 DEF CloseConn, ListInv, ListTypeOK, NumSlots, slotVars
<1> QED
  BY <1>2, <1>3, IdleKeeps DEF Busy

LEMMA ReadSlotKeeps ==
    ASSUME ListInv, NEW t \in ListUsers, ReadSlot(t)
    PROVE  ListInv'
<1> DEFINE h == slots[doing[t].i]
<1>1. doing[t] \in Doings /\ doing[t].i \in Nat /\ doing[t].i + 1 \in Nat
  <2>1. doing[t] \in Doings
    BY DEF ListInv, ListTypeOK
  <2>2. doing[t].i \in Nat
    BY <2>1 DEF Doings
  <2> QED
    BY <2>1, <2>2
<1>2. CASE h = NoListed
  <2>1. [doing[t] EXCEPT !.i = doing[t].i + 1] \in Doings /\ [doing[t] EXCEPT !.i = doing[t].i + 1].step = "read"
    BY <1>1 DEF ReadSlot, At, Doings
  <2>2. /\ doing' \in [ListUsers -> Doings] /\ doing'[t].step = "read"
        /\ \A u \in ListUsers \ {t} : doing'[u] = doing[u]
    BY <1>2, <2>1 DEF ReadSlot, ListInv, ListTypeOK
  <2>3. ListTypeOK' /\ UNCHANGED <<listed, slots>>
    BY <2>2 DEF ReadSlot, ListInv, ListTypeOK, NumSlots, slotVars
  <2> QED
    BY <2>2, <2>3, IdleKeeps DEF Busy
<1>3. CASE h /= NoListed
  <2> DEFINE d == [doing[t] EXCEPT !.step = "pin", !.h = h]
  <2>1. doing[t].i \in DOMAIN slots
    <3>1. doing[t].i \in 0..NumSlots - 1
      BY <1>1 DEF ReadSlot, ListInv, ListTypeOK
    <3> QED
      BY <3>1 DEF ListInv, ListTypeOK
  <2>2. /\ h \in Listed /\ listed[h].is /= "none" /\ listed[h] \in Records
        /\ \A u \in ListUsers \ {t} : At(u, "add") => Hand(u) /= h
    BY <1>3, <2>1 DEF ListInv, ListTypeOK, OnlyMadeAreUsed, NewIsOwn
  <2> HIDE DEF h
  <2>3. d \in Doings /\ d.step = "pin" /\ d.h = h
    BY <1>1, <2>2 DEF Doings
  <2>4. listed' = [listed EXCEPT ![h] = listed[h]] /\ doing' = [doing EXCEPT ![t] = d]
    BY <1>3, <2>2 DEF ReadSlot, ListInv, ListTypeOK, h
  <2>5. UNCHANGED slotVars
    BY DEF ReadSlot
  <2> HIDE DEF d
  <2> QED
    BY <2>2, <2>3, <2>4, <2>5, QuietKeeps
<1> QED
  BY <1>2, <1>3

LEMMA ConnClosedKeeps ==
    ASSUME ListInv, NEW t \in ListUsers, ConnClosed(t) \/ SessionEndFails(t)
    PROVE  ListInv'
<1>1. doing[t] \in Doings
  BY DEF ListInv, ListTypeOK
<1>2. [doing[t] EXCEPT !.step = "idle"] \in Doings /\ [doing[t] EXCEPT !.step = "idle"].step = "idle"
  BY <1>1 DEF Doings
<1>3. doing' = [doing EXCEPT ![t] = [doing[t] EXCEPT !.step = "idle"]]
  BY DEF ConnClosed, SessionEndFails, Goes
<1>4. /\ doing' \in [ListUsers -> Doings] /\ doing'[t].step = "idle"
      /\ \A u \in ListUsers \ {t} : doing'[u] = doing[u]
  BY <1>2, <1>3 DEF ListInv, ListTypeOK
<1>5. UNCHANGED <<listed, slotVars>>
  BY DEF ConnClosed, SessionEndFails
<1>6. ListTypeOK' /\ UNCHANGED <<listed, slots>>
  BY <1>4, <1>5 DEF ListInv, ListTypeOK, NumSlots, slotVars
<1> QED
  BY <1>4, <1>6, IdleKeeps DEF Busy

LEMMA CreateListedKeeps ==
    ASSUME ListInv, NEW t \in ListUsers, NEW h \in Listed, CreateListed(t, h)
    PROVE  ListInv'
<1> DEFINE r == [listed[h] EXCEPT !.is = "live", !.held = TRUE, !.count = 1]
           d == Starts("add", h, "back")
<1>1. /\ listed[h] \in Records /\ listed[h].is = "none" /\ listed[h].ociFrees = 0
      /\ listed[h].by = {} /\ ~listed[h].closing
  BY DEF CreateListed, ListInv, ListTypeOK, NotMadeIsNew
<1>2. /\ r \in Records /\ r.is = "live" /\ r.held /\ r.closing = listed[h].closing
      /\ r.ociFrees = listed[h].ociFrees /\ r.by = listed[h].by
  <2> DEFINE q == [listed[h] EXCEPT !.is = "live"]
             p == [q EXCEPT !.held = TRUE]
  <2>1. q \in Records /\ q.is = "live" /\ SameHold(q, listed[h]) /\ q.by = listed[h].by
    BY <1>1 DEF Records, SameHold
  <2> HIDE DEF q
  <2>2. /\ p \in Records /\ p.is = q.is /\ p.held = TRUE /\ p.closing = q.closing
        /\ p.ociFrees = q.ociFrees /\ p.by = q.by
    BY <2>1 DEF Records
  <2> HIDE DEF p
  <2>3. [p EXCEPT !.count = 1] \in Records /\ [p EXCEPT !.count = 1].is = p.is
        /\ [p EXCEPT !.count = 1].by = p.by /\ SameHold([p EXCEPT !.count = 1], p)
    BY <2>2, CountRecord
  <2> QED
    BY <2>1, <2>2, <2>3 DEF SameHold, p, q
<1>3. d \in Doings /\ d.step = "add" /\ d.h = h
  BY StartsDoing
<1>4. /\ listed' \in [Listed -> Records] /\ listed'[h] = r
      /\ \A g \in Listed \ {h} : listed'[g] = listed[g]
  BY <1>1, <1>2 DEF CreateListed, ListInv, ListTypeOK
<1>5. /\ doing' \in [ListUsers -> Doings] /\ doing'[t] = d
      /\ \A u \in ListUsers \ {t} : doing'[u] = doing[u]
  BY <1>3 DEF CreateListed, ListInv, ListTypeOK
<1>6. UNCHANGED slotVars
  BY DEF CreateListed
<1> HIDE DEF r, d
<1>7. ListTypeOK'
  BY <1>4, <1>5, <1>6 DEF slotVars, ListInv, ListTypeOK, NumSlots
<1>8. ListedFreedOnce'
  BY <1>1, <1>2, <1>4 DEF ListInv, ListedFreedOnce, OciFreesOnce
<1>9. NotMadeIsNew'
  BY <1>2, <1>4 DEF ListInv, NotMadeIsNew
<1>10. /\ \A u \in ListUsers \ {t} : Busy(u) => Hand(u) \in Listed \ {h}
       /\ \A i \in DOMAIN slots : slots[i] /= h
  BY <1>1, ListAssumption DEF ListInv, OnlyMadeAreUsed, NoListed
<1>11. /\ \A u \in ListUsers \ {t} : /\ Hand(u)' = Hand(u) /\ (Busy(u)' <=> Busy(u))
                                     /\ (At(u, "add")' <=> At(u, "add"))
                                     /\ (At(u, "oci")' <=> At(u, "oci"))
                                     /\ (At(u, "remove")' <=> At(u, "remove"))
       /\ Busy(t)' /\ At(t, "add")' /\ ~At(t, "oci")' /\ ~At(t, "remove")' /\ Hand(t)' = h
       /\ slots' = slots
  BY <1>3, <1>5, <1>6 DEF Hand, Busy, At, slotVars
<1>12. OnlyMadeAreUsed'
  <2>1. \A u \in ListUsers : Busy(u)' => Hand(u)' \in Listed /\ listed'[Hand(u)'].is /= "none"
    BY <1>2, <1>4, <1>10, <1>11 DEF ListInv, OnlyMadeAreUsed
  <2>2. \A i \in DOMAIN slots : slots[i] /= NoListed => listed'[slots[i]].is /= "none"
    BY <1>4, <1>10 DEF ListInv, ListTypeOK, OnlyMadeAreUsed
  <2> QED
    BY <2>1, <2>2, <1>11 DEF OnlyMadeAreUsed
<1>13. NewIsOwn'
  <2> SUFFICES ASSUME NEW u \in ListUsers, At(u, "add")'
               PROVE  /\ listed'[Hand(u)'].held /\ ~listed'[Hand(u)'].closing
                      /\ listed'[Hand(u)'].by = {}
                      /\ \A i \in DOMAIN slots' : slots'[i] /= Hand(u)'
                      /\ \A v \in ListUsers : v /= u /\ Busy(v)' => Hand(v)' /= Hand(u)'
    BY DEF NewIsOwn
  <2>1. CASE u = t
    BY <2>1, <1>1, <1>2, <1>4, <1>10, <1>11
  <2>2. CASE u /= t
    <3>1. Busy(u) /\ At(u, "add") /\ Hand(u) \in Listed \ {h}
      BY <2>2, <1>10, <1>11 DEF Busy, At
    <3> QED
      BY <2>2, <3>1, <1>4, <1>11 DEF ListInv, NewIsOwn
  <2> QED
    BY <2>1, <2>2
<1>14. OneFrees'
  <2>1. \A u \in ListUsers : At(u, "oci") \/ At(u, "remove") => Busy(u)
    BY DEF At, Busy
  <2> QED
    BY <2>1, <1>4, <1>10, <1>11 DEF ListInv, OneFrees
<1> QED
  BY <1>7, <1>8, <1>9, <1>12, <1>13, <1>14 DEF ListInv

LEMMA AddHandleKeeps ==
    ASSUME ListInv, NEW t \in ListUsers, AddHandle(t)
    PROVE  ListInv'
<1> DEFINE h == Hand(t)
           d == [doing[t] EXCEPT !.step = "idle"]
           late == connState /= "open"
           r(slot) == [listed[h] EXCEPT !.slot = slot, !.by = {t}, !.late = late]
<1>1. /\ h \in Listed /\ listed[h].is /= "none" /\ listed[h] \in Records /\ doing[t] \in Doings
      /\ \A u \in ListUsers \ {t} : At(u, "add") => Hand(u) /= h
      /\ \A u \in ListUsers \ {t} : Busy(u) => Hand(u) /= h
  BY HasHandle DEF AddHandle, ListInv, ListTypeOK, NewIsOwn, Busy, At
<1>2. PICK slot \in 0..NumSlots, grown \in Nat :
          /\ NumSlots <= grown /\ grown > 0
          /\ slots' = [i \in 0..grown - 1 |-> IF i = slot THEN h
                                              ELSE IF i < NumSlots THEN slots[i] ELSE NoListed]
          /\ currentPos' \in Int
          /\ listed' = [listed EXCEPT ![h] = r(slot)]
  <2>1. NumSlots \in Nat \ {0} /\ NumSlots + SlotChunk \in Nat
    BY ListAssumption DEF ListInv, ListTypeOK
  <2> DEFINE more == IF usedSlots = NumSlots THEN NumSlots + SlotChunk ELSE NumSlots
  <2>2. PICK slot \in 0..NumSlots :
            /\ slots' = [i \in 0..more - 1 |-> IF i = slot THEN h
                                              ELSE IF i < NumSlots THEN slots[i] ELSE NoListed]
            /\ currentPos' = IF usedSlots = NumSlots THEN slot + 1 ELSE (slot + 1) % NumSlots
            /\ listed' = [listed EXCEPT ![h].slot = slot, ![h].by = {t}, ![h].late = late]
    BY DEF AddHandle
  <2>3. listed' = [listed EXCEPT ![h] = r(slot)]
    BY <1>1, <2>2 DEF ListInv, ListTypeOK
  <2>4. currentPos' \in Int
    BY <2>1, <2>2
  <2>5. more \in Nat /\ NumSlots <= more /\ more > 0
    BY <2>1, ListAssumption
  <2> HIDE DEF more, h, r, late
  <2> QED
    BY <2>2, <2>3, <2>4, <2>5
<1>3. r(slot) \in Records /\ r(slot).is = listed[h].is /\ SameHold(r(slot), listed[h])
  <2> DEFINE q == [listed[h] EXCEPT !.slot = slot]
             p == [q EXCEPT !.by = {t}]
  <2>0. late \in BOOLEAN /\ slot \in Int
    BY DEF ListInv, ListTypeOK
  <2> HIDE DEF late
  <2>1. q \in Records /\ q.is = listed[h].is /\ SameHold(q, listed[h])
    BY <1>1, <2>0 DEF Records, SameHold
  <2> HIDE DEF q
  <2>2. p \in Records /\ p.is = q.is /\ SameHold(p, q)
    BY <2>1, ByRecord
  <2> HIDE DEF p
  <2>3. /\ [p EXCEPT !.late = late] \in Records /\ [p EXCEPT !.late = late].is = p.is
        /\ SameHold([p EXCEPT !.late = late], p)
    BY <2>0, <2>2 DEF Records, SameHold
  <2> QED
    BY <2>1, <2>2, <2>3 DEF SameHold, p, q
<1>4. d \in Doings /\ d.step = "idle"
  BY <1>1 DEF Doings
<1>5. doing' = [doing EXCEPT ![t] = d] /\ usedSlots' \in Int
  <2>1. usedSlots + 1 \in Int
    BY DEF ListInv, ListTypeOK
  <2> QED
    BY <2>1 DEF AddHandle, Goes
<1> HIDE DEF h, r, d
<1>6. /\ listed' \in [Listed -> Records] /\ listed'[h] = r(slot)
      /\ \A g \in Listed \ {h} : listed'[g] = listed[g]
  BY <1>1, <1>2, <1>3 DEF ListInv, ListTypeOK
<1>7. /\ doing' \in [ListUsers -> Doings] /\ doing'[t] = d
      /\ \A u \in ListUsers \ {t} : doing'[u] = doing[u]
  BY <1>4, <1>5 DEF ListInv, ListTypeOK
<1>8. /\ slots' \in [0..grown - 1 -> Listed \union {NoListed}]
      /\ DOMAIN slots' = 0..grown - 1
      /\ \A i \in 0..grown - 1 : \/ slots'[i] \in {h, NoListed}
                                 \/ i \in DOMAIN slots /\ slots'[i] = slots[i]
  <2>1. \A i \in 0..grown - 1 : i < NumSlots => i \in 0..NumSlots - 1
    BY DEF ListInv, ListTypeOK
  <2>2. \A i \in DOMAIN slots : slots[i] \in Listed \union {NoListed}
    BY DEF ListInv, ListTypeOK
  <2>3. DOMAIN slots = 0..NumSlots - 1
    BY DEF ListInv, ListTypeOK
  <2>4. /\ DOMAIN slots' = 0..grown - 1
        /\ \A i \in 0..grown - 1 :
              slots'[i] = IF i = slot THEN h ELSE IF i < NumSlots THEN slots[i] ELSE NoListed
    BY <1>2
  <2>5. \A i \in 0..grown - 1 : \/ slots'[i] \in {h, NoListed}
                                \/ i \in DOMAIN slots /\ slots'[i] = slots[i]
    <3> SUFFICES ASSUME NEW i \in 0..grown - 1
                 PROVE  \/ slots'[i] \in {h, NoListed}
                        \/ i \in DOMAIN slots /\ slots'[i] = slots[i]
      OBVIOUS
    <3>1. CASE i = slot
      BY <3>1, <2>4
    <3>2. CASE i /= slot /\ i < NumSlots
      BY <3>2, <2>1, <2>3, <2>4
    <3>3. CASE i /= slot /\ ~(i < NumSlots)
      BY <3>3, <2>4
    <3> QED
      BY <3>1, <3>2, <3>3
  <2>6. slots' \in [0..grown - 1 -> Listed \union {NoListed}]
    <3>1. \A i \in 0..grown - 1 : slots'[i] \in Listed \union {NoListed}
      BY <2>2, <2>4, <2>5, <1>1
    <3> QED
      BY <1>2, <3>1
  <2> QED
    BY <2>4, <2>5, <2>6
<1>9. NumSlots' = grown
  BY <1>2, <1>8, CountSlots DEF NumSlots
<1>10. ListTypeOK'
  BY <1>2, <1>5, <1>6, <1>7, <1>8, <1>9 DEF ListTypeOK
<1>11. /\ \A u \in ListUsers \ {t} : /\ Hand(u)' = Hand(u) /\ (Busy(u)' <=> Busy(u))
                                     /\ (At(u, "add")' <=> At(u, "add"))
                                     /\ (At(u, "oci")' <=> At(u, "oci"))
                                     /\ (At(u, "remove")' <=> At(u, "remove"))
       /\ ~Busy(t)' /\ ~At(t, "add")' /\ ~At(t, "oci")' /\ ~At(t, "remove")'
  BY <1>4, <1>7 DEF Hand, Busy, At
<1>12. ListedFreedOnce' /\ NotMadeIsNew'
  BY <1>1, <1>3, <1>6 DEF ListInv, ListedFreedOnce, OciFreesOnce, NotMadeIsNew, SameHold
<1>13. OnlyMadeAreUsed'
  <2>1. \A u \in ListUsers : Busy(u)' => Hand(u)' \in Listed /\ listed'[Hand(u)'].is /= "none"
    BY <1>1, <1>6, <1>11 DEF ListInv, OnlyMadeAreUsed
  <2>2. \A i \in DOMAIN slots' : slots'[i] /= NoListed => listed'[slots'[i]].is /= "none"
    BY <1>1, <1>3, <1>6, <1>8 DEF ListInv, ListTypeOK, OnlyMadeAreUsed
  <2> QED
    BY <2>1, <2>2 DEF OnlyMadeAreUsed
<1>14. NewIsOwn'
  <2> SUFFICES ASSUME NEW u \in ListUsers, At(u, "add")'
               PROVE  /\ listed'[Hand(u)'].held /\ ~listed'[Hand(u)'].closing
                      /\ listed'[Hand(u)'].by = {}
                      /\ \A i \in DOMAIN slots' : slots'[i] /= Hand(u)'
                      /\ \A v \in ListUsers : v /= u /\ Busy(v)' => Hand(v)' /= Hand(u)'
    BY DEF NewIsOwn
  <2>1. u /= t /\ At(u, "add") /\ Hand(u)' = Hand(u) /\ Hand(u) \in Listed \ {h}
    BY <1>1, <1>11 DEF ListInv, OnlyMadeAreUsed, Busy, At
  <2>2. \A i \in DOMAIN slots' : slots'[i] /= Hand(u)
    BY <2>1, <1>8, ListAssumption DEF ListInv, NewIsOwn, NoListed
  <2>3. \A v \in ListUsers : v /= u /\ Busy(v)' => Hand(v)' /= Hand(u)
    BY <2>1, <1>11 DEF ListInv, NewIsOwn
  <2> QED
    BY <2>1, <2>2, <2>3, <1>6 DEF ListInv, NewIsOwn
<1>15. OneFrees'
  <2>1. \A u \in ListUsers : At(u, "oci") \/ At(u, "remove") => Busy(u) /\ Hand(u) \in Listed
    BY DEF At, Busy, ListInv, OnlyMadeAreUsed
  <2> QED
    BY <2>1, <1>1, <1>6, <1>11 DEF ListInv, OneFrees
<1> QED
  BY <1>10, <1>12, <1>13, <1>14, <1>15 DEF ListInv

\* Whatever threads there are, handles and growth of the list: what a handle
\* holds is given back to OCI at most once, and is not given back while it is
\* held (closing by MarkClosing, OciFree and RemoveHandle, the list of a new
\* handle by AddHandle).
THEOREM ListInvariant == ListSpec => []ListInv
<1>1. ListInv /\ [ListNext]_listVars => ListInv'
  <2> SUFFICES ASSUME ListInv, [ListNext]_listVars PROVE ListInv'
    OBVIOUS
  <2>1. CASE UNCHANGED listVars
    BY <2>1 DEF listVars, slotVars, ListInv, ListTypeOK, NumSlots, ListedFreedOnce, OciFreesOnce,
       NotMadeIsNew, OnlyMadeAreUsed, NewIsOwn, OneFrees, Busy, At, Hand
  <2>2. ASSUME NEW t \in ListUsers, NEW h \in Listed,
               \/ CreateListed(t, h) \/ ShareListed(t, h) \/ ReleaseListed(t, h)
               \/ CloseListed(t, h)
        PROVE  ListInv'
    BY <2>2, CreateListedKeeps, ShareListedKeeps, ReleaseListedKeeps, CloseListedKeeps
  <2>3. ASSUME NEW t \in ListUsers,
               \/ AddHandle(t) \/ ObjectFails(t) \/ LobFails(t)
               \/ MarkClosing(t) \/ OciFree(t) \/ OciFails(t) \/ RemoveHandle(t) \/ CloseEnds(t)
        PROVE  ListInv'
    BY <2>3, AddHandleKeeps, ObjectFailsKeeps, LobFailsKeeps, MarkClosingKeeps, OciFreeKeeps,
       OciFailsKeeps, RemoveHandleKeeps, CloseEndsKeeps
  <2>4. ASSUME NEW t \in ListUsers,
               \/ CloseConn(t) \/ ReadSlot(t) \/ PinListed(t) \/ NextListed(t)
               \/ CloseConnFails(t) \/ CloseConnFrees(t) \/ CloseConnFailsFreed(t)
               \/ ConnClosed(t) \/ SessionEndFails(t)
        PROVE  ListInv'
    BY <2>4, CloseConnKeeps, ReadSlotKeeps, PinListedKeeps, NextListedKeeps, CloseConnFailsKeeps,
       CloseConnFreesKeeps, CloseConnFailsFreedKeeps, ConnClosedKeeps
  <2> QED
    BY <2>1, <2>2, <2>3, <2>4 DEF ListNext
<1> QED
  BY <1>1, ListInitInv, PTL DEF ListSpec

\* OCI frees what a handle holds once (dpiObject__close, dpiLob__close).
THEOREM HandlesFreedOnce == ListSpec => []ListedFreedOnce
BY ListInvariant, PTL DEF ListInv

-----------------------------------------------------------------------------
\* What the list holds, and who closes it: the rest of ListsAreKept.

\* A thread closes a handle: for its caller, to free it, or for a connection
\* that is being closed; and it is that thread which closes the connection.
Closing == {"close", "oci", "remove", "end"}
ClosesFor(t, reasons) == doing[t].step \in Closing /\ doing[t].then \in reasons
Asked(t) == ClosesFor(t, {"back", "backFails"})
Frees(t) == ClosesFor(t, {"free", "freeAndFail"})
Pins(t) == ClosesFor(t, {"loop", "loopFails"})
Walks(t) == doing[t].step \in {"read", "pin"} \/ Pins(t) \/ ClosesFor(t, {"freeAndFail"})

OneWalks ==
    /\ \A t \in ListUsers : Walks(t) => connState = "closing"
    /\ \A t, u \in ListUsers : Walks(t) /\ Walks(u) => t = u

\* Who asks for a handle to be closed has a reference meanwhile.
AskedHolds ==
    \A t \in ListUsers : Asked(t) => t \in listed[Hand(t)].by /\ listKind = "lob"

\* The references of a handle are those of threads and that of the connection
\* being closed, if it has one.
Settled(h) == \A t \in ListUsers : Hand(t) = h => ~At(t, "add") /\ ~Frees(t)
Pinned(h) == \E t \in ListUsers : Pins(t) /\ Hand(t) = h
Counted(h) ==
    LET n == Cardinality(listed[h].by)
    IN listed[h].count > 0 /\ listed[h].count = IF Pinned(h) THEN n + 1 ELSE n
RefsCounted ==
    /\ \A h \in Listed : IsFiniteSet(listed[h].by) /\ (listed[h].by /= {} => listed[h].is = "live")
    /\ \A t \in ListUsers : At(t, "add") => listed[Hand(t)].is = "live" /\ listed[Hand(t)].count = 1
    /\ \A h \in Listed : Pinned(h) => listed[h].is = "live"
    /\ \A h \in Listed : listed[h].is = "live" /\ Settled(h) => Counted(h)

\* Who frees a handle is alone with it: nobody has a reference, or can find it.
FreesAlone ==
    \A t \in ListUsers : Frees(t) =>
        /\ listed[Hand(t)].is = "live" /\ listed[Hand(t)].by = {}
        /\ \A u \in ListUsers \ {t} : Hand(u) = Hand(t) => doing[u].step \notin Closing
        /\ \/ listed[Hand(t)].count = 0
           \/ /\ \A i \in DOMAIN slots : slots[i] /= Hand(t)
              /\ \A u \in ListUsers : At(u, "pin") => Hand(u) /= Hand(t)

LiveInv == OneWalks /\ AskedHolds /\ RefsCounted /\ FreesAlone

\* What is held and marked is being freed, and what has been freed or been gone
\* past is not held, unless it is marked.
MarkedIsDone == \A h \in Listed : listed[h].held /\ listed[h].closing => BeingDone(h, {"oci"})
FreedIsEmpty ==
    /\ \A h \in Listed : listed[h].held => listed[h].is = "live"
    /\ \A t \in ListUsers : At(t, "end") /\ doing[t].then \in {"free", "freeAndFail"} => ~listed[Hand(t)].held
    /\ \A t \in ListUsers : At(t, "end") /\ doing[t].then = "loop" /\ listed[Hand(t)].held =>
           listed[Hand(t)].closing
HoldInv == MarkedIsDone /\ FreedIsEmpty

\* A slot holds the handle that names it, and the used slots are counted, also
\* while the connection is being closed.
HasSlot(h) == listed[h].slot \in DOMAIN slots /\ slots[listed[h].slot] = h
UsedSlots == {i \in DOMAIN slots : slots[i] /= NoListed}
SlotsRight ==
    /\ \A i \in UsedSlots : listed[slots[i]].slot = i
    /\ usedSlots = Cardinality(UsedSlots)
    /\ \A t, u \in ListUsers : At(t, "remove") /\ At(u, "remove") /\ Hand(t) = Hand(u) => t = u
    /\ connState = "open" =>
        /\ \A i \in UsedSlots : listed[slots[i]].held \/ BeingDone(slots[i], {"remove"})
        /\ \A h \in Listed : listed[h].held /\ ~BeingDone(h, {"add"}) => HasSlot(h)
        /\ \A t \in ListUsers : At(t, "remove") => HasSlot(Hand(t))

\* The handle that the thread which closes the connection is at is still in the
\* slot it was read from.
AtItsSlot ==
    \A t \in ListUsers : Walks(t) /\ ~At(t, "read") =>
        doing[t].i \in DOMAIN slots /\ slots[doing[t].i] = Hand(t)

\* What is open and not yet being closed is still before the thread that closes
\* the connection.
Awaited(h) ==
    /\ connState = "closing" /\ HasSlot(h)
    /\ \A t \in ListUsers : Walks(t) => doing[t].i <= listed[h].slot
AreAhead ==
    connState /= "open" =>
        \A h \in Listed : listed[h].held =>
            listed[h].late \/ BeingDone(h, {"add", "close", "oci"}) \/ Awaited(h)

ListRight == SlotsRight /\ AtItsSlot /\ AreAhead
KeptInv == ~spoiled => ListRight

-----------------------------------------------------------------------------
\* What the actions do, field by field.

\* A step of thread t on handle h leaves the other threads and handles alone.
Involved(t) == doing[t].step \in Closing \union {"add"}
Acts(t, h) ==
    /\ h \in Listed
    /\ \A u \in ListUsers \ {t} : doing'[u] = doing[u]
    /\ \A g \in Listed \ {h} : listed'[g] = listed[g]
    /\ Involved(t) => Hand(t) = h
    /\ Involved(t)' => Hand(t)' = h
NotNew(t, h) == \A u \in ListUsers \ {t} : At(u, "add") => Hand(u) /= h

SameRefs(h) ==
    listed'[h].is = listed[h].is /\ listed'[h].count = listed[h].count /\ listed'[h].by = listed[h].by
SameMark(h) == listed'[h].held = listed[h].held /\ listed'[h].closing = listed[h].closing
SamePlace(h) == listed'[h].slot = listed[h].slot /\ listed'[h].late = listed[h].late

LEMMA ListTypes ==
    ASSUME ListInv
    PROVE  /\ listed \in [Listed -> Records] /\ doing \in [ListUsers -> Doings]
           /\ slots \in [0..NumSlots - 1 -> Listed \union {NoListed}] /\ DOMAIN slots = 0..NumSlots - 1
           /\ NumSlots \in Nat \ {0}
           /\ \A h \in Listed : listed[h] \in Records
           /\ \A t \in ListUsers : doing[t] \in Doings
BY DEF ListInv, ListTypeOK

LEMMA ByIsNotNew ==
    ASSUME ListInv, NEW h \in Listed, listed[h].by /= {}
    PROVE  \A u \in ListUsers : At(u, "add") => Hand(u) /= h
BY DEF ListInv, NewIsOwn

LEMMA ShareListedEffect ==
    ASSUME ListInv, NEW t \in ListUsers, NEW h \in Listed, ShareListed(t, h)
    PROVE  /\ Acts(t, h) /\ NotNew(t, h)
           /\ listed'[h].is = listed[h].is /\ listed'[h].count = listed[h].count + 1
           /\ listed'[h].by = listed[h].by \union {t}
           /\ SameMark(h) /\ SamePlace(h)
           /\ IsIdle(t) /\ IsIdle(t)'
           /\ t \notin listed[h].by /\ listed[h].by /= {}
           /\ UNCHANGED <<listKind, slots, usedSlots, connState, spoiled>>
<1>1. h \in Listed /\ NotNew(t, h)
  BY ByIsNotNew DEF ShareListed, NotNew, At, Busy
<1>2. Acts(t, h)
  BY <1>1, ListTypes DEF ShareListed, Acts, Involved, Closing, Hand, At, IsIdle, Doings, Idle0, Starts
<1> QED
  BY <1>1, <1>2, ListTypes DEF ShareListed, SameRefs, SameMark, SamePlace, Records, Doings, Hand, At, IsIdle, slotVars, Idle0, Starts

LEMMA ReleaseListedEffect ==
    ASSUME ListInv, NEW t \in ListUsers, NEW h \in Listed, ReleaseListed(t, h)
    PROVE  /\ Acts(t, h) /\ NotNew(t, h)
           /\ listed'[h].is = listed[h].is /\ listed'[h].count = listed[h].count - 1
           /\ listed'[h].by = listed[h].by \ {t}
           /\ SameMark(h) /\ SamePlace(h)
           /\ IsIdle(t)
           /\ listed[h].count > 1 => doing'[t].step = "idle"
           /\ ~(listed[h].count > 1) => doing'[t].step = "close" /\ doing'[t].then = "free"
           /\ t \in listed[h].by
           /\ UNCHANGED <<listKind, slots, usedSlots, connState, spoiled>>
<1>1. h \in Listed /\ NotNew(t, h)
  BY ByIsNotNew DEF ReleaseListed, NotNew, At, Busy
<1>2. Acts(t, h)
  BY <1>1, ListTypes DEF ReleaseListed, Acts, Involved, Closing, Hand, At, IsIdle, Doings, Idle0, Starts
<1> QED
  BY <1>1, <1>2, ListTypes DEF ReleaseListed, SameRefs, SameMark, SamePlace, Records, Doings, Hand, At, IsIdle, slotVars, Idle0, Starts

LEMMA CloseListedEffect ==
    ASSUME ListInv, NEW t \in ListUsers, NEW h \in Listed, CloseListed(t, h)
    PROVE  /\ Acts(t, h) /\ NotNew(t, h)
           /\ SameRefs(h)
           /\ SameMark(h) /\ SamePlace(h)
           /\ IsIdle(t)
           /\ doing'[t].step = "close" /\ doing'[t].then = "back"
           /\ t \in listed[h].by /\ listKind = "lob" /\ connState = "open"
           /\ UNCHANGED <<listKind, slots, usedSlots, connState, spoiled>>
<1>1. h \in Listed /\ NotNew(t, h)
  BY ByIsNotNew DEF CloseListed, NotNew, At, Busy
<1>2. Acts(t, h)
  BY <1>1, ListTypes DEF CloseListed, Acts, Involved, Closing, Hand, At, IsIdle, Doings, Idle0, Starts
<1> QED
  BY <1>1, <1>2, ListTypes DEF CloseListed, SameRefs, SameMark, SamePlace, Records, Doings, Hand, At, IsIdle, slotVars, Idle0, Starts

LEMMA ObjectFailsEffect ==
    ASSUME ListInv, NEW t \in ListUsers, ObjectFails(t)
    PROVE  /\ Acts(t, Hand(t)) /\ NotNew(t, Hand(t))
           /\ SameRefs(Hand(t))
           /\ SameMark(Hand(t)) /\ SamePlace(Hand(t))
           /\ At(t, "add")
           /\ doing'[t].step = "close" /\ doing'[t].then = "free"
           /\ spoiled'
           /\ UNCHANGED <<listKind, slots, usedSlots, connState>>
<1>1. Hand(t) \in Listed /\ NotNew(t, Hand(t))
  BY HasHandle DEF ObjectFails, NotNew, At, Busy
<1>2. Acts(t, Hand(t))
  BY <1>1, ListTypes DEF ObjectFails, Acts, Involved, Closing, Hand, At, IsIdle, Doings
<1> QED
  BY <1>1, <1>2, ListTypes DEF ObjectFails, SameRefs, SameMark, SamePlace, Records, Doings, Hand, At, IsIdle, slotVars

LEMMA LobFailsEffect ==
    ASSUME ListInv, NEW t \in ListUsers, LobFails(t)
    PROVE  /\ Acts(t, Hand(t)) /\ NotNew(t, Hand(t))
           /\ SameRefs(Hand(t)) /\ ~listed'[Hand(t)].held /\ SamePlace(Hand(t))
           /\ At(t, "add")
           /\ doing'[t].step = "close" /\ doing'[t].then = "free"
           /\ UNCHANGED <<listKind, slots, usedSlots, connState, spoiled>>
<1>1. Hand(t) \in Listed /\ NotNew(t, Hand(t))
  BY HasHandle DEF LobFails, NotNew, At, Busy
<1>2. Acts(t, Hand(t))
  BY <1>1, ListTypes DEF LobFails, Acts, Involved, Closing, Hand, At, IsIdle, Doings
<1> QED
  BY <1>1, <1>2, ListTypes DEF LobFails, SameRefs, SameMark, SamePlace, Records, Doings, Hand, At, IsIdle, slotVars

LEMMA MarkClosingEffect ==
    ASSUME ListInv, NEW t \in ListUsers, MarkClosing(t)
    PROVE  /\ Acts(t, Hand(t)) /\ NotNew(t, Hand(t))
           /\ SameRefs(Hand(t)) /\ SamePlace(Hand(t))
           /\ listed'[Hand(t)].held = listed[Hand(t)].held /\ listed'[Hand(t)].closing
           /\ At(t, "close")
           /\ doing'[t].then = doing[t].then /\ doing'[t].i = doing[t].i
           /\ listed[Hand(t)].held /\ ~listed[Hand(t)].closing => doing'[t].step = "oci"
           /\ ~(listed[Hand(t)].held /\ ~listed[Hand(t)].closing) => doing'[t].step = "end"
           /\ UNCHANGED <<listKind, slots, usedSlots, connState, spoiled>>
<1>1. Hand(t) \in Listed /\ NotNew(t, Hand(t))
  BY HasHandle DEF MarkClosing, NotNew, At, Busy
<1>2. Acts(t, Hand(t))
  BY <1>1, ListTypes DEF MarkClosing, Acts, Involved, Closing, Hand, At, IsIdle, Doings, Goes
<1> QED
  BY <1>1, <1>2, ListTypes DEF MarkClosing, SameRefs, SameMark, SamePlace, Records, Doings, Hand, At, IsIdle, slotVars, Goes

LEMMA OciFreeEffect ==
    ASSUME ListInv, NEW t \in ListUsers, OciFree(t)
    PROVE  /\ Acts(t, Hand(t)) /\ NotNew(t, Hand(t))
           /\ SameRefs(Hand(t)) /\ SamePlace(Hand(t)) /\ ~listed'[Hand(t)].held
           /\ At(t, "oci")
           /\ doing'[t].step = "remove" /\ doing'[t].then = doing[t].then /\ doing'[t].i = doing[t].i
           /\ UNCHANGED <<listKind, slots, usedSlots, connState, spoiled>>
<1>1. Hand(t) \in Listed /\ NotNew(t, Hand(t))
  BY HasHandle DEF OciFree, NotNew, At, Busy
<1>2. Acts(t, Hand(t))
  BY <1>1, ListTypes DEF OciFree, Acts, Involved, Closing, Hand, At, IsIdle, Doings, Goes
<1> QED
  BY <1>1, <1>2, ListTypes DEF OciFree, SameRefs, SameMark, SamePlace, Records, Doings, Hand, At, IsIdle, slotVars, Goes

LEMMA OciFailsEffect ==
    ASSUME ListInv, NEW t \in ListUsers, OciFails(t)
    PROVE  /\ Acts(t, Hand(t)) /\ NotNew(t, Hand(t))
           /\ SameRefs(Hand(t)) /\ SamePlace(Hand(t))
           /\ listKind = "object" => listed'[Hand(t)].held = listed[Hand(t)].held /\ ~listed'[Hand(t)].closing
           /\ listKind /= "object" => ~listed'[Hand(t)].held
           /\ At(t, "oci") /\ doing[t].then \in {"back", "loop"}
           /\ doing'[t].step = IF listKind = "object" THEN "end" ELSE "remove"
           /\ doing'[t].then = IF doing[t].then = "loop" THEN "loopFails" ELSE "backFails"
           /\ doing'[t].i = doing[t].i
           /\ UNCHANGED <<listKind, slots, usedSlots, connState, spoiled>>
<1>1. Hand(t) \in Listed /\ NotNew(t, Hand(t))
  BY HasHandle DEF OciFails, NotNew, At, Busy
<1>2. Acts(t, Hand(t))
  BY <1>1, ListTypes DEF OciFails, Acts, Involved, Closing, Hand, At, IsIdle, Doings
<1>3. /\ SameRefs(Hand(t)) /\ SamePlace(Hand(t))
      /\ listKind = "object" => listed'[Hand(t)].held = listed[Hand(t)].held /\ ~listed'[Hand(t)].closing
      /\ listKind /= "object" => ~listed'[Hand(t)].held
  <2>1. CASE listKind = "object"
    BY <1>1, <2>1, ListTypes DEF OciFails, SameRefs, SameMark, SamePlace, Records, Hand
  <2>2. CASE listKind /= "object"
    <3>1. listed' = [listed EXCEPT ![Hand(t)].held = FALSE, ![Hand(t)].ociFrees = @ + 1]
      BY <2>2 DEF OciFails
    <3> QED
      BY <1>1, <2>2, <3>1, ListTypes DEF SameRefs, SamePlace, Records
  <2> QED
    BY <2>1, <2>2
<1>4. /\ At(t, "oci") /\ doing[t].then \in {"back", "loop"}
      /\ doing'[t].step = IF listKind = "object" THEN "end" ELSE "remove"
      /\ doing'[t].then = IF doing[t].then = "loop" THEN "loopFails" ELSE "backFails"
      /\ doing'[t].i = doing[t].i
      /\ UNCHANGED <<listKind, slots, usedSlots, connState, spoiled>>
  BY <1>1, ListTypes DEF OciFails, Doings, Hand, At, slotVars
<1> QED
  BY <1>1, <1>2, <1>3, <1>4

LEMMA RemoveHandleEffect ==
    ASSUME ListInv, NEW t \in ListUsers, RemoveHandle(t)
    PROVE  /\ Acts(t, Hand(t)) /\ NotNew(t, Hand(t))
           /\ SameRefs(Hand(t)) /\ SamePlace(Hand(t)) /\ listed'[Hand(t)].held = listed[Hand(t)].held
           /\ At(t, "remove")
           /\ doing'[t].step = "end" /\ doing'[t].then = doing[t].then /\ doing'[t].i = doing[t].i
           /\ connState /= "open" => UNCHANGED <<slots, usedSlots>>
           /\ connState = "open" => slots' = [slots EXCEPT ![listed[Hand(t)].slot] = NoListed] /\ usedSlots' = usedSlots - 1
           /\ UNCHANGED <<listKind, connState, spoiled>>
<1>1. Hand(t) \in Listed /\ NotNew(t, Hand(t))
  BY HasHandle DEF RemoveHandle, NotNew, At, Busy
<1>2. Acts(t, Hand(t))
  BY <1>1, ListTypes DEF RemoveHandle, Acts, Involved, Closing, Hand, At, IsIdle, Doings, Goes
<1> QED
  BY <1>1, <1>2, ListTypes DEF RemoveHandle, SameRefs, SameMark, SamePlace, Records, Doings, Hand, At, IsIdle, slotVars, Goes

LEMMA CloseEndsEffect ==
    ASSUME ListInv, NEW t \in ListUsers, CloseEnds(t)
    PROVE  /\ Acts(t, Hand(t)) /\ NotNew(t, Hand(t))
           /\ listed'[Hand(t)].count = listed[Hand(t)].count /\ listed'[Hand(t)].by = listed[Hand(t)].by
           /\ SameMark(Hand(t)) /\ SamePlace(Hand(t))
           /\ listed'[Hand(t)].is = IF doing[t].then = "free" THEN "freed" ELSE listed[Hand(t)].is
           /\ At(t, "end") /\ doing[t].then \in {"back", "backFails", "free"}
           /\ IsIdle(t)'
           /\ UNCHANGED <<listKind, slots, usedSlots, connState, spoiled>>
<1>1. Hand(t) \in Listed /\ NotNew(t, Hand(t))
  BY HasHandle DEF CloseEnds, NotNew, At, Busy
<1>2. Acts(t, Hand(t))
  BY <1>1, ListTypes DEF CloseEnds, Acts, Involved, Closing, Hand, At, IsIdle, Doings, Idle0, Starts
<1> QED
  BY <1>1, <1>2, ListTypes DEF CloseEnds, SameRefs, SameMark, SamePlace, Records, Doings, Hand, At, IsIdle, slotVars, Idle0, Starts

LEMMA PinListedEffect ==
    ASSUME ListInv, NEW t \in ListUsers, PinListed(t)
    PROVE  /\ Acts(t, Hand(t)) /\ NotNew(t, Hand(t))
           /\ listed'[Hand(t)].is = listed[Hand(t)].is /\ listed'[Hand(t)].by = listed[Hand(t)].by
           /\ SameMark(Hand(t)) /\ SamePlace(Hand(t))
           /\ listed[Hand(t)].is = "live" /\ listed[Hand(t)].count > 0 => listed'[Hand(t)].count = listed[Hand(t)].count + 1
           /\ ~(listed[Hand(t)].is = "live" /\ listed[Hand(t)].count > 0) => listed'[Hand(t)].count = listed[Hand(t)].count
           /\ At(t, "pin")
           /\ listed[Hand(t)].is = "live" /\ listed[Hand(t)].count > 0 =>
                 doing'[t].step = "close" /\ doing'[t].then = "loop" /\ doing'[t].i = doing[t].i
           /\ ~(listed[Hand(t)].is = "live" /\ listed[Hand(t)].count > 0) =>
                 doing'[t].step = "read" /\ doing'[t].i = doing[t].i + 1
           /\ UNCHANGED <<listKind, slots, usedSlots, connState, spoiled>>
<1>1. Hand(t) \in Listed /\ NotNew(t, Hand(t))
  BY HasHandle DEF PinListed, NotNew, At, Busy
<1>2. Acts(t, Hand(t))
  BY <1>1, ListTypes DEF PinListed, Acts, Involved, Closing, Hand, At, IsIdle, Doings
<1> QED
  BY <1>1, <1>2, ListTypes DEF PinListed, SameRefs, SameMark, SamePlace, Records, Doings, Hand, At, IsIdle, slotVars

LEMMA NextListedEffect ==
    ASSUME ListInv, NEW t \in ListUsers, NextListed(t)
    PROVE  /\ Acts(t, Hand(t)) /\ NotNew(t, Hand(t))
           /\ listed'[Hand(t)].count = listed[Hand(t)].count - 1 /\ listed'[Hand(t)].by = listed[Hand(t)].by
           /\ listed'[Hand(t)].is = IF listed[Hand(t)].count = 1 THEN "freed" ELSE listed[Hand(t)].is
           /\ SameMark(Hand(t)) /\ SamePlace(Hand(t))
           /\ At(t, "end") /\ doing[t].then = "loop"
           /\ doing'[t].step = "read" /\ doing'[t].i = doing[t].i + 1
           /\ UNCHANGED <<listKind, slots, usedSlots, connState, spoiled>>
<1>1. Hand(t) \in Listed /\ NotNew(t, Hand(t))
  BY HasHandle DEF NextListed, NotNew, At, Busy
<1>2. Acts(t, Hand(t))
  BY <1>1, ListTypes DEF NextListed, Acts, Involved, Closing, Hand, At, IsIdle, Doings, Unpinned
<1> QED
  BY <1>1, <1>2, ListTypes DEF NextListed, SameRefs, SameMark, SamePlace, Records, Doings, Hand, At, IsIdle, slotVars, Unpinned

LEMMA CloseConnFailsEffect ==
    ASSUME ListInv, NEW t \in ListUsers, CloseConnFails(t)
    PROVE  /\ Acts(t, Hand(t)) /\ NotNew(t, Hand(t))
           /\ listed'[Hand(t)].count = listed[Hand(t)].count - 1 /\ listed'[Hand(t)].by = listed[Hand(t)].by
           /\ listed'[Hand(t)].is = IF listed[Hand(t)].count = 1 THEN "freed" ELSE listed[Hand(t)].is
           /\ SameMark(Hand(t)) /\ SamePlace(Hand(t))
           /\ At(t, "end") /\ doing[t].then = "loopFails"
           /\ IsIdle(t)'
           /\ listed[Hand(t)].count > 1 \/ ~listed[Hand(t)].held
           /\ connState' = "open" /\ spoiled'
           /\ UNCHANGED <<listKind, slots, usedSlots>>
<1>1. Hand(t) \in Listed /\ NotNew(t, Hand(t))
  BY HasHandle DEF CloseConnFails, NotNew, At, Busy
<1>2. Acts(t, Hand(t))
  BY <1>1, ListTypes DEF CloseConnFails, Acts, Involved, Closing, Hand, At, IsIdle, Doings, Unpinned, Idle0, Starts
<1> QED
  BY <1>1, <1>2, ListTypes DEF CloseConnFails, SameRefs, SameMark, SamePlace, Records, Doings, Hand, At, IsIdle, slotVars, Unpinned, Idle0, Starts

LEMMA CloseConnFreesEffect ==
    ASSUME ListInv, NEW t \in ListUsers, CloseConnFrees(t)
    PROVE  /\ Acts(t, Hand(t)) /\ NotNew(t, Hand(t))
           /\ listed'[Hand(t)].count = 0 /\ listed'[Hand(t)].by = listed[Hand(t)].by /\ listed'[Hand(t)].is = listed[Hand(t)].is
           /\ SameMark(Hand(t)) /\ SamePlace(Hand(t))
           /\ At(t, "end") /\ doing[t].then = "loopFails"
           /\ doing'[t].step = "close" /\ doing'[t].then = "freeAndFail" /\ doing'[t].i = doing[t].i
           /\ listed[Hand(t)].count = 1
           /\ UNCHANGED <<listKind, slots, usedSlots, connState, spoiled>>
<1>1. Hand(t) \in Listed /\ NotNew(t, Hand(t))
  BY HasHandle DEF CloseConnFrees, NotNew, At, Busy
<1>2. Acts(t, Hand(t))
  BY <1>1, ListTypes DEF CloseConnFrees, Acts, Involved, Closing, Hand, At, IsIdle, Doings
<1>3. /\ listed'[Hand(t)].count = 0 /\ listed'[Hand(t)].by = listed[Hand(t)].by /\ listed'[Hand(t)].is = listed[Hand(t)].is
      /\ SameMark(Hand(t)) /\ SamePlace(Hand(t))
  BY <1>1, ListTypes DEF CloseConnFrees, SameRefs, SameMark, SamePlace, Records, Hand
<1>4. /\ At(t, "end") /\ doing[t].then = "loopFails"
      /\ doing'[t].step = "close" /\ doing'[t].then = "freeAndFail" /\ doing'[t].i = doing[t].i
      /\ listed[Hand(t)].count = 1
      /\ UNCHANGED <<listKind, slots, usedSlots, connState, spoiled>>
  BY <1>1, ListTypes DEF CloseConnFrees, Doings, Hand, At, slotVars
<1> QED
  BY <1>1, <1>2, <1>3, <1>4

LEMMA CloseConnFailsFreedEffect ==
    ASSUME ListInv, NEW t \in ListUsers, CloseConnFailsFreed(t)
    PROVE  /\ Acts(t, Hand(t)) /\ NotNew(t, Hand(t))
           /\ listed'[Hand(t)].is = "freed" /\ listed'[Hand(t)].by = listed[Hand(t)].by
           /\ SameMark(Hand(t)) /\ SamePlace(Hand(t))
           /\ At(t, "end") /\ doing[t].then = "freeAndFail"
           /\ IsIdle(t)'
           /\ connState' = "open" /\ spoiled'
           /\ UNCHANGED <<listKind, slots, usedSlots>>
<1>1. Hand(t) \in Listed /\ NotNew(t, Hand(t))
  BY HasHandle DEF CloseConnFailsFreed, NotNew, At, Busy
<1>2. Acts(t, Hand(t))
  BY <1>1, ListTypes DEF CloseConnFailsFreed, Acts, Involved, Closing, Hand, At, IsIdle, Doings, Idle0, Starts
<1> QED
  BY <1>1, <1>2, ListTypes DEF CloseConnFailsFreed, SameRefs, SameMark, SamePlace, Records, Doings, Hand, At, IsIdle, slotVars, Idle0, Starts

LEMMA CreateListedEffect ==
    ASSUME ListInv, NEW t \in ListUsers, NEW h \in Listed, CreateListed(t, h)
    PROVE  /\ Acts(t, h) /\ NotNew(t, h)
           /\ listed[h].is = "none" /\ listed'[h].is = "live" /\ listed'[h].count = 1
           /\ listed'[h].by = {} /\ listed'[h].held /\ ~listed'[h].closing /\ SamePlace(h)
           /\ IsIdle(t) /\ doing'[t].step = "add" /\ doing'[t].then = "back" /\ doing'[t].h = h
           /\ \A u \in ListUsers \ {t} : Busy(u) => Hand(u) /= h
           /\ \A i \in DOMAIN slots : slots[i] /= h
           /\ connState = "open" /\ UNCHANGED <<listKind, slots, usedSlots, connState, spoiled>>
<1>1. /\ \A u \in ListUsers \ {t} : Busy(u) => Hand(u) /= h
      /\ \A i \in DOMAIN slots : slots[i] /= h
  BY ListAssumption DEF CreateListed, ListInv, OnlyMadeAreUsed, NoListed
<1>2. Acts(t, h)
  BY ListTypes DEF CreateListed, Acts, Involved, Closing, Hand, IsIdle, Starts
<1>3. listed[h].is = "none" /\ listed[h].by = {} /\ ~listed[h].closing /\ NotNew(t, h)
  BY <1>1 DEF CreateListed, ListInv, NotMadeIsNew, NotNew, Busy, At
<1>4. listed' = [listed EXCEPT ![h].is = "live", ![h].held = TRUE, ![h].count = 1]
  BY DEF CreateListed
<1>5. /\ listed'[h].is = "live" /\ listed'[h].count = 1 /\ listed'[h].held
      /\ listed'[h].by = listed[h].by /\ listed'[h].closing = listed[h].closing /\ SamePlace(h)
  BY <1>4, ListTypes DEF SamePlace, Records
<1>6. /\ IsIdle(t) /\ doing'[t].step = "add" /\ doing'[t].then = "back" /\ doing'[t].h = h
      /\ connState = "open" /\ UNCHANGED <<listKind, slots, usedSlots, connState, spoiled>>
  BY ListTypes DEF CreateListed, Starts, slotVars
<1> QED
  BY <1>1, <1>2, <1>3, <1>5, <1>6

\* The slot of an added handle is one past the last, when all are in use, or
\* the next that IsNextSlot allows.
Added(h, s) ==
    /\ s \in DOMAIN slots' /\ slots'[s] = h /\ listed'[h].slot = s
    /\ DOMAIN slots \subseteq DOMAIN slots'
    /\ \A i \in DOMAIN slots' \ {s} : slots'[i] = IF i \in DOMAIN slots THEN slots[i] ELSE NoListed
    /\ IF usedSlots = NumSlots THEN s = usedSlots ELSE IsNextSlot(s) /\ s \in 0..NumSlots

LEMMA AddHandleEffect ==
    ASSUME ListInv, NEW t \in ListUsers, AddHandle(t)
    PROVE  /\ Acts(t, Hand(t)) /\ NotNew(t, Hand(t)) /\ SameMark(Hand(t))
           /\ listed'[Hand(t)].is = listed[Hand(t)].is /\ listed'[Hand(t)].count = listed[Hand(t)].count
           /\ listed'[Hand(t)].by = {t} /\ listed'[Hand(t)].late = (connState /= "open")
           /\ At(t, "add") /\ IsIdle(t)'
           /\ \E s \in 0..NumSlots : Added(Hand(t), s)
           /\ usedSlots' = usedSlots + 1 /\ UNCHANGED <<listKind, connState, spoiled>>
<1> DEFINE h == Hand(t)
           full == usedSlots = NumSlots
           grown == IF full THEN NumSlots + SlotChunk ELSE NumSlots
           new(s) == [i \in 0..grown - 1 |-> IF i = s THEN h ELSE IF i < NumSlots THEN slots[i] ELSE NoListed]
<1>1. h \in Listed /\ NotNew(t, h)
  BY HasHandle DEF AddHandle, NotNew, At, Busy
<1>2. PICK s \in 0..NumSlots :
          /\ IF full THEN s = usedSlots ELSE IsNextSlot(s)
          /\ slots' = new(s)
          /\ listed' = [listed EXCEPT ![h].slot = s, ![h].by = {t}, ![h].late = connState /= "open"]
  BY DEF AddHandle
<1>3. Acts(t, h)
  BY <1>1, <1>2, ListTypes DEF AddHandle, Acts, Involved, Closing, Goes, Hand, At, Doings
<1>4. /\ SameMark(h) /\ listed'[h].is = listed[h].is /\ listed'[h].count = listed[h].count
      /\ listed'[h].slot = s /\ listed'[h].by = {t} /\ listed'[h].late = (connState /= "open")
  BY <1>1, <1>2, ListTypes DEF SameMark, Records
<1>5. At(t, "add") /\ IsIdle(t)'
  BY ListTypes DEF AddHandle, Goes, At, IsIdle, Doings
<1>6. Added(h, s)
  <2>1. NumSlots \in Nat \ {0} /\ DOMAIN slots = 0..NumSlots - 1 /\ SlotChunk \in Nat \ {0}
    BY ListTypes, ListAssumption
  <2>2. grown \in Nat /\ NumSlots <= grown /\ s \in 0..grown - 1
    <3>1. CASE full
      BY <2>1, <3>1
    <3>2. CASE ~full
      <4>1. s < NumSlots
        BY <1>2, <2>1, <3>2 DEF IsNextSlot
      <4> QED
        BY <2>1, <3>2, <4>1
    <3> QED
      BY <3>1, <3>2
  <2>3. DOMAIN slots' = 0..grown - 1
    BY <1>2
  <2> HIDE DEF h, grown, full
  <2>4. slots'[s] = h /\ DOMAIN slots \subseteq DOMAIN slots'
    BY <1>2, <2>1, <2>2, <2>3
  <2>5. \A i \in DOMAIN slots' \ {s} : slots'[i] = IF i \in DOMAIN slots THEN slots[i] ELSE NoListed
    BY <1>2, <2>1, <2>2, <2>3
  <2> QED
    BY <1>2, <1>4, <2>2, <2>3, <2>4, <2>5 DEF Added, full
<1>7. usedSlots' = usedSlots + 1 /\ UNCHANGED <<listKind, connState, spoiled>>
  BY Zenon DEF AddHandle
<1> QED
  BY <1>1, <1>3, <1>4, <1>5, <1>6, <1>7

-----------------------------------------------------------------------------
\* Who closes a handle has it.

LEMMA WhyClosing ==
    ASSUME ListInv, NEW t \in ListUsers
    PROVE  doing[t].step \in Closing <=> Asked(t) \/ Frees(t) \/ Pins(t)
BY ListTypes DEF Asked, Frees, Pins, ClosesFor, Doings

LEMMA WalksKeep ==
    ASSUME OneWalks, NEW t \in ListUsers, \A u \in ListUsers \ {t} : doing'[u] = doing[u],
           Walks(t)' => Walks(t) /\ connState' = connState,
           connState' = connState \/ Walks(t)
    PROVE  OneWalks'
BY DEF OneWalks, Walks, Pins, ClosesFor

LEMMA AskedKeeps ==
    ASSUME ListInv, AskedHolds, NEW t \in ListUsers, NEW h, Acts(t, h),
           \A u \in ListUsers \ {t} : u \in listed[h].by => u \in listed'[h].by,
           Asked(t)' => t \in listed'[h].by /\ listKind' = "lob",
           listKind' = listKind
    PROVE  AskedHolds'
<1> SUFFICES ASSUME NEW u \in ListUsers, Asked(u)' PROVE u \in listed'[Hand(u)'].by /\ listKind' = "lob"
  BY DEF AskedHolds
<1>1. CASE u = t
  BY <1>1 DEF Acts, Asked, ClosesFor, Involved
<1>2. CASE u /= t
  <2>1. Asked(u) /\ Hand(u)' = Hand(u) /\ Hand(u) \in Listed
    BY <1>2 DEF Acts, Asked, ClosesFor, Closing, Hand, ListInv, OnlyMadeAreUsed, Busy
  <2> QED
    BY <1>2, <2>1 DEF Acts, AskedHolds
<1> QED
  BY <1>1, <1>2

LEMMA RefsKeep ==
    ASSUME RefsCounted, NEW t \in ListUsers, NEW h, Acts(t, h), NotNew(t, h),
           IsFiniteSet(listed'[h].by), listed'[h].by /= {} => listed'[h].is = "live",
           At(t, "add")' => listed'[h].is = "live" /\ listed'[h].count = 1,
           Pinned(h)' => listed'[h].is = "live",
           listed'[h].is = "live" /\ Settled(h)' => Counted(h)',
           ListInv
    PROVE  RefsCounted'
<1> USE DEF Acts, Hand, At
<1>1. ASSUME NEW g \in Listed, g /= h
      PROVE  listed'[g] = listed[g] /\ (Settled(g)' => Settled(g)) /\ Pinned(g)' = Pinned(g)
  <2>1. listed'[g] = listed[g]
    BY <1>1
  <2>2. Settled(g)' => Settled(g)
    BY <1>1 DEF Settled, Frees, ClosesFor, Involved
  <2>3. Pinned(g)' = Pinned(g)
    BY <1>1 DEF Pinned, Pins, ClosesFor, Involved
  <2> QED
    BY <2>1, <2>2, <2>3
<1>2. \A g \in Listed : IsFiniteSet(listed'[g].by) /\ (listed'[g].by /= {} => listed'[g].is = "live")
  BY <1>1 DEF RefsCounted
<1>3. ASSUME NEW u \in ListUsers, At(u, "add")' PROVE listed'[Hand(u)'].is = "live" /\ listed'[Hand(u)'].count = 1
  <2>1. CASE u = t
    BY <1>3, <2>1 DEF Involved
  <2>2. CASE u /= t
    BY <1>3, <2>2 DEF RefsCounted, NotNew, ListInv, OnlyMadeAreUsed, Busy
  <2> QED
    BY <2>1, <2>2
<1>4. \A g \in Listed : Pinned(g)' => listed'[g].is = "live"
  BY <1>1 DEF RefsCounted
<1>5. \A g \in Listed : listed'[g].is = "live" /\ Settled(g)' => Counted(g)'
  <2> SUFFICES ASSUME NEW g \in Listed, g /= h, listed'[g].is = "live", Settled(g)' PROVE Counted(g)'
    OBVIOUS
  <2> QED
    BY <1>1 DEF RefsCounted, Counted
<1> QED
  BY <1>2, <1>3, <1>4, <1>5 DEF RefsCounted

\* Nobody else frees the handle, or the step does not concern it.
LEMMA FreesKeep ==
    ASSUME ListInv, FreesAlone, NEW t \in ListUsers, NEW h, Acts(t, h),
           \A i \in DOMAIN slots' : \/ slots'[i] \in {h, NoListed}
                                    \/ i \in DOMAIN slots /\ slots'[i] = slots[i],
           At(t, "pin")' => At(t, "pin") /\ Hand(t)' = Hand(t),
           \/ \A u \in ListUsers \ {t} : Frees(u) => Hand(u) /= h
           \/ listed'[h] = listed[h] /\ doing'[t].step \notin Closing /\ slots' = slots,
           Frees(t)' =>
               /\ listed'[h].is = "live" /\ listed'[h].by = {}
               /\ \A u \in ListUsers \ {t} : Hand(u) = h => doing[u].step \notin Closing
               /\ \/ listed'[h].count = 0
                  \/ /\ \A i \in DOMAIN slots' : slots'[i] /= h
                     /\ \A u \in ListUsers : At(u, "pin")' => Hand(u)' /= h
    PROVE  FreesAlone'
<1> USE DEF Acts, Hand
<1> SUFFICES ASSUME NEW v \in ListUsers, Frees(v)'
             PROVE  /\ listed'[Hand(v)'].is = "live" /\ listed'[Hand(v)'].by = {}
                    /\ \A u \in ListUsers \ {v} : Hand(u)' = Hand(v)' => doing'[u].step \notin Closing
                    /\ \/ listed'[Hand(v)'].count = 0
                       \/ /\ \A i \in DOMAIN slots' : slots'[i] /= Hand(v)'
                          /\ \A u \in ListUsers : At(u, "pin")' => Hand(u)' /= Hand(v)'
  BY DEF FreesAlone
<1>1. CASE v = t
  BY <1>1 DEF Frees, ClosesFor, Involved
<1>2. CASE v /= t
  <2> DEFINE g == Hand(v)
  <2>1. Frees(v) /\ Hand(v)' = g /\ g \in Listed
    BY <1>2 DEF Frees, ClosesFor, Closing, ListInv, OnlyMadeAreUsed, Busy
  <2>2. g /= NoListed
    BY <2>1, ListAssumption DEF NoListed
  <2>3. /\ listed[g].is = "live" /\ listed[g].by = {}
        /\ \A u \in ListUsers \ {v} : Hand(u) = g => doing[u].step \notin Closing
        /\ \/ listed[g].count = 0
           \/ /\ \A i \in DOMAIN slots : slots[i] /= g
              /\ \A u \in ListUsers : At(u, "pin") => Hand(u) /= g
    BY <2>1 DEF FreesAlone
  <2> HIDE DEF g
  <2>4. listed'[g] = listed[g] /\ (g = h => doing'[t].step \notin Closing /\ slots' = slots)
    BY <1>2, <2>1 DEF g
  <2>5. \A u \in ListUsers \ {v} : Hand(u)' = g => doing'[u].step \notin Closing
    BY <1>2, <2>3, <2>4 DEF Involved
  <2>6. \A u \in ListUsers : At(u, "pin")' => At(u, "pin") /\ Hand(u)' = Hand(u)
    BY DEF At
  <2>7. (\A i \in DOMAIN slots : slots[i] /= g) => \A i \in DOMAIN slots' : slots'[i] /= g
    BY <2>2, <2>4
  <2> QED
    BY <2>1, <2>3, <2>4, <2>5, <2>6, <2>7
<1> QED
  BY <1>1, <1>2

\* The references of a handle, one more or one less.
LEMMA CountFacts ==
    ASSUME NEW S, IsFiniteSet(S), NEW x
    PROVE  /\ Cardinality(S) \in Nat /\ (Cardinality(S) = 0 => S = {}) /\ (S = {} => Cardinality(S) = 0)
           /\ IsFiniteSet(S \union {x}) /\ IsFiniteSet(S \ {x})
           /\ x \notin S => Cardinality(S \union {x}) = Cardinality(S) + 1
           /\ x \in S => Cardinality(S \ {x}) = Cardinality(S) - 1
           /\ Cardinality({x}) = 1 /\ IsFiniteSet({x})
BY FS_CardinalityType, FS_EmptySet, FS_AddElement, FS_RemoveElement, FS_Singleton

\* A handle that a thread has a reference to, or the connection, is settled.
LEMMA HeldIsSettled ==
    ASSUME ListInv, LiveInv, NEW h \in Listed,
           \/ listed[h].by /= {}
           \/ \E t \in ListUsers : Hand(t) = h /\ (Pins(t) \/ (At(t, "pin") /\ listed[h].count > 0))
    PROVE  Settled(h)
<1> SUFFICES ASSUME NEW u \in ListUsers, Hand(u) = h, At(u, "add") \/ Frees(u) PROVE FALSE
  BY DEF Settled
<1>1. listed[h].by = {}
  BY DEF ListInv, NewIsOwn, LiveInv, FreesAlone
<1>2. PICK t \in ListUsers : Hand(t) = h /\ (Pins(t) \/ (At(t, "pin") /\ listed[h].count > 0))
  BY <1>1
<1>3. t /= u /\ Busy(t)
  BY <1>2, WhyClosing DEF At, Busy, Pins, Frees, ClosesFor, Closing
<1>4. Frees(u)
  BY <1>2, <1>3 DEF ListInv, NewIsOwn
<1>5. ~Pins(t)
  BY <1>2, <1>3, <1>4 DEF LiveInv, FreesAlone, Pins, ClosesFor
<1> QED
  BY <1>2, <1>4, <1>5 DEF LiveInv, FreesAlone, At

\* What else holds then.
LEMMA CountedNow ==
    ASSUME ListInv, LiveInv, NEW h \in Listed, Settled(h),
           listed[h].is = "live" \/ listed[h].by /= {} \/ Pinned(h)
    PROVE  /\ listed[h].is = "live" /\ listed[h].count > 0 /\ listed[h].count \in Int
           /\ IsFiniteSet(listed[h].by)
           /\ listed[h].count = IF Pinned(h) THEN Cardinality(listed[h].by) + 1 ELSE Cardinality(listed[h].by)
           /\ \A u \in ListUsers : Hand(u) = h => ~Frees(u)
<1>1. listed[h].is = "live" /\ listed[h].count \in Int
  BY ListTypes DEF LiveInv, RefsCounted, Records
<1> QED
  BY <1>1 DEF LiveInv, RefsCounted, Counted, Settled

\* Nobody else is closing a handle whose references are given up.
LEMMA NobodyCloses ==
    ASSUME ListInv, LiveInv, NEW t \in ListUsers, NEW h \in Listed, Settled(h),
           listed[h].by \subseteq {t}, \A u \in ListUsers \ {t} : Hand(u) = h => ~Pins(u)
    PROVE  \A u \in ListUsers \ {t} : Hand(u) = h => doing[u].step \notin Closing
BY WhyClosing DEF LiveInv, AskedHolds, Settled

\* A thread goes on closing its handle.
LEMMA ClosingGoesOn ==
    ASSUME ListInv, LiveInv, NEW t \in ListUsers, Acts(t, Hand(t)), NotNew(t, Hand(t)),
           doing[t].step \in Closing, SameRefs(Hand(t)),
           Asked(t)' <=> Asked(t), Pins(t)' <=> Pins(t), Frees(t)' <=> Frees(t), Walks(t)' <=> Walks(t),
           doing'[t].step \in Closing,
           \A i \in DOMAIN slots' : slots'[i] = NoListed \/ (i \in DOMAIN slots /\ slots'[i] = slots[i]),
           UNCHANGED <<listKind, connState>>
    PROVE  LiveInv'
<1> DEFINE h == Hand(t)
<1> USE DEF LiveInv
<1>0. h \in Listed /\ Hand(t)' = h /\ listed'[h].by = listed[h].by /\ ~At(t, "add")' /\ ~At(t, "pin")' /\ ~At(t, "add")
  BY DEF Acts, Involved, SameRefs, At, Closing
<1>1. OneWalks'
  BY WalksKeep DEF Acts
<1>2. AskedHolds'
  BY <1>0, AskedKeeps DEF AskedHolds
<1>3. RefsCounted'
  <2>1. \A u \in ListUsers : Hand(u)' = Hand(u) /\ (Pins(u)' <=> Pins(u)) /\ (Frees(u)' <=> Frees(u)) /\ (At(u, "add")' <=> At(u, "add"))
    BY <1>0 DEF Acts, Hand, Pins, Frees, ClosesFor, At
  <2>2. Settled(h)' => Settled(h)
    BY <1>0, <2>1 DEF Settled
  <2>3. Pinned(h)' <=> Pinned(h)
    BY <1>0, <2>1 DEF Pinned
  <2>4. listed'[h].is = "live" /\ Settled(h)' => Counted(h)'
    BY <1>0, <2>2, <2>3 DEF RefsCounted, Counted, SameRefs
  <2> QED
    BY <1>0, <2>3, <2>4, RefsKeep DEF RefsCounted, SameRefs
<1>4. FreesAlone'
  <2>1. \A u \in ListUsers \ {t} : Frees(u) => Hand(u) /= h
    BY DEF FreesAlone
  <2>2. Frees(t)' => /\ listed'[h].is = "live" /\ listed'[h].by = {}
                     /\ \A u \in ListUsers \ {t} : Hand(u) = h => doing[u].step \notin Closing
                     /\ \/ listed'[h].count = 0
                        \/ /\ \A i \in DOMAIN slots' : slots'[i] /= h
                           /\ \A u \in ListUsers : At(u, "pin")' => Hand(u)' /= h
    <3> SUFFICES ASSUME Frees(t)' PROVE
                     /\ listed'[h].is = "live" /\ listed'[h].by = {}
                     /\ \A u \in ListUsers \ {t} : Hand(u) = h => doing[u].step \notin Closing
                     /\ \/ listed'[h].count = 0
                        \/ /\ \A i \in DOMAIN slots' : slots'[i] /= h
                           /\ \A u \in ListUsers : At(u, "pin")' => Hand(u)' /= h
      OBVIOUS
    <3>1. h /= NoListed
      BY <1>0, ListAssumption DEF NoListed
    <3>2. \A u \in ListUsers : At(u, "pin")' => At(u, "pin") /\ Hand(u)' = Hand(u)
      BY <1>0 DEF Acts, At, Hand
    <3> QED
      BY <3>1, <3>2 DEF FreesAlone, SameRefs
  <2> QED
    BY <1>0, <2>1, <2>2, FreesKeep
<1> QED
  BY <1>1, <1>2, <1>3, <1>4

LEMMA ClosingLives ==
    ASSUME ListInv, LiveInv, NEW t \in ListUsers,
           MarkClosing(t) \/ OciFree(t) \/ OciFails(t) \/ RemoveHandle(t)
    PROVE  LiveInv'
<1> USE DEF Asked, Frees, Pins, Walks, ClosesFor, Closing, At, Hand
<1>1. CASE MarkClosing(t)
  BY <1>1, MarkClosingEffect, ListTypes, ClosingGoesOn
<1>2. CASE OciFree(t)
  BY <1>2, OciFreeEffect, ListTypes, ClosingGoesOn
<1>3. CASE OciFails(t)
  BY <1>3, OciFailsEffect, ListTypes, ClosingGoesOn
<1>4. CASE RemoveHandle(t)
  BY <1>4, RemoveHandleEffect, ListTypes, ClosingGoesOn
<1> QED
  BY <1>1, <1>2, <1>3, <1>4

LEMMA ShareListedLives ==
    ASSUME ListInv, LiveInv, NEW t \in ListUsers, NEW h \in Listed, ShareListed(t, h)
    PROVE  LiveInv'
<1> USE ShareListedEffect DEF IsIdle
<1>0. Settled(h) /\ ~Involved(t) /\ ~Involved(t)' /\ ~Walks(t)' /\ ~Pins(t) /\ ~Pins(t)'
  BY HeldIsSettled DEF Involved, Closing, Walks, Pins, ClosesFor
<1>1. OneWalks'
  BY <1>0, WalksKeep DEF LiveInv, Acts
<1>2. AskedHolds'
  BY <1>0, AskedKeeps DEF LiveInv, Asked, ClosesFor, Involved
<1>3. RefsCounted'
  <2>1. Pinned(h)' <=> Pinned(h)
    BY <1>0 DEF Pinned, Pins, ClosesFor, Acts, Hand
  <2>2. /\ IsFiniteSet(listed[h].by \union {t}) /\ Cardinality(listed[h].by) \in Nat
        /\ Cardinality(listed[h].by \union {t}) = Cardinality(listed[h].by) + 1
    BY <1>0, CountedNow, CountFacts
  <2>3. /\ listed[h].is = "live" /\ listed[h].count > 0 /\ listed[h].count \in Int
        /\ listed[h].count = IF Pinned(h) THEN Cardinality(listed[h].by) + 1 ELSE Cardinality(listed[h].by)
    BY <1>0, CountedNow
  <2>4. listed'[h].by = listed[h].by \union {t} /\ listed'[h].count = listed[h].count + 1 /\ listed'[h].is = listed[h].is
    OBVIOUS
  <2>5. Counted(h)'
    BY <2>1, <2>2, <2>3, <2>4 DEF Counted
  <2> QED
    BY <1>0, <2>2, <2>3, <2>4, <2>5, RefsKeep DEF LiveInv, At
<1>4. FreesAlone'
  BY <1>0, CountedNow, FreesKeep DEF LiveInv, Frees, ClosesFor, Involved, At
<1> QED
  BY <1>1, <1>2, <1>3, <1>4 DEF LiveInv

LEMMA ReleaseListedLives ==
    ASSUME ListInv, LiveInv, NEW t \in ListUsers, NEW h \in Listed, ReleaseListed(t, h)
    PROVE  LiveInv'
<1> USE ReleaseListedEffect DEF IsIdle
<1>0. Settled(h) /\ ~Involved(t) /\ ~Walks(t)' /\ ~Pins(t) /\ ~Pins(t)' /\ ~Asked(t)' /\ ~At(t, "add")' /\ ~At(t, "pin")'
  BY HeldIsSettled DEF Involved, Closing, Walks, Pins, Asked, ClosesFor, At
<1>1. OneWalks'
  BY <1>0, WalksKeep DEF LiveInv, Acts
<1>2. AskedHolds'
  BY <1>0, AskedKeeps DEF LiveInv
<1>3. Pinned(h)' <=> Pinned(h)
  BY <1>0 DEF Pinned, Acts, Hand, Pins, ClosesFor
<1>4. /\ IsFiniteSet(listed'[h].by) /\ listed'[h].is = "live"
      /\ listed[h].count > 1 => Counted(h)' /\ ~Frees(t)'
      /\ ~(listed[h].count > 1) =>
             ~Settled(h)' /\ Frees(t)' /\ listed'[h].by = {} /\ listed'[h].count = 0 /\ ~Pinned(h)
  <2>1. /\ Cardinality(listed[h].by) \in Nat /\ Cardinality(listed[h].by \ {t}) = Cardinality(listed[h].by) - 1
        /\ IsFiniteSet(listed[h].by \ {t}) /\ (Cardinality(listed[h].by \ {t}) = 0 => listed[h].by \ {t} = {})
        /\ Cardinality(listed[h].by \ {t}) \in Nat
    BY <1>0, CountedNow, CountFacts
  <2>2. IsFiniteSet(listed'[h].by) /\ listed'[h].is = "live"
    BY <1>0, <2>1, CountedNow
  <2>3. CASE listed[h].count > 1
    <3>1. /\ listed[h].count \in Int
          /\ listed[h].count = IF Pinned(h) THEN Cardinality(listed[h].by) + 1 ELSE Cardinality(listed[h].by)
      BY <1>0, CountedNow
    <3>2. listed'[h].by = listed[h].by \ {t} /\ listed'[h].count = listed[h].count - 1
      OBVIOUS
    <3>3. Counted(h)'
      BY <1>3, <2>1, <2>3, <3>1, <3>2 DEF Counted
    <3>4. ~Frees(t)'
      BY <2>3 DEF Frees, ClosesFor, Closing
    <3> QED
      BY <2>2, <2>3, <3>3, <3>4
  <2>4. CASE ~(listed[h].count > 1)
    <3>1. doing'[t].step = "close" /\ doing'[t].then = "free" /\ Hand(t)' = h
      BY <2>4 DEF Acts, Involved, Closing
    <3>2. Frees(t)' /\ ~Settled(h)'
      BY <3>1 DEF Frees, ClosesFor, Closing, Settled
    <3>3. ~Pinned(h) /\ Cardinality(listed[h].by) = 1 /\ listed[h].count = 1
      BY <1>0, <2>1, <2>4, CountedNow
    <3> QED
      BY <2>1, <2>2, <2>4, <3>2, <3>3
  <2> QED
    BY <2>2, <2>3, <2>4
<1>5. RefsCounted'
  BY <1>0, <1>4, RefsKeep DEF LiveInv
<1>6. FreesAlone'
  <2>1. \A u \in ListUsers \ {t} : Frees(u) => Hand(u) /= h
    BY <1>0 DEF Settled
  <2>2. Frees(t)' => \A u \in ListUsers \ {t} : Hand(u) = h => doing[u].step \notin Closing
    BY <1>0, <1>4, NobodyCloses DEF Pinned
  <2> QED
    BY <1>0, <1>4, <2>1, <2>2, FreesKeep DEF LiveInv
<1> QED
  BY <1>1, <1>2, <1>5, <1>6 DEF LiveInv

LEMMA CloseListedLives ==
    ASSUME ListInv, LiveInv, NEW t \in ListUsers, NEW h \in Listed, CloseListed(t, h)
    PROVE  LiveInv'
<1> USE CloseListedEffect DEF IsIdle
<1>0. Settled(h) /\ ~Involved(t) /\ ~Walks(t)' /\ ~Pins(t) /\ ~Pins(t)' /\ ~Frees(t)' /\ ~At(t, "add")' /\ ~At(t, "pin")'
  BY HeldIsSettled DEF Involved, Closing, Walks, Pins, Frees, ClosesFor, At
<1>1. OneWalks'
  BY <1>0, WalksKeep DEF LiveInv, Acts
<1>2. AskedHolds'
  BY <1>0, AskedKeeps DEF LiveInv, SameRefs
<1>3. RefsCounted'
  <2>1. Pinned(h)' <=> Pinned(h)
    BY <1>0 DEF Pinned, Acts, Hand, Pins, ClosesFor
  <2>2. Counted(h)' /\ IsFiniteSet(listed'[h].by) /\ listed'[h].is = "live"
    BY <1>0, <2>1, CountedNow DEF Counted, SameRefs
  <2> QED
    BY <1>0, <2>2, RefsKeep DEF LiveInv
<1>4. FreesAlone'
  BY <1>0, FreesKeep DEF LiveInv, Settled
<1> QED
  BY <1>1, <1>2, <1>3, <1>4 DEF LiveInv

\* Nobody knows a handle that could not be added.
LEMMA AddFailsLives ==
    ASSUME ListInv, LiveInv, NEW t \in ListUsers, ObjectFails(t) \/ LobFails(t)
    PROVE  LiveInv'
<1>h. PICK h : h = Hand(t)
  OBVIOUS
<1>0. /\ Acts(t, h) /\ NotNew(t, h) /\ SameRefs(h) /\ At(t, "add")
      /\ doing'[t].step = "close" /\ doing'[t].then = "free"
      /\ UNCHANGED <<listKind, slots, connState>>
  BY <1>h, ObjectFailsEffect, LobFailsEffect
<1>1. /\ listed[h].is = "live" /\ listed[h].by = {} /\ \A i \in DOMAIN slots : slots[i] /= h
      /\ \A u \in ListUsers \ {t} : Busy(u) => Hand(u) /= h
  BY <1>h, <1>0 DEF LiveInv, RefsCounted, ListInv, NewIsOwn
<1>2. /\ ~Walks(t)' /\ ~Pins(t)' /\ ~Asked(t)' /\ ~At(t, "add")' /\ ~At(t, "pin")' /\ Frees(t)' /\ Hand(t)' = h
  BY <1>h, <1>0 DEF Walks, Pins, Asked, Frees, ClosesFor, At, Closing, Acts, Involved
<1>3. OneWalks'
  BY <1>0, <1>2, WalksKeep DEF LiveInv, Acts
<1>4. AskedHolds'
  BY <1>0, <1>1, <1>2, AskedKeeps DEF LiveInv
<1>5. RefsCounted'
  <2>1. listed'[h].is = "live" /\ listed'[h].by = {} /\ IsFiniteSet(listed'[h].by)
    BY <1>0, <1>1, FS_EmptySet DEF SameRefs
  <2>2. ~Settled(h)'
    BY <1>2 DEF Settled
  <2> QED
    BY <1>0, <1>2, <2>1, <2>2, RefsKeep DEF LiveInv
<1>6. FreesAlone'
  <2>1. \A u \in ListUsers \ {t} : Hand(u) = h => doing[u].step \notin Closing
    BY <1>1 DEF Busy, Closing
  <2>2. \A u \in ListUsers \ {t} : Frees(u) => Hand(u) /= h
    BY <2>1 DEF Frees, ClosesFor
  <2>3. \A u \in ListUsers : At(u, "pin")' => Hand(u)' /= h
    BY <1>0, <1>1, <1>2 DEF Busy, At, Acts, Hand
  <2>4. listed'[h].is = "live" /\ listed'[h].by = {} /\ \A i \in DOMAIN slots' : slots'[i] /= h
    BY <1>0, <1>1 DEF SameRefs
  <2>5. \A i \in DOMAIN slots' : i \in DOMAIN slots /\ slots'[i] = slots[i]
    BY <1>0
  <2> QED
    BY <1>0, <1>2, <2>1, <2>2, <2>3, <2>4, <2>5, FreesKeep DEF LiveInv
<1> QED
  BY <1>3, <1>4, <1>5, <1>6 DEF LiveInv

\* A call that ends, or that has freed the handle.
LEMMA CloseEndsLives ==
    ASSUME ListInv, LiveInv, NEW t \in ListUsers, CloseEnds(t) \/ CloseConnFailsFreed(t)
    PROVE  LiveInv'
<1>h. PICK h : h = Hand(t)
  OBVIOUS
<1>0. /\ Acts(t, h) /\ NotNew(t, h) /\ At(t, "end") /\ IsIdle(t)' /\ listed'[h].by = listed[h].by
      /\ \/ doing[t].then \in {"back", "backFails"} /\ SameRefs(h)
         \/ doing[t].then \in {"free", "freeAndFail"} /\ listed'[h].is = "freed"
      /\ connState' = connState \/ Walks(t)
      /\ UNCHANGED <<listKind, slots>>
  BY <1>h, CloseEndsEffect, CloseConnFailsFreedEffect DEF SameRefs, Walks, ClosesFor, At, Closing
<1>1. ~Walks(t)' /\ ~Pins(t)' /\ ~Asked(t)' /\ ~Frees(t)' /\ ~At(t, "add")' /\ ~At(t, "pin")' /\ ~Pins(t)
  BY <1>0 DEF IsIdle, Walks, Pins, Asked, Frees, ClosesFor, Closing, At
<1>2. OneWalks'
  BY <1>0, <1>1, WalksKeep DEF LiveInv, Acts
<1>3. AskedHolds'
  BY <1>0, <1>1, AskedKeeps DEF LiveInv
<1>4. Pinned(h)' <=> Pinned(h)
  BY <1>0, <1>1 DEF Pinned, Acts, Hand, Pins, ClosesFor
<1>5. /\ doing[t].then \in {"back", "backFails"} => Asked(t) /\ Settled(h)
      /\ doing[t].then \in {"free", "freeAndFail"} => Frees(t) /\ listed[h].by = {} /\ ~Pinned(h)
      /\ \A u \in ListUsers \ {t} : Frees(u) => Hand(u) /= h
  <2>1. CASE doing[t].then \in {"back", "backFails"}
    <3>1. Asked(t) /\ t \in listed[h].by
      BY <1>h, <1>0, <2>1 DEF Asked, ClosesFor, At, Closing, LiveInv, AskedHolds
    <3>2. Settled(h)
      BY <1>h, <1>0, <3>1, HeldIsSettled DEF Acts
    <3> QED
      BY <1>h, <2>1, <3>1, <3>2 DEF Settled
  <2>2. CASE doing[t].then \in {"free", "freeAndFail"}
    <3>1. Frees(t)
      BY <1>0, <2>2 DEF Frees, ClosesFor, At, Closing
    <3> QED
      BY <1>h, <2>2, <3>1, <1>1 DEF LiveInv, FreesAlone, Pinned, Pins, Frees, ClosesFor
  <2> QED
    BY <1>0, <2>1, <2>2
<1>6. RefsCounted'
  <2>1. IsFiniteSet(listed'[h].by) /\ (listed'[h].by /= {} => listed'[h].is = "live") /\ (Pinned(h)' => listed'[h].is = "live")
    BY <1>0, <1>4, <1>5 DEF LiveInv, RefsCounted, SameRefs, Acts
  <2>2. listed'[h].is = "live" /\ Settled(h)' => Counted(h)'
    BY <1>0, <1>4, <1>5 DEF LiveInv, RefsCounted, SameRefs, Acts, Counted
  <2> QED
    BY <1>0, <1>1, <2>1, <2>2, RefsKeep DEF LiveInv
<1>7. FreesAlone'
  <2>1. \A i \in DOMAIN slots' : i \in DOMAIN slots /\ slots'[i] = slots[i]
    BY <1>0
  <2> QED
    BY <1>0, <1>1, <1>5, <2>1, FreesKeep DEF LiveInv
<1> QED
  BY <1>2, <1>3, <1>6, <1>7 DEF LiveInv


\* A step of a thread that closes nothing and adds nothing.
LEMMA QuietLives ==
    ASSUME ListInv, LiveInv, NEW t \in ListUsers,
           \A u \in ListUsers \ {t} : doing'[u] = doing[u],
           ~Involved(t), ~Involved(t)', OneWalks', UNCHANGED <<listed, slots, listKind>>,
           At(t, "pin")' => \/ At(t, "pin") /\ Hand(t)' = Hand(t)
                            \/ \E i \in DOMAIN slots : slots[i] = Hand(t)'
    PROVE  LiveInv'
<1> USE DEF LiveInv, Hand
<1>1. \A u \in ListUsers : /\ Asked(u)' <=> Asked(u) /\ u /= t
                           /\ Frees(u)' <=> Frees(u) /\ u /= t
                           /\ Pins(u)' <=> Pins(u) /\ u /= t
                           /\ At(u, "add")' <=> At(u, "add") /\ u /= t
  BY DEF Asked, Frees, Pins, ClosesFor, At, Involved
<1>2. ~Asked(t) /\ ~Frees(t) /\ ~Pins(t) /\ ~At(t, "add")
  BY DEF Asked, Frees, Pins, ClosesFor, At, Involved
<1>3. AskedHolds'
  BY <1>1 DEF AskedHolds
<1>4. RefsCounted'
  <2>1. ASSUME NEW g \in Listed PROVE (Pinned(g)' <=> Pinned(g)) /\ (Settled(g)' => Settled(g))
    BY <1>1, <1>2 DEF Pinned, Settled
  <2>2. \A g \in Listed : Counted(g) <=> Counted(g)'
    BY <2>1 DEF Counted
  <2> QED
    BY <1>1, <2>1, <2>2 DEF RefsCounted
<1>5. FreesAlone'
  <2> SUFFICES ASSUME NEW v \in ListUsers, v /= t, Frees(v)
               PROVE  /\ listed[Hand(v)].is = "live" /\ listed[Hand(v)].by = {}
                      /\ \A u \in ListUsers \ {v} : Hand(u)' = Hand(v) => doing'[u].step \notin Closing
                      /\ \/ listed[Hand(v)].count = 0
                         \/ /\ \A i \in DOMAIN slots : slots[i] /= Hand(v)
                            /\ \A u \in ListUsers : At(u, "pin")' => Hand(u)' /= Hand(v)
    BY <1>1 DEF FreesAlone
  <2>1. \A u \in ListUsers \ {v} : Hand(u)' = Hand(v) => doing'[u].step \notin Closing
    BY DEF FreesAlone, Involved
  <2>2. \A u \in ListUsers : At(u, "pin")' => \/ At(u, "pin") /\ Hand(u)' = Hand(u)
                                             \/ \E i \in DOMAIN slots : slots[i] = Hand(u)'
    BY DEF At
  <2> QED
    BY <2>1, <2>2 DEF FreesAlone
<1> QED
  BY <1>3, <1>4, <1>5

LEMMA WalkLives ==
    ASSUME ListInv, LiveInv, NEW t \in ListUsers,
           CloseConn(t) \/ ReadSlot(t) \/ ConnClosed(t) \/ SessionEndFails(t)
    PROVE  LiveInv'
<1> USE DEF LiveInv
<1>1. /\ \A u \in ListUsers \ {t} : doing'[u] = doing[u]
      /\ doing[t].step \in {"idle", "read"} /\ doing'[t].step \in {"idle", "read", "pin"}
      /\ UNCHANGED <<listed, slots, listKind>>
  <2>1. CASE CloseConn(t)
    BY <2>1, ListTypes DEF CloseConn, IsIdle, Starts, slotVars
  <2>2. CASE ReadSlot(t)
    BY <2>2, ListTypes DEF ReadSlot, At, Doings, slotVars
  <2>3. CASE ConnClosed(t) \/ SessionEndFails(t)
    BY <2>3, ListTypes DEF ConnClosed, SessionEndFails, At, Goes, Doings, slotVars
  <2> QED
    BY <2>1, <2>2, <2>3
<1>2. ~Involved(t) /\ ~Involved(t)'
  BY <1>1 DEF Involved, Closing
<1>3. OneWalks'
  <2>1. CASE CloseConn(t)
    <3>1. \A u \in ListUsers : ~Walks(u)
      BY <2>1 DEF CloseConn, OneWalks
    <3>2. \A u \in ListUsers \ {t} : ~Walks(u)'
      BY <1>1, <3>1 DEF Walks, Pins, ClosesFor
    <3> QED
      BY <2>1, <3>2 DEF CloseConn, OneWalks
  <2>2. CASE ReadSlot(t)
    <3>1. Walks(t) /\ connState' = connState
      BY <2>2 DEF ReadSlot, Walks, At
    <3> QED
      BY <1>1, <3>1, WalksKeep
  <2>3. CASE ConnClosed(t) \/ SessionEndFails(t)
    <3>1. Walks(t) /\ ~Walks(t)'
      <4>1. Walks(t) /\ doing'[t].step = "idle"
        BY <2>3, ListTypes DEF ConnClosed, SessionEndFails, Walks, At, Goes, Doings
      <4> QED
        BY <4>1 DEF Walks, Pins, ClosesFor, Closing
    <3> QED
      BY <1>1, <3>1, WalksKeep
  <2> QED
    BY <2>1, <2>2, <2>3
<1>4. At(t, "pin")' => \E i \in DOMAIN slots : slots[i] = Hand(t)'
  <2> SUFFICES ASSUME At(t, "pin")' PROVE \E i \in DOMAIN slots : slots[i] = Hand(t)'
    OBVIOUS
  <2>1. ReadSlot(t) 
    BY ListTypes DEF CloseConn, ConnClosed, SessionEndFails, At, Goes, Doings, Starts
  <2>2. doing[t].i \in DOMAIN slots
    BY <2>1, ListTypes DEF ReadSlot, Doings
  <2>3. Hand(t)' = slots[doing[t].i]
    BY <2>1, ListTypes DEF ReadSlot, At, Hand, Doings
  <2> QED
    BY <2>2, <2>3
<1> QED
  BY <1>1, <1>2, <1>3, <1>4, QuietLives

LEMMA PinListedLives ==
    ASSUME ListInv, LiveInv, NEW t \in ListUsers, PinListed(t)
    PROVE  LiveInv'
<1>h. PICK h : h = Hand(t)
  OBVIOUS
<1>0. Acts(t, h) /\ NotNew(t, h) /\ At(t, "pin") /\ Walks(t) /\ ~Pins(t) /\ h \in Listed
  BY <1>h, PinListedEffect DEF Walks, At, Pins, ClosesFor, Closing, Acts
<1>1. CASE ~(listed[h].is = "live" /\ listed[h].count > 0)
  <2>1. doing'[t].step = "read" /\ UNCHANGED <<listed, slots, listKind, connState>>
    BY <1>h, <1>1, ListTypes DEF PinListed, Doings, slotVars
  <2>2. ~Involved(t) /\ ~Involved(t)' /\ ~At(t, "pin")'
    BY <1>0, <2>1 DEF Involved, At, Closing
  <2>3. OneWalks'
    BY <1>0, <2>1, WalksKeep DEF LiveInv, Acts
  <2> QED
    BY <1>0, <2>1, <2>2, <2>3, QuietLives DEF Acts
<1>2. CASE listed[h].is = "live" /\ listed[h].count > 0
  <2>1. /\ listed'[h].is = "live" /\ listed'[h].by = listed[h].by /\ listed'[h].count = listed[h].count + 1
        /\ doing'[t].step = "close" /\ doing'[t].then = "loop"
        /\ UNCHANGED <<slots, listKind, connState>>
    BY <1>h, <1>2, PinListedEffect
  <2>2. ~Asked(t)' /\ ~Frees(t)' /\ Pins(t)' /\ ~At(t, "add")' /\ ~At(t, "pin")' /\ Hand(t)' = h
    BY <1>0, <2>1 DEF Asked, Frees, Pins, ClosesFor, At, Closing, Acts, Involved
  <2>3. OneWalks'
    BY <1>0, <2>1, WalksKeep DEF LiveInv, Acts
  <2>4. AskedHolds'
    BY <1>0, <2>1, <2>2, AskedKeeps DEF LiveInv
  <2>5. Settled(h)
    BY <1>h, <1>0, <1>2, HeldIsSettled
  <2>6. ~Pinned(h) /\ Pinned(h)'
    <3>1. ~Pinned(h)
      BY <1>0 DEF Pinned, LiveInv, OneWalks, Walks
    <3>2. Pinned(h)'
      BY <2>2 DEF Pinned
    <3> QED
      BY <3>1, <3>2
  <2>7. RefsCounted'
    <3>1. /\ IsFiniteSet(listed[h].by) /\ Cardinality(listed[h].by) \in Nat
          /\ listed[h].count = Cardinality(listed[h].by)
      BY <1>0, <1>2, <2>5, <2>6, CountedNow, CountFacts
    <3>2. Counted(h)'
      BY <1>2, <2>1, <2>6, <3>1 DEF Counted
    <3> QED
      BY <1>0, <2>1, <2>2, <3>1, <3>2, RefsKeep DEF LiveInv
  <2>8. FreesAlone'
    BY <1>0, <2>1, <2>2, <2>5, FreesKeep DEF LiveInv, Settled
  <2> QED
    BY <2>3, <2>4, <2>7, <2>8 DEF LiveInv
<1> QED
  BY <1>1, <1>2

\* The connection gives up its reference.
LEMMA UnpinLives ==
    ASSUME ListInv, LiveInv, NEW t \in ListUsers, NextListed(t) \/ CloseConnFails(t)
    PROVE  LiveInv'
<1>h. PICK h : h = Hand(t)
  OBVIOUS
<1>0. /\ Acts(t, h) /\ NotNew(t, h) /\ At(t, "end") /\ doing[t].then \in {"loop", "loopFails"}
      /\ listed'[h].count = listed[h].count - 1 /\ listed'[h].by = listed[h].by
      /\ listed'[h].is = IF listed[h].count = 1 THEN "freed" ELSE listed[h].is
      /\ \/ doing'[t].step = "read" /\ connState' = connState
         \/ doing'[t].step = "idle" /\ connState' = "open"
      /\ UNCHANGED <<slots, listKind>>
  BY <1>h, NextListedEffect, CloseConnFailsEffect DEF IsIdle
<1>1. /\ Pins(t) /\ Walks(t) /\ ~Pins(t)' /\ ~Asked(t)' /\ ~Frees(t)' /\ ~At(t, "add")' /\ ~At(t, "pin")'
      /\ Walks(t)' => connState' = connState
      /\ h \in Listed /\ Settled(h)
  <2>1. Pins(t) /\ Walks(t) /\ h \in Listed
    BY <1>0 DEF Pins, Walks, ClosesFor, Closing, At, Acts
  <2>2. ~Pins(t)' /\ ~Asked(t)' /\ ~Frees(t)' /\ ~At(t, "add")' /\ ~At(t, "pin")' /\ (Walks(t)' => connState' = connState)
    BY <1>0 DEF Pins, Walks, Asked, Frees, ClosesFor, Closing, At
  <2>3. Settled(h)
    BY <1>h, <2>1, HeldIsSettled
  <2> QED
    BY <2>1, <2>2, <2>3
<1>2. OneWalks'
  BY <1>0, <1>1, WalksKeep DEF LiveInv, Acts
<1>3. AskedHolds'
  BY <1>0, <1>1, AskedKeeps DEF LiveInv
<1>4. Pinned(h) /\ ~Pinned(h)'
  <2>1. Pinned(h)
    BY <1>h, <1>1 DEF Pinned
  <2>2. ASSUME NEW u \in ListUsers, Pins(u)' PROVE FALSE
    BY <1>0, <1>1, <2>2 DEF LiveInv, OneWalks, Walks, Pins, ClosesFor, Acts
  <2> QED
    BY <2>1, <2>2 DEF Pinned
<1>5. RefsCounted'
  <2>1. /\ IsFiniteSet(listed[h].by) /\ Cardinality(listed[h].by) \in Nat /\ listed[h].is = "live"
        /\ listed[h].count = Cardinality(listed[h].by) + 1
        /\ Cardinality(listed[h].by) = 0 => listed[h].by = {}
    BY <1>1, <1>4, CountedNow, CountFacts
  <2>2. listed'[h].by /= {} => listed'[h].is = "live"
    <3>1. listed[h].by /= {} => listed[h].count /= 1
      BY <2>1
    <3> QED
      BY <1>0, <2>1, <3>1
  <2>3. listed'[h].is = "live" => Counted(h)'
    BY <1>0, <1>4, <2>1 DEF Counted
  <2> QED
    BY <1>0, <1>1, <1>4, <2>1, <2>2, <2>3, RefsKeep DEF LiveInv
<1>6. FreesAlone'
  BY <1>0, <1>1, FreesKeep DEF LiveInv, Settled
<1> QED
  BY <1>2, <1>3, <1>5, <1>6 DEF LiveInv

\* Nobody but the connection had it: it frees the handle.
LEMMA CloseConnFreesLives ==
    ASSUME ListInv, LiveInv, NEW t \in ListUsers, CloseConnFrees(t)
    PROVE  LiveInv'
<1>h. PICK h : h = Hand(t)
  OBVIOUS
<1>0. /\ Acts(t, h) /\ NotNew(t, h) /\ At(t, "end") /\ doing[t].then = "loopFails"
      /\ listed[h].count = 1 /\ listed'[h].count = 0 /\ listed'[h].by = listed[h].by /\ listed'[h].is = listed[h].is
      /\ doing'[t].step = "close" /\ doing'[t].then = "freeAndFail"
      /\ UNCHANGED <<slots, listKind, connState>>
  BY <1>h, CloseConnFreesEffect
<1>1. /\ Pins(t) /\ Walks(t) /\ Walks(t)' /\ ~Asked(t)' /\ Frees(t)' /\ ~At(t, "add")' /\ ~At(t, "pin")' /\ Hand(t)' = h
      /\ h \in Listed /\ Settled(h) /\ Pinned(h)
  <2>1. Pins(t) /\ Walks(t) /\ h \in Listed
    BY <1>0 DEF Pins, Walks, ClosesFor, Closing, At, Acts
  <2>2. Walks(t)' /\ ~Asked(t)' /\ Frees(t)' /\ ~At(t, "add")' /\ ~At(t, "pin")' /\ Hand(t)' = h
    BY <1>0 DEF Walks, Asked, Frees, ClosesFor, Closing, At, Acts, Involved
  <2>3. Settled(h) /\ Pinned(h)
    BY <1>h, <2>1, HeldIsSettled DEF Pinned
  <2> QED
    BY <2>1, <2>2, <2>3
<1>2. OneWalks'
  BY <1>0, <1>1, WalksKeep DEF LiveInv, Acts
<1>3. AskedHolds'
  BY <1>0, <1>1, AskedKeeps DEF LiveInv
<1>4. /\ listed[h].is = "live" /\ listed[h].by = {} /\ IsFiniteSet(listed[h].by)
      /\ \A u \in ListUsers \ {t} : Hand(u) = h => doing[u].step \notin Closing
  <2>1. /\ IsFiniteSet(listed[h].by) /\ Cardinality(listed[h].by) \in Nat /\ listed[h].is = "live"
        /\ listed[h].count = Cardinality(listed[h].by) + 1
        /\ Cardinality(listed[h].by) = 0 => listed[h].by = {}
    BY <1>1, CountedNow, CountFacts
  <2>2. listed[h].by = {}
    BY <1>0, <2>1
  <2>3. \A u \in ListUsers \ {t} : ~Pins(u)
    BY <1>1 DEF LiveInv, OneWalks, Walks
  <2> QED
    BY <1>1, <2>1, <2>2, <2>3, NobodyCloses
<1>5. RefsCounted'
  <2>1. ~Settled(h)'
    BY <1>1 DEF Settled
  <2> QED
    BY <1>0, <1>1, <1>4, <2>1, RefsKeep DEF LiveInv
<1>6. FreesAlone'
  BY <1>0, <1>1, <1>4, FreesKeep DEF LiveInv, Settled
<1> QED
  BY <1>2, <1>3, <1>5, <1>6 DEF LiveInv

LEMMA CreateListedLives ==
    ASSUME ListInv, LiveInv, NEW t \in ListUsers, NEW h \in Listed, CreateListed(t, h)
    PROVE  LiveInv'
<1>0. /\ Acts(t, h) /\ NotNew(t, h) /\ listed[h].is = "none"
      /\ listed'[h].is = "live" /\ listed'[h].count = 1 /\ listed'[h].by = {}
      /\ doing[t].step = "idle" /\ doing'[t].step = "add" /\ doing'[t].h = h
      /\ \A u \in ListUsers \ {t} : Busy(u) => Hand(u) /= h
      /\ UNCHANGED <<slots, listKind, connState>>
  BY CreateListedEffect DEF IsIdle
<1>1. ~Walks(t)' /\ ~Pins(t)' /\ ~Asked(t)' /\ ~Frees(t)' /\ ~At(t, "pin")' /\ At(t, "add")' /\ Hand(t)' = h /\ ~Pins(t)
  BY <1>0 DEF Walks, Pins, Asked, Frees, ClosesFor, Closing, At, Hand
<1>2. OneWalks'
  BY <1>0, <1>1, WalksKeep DEF LiveInv, Acts
<1>3. AskedHolds'
  <2>1. listed[h].by = {}
    BY <1>0 DEF ListInv, NotMadeIsNew
  <2> QED
    BY <1>0, <1>1, <2>1, AskedKeeps DEF LiveInv
<1>4. RefsCounted'
  <2>1. ~Settled(h)' /\ IsFiniteSet(listed'[h].by)
    BY <1>0, <1>1, FS_EmptySet DEF Settled
  <2> QED
    BY <1>0, <1>1, <2>1, RefsKeep DEF LiveInv
<1>5. FreesAlone'
  <2>1. \A u \in ListUsers \ {t} : Frees(u) => Hand(u) /= h
    BY <1>0 DEF Frees, ClosesFor, Closing, Busy
  <2> QED
    BY <1>0, <1>1, <2>1, FreesKeep DEF LiveInv
<1> QED
  BY <1>2, <1>3, <1>4, <1>5 DEF LiveInv

LEMMA AddHandleLives ==
    ASSUME ListInv, LiveInv, NEW t \in ListUsers, AddHandle(t)
    PROVE  LiveInv'
<1>h. PICK h : h = Hand(t)
  OBVIOUS
<1>0. /\ Acts(t, h) /\ NotNew(t, h) /\ At(t, "add") /\ doing'[t].step = "idle"
      /\ listed'[h].is = listed[h].is /\ listed'[h].count = listed[h].count /\ listed'[h].by = {t}
      /\ UNCHANGED <<listKind, connState>>
  BY <1>h, AddHandleEffect DEF IsIdle
<1>1. PICK s : Added(h, s)
  BY <1>h, AddHandleEffect
<1>2. /\ listed[h].is = "live" /\ listed[h].count = 1 /\ listed[h].by = {} /\ h \in Listed
      /\ \A u \in ListUsers \ {t} : Busy(u) => Hand(u) /= h
  BY <1>h, <1>0 DEF LiveInv, RefsCounted, ListInv, NewIsOwn, Acts
<1>3. ~Walks(t)' /\ ~Pins(t)' /\ ~Asked(t)' /\ ~Frees(t)' /\ ~At(t, "pin")' /\ ~At(t, "add")' /\ ~Pins(t)
  BY <1>0 DEF Walks, Pins, Asked, Frees, ClosesFor, Closing, At
<1>4. OneWalks'
  BY <1>0, <1>3, WalksKeep DEF LiveInv, Acts
<1>5. AskedHolds'
  BY <1>0, <1>2, <1>3, AskedKeeps DEF LiveInv
<1>6. \A u \in ListUsers \ {t} : Hand(u) = h => doing[u].step \notin Closing
  BY <1>2 DEF Busy, Closing
<1>7. RefsCounted'
  <2>1. ~Pinned(h)'
    BY <1>0, <1>3, <1>6 DEF Pinned, Pins, ClosesFor, Acts, Hand
  <2>2. IsFiniteSet({t}) /\ Cardinality({t}) = 1
    BY FS_Singleton
  <2>3. Counted(h)'
    BY <1>0, <1>2, <2>1, <2>2 DEF Counted
  <2> QED
    BY <1>0, <1>2, <1>3, <2>2, <2>3, RefsKeep DEF LiveInv
<1>8. FreesAlone'
  <2>1. \A u \in ListUsers \ {t} : Frees(u) => Hand(u) /= h
    BY <1>6 DEF Frees, ClosesFor
  <2>2. \A i \in DOMAIN slots' : slots'[i] \in {h, NoListed} \/ (i \in DOMAIN slots /\ slots'[i] = slots[i])
    BY <1>1 DEF Added
  <2> QED
    BY <1>0, <1>3, <2>1, <2>2, FreesKeep DEF LiveInv
<1> QED
  BY <1>4, <1>5, <1>7, <1>8 DEF LiveInv

LEMMA LiveStays ==
    ASSUME ListInv, LiveInv, [ListNext]_listVars
    PROVE  LiveInv'
<1>1. CASE UNCHANGED listVars
  BY <1>1 DEF listVars, slotVars, LiveInv, OneWalks, AskedHolds, RefsCounted, FreesAlone, Walks, Pins, Frees, Asked,
     ClosesFor, Settled, Pinned, Counted, Hand, At
<1>2. ASSUME NEW t \in ListUsers, NEW h \in Listed,
             CreateListed(t, h) \/ ShareListed(t, h) \/ ReleaseListed(t, h) \/ CloseListed(t, h)
      PROVE  LiveInv'
  BY <1>2, CreateListedLives, ShareListedLives, ReleaseListedLives, CloseListedLives
<1>3. ASSUME NEW t \in ListUsers,
             \/ AddHandle(t) \/ ObjectFails(t) \/ LobFails(t)
             \/ MarkClosing(t) \/ OciFree(t) \/ OciFails(t) \/ RemoveHandle(t) \/ CloseEnds(t)
      PROVE  LiveInv'
  BY <1>3, AddHandleLives, AddFailsLives, ClosingLives, CloseEndsLives
<1>4. ASSUME NEW t \in ListUsers,
             \/ CloseConn(t) \/ ReadSlot(t) \/ PinListed(t) \/ NextListed(t) \/ CloseConnFails(t)
             \/ CloseConnFrees(t) \/ CloseConnFailsFreed(t) \/ ConnClosed(t) \/ SessionEndFails(t)
      PROVE  LiveInv'
  BY <1>4, WalkLives, PinListedLives, UnpinLives, CloseConnFreesLives, CloseEndsLives
<1> QED
  BY <1>1, <1>2, <1>3, <1>4 DEF ListNext

LEMMA LiveStarts ==
    ASSUME ListInit
    PROVE  LiveInv
<1> USE DEF ListInit
<1>1. \A t \in ListUsers : IsIdle(t) /\ ~Walks(t) /\ ~Asked(t) /\ ~Frees(t) /\ ~Pins(t) /\ ~At(t, "add")
  BY DEF Idle0, Starts, IsIdle, Walks, Asked, Frees, Pins, ClosesFor, Closing, At
<1>2. \A h \in Listed : listed[h].is = "none" /\ listed[h].by = {} /\ ~Pinned(h)
  BY <1>1 DEF NotMade, Pinned
<1> QED
  BY <1>1, <1>2, FS_EmptySet DEF LiveInv, OneWalks, AskedHolds, RefsCounted, FreesAlone

\* The memory of a handle stays while anybody closes it.
LEMMA ClosersHaveIt ==
    ASSUME ListInv, LiveInv
    PROVE  ClosedSoundly
<1> SUFFICES ASSUME NEW h \in Listed, NEW t \in ListUsers, Hand(t) = h, doing[t].step \in Closing
             PROVE  listed[h].is = "live"
  BY DEF ClosedSoundly, BeingDone, Closing, ListInv, ListedFreedOnce
<1>1. Asked(t) \/ Frees(t) \/ Pins(t)
  BY WhyClosing
<1> QED
  BY <1>1 DEF LiveInv, AskedHolds, RefsCounted, FreesAlone, Pinned

\* For any number of threads and handles, whichever of them creates, shares,
\* closes and releases a handle while another closes the connection: OCI frees
\* what a handle holds once, and the handle itself is not freed while a thread
\* is closing it.
THEOREM NoneIsFreedInUse == ListSpec => []ClosedSoundly
<1>1. ListInit => LiveInv
  BY LiveStarts
<1>2. ListInv /\ LiveInv /\ [ListNext]_listVars => LiveInv'
  BY LiveStays
<1>3. ListInv /\ LiveInv => ClosedSoundly
  BY ClosersHaveIt
<1> QED
  BY <1>1, <1>2, <1>3, ListInvariant, PTL DEF ListSpec

-----------------------------------------------------------------------------
\* What is held.

\* A step that marks nothing and ends nothing.
LEMMA SameMarksHold ==
    ASSUME ListInv, HoldInv, NEW t \in ListUsers,
           \A u \in ListUsers \ {t} : doing'[u] = doing[u],
           \A g \in Listed : /\ listed'[g].held = listed[g].held /\ listed'[g].closing = listed[g].closing
                             /\ listed[g].held => listed'[g].is = "live",
           ~At(t, "oci"), ~At(t, "end")'
    PROVE  MarkedIsDone' /\ FreedIsEmpty'
<1> USE DEF HoldInv, Hand, At
<1>1. MarkedIsDone'
  BY DEF MarkedIsDone, BeingDone
<1>2. \A g \in Listed : listed'[g].held => listed'[g].is = "live"
  BY DEF FreedIsEmpty
<1>3. ASSUME NEW u \in ListUsers, At(u, "end")'
      PROVE  /\ At(u, "end") /\ doing'[u] = doing[u] /\ Hand(u) \in Listed
             /\ listed'[Hand(u)].held = listed[Hand(u)].held
             /\ listed'[Hand(u)].closing = listed[Hand(u)].closing
  BY <1>3 DEF ListInv, OnlyMadeAreUsed, Busy
<1> QED
  BY <1>1, <1>2, <1>3 DEF FreedIsEmpty

\* A step that concerns one handle.
LEMMA OneMarkHolds ==
    ASSUME ListInv, HoldInv, NEW t \in ListUsers, NEW h, Acts(t, h),
           listed'[h].held /\ listed'[h].closing => BeingDone(h, {"oci"})',
           listed'[h].held => listed'[h].is = "live",
           At(t, "end")' => /\ doing'[t].then \in {"free", "freeAndFail"} => ~listed'[h].held
                            /\ doing'[t].then = "loop" /\ listed'[h].held => listed'[h].closing,
           \A u \in ListUsers \ {t} : At(u, "end") /\ Hand(u) = h =>
                            /\ doing[u].then \in {"free", "freeAndFail"} => ~listed'[h].held
                            /\ doing[u].then = "loop" /\ listed'[h].held => listed'[h].closing
    PROVE  MarkedIsDone' /\ FreedIsEmpty'
<1> USE DEF HoldInv, Hand, At, Acts
<1>1. MarkedIsDone'
  <2> SUFFICES ASSUME NEW g \in Listed, g /= h, listed[g].held, listed[g].closing
               PROVE  BeingDone(g, {"oci"})'
    BY DEF MarkedIsDone
  <2>1. PICK u \in ListUsers : Hand(u) = g /\ doing[u].step = "oci"
    BY DEF MarkedIsDone, BeingDone
  <2>2. u /= t
    BY <2>1 DEF Involved, Closing
  <2> QED
    BY <2>1, <2>2 DEF BeingDone
<1>2. \A g \in Listed : listed'[g].held => listed'[g].is = "live"
  BY DEF FreedIsEmpty
<1>3. ASSUME NEW u \in ListUsers, At(u, "end")'
      PROVE  /\ doing'[u].then \in {"free", "freeAndFail"} => ~listed'[Hand(u)'].held
             /\ doing'[u].then = "loop" /\ listed'[Hand(u)'].held => listed'[Hand(u)'].closing
  <2>1. CASE u = t
    BY <1>3, <2>1 DEF Involved, Closing
  <2>2. CASE u /= t
    <3>1. At(u, "end") /\ doing'[u] = doing[u] /\ Hand(u) \in Listed
      BY <1>3, <2>2 DEF ListInv, OnlyMadeAreUsed, Busy
    <3>2. CASE Hand(u) = h
      BY <2>2, <3>1, <3>2
    <3>3. CASE Hand(u) /= h
      BY <2>2, <3>1, <3>3 DEF FreedIsEmpty
    <3> QED
      BY <3>2, <3>3
  <2> QED
    BY <2>1, <2>2
<1> QED
  BY <1>1, <1>2, <1>3 DEF FreedIsEmpty

\* Who frees a handle, or closes it for the connection, closes it alone.
LEMMA ClosesAlone ==
    ASSUME ListInv, LiveInv, NEW t \in ListUsers, NEW u \in ListUsers \ {t}, Hand(t) = Hand(u),
           doing[u].step \in Closing,
           \/ Frees(t)
           \/ Pins(t) /\ (listed[Hand(t)].count = 1 \/ listKind = "object")
    PROVE  FALSE
<1> DEFINE h == Hand(t)
<1>1. ~Frees(t) /\ Pins(t) /\ ~Frees(u) /\ ~Pins(u)
  BY DEF LiveInv, FreesAlone, OneWalks, Walks, Pins, ClosesFor
<1>2. Asked(u) /\ listKind = "lob" /\ u \in listed[h].by
  BY <1>1, WhyClosing DEF LiveInv, AskedHolds
<1>3. h \in Listed /\ Settled(h) /\ Pinned(h)
  BY <1>1, HasHandle, HeldIsSettled DEF Pinned, Pins, ClosesFor, Busy, Closing
<1>4. /\ listed[h].count = Cardinality(listed[h].by) + 1 /\ Cardinality(listed[h].by) \in Nat
      /\ Cardinality(listed[h].by) = 0 => listed[h].by = {}
  BY <1>3, CountedNow, CountFacts
<1> QED
  BY <1>1, <1>2, <1>4

LEMMA SameMarkActions ==
    ASSUME ListInv, LiveInv, HoldInv, NEW t \in ListUsers,
           \/ \E h \in Listed : ShareListed(t, h) \/ ReleaseListed(t, h) \/ CloseListed(t, h)
           \/ AddHandle(t) \/ ObjectFails(t) \/ CloseEnds(t) \/ PinListed(t) \/ NextListed(t)
           \/ CloseConnFails(t) \/ CloseConnFrees(t) \/ CloseConnFailsFreed(t)
    PROVE  MarkedIsDone' /\ FreedIsEmpty'
<1>1. ASSUME NEW h, Acts(t, h), SameMark(h), listed[h].held => listed'[h].is = "live", ~At(t, "oci"), ~At(t, "end")'
      PROVE  MarkedIsDone' /\ FreedIsEmpty'
  <2>1. \A g \in Listed : /\ listed'[g].held = listed[g].held /\ listed'[g].closing = listed[g].closing
                          /\ listed[g].held => listed'[g].is = "live"
    BY <1>1 DEF Acts, SameMark, HoldInv, FreedIsEmpty
  <2> QED
    BY <1>1, <2>1, SameMarksHold DEF Acts
<1>2. \A h \in Listed : listed[h].held => listed[h].is = "live"
  BY DEF HoldInv, FreedIsEmpty
<1>3. CASE \E h \in Listed : ShareListed(t, h) \/ ReleaseListed(t, h) \/ CloseListed(t, h)
  <2>1. PICK h \in Listed : ShareListed(t, h) \/ ReleaseListed(t, h) \/ CloseListed(t, h)
    BY <1>3
  <2>2. CASE ShareListed(t, h)
    BY <1>1, <1>2, <2>2, ShareListedEffect DEF At, IsIdle
  <2>3. CASE ReleaseListed(t, h)
    BY <1>1, <1>2, <2>3, ReleaseListedEffect DEF At, IsIdle
  <2>4. CASE CloseListed(t, h)
    BY <1>1, <1>2, <2>4, CloseListedEffect DEF At, IsIdle, SameRefs
  <2> QED
    BY <2>1, <2>2, <2>3, <2>4
<1>h. PICK h : h = Hand(t)
  OBVIOUS
<1>4. CASE AddHandle(t)
  BY <1>h, <1>1, <1>2, <1>4, AddHandleEffect DEF At, IsIdle, Acts
<1>5. CASE ObjectFails(t)
  BY <1>h, <1>1, <1>2, <1>5, ObjectFailsEffect DEF At, SameRefs, Acts
<1>6. CASE CloseEnds(t) \/ CloseConnFailsFreed(t)
  <2>1. /\ Acts(t, h) /\ SameMark(h) /\ At(t, "end") /\ IsIdle(t)'
        /\ \/ doing[t].then \in {"free", "freeAndFail"}
           \/ listed'[h].is = listed[h].is
    BY <1>h, <1>6, CloseEndsEffect, CloseConnFailsFreedEffect
  <2>2. listed[h].held => listed'[h].is = "live"
    BY <1>h, <1>2, <2>1 DEF HoldInv, FreedIsEmpty, Acts
  <2> QED
    BY <1>1, <2>1, <2>2 DEF At, IsIdle
<1>7. CASE PinListed(t)
  BY <1>h, <1>1, <1>2, <1>7, PinListedEffect DEF At, Acts
<1>8. CASE NextListed(t) \/ CloseConnFails(t)
  <2>1. /\ Acts(t, h) /\ SameMark(h) /\ At(t, "end") /\ ~At(t, "end")' /\ h \in Listed
        /\ \/ doing[t].then = "loop"
           \/ doing[t].then = "loopFails" /\ (listed[h].count > 1 \/ ~listed[h].held)
        /\ listed'[h].is = IF listed[h].count = 1 THEN "freed" ELSE listed[h].is
    BY <1>h, <1>8, NextListedEffect, CloseConnFailsEffect DEF At, IsIdle, Acts
  <2>2. ASSUME listed[h].held, listed[h].count = 1 PROVE FALSE
    <3>1. doing[t].then = "loop" /\ Pins(t)
      BY <2>1, <2>2 DEF Pins, ClosesFor, At, Closing
    <3>2. listed[h].closing
      BY <1>h, <2>1, <2>2, <3>1 DEF HoldInv, FreedIsEmpty
    <3>3. PICK u \in ListUsers : Hand(u) = h /\ doing[u].step = "oci"
      BY <2>1, <2>2, <3>2 DEF HoldInv, MarkedIsDone, BeingDone
    <3>4. u /= t /\ doing[u].step \in Closing
      BY <2>1, <3>3 DEF At, Closing
    <3> QED
      BY <1>h, <2>2, <3>1, <3>3, <3>4, ClosesAlone
  <2> QED
    BY <1>1, <1>2, <2>1, <2>2 DEF At
<1>9. CASE CloseConnFrees(t)
  BY <1>h, <1>1, <1>2, <1>9, CloseConnFreesEffect DEF At, Acts
<1> QED
  BY <1>3, <1>4, <1>5, <1>6, <1>7, <1>8, <1>9

LEMMA MarkActions ==
    ASSUME ListInv, LiveInv, HoldInv, NEW t \in ListUsers,
           \/ \E h \in Listed : CreateListed(t, h)
           \/ LobFails(t) \/ MarkClosing(t) \/ OciFree(t) \/ OciFails(t) \/ RemoveHandle(t)
    PROVE  MarkedIsDone' /\ FreedIsEmpty'
<1>1. CASE \E h \in Listed : CreateListed(t, h)
  <2>1. PICK h \in Listed : CreateListed(t, h)
    BY <1>1
  <2>2. /\ Acts(t, h) /\ listed'[h].is = "live" /\ ~listed'[h].closing /\ ~At(t, "end")'
        /\ \A u \in ListUsers \ {t} : At(u, "end") => Hand(u) /= h
    BY <2>1, CreateListedEffect DEF At, Busy
  <2> QED
    BY <2>2, OneMarkHolds
<1>h. PICK h : h = Hand(t)
  OBVIOUS
<1>2. ASSUME Acts(t, h), ~listed'[h].held PROVE MarkedIsDone' /\ FreedIsEmpty'
  BY <1>2, OneMarkHolds
<1>3. CASE LobFails(t)
  BY <1>h, <1>2, <1>3, LobFailsEffect
<1>4. CASE OciFree(t)
  BY <1>h, <1>2, <1>4, OciFreeEffect
<1>5. CASE RemoveHandle(t)
  BY <1>h, <1>2, <1>5, RemoveHandleEffect DEF ListInv, OneFrees
<1>6. CASE MarkClosing(t)
  <2>1. /\ Acts(t, h) /\ h \in Listed /\ At(t, "close") /\ doing'[t].then = doing[t].then
        /\ listed'[h].held = listed[h].held /\ listed'[h].closing /\ listed'[h].is = listed[h].is
        /\ listed[h].held /\ ~listed[h].closing => doing'[t].step = "oci"
        /\ ~(listed[h].held /\ ~listed[h].closing) => doing'[t].step = "end"
    BY <1>h, <1>6, MarkClosingEffect DEF SameRefs, Acts
  <2>2. ASSUME listed[h].held, listed[h].closing
        PROVE  \E u \in ListUsers \ {t} : Hand(u) = h /\ doing[u].step = "oci"
    BY <2>1, <2>2 DEF HoldInv, MarkedIsDone, BeingDone, At
  <2>3. listed'[h].held /\ listed'[h].closing => BeingDone(h, {"oci"})'
    <3>1. CASE listed[h].held /\ ~listed[h].closing
      BY <2>1, <3>1 DEF BeingDone, Acts, Involved, Closing, Hand
    <3>2. CASE listed[h].held /\ listed[h].closing
      BY <2>1, <2>2, <3>2 DEF BeingDone, Acts, Hand
    <3> QED
      BY <2>1, <3>1, <3>2
  <2>4. At(t, "end")' => /\ doing'[t].then \in {"free", "freeAndFail"} => ~listed'[h].held
                         /\ doing'[t].then = "loop" /\ listed'[h].held => listed'[h].closing
    <3> SUFFICES ASSUME At(t, "end")', doing[t].then \in {"free", "freeAndFail"}, listed[h].held PROVE FALSE
      BY <2>1
    <3>1. Frees(t) /\ listed[h].closing
      BY <2>1 DEF Frees, ClosesFor, Closing, At
    <3> QED
      BY <1>h, <2>2, <3>1, ClosesAlone DEF Closing
  <2>5. listed'[h].held => listed'[h].is = "live"
    BY <2>1 DEF HoldInv, FreedIsEmpty
  <2>6. \A u \in ListUsers \ {t} : At(u, "end") /\ Hand(u) = h =>
                /\ doing[u].then \in {"free", "freeAndFail"} => ~listed'[h].held
                /\ doing[u].then = "loop" /\ listed'[h].held => listed'[h].closing
    BY <2>1 DEF HoldInv, FreedIsEmpty
  <2> QED
    BY <2>1, <2>3, <2>4, <2>5, <2>6, OneMarkHolds
<1>7. CASE OciFails(t)
  <2>1. CASE listKind /= "object"
    BY <1>h, <1>2, <1>7, <2>1, OciFailsEffect
  <2>2. CASE listKind = "object"
    <3>1. /\ Acts(t, h) /\ h \in Listed /\ At(t, "oci") /\ doing[t].then \in {"back", "loop"}
          /\ listed'[h].held = listed[h].held /\ ~listed'[h].closing /\ listed'[h].is = listed[h].is
          /\ doing'[t].then \in {"backFails", "loopFails"}
      BY <1>h, <1>7, <2>2, OciFailsEffect DEF SameRefs, Acts
    <3>2. Pins(t)
      BY <2>2, <3>1 DEF LiveInv, AskedHolds, Asked, Pins, ClosesFor, Closing, At
    <3>3. ASSUME NEW u \in ListUsers \ {t}, At(u, "end"), Hand(u) = h PROVE FALSE
      BY <1>h, <2>2, <3>2, <3>3, ClosesAlone DEF At, Closing
    <3>4. listed'[h].held => listed'[h].is = "live"
      BY <3>1 DEF HoldInv, FreedIsEmpty
    <3> QED
      BY <3>1, <3>3, <3>4, OneMarkHolds
  <2> QED
    BY <2>1, <2>2
<1> QED
  BY <1>1, <1>3, <1>4, <1>5, <1>6, <1>7

LEMMA HoldStays ==
    ASSUME ListInv, LiveInv, HoldInv, [ListNext]_listVars
    PROVE  HoldInv'
<1>1. CASE UNCHANGED listVars
  BY <1>1 DEF listVars, slotVars, HoldInv, MarkedIsDone, FreedIsEmpty, BeingDone, Hand, At
<1>2. ASSUME NEW t \in ListUsers, NEW h \in Listed,
             CreateListed(t, h) \/ ShareListed(t, h) \/ ReleaseListed(t, h) \/ CloseListed(t, h)
      PROVE  HoldInv'
  BY <1>2, SameMarkActions, MarkActions DEF HoldInv
<1>3. ASSUME NEW t \in ListUsers,
             \/ AddHandle(t) \/ ObjectFails(t) \/ LobFails(t)
             \/ MarkClosing(t) \/ OciFree(t) \/ OciFails(t) \/ RemoveHandle(t) \/ CloseEnds(t)
             \/ PinListed(t) \/ NextListed(t)
             \/ CloseConnFails(t) \/ CloseConnFrees(t) \/ CloseConnFailsFreed(t)
      PROVE  HoldInv'
  BY <1>3, SameMarkActions, MarkActions DEF HoldInv
<1>4. ASSUME NEW t \in ListUsers, CloseConn(t) \/ ReadSlot(t) \/ ConnClosed(t) \/ SessionEndFails(t)
      PROVE  HoldInv'
  <2>1. /\ \A u \in ListUsers \ {t} : doing'[u] = doing[u]
        /\ doing[t].step \in {"idle", "read"} /\ doing'[t].step \in {"idle", "read", "pin"}
        /\ UNCHANGED listed
    <3>1. CASE CloseConn(t)
      BY <3>1, ListTypes DEF CloseConn, IsIdle, Starts
    <3>2. CASE ReadSlot(t)
      BY <3>2, ListTypes DEF ReadSlot, At, Doings
    <3>3. CASE ConnClosed(t) \/ SessionEndFails(t)
      BY <3>3, ListTypes DEF ConnClosed, SessionEndFails, At, Goes, Doings
    <3> QED
      BY <1>4, <3>1, <3>2, <3>3
  <2>2. ~At(t, "oci") /\ ~At(t, "end")'
    BY <2>1 DEF At
  <2>3. \A g \in Listed : listed[g].held => listed[g].is = "live"
    BY DEF HoldInv, FreedIsEmpty
  <2>4. MarkedIsDone' /\ FreedIsEmpty'
    BY <2>1, <2>2, <2>3, SameMarksHold
  <2> QED
    BY <2>4 DEF HoldInv
<1> QED
  BY <1>1, <1>2, <1>3, <1>4 DEF ListNext

-----------------------------------------------------------------------------
\* What is listed.

LEMMA UsedFacts ==
    ASSUME ListInv
    PROVE  /\ IsFiniteSet(UsedSlots) /\ UsedSlots \subseteq 0..NumSlots - 1
           /\ \A i \in UsedSlots : slots[i] \in Listed
           /\ UsedSlots /= DOMAIN slots => \E i \in DOMAIN slots : slots[i] = NoListed
           /\ \A h \in Listed : HasSlot(h) => listed[h].slot \in UsedSlots
<1>1. UsedSlots \subseteq 0..NumSlots - 1 /\ NumSlots \in Nat
  BY ListTypes DEF UsedSlots
<1>2. IsFiniteSet(UsedSlots)
  <2>1. IsFiniteSet(0..NumSlots - 1)
    BY <1>1, FS_Interval
  <2> QED
    BY <1>1, <2>1, FS_Subset
<1>3. \A i \in UsedSlots : slots[i] \in Listed
  BY ListTypes DEF UsedSlots
<1> QED
  BY <1>1, <1>2, <1>3, ListAssumption DEF UsedSlots, HasSlot, NoListed

\* A step that leaves handles and slots where they are.
LEMMA SlotsSame ==
    ASSUME ListInv, SlotsRight, NEW t \in ListUsers,
           \A u \in ListUsers \ {t} : doing'[u] = doing[u],
           \A g \in Listed : listed'[g].held = listed[g].held /\ listed'[g].slot = listed[g].slot,
           UNCHANGED <<slots, usedSlots>>, connState' = "open" => connState = "open",
           ~At(t, "remove"), ~At(t, "remove")', ~At(t, "add")
    PROVE  SlotsRight'
<1> USE DEF SlotsRight, Hand, At
<1>1. UsedSlots' = UsedSlots /\ \A i \in UsedSlots : slots[i] \in Listed /\ listed'[slots[i]].slot = i
  BY UsedFacts DEF UsedSlots
<1>2. \A g \in Listed : HasSlot(g) => HasSlot(g)'
  BY DEF HasSlot
<1>3. \A g : /\ BeingDone(g, {"remove"}) => BeingDone(g, {"remove"})'
             /\ BeingDone(g, {"add"}) => BeingDone(g, {"add"})'
  BY DEF BeingDone
<1>4. \A u \in ListUsers : At(u, "remove")' => u /= t /\ At(u, "remove") /\ doing'[u] = doing[u] /\ Hand(u) \in Listed
  BY DEF ListInv, OnlyMadeAreUsed, Busy
<1>5. connState' = "open" =>
        /\ \A i \in UsedSlots : listed'[slots[i]].held \/ BeingDone(slots[i], {"remove"})'
        /\ \A h \in Listed : listed'[h].held /\ ~BeingDone(h, {"add"})' => HasSlot(h)'
        /\ \A u \in ListUsers : At(u, "remove")' => HasSlot(Hand(u))'
  BY <1>1, <1>2, <1>3, <1>4
<1> QED
  BY <1>1, <1>4, <1>5

\* A step that concerns one handle and leaves the slots alone.
LEMMA SlotsOne ==
    ASSUME ListInv, SlotsRight, NEW t \in ListUsers, NEW h, Acts(t, h),
           listed'[h].slot = listed[h].slot, UNCHANGED <<slots, usedSlots, connState>>,
           connState = "open" /\ (\E i \in UsedSlots : slots[i] = h) =>
               listed'[h].held \/ BeingDone(h, {"remove"})',
           connState = "open" /\ listed'[h].held => BeingDone(h, {"add"})' \/ HasSlot(h),
           ~At(t, "remove"),
           At(t, "remove")' => /\ \A u \in ListUsers \ {t} : At(u, "remove") => Hand(u) /= h
                               /\ connState = "open" => HasSlot(h)
    PROVE  SlotsRight'
<1> USE DEF SlotsRight, Hand, At, Acts
<1>1. UsedSlots' = UsedSlots /\ \A i \in UsedSlots : slots[i] \in Listed /\ listed'[slots[i]].slot = i
  BY UsedFacts DEF UsedSlots
<1>2. \A g \in Listed : HasSlot(g) => HasSlot(g)'
  BY DEF HasSlot
<1>3. \A g \in Listed \ {h} : /\ BeingDone(g, {"remove"}) => BeingDone(g, {"remove"})'
                              /\ BeingDone(g, {"add"}) => BeingDone(g, {"add"})'
  BY DEF BeingDone, Involved, Closing
<1>4. \A u \in ListUsers \ {t} : At(u, "remove")' => At(u, "remove") /\ doing'[u] = doing[u] /\ Hand(u) \in Listed
  BY DEF ListInv, OnlyMadeAreUsed, Busy
<1>5. At(t, "remove")' => Hand(t)' = h
  BY DEF Involved, Closing
<1>6. connState' = "open" =>
        /\ \A i \in UsedSlots : listed'[slots[i]].held \/ BeingDone(slots[i], {"remove"})'
        /\ \A g \in Listed : listed'[g].held /\ ~BeingDone(g, {"add"})' => HasSlot(g)'
        /\ \A u \in ListUsers : At(u, "remove")' => HasSlot(Hand(u))'
  <2> SUFFICES ASSUME connState = "open"
      PROVE  /\ \A i \in UsedSlots : listed'[slots[i]].held \/ BeingDone(slots[i], {"remove"})'
             /\ \A g \in Listed : listed'[g].held /\ ~BeingDone(g, {"add"})' => HasSlot(g)'
             /\ \A u \in ListUsers : At(u, "remove")' => HasSlot(Hand(u))'
    OBVIOUS
  <2>1. \A i \in UsedSlots : listed'[slots[i]].held \/ BeingDone(slots[i], {"remove"})'
    BY <1>1, <1>3
  <2>2. \A g \in Listed : listed'[g].held /\ ~BeingDone(g, {"add"})' => HasSlot(g)'
    BY <1>2, <1>3
  <2>3. \A u \in ListUsers : At(u, "remove")' => HasSlot(Hand(u))'
    <3> SUFFICES ASSUME NEW u \in ListUsers, At(u, "remove")' PROVE HasSlot(Hand(u))'
      OBVIOUS
    <3>1. PICK g : g = Hand(u)'
      OBVIOUS
    <3>2. g \in Listed /\ HasSlot(g)
      BY <1>4, <1>5, <3>1
    <3> QED
      BY <1>2, <3>1, <3>2 DEF HasSlot
  <2> QED
    BY <2>1, <2>2, <2>3
<1>7. \A u, v \in ListUsers : At(u, "remove")' /\ At(v, "remove")' /\ Hand(u)' = Hand(v)' => u = v
  BY <1>4, <1>5
<1>8. usedSlots' = Cardinality(UsedSlots')
  BY <1>1
<1> QED
  BY <1>1, <1>6, <1>7, <1>8

LEMMA AtSlotKeeps ==
    ASSUME AtItsSlot, NEW t \in ListUsers, \A u \in ListUsers \ {t} : doing'[u] = doing[u], slots' = slots,
           Walks(t)' /\ ~At(t, "read")' => doing'[t].i \in DOMAIN slots /\ slots[doing'[t].i] = Hand(t)'
    PROVE  AtItsSlot'
BY DEF AtItsSlot, Walks, Pins, ClosesFor, At, Hand

\* What the thread passes has been closed, is being closed, or is not held.
LEMMA AheadKeeps ==
    ASSUME ListInv, AreAhead, NEW t \in ListUsers, \A u \in ListUsers \ {t} : doing'[u] = doing[u],
           UNCHANGED <<slots, connState>>,
           \A g \in Listed : listed'[g].held =>
               listed[g].held /\ listed'[g].slot = listed[g].slot /\ listed'[g].late = listed[g].late,
           \A g \in Listed : listed'[g].held /\ Hand(t) = g /\ doing[t].step \in {"add", "close", "oci"} =>
               \/ connState = "open" \/ BeingDone(g, {"add", "close", "oci"})' \/ Awaited(g),
           connState = "closing" /\ Walks(t)' =>
               /\ Walks(t)
               /\ \A g \in Listed : listed'[g].held /\ HasSlot(g) /\ doing[t].i <= listed[g].slot =>
                      doing'[t].i <= listed[g].slot \/ BeingDone(g, {"add", "close", "oci"})'
    PROVE  AreAhead'
<1> USE DEF Hand
<1> SUFFICES ASSUME NEW g \in Listed, connState /= "open", listed'[g].held, ~listed'[g].late,
                    ~BeingDone(g, {"add", "close", "oci"})'
             PROVE  Awaited(g)'
  BY DEF AreAhead
<1>1. Awaited(g)
  <2> SUFFICES ASSUME BeingDone(g, {"add", "close", "oci"}) PROVE Awaited(g)
    BY DEF AreAhead
  <2>1. PICK u \in ListUsers : Hand(u) = g /\ doing[u].step \in {"add", "close", "oci"}
    BY DEF BeingDone
  <2>2. u = t
    BY <2>1 DEF BeingDone
  <2> QED
    BY <2>1, <2>2
<1>2. connState = "closing" /\ HasSlot(g)'
  BY <1>1 DEF Awaited, HasSlot
<1>3. ASSUME NEW u \in ListUsers, Walks(u)' PROVE doing'[u].i <= listed'[g].slot
  <2>1. CASE u = t
    BY <1>1, <1>2, <1>3, <2>1 DEF Awaited
  <2>2. CASE u /= t
    BY <1>1, <1>3, <2>2 DEF Awaited, Walks, Pins, ClosesFor
  <2> QED
    BY <2>1, <2>2
<1> QED
  BY <1>2, <1>3 DEF Awaited

\* A step that moves no handle, takes none off the list and ends none.
LEMMA NoneMoves ==
    ASSUME ListInv, ListRight, NEW t \in ListUsers, \A u \in ListUsers \ {t} : doing'[u] = doing[u],
           \A g \in Listed : /\ listed'[g].held = listed[g].held /\ listed'[g].slot = listed[g].slot
                             /\ listed'[g].late = listed[g].late,
           UNCHANGED <<slots, usedSlots, connState>>,
           ~At(t, "remove"), ~At(t, "remove")', ~At(t, "add"),
           \A g \in Listed : listed[g].held /\ Hand(t) = g /\ doing[t].step \in {"close", "oci"} =>
               \/ connState = "open" \/ BeingDone(g, {"add", "close", "oci"})' \/ Awaited(g),
           Walks(t)' =>
               /\ Walks(t)
               /\ ~At(t, "read")' => doing'[t].i \in DOMAIN slots /\ slots[doing'[t].i] = Hand(t)'
               /\ \A g \in Listed : listed[g].held /\ HasSlot(g) /\ doing[t].i <= listed[g].slot =>
                      doing'[t].i <= listed[g].slot \/ BeingDone(g, {"add", "close", "oci"})'
    PROVE  ListRight'
<1>1. SlotsRight'
  BY SlotsSame DEF ListRight
<1>2. AtItsSlot'
  BY AtSlotKeeps DEF ListRight
<1>3. \A g \in Listed : listed'[g].held /\ Hand(t) = g /\ doing[t].step \in {"add", "close", "oci"} =>
               \/ connState = "open" \/ BeingDone(g, {"add", "close", "oci"})' \/ Awaited(g)
  BY DEF At
<1>4. AreAhead'
  BY <1>3, AheadKeeps DEF ListRight
<1> QED
  BY <1>1, <1>2, <1>4 DEF ListRight

LEMMA ReferencesRight ==
    ASSUME ListInv, ListRight, NEW t \in ListUsers, NEW h \in Listed,
           ShareListed(t, h) \/ ReleaseListed(t, h) \/ CloseListed(t, h)
    PROVE  ListRight'
<1>1. /\ Acts(t, h) /\ SameMark(h) /\ SamePlace(h) /\ IsIdle(t) /\ UNCHANGED <<slots, usedSlots, connState>>
      /\ \/ doing'[t].step = "idle"
         \/ doing'[t].step = "close" /\ doing'[t].then \in {"back", "free"}
  BY ShareListedEffect, ReleaseListedEffect, CloseListedEffect DEF IsIdle
<1>2. \A g \in Listed : /\ listed'[g].held = listed[g].held /\ listed'[g].slot = listed[g].slot
                        /\ listed'[g].late = listed[g].late
  BY <1>1 DEF Acts, SameMark, SamePlace
<1>3. ~At(t, "remove") /\ ~At(t, "remove")' /\ ~At(t, "add") /\ ~Walks(t)' /\ doing[t].step \notin {"close", "oci"}
  BY <1>1 DEF At, IsIdle, Walks, Pins, ClosesFor, Closing
<1> QED
  BY <1>1, <1>2, <1>3, NoneMoves DEF Acts

LEMMA CloseEndsRight ==
    ASSUME ListInv, ListRight, NEW t \in ListUsers, CloseEnds(t)
    PROVE  ListRight'
<1>1. /\ Acts(t, Hand(t)) /\ SameMark(Hand(t)) /\ SamePlace(Hand(t)) /\ At(t, "end") /\ IsIdle(t)'
      /\ UNCHANGED <<slots, usedSlots, connState>>
  BY CloseEndsEffect
<1>2. \A g \in Listed : /\ listed'[g].held = listed[g].held /\ listed'[g].slot = listed[g].slot
                        /\ listed'[g].late = listed[g].late
  BY <1>1 DEF Acts, SameMark, SamePlace
<1>3. ~At(t, "remove") /\ ~At(t, "remove")' /\ ~At(t, "add") /\ ~Walks(t)' /\ doing[t].step \notin {"close", "oci"}
  BY <1>1 DEF At, IsIdle, Walks, Pins, ClosesFor, Closing
<1> QED
  BY <1>1, <1>2, <1>3, NoneMoves DEF Acts

\* What nobody frees is valid as long as it is held.
LEMMA HeldIsValid ==
    ASSUME ListInv, LiveInv, HoldInv, NEW h \in Listed, listed[h].held, ~BeingDone(h, {"add", "close", "oci"})
    PROVE  listed[h].is = "live" /\ listed[h].count > 0
<1>1. listed[h].is = "live"
  BY DEF HoldInv, FreedIsEmpty
<1>2. Settled(h)
  <2> SUFFICES ASSUME NEW u \in ListUsers, Hand(u) = h, At(u, "add") \/ Frees(u) PROVE FALSE
    BY DEF Settled
  <2>1. Frees(u) /\ (At(u, "remove") \/ At(u, "end"))
    BY DEF BeingDone, Frees, ClosesFor, Closing, At
  <2> QED
    BY <2>1 DEF ListInv, OneFrees, HoldInv, FreedIsEmpty, Frees, ClosesFor
<1> QED
  BY <1>1, <1>2 DEF LiveInv, RefsCounted, Counted

LEMMA WalkRight ==
    ASSUME ListInv, LiveInv, HoldInv, ListRight, NEW t \in ListUsers, ReadSlot(t) \/ PinListed(t) \/ NextListed(t)
    PROVE  ListRight'
<1>1. /\ \A u \in ListUsers \ {t} : doing'[u] = doing[u]
      /\ doing[t].step \in {"read", "pin", "end"} /\ doing'[t].step \in {"read", "pin", "close"}
      /\ doing'[t].i \in {doing[t].i, doing[t].i + 1} /\ doing[t].i \in Nat
      /\ UNCHANGED <<slots, usedSlots, connState>>
      /\ Walks(t)
  <2>1. CASE ReadSlot(t)
    BY <2>1, ListTypes DEF ReadSlot, At, Doings, slotVars, Walks
  <2>2. CASE PinListed(t)
    BY <2>2, PinListedEffect, ListTypes DEF At, Acts, Walks, Doings
  <2>3. CASE NextListed(t)
    BY <2>3, NextListedEffect, ListTypes DEF At, Acts, Walks, Pins, ClosesFor, Closing, Doings
  <2> QED
    BY <2>1, <2>2, <2>3
<1>2. \A g \in Listed : /\ listed'[g].held = listed[g].held /\ listed'[g].slot = listed[g].slot
                        /\ listed'[g].late = listed[g].late
  <2>1. CASE ReadSlot(t)
    BY <2>1 DEF ReadSlot
  <2>2. CASE PinListed(t) \/ NextListed(t)
    <3>1. Acts(t, Hand(t)) /\ SameMark(Hand(t)) /\ SamePlace(Hand(t))
      BY <2>2, PinListedEffect, NextListedEffect
    <3> QED
      BY <3>1 DEF Acts, SameMark, SamePlace
  <2> QED
    BY <2>1, <2>2
<1>3. ~At(t, "remove") /\ ~At(t, "remove")' /\ ~At(t, "add") /\ doing[t].step \notin {"close", "oci"}
  BY <1>1 DEF At
<1>4. ~At(t, "read")' => doing'[t].i \in DOMAIN slots /\ slots[doing'[t].i] = Hand(t)'
  <2>1. CASE ReadSlot(t)
    BY <2>1, ListTypes DEF ReadSlot, At, Doings, Hand
  <2>2. CASE PinListed(t)
    <3>1. doing[t].i \in DOMAIN slots /\ slots[doing[t].i] = Hand(t)
      BY <1>1, <2>2 DEF ListRight, AtItsSlot, PinListed, At
    <3> QED
      BY <2>2, <3>1, ListTypes DEF PinListed, At, Doings, Hand
  <2>3. CASE NextListed(t)
    BY <2>3, NextListedEffect DEF At
  <2> QED
    BY <2>1, <2>2, <2>3
<1>5. ASSUME NEW g \in Listed, listed[g].held, HasSlot(g), doing[t].i <= listed[g].slot,
             ~BeingDone(g, {"add", "close", "oci"})'
      PROVE  doing'[t].i <= listed[g].slot
  <2>1. ~BeingDone(g, {"add", "close", "oci"})
    BY <1>1, <1>5 DEF BeingDone, Hand
  <2>2. listed[g].is = "live" /\ listed[g].count > 0 /\ listed[g].slot \in Nat
    BY <1>5, <2>1, HeldIsValid, ListTypes DEF HasSlot
  <2>3. CASE doing'[t].i = doing[t].i
    BY <1>5, <2>3
  <2>4. CASE doing'[t].i = doing[t].i + 1
    <3> SUFFICES ASSUME doing[t].i = listed[g].slot PROVE FALSE
      BY <1>1, <1>5, <2>2, <2>4
    <3>1. slots[doing[t].i] = g /\ g /= NoListed
      BY <1>5, ListAssumption DEF HasSlot, NoListed
    <3>2. CASE ReadSlot(t)
      BY <1>1, <2>4, <3>1, <3>2, ListTypes DEF ReadSlot, Doings
    <3>3. CASE PinListed(t)
      <4>1. Hand(t) = g
        BY <1>1, <3>1, <3>3 DEF ListRight, AtItsSlot, PinListed, At
      <4> QED
        BY <1>1, <2>2, <2>4, <3>3, <4>1, PinListedEffect
    <3>4. CASE NextListed(t)
      <4>1. Hand(t) = g /\ At(t, "end") /\ doing[t].then = "loop"
        BY <1>1, <3>1, <3>4, NextListedEffect DEF ListRight, AtItsSlot, At
      <4>2. BeingDone(g, {"oci"})
        BY <1>5, <4>1 DEF HoldInv, FreedIsEmpty, MarkedIsDone
      <4> QED
        BY <2>1, <4>2 DEF BeingDone
    <3> QED
      BY <3>2, <3>3, <3>4
  <2> QED
    BY <1>1, <2>3, <2>4
<1> QED
  BY <1>1, <1>2, <1>3, <1>4, <1>5, NoneMoves

LEMMA CloseConnFreesRight ==
    ASSUME ListInv, ListRight, NEW t \in ListUsers, CloseConnFrees(t)
    PROVE  ListRight'
<1>1. /\ Acts(t, Hand(t)) /\ SameMark(Hand(t)) /\ SamePlace(Hand(t)) /\ At(t, "end") /\ doing[t].then = "loopFails"
      /\ doing'[t].step = "close" /\ doing'[t].i = doing[t].i
      /\ UNCHANGED <<slots, usedSlots, connState>>
  BY CloseConnFreesEffect
<1>2. \A g \in Listed : /\ listed'[g].held = listed[g].held /\ listed'[g].slot = listed[g].slot
                        /\ listed'[g].late = listed[g].late
  BY <1>1 DEF Acts, SameMark, SamePlace
<1>3. ~At(t, "remove") /\ ~At(t, "remove")' /\ ~At(t, "add") /\ Walks(t) /\ ~At(t, "read") /\ doing[t].step \notin {"close", "oci"}
  BY <1>1 DEF At, Walks, Pins, ClosesFor, Closing
<1>4. doing'[t].i \in DOMAIN slots /\ slots[doing'[t].i] = Hand(t)'
  BY <1>1, <1>3 DEF ListRight, AtItsSlot, Acts, Involved, Closing
<1> QED
  BY <1>1, <1>2, <1>3, <1>4, NoneMoves DEF Acts

LEMMA MarkClosingRight ==
    ASSUME ListInv, HoldInv, ListRight, NEW t \in ListUsers, MarkClosing(t)
    PROVE  ListRight'
<1>h. PICK h : h = Hand(t)
  OBVIOUS
<1>1. /\ Acts(t, h) /\ listed'[h].held = listed[h].held /\ SamePlace(h) /\ At(t, "close")
      /\ doing'[t].then = doing[t].then /\ doing'[t].i = doing[t].i /\ Hand(t)' = h /\ h \in Listed
      /\ listed[h].held /\ ~listed[h].closing => doing'[t].step = "oci"
      /\ ~(listed[h].held /\ ~listed[h].closing) => doing'[t].step = "end"
      /\ UNCHANGED <<slots, usedSlots, connState>>
  BY <1>h, MarkClosingEffect DEF Acts, Involved, Closing
<1>2. \A g \in Listed : /\ listed'[g].held = listed[g].held /\ listed'[g].slot = listed[g].slot
                        /\ listed'[g].late = listed[g].late
  BY <1>1 DEF Acts, SamePlace
<1>3. ~At(t, "remove") /\ ~At(t, "remove")' /\ ~At(t, "add")
  BY <1>1 DEF At
<1>4. listed[h].held => BeingDone(h, {"add", "close", "oci"})'
  <2>1. CASE listed[h].held /\ listed[h].closing
    <3>1. PICK u \in ListUsers : Hand(u) = h /\ doing[u].step = "oci"
      BY <1>1, <2>1 DEF HoldInv, MarkedIsDone, BeingDone
    <3> QED
      BY <1>1, <3>1 DEF BeingDone, Acts, Hand, At
  <2>2. CASE listed[h].held /\ ~listed[h].closing
    BY <1>1, <2>2 DEF BeingDone
  <2> QED
    BY <2>1, <2>2
<1>5. Walks(t)' => /\ Walks(t) /\ ~At(t, "read")
                   /\ doing'[t].i \in DOMAIN slots /\ slots[doing'[t].i] = Hand(t)'
  BY <1>h, <1>1 DEF Walks, Pins, ClosesFor, Closing, At, ListRight, AtItsSlot
<1> QED
  BY <1>h, <1>1, <1>2, <1>3, <1>4, <1>5, NoneMoves DEF Acts

\* An object that could not be closed is still in its slot, at which the thread is.
LEMMA ObjectStaysRight ==
    ASSUME ListInv, LiveInv, ListRight, NEW t \in ListUsers, OciFails(t), listKind = "object"
    PROVE  ListRight'
<1>h. PICK h : h = Hand(t)
  OBVIOUS
<1>1. /\ Acts(t, h) /\ listed'[h].held = listed[h].held /\ SamePlace(h) /\ At(t, "oci")
      /\ doing[t].then \in {"back", "loop"} /\ doing'[t].then = (IF doing[t].then = "loop" THEN "loopFails" ELSE "backFails")
      /\ doing'[t].step = "end" /\ doing'[t].i = doing[t].i /\ Hand(t)' = h /\ h \in Listed
      /\ UNCHANGED <<slots, usedSlots, connState>>
  BY <1>h, OciFailsEffect DEF Acts, Involved, Closing
<1>2. \A g \in Listed : /\ listed'[g].held = listed[g].held /\ listed'[g].slot = listed[g].slot
                        /\ listed'[g].late = listed[g].late
  BY <1>1 DEF Acts, SamePlace
<1>3. ~At(t, "remove") /\ ~At(t, "remove")' /\ ~At(t, "add")
  BY <1>1 DEF At
<1>4. Pins(t) /\ Walks(t) /\ connState = "closing"
  BY <1>1 DEF LiveInv, AskedHolds, OneWalks, Asked, Pins, Walks, ClosesFor, Closing, At
<1>5. doing[t].i \in DOMAIN slots /\ slots[doing[t].i] = h
  BY <1>h, <1>1, <1>4 DEF ListRight, AtItsSlot, At
<1>6. Awaited(h)
  <2>1. h /= NoListed
    BY <1>1, ListAssumption DEF NoListed
  <2>2. listed[h].slot = doing[t].i
    BY <1>5, <2>1 DEF ListRight, SlotsRight, UsedSlots
  <2>3. \A u \in ListUsers : Walks(u) => u = t
    BY <1>4 DEF LiveInv, OneWalks
  <2>4. doing[t].i \in Int
    BY <1>5, ListTypes
  <2> QED
    BY <1>4, <1>5, <2>2, <2>3, <2>4 DEF Awaited, HasSlot
<1> QED
  BY <1>h, <1>1, <1>2, <1>3, <1>4, <1>5, <1>6, NoneMoves DEF Acts

\* OCI frees what the handle holds, and the thread goes on to take it off the list.
LEMMA OciFreeRight ==
    ASSUME ListInv, ListRight, NEW t \in ListUsers, OciFree(t) \/ (OciFails(t) /\ listKind /= "object")
    PROVE  ListRight'
<1>h. PICK h : h = Hand(t)
  OBVIOUS
<1>1. /\ Acts(t, h) /\ NotNew(t, h) /\ ~listed'[h].held /\ SamePlace(h) /\ At(t, "oci") /\ At(t, "remove")'
      /\ \/ doing'[t].then = doing[t].then
         \/ doing'[t].then = IF doing[t].then = "loop" THEN "loopFails" ELSE "backFails"
      /\ doing'[t].i = doing[t].i /\ Hand(t)' = h /\ h \in Listed
      /\ UNCHANGED <<slots, usedSlots, connState>>
  BY <1>h, OciFreeEffect, OciFailsEffect DEF At, Acts, Involved, Closing
<1>2. listed[h].held /\ \A u \in ListUsers : At(u, "remove") => Hand(u) /= h
  BY <1>h, <1>1 DEF ListInv, OneFrees
<1>3. SlotsRight'
  <2>1. connState = "open" => HasSlot(h)
    BY <1>h, <1>1, <1>2 DEF ListRight, SlotsRight, BeingDone, NotNew, At
  <2>2. BeingDone(h, {"remove"})'
    BY <1>1 DEF BeingDone, At
  <2> QED
    BY <1>1, <1>2, <2>1, <2>2, SlotsOne DEF ListRight, SamePlace, At
<1>4. AtItsSlot'
  <2>1. Walks(t)' => Walks(t) /\ ~At(t, "read")
    BY <1>1, ListTypes DEF Walks, Pins, ClosesFor, Closing, At, Doings
  <2> QED
    BY <1>h, <1>1, <2>1, AtSlotKeeps DEF ListRight, AtItsSlot, Acts
<1>5. AreAhead'
  <2>1. Walks(t)' => Walks(t)
    BY <1>1, ListTypes DEF Walks, Pins, ClosesFor, Closing, At, Doings
  <2>2. \A g \in Listed : listed'[g].held =>
            g /= h /\ listed[g].held /\ listed'[g].slot = listed[g].slot /\ listed'[g].late = listed[g].late
    BY <1>1 DEF Acts
  <2> QED
    BY <1>h, <1>1, <2>1, <2>2, AheadKeeps DEF ListRight, Acts
<1> QED
  BY <1>3, <1>4, <1>5 DEF ListRight

\* Handles that are not in a slot.
LEMMA NewIsRight ==
    ASSUME ListInv, ListRight, NEW t \in ListUsers, LobFails(t) \/ \E h \in Listed : CreateListed(t, h)
    PROVE  ListRight'
<1>1. PICK h : /\ Acts(t, h) /\ SamePlace(h) /\ h \in Listed
               /\ \A i \in DOMAIN slots : slots[i] /= h
               /\ \/ /\ ~listed'[h].held /\ At(t, "add") /\ Hand(t) = h
                     /\ doing'[t].step = "close" /\ doing'[t].then = "free"
                  \/ IsIdle(t) /\ At(t, "add")' /\ Hand(t)' = h /\ connState = "open"
               /\ UNCHANGED <<slots, usedSlots, connState>>
  <2>1. CASE LobFails(t)
    <3>1. \A i \in DOMAIN slots : slots[i] /= Hand(t)
      BY <2>1, LobFailsEffect DEF ListInv, NewIsOwn
    <3> QED
      BY <2>1, <3>1, LobFailsEffect DEF Acts
  <2>2. CASE \E h \in Listed : CreateListed(t, h)
    BY <2>2, CreateListedEffect DEF At, Hand
  <2> QED
    BY <2>1, <2>2
<1>2. ~Walks(t)' /\ ~At(t, "remove") /\ ~At(t, "remove")'
  BY <1>1 DEF Walks, Pins, ClosesFor, Closing, At, IsIdle
<1>3. SlotsRight'
  <2>1. listed'[h].held => BeingDone(h, {"add"})'
    BY <1>1 DEF BeingDone, At
  <2>2. \A i \in UsedSlots : slots[i] /= h
    BY <1>1 DEF UsedSlots
  <2> QED
    BY <1>1, <1>2, <2>1, <2>2, SlotsOne DEF ListRight, SamePlace
<1>4. AtItsSlot'
  BY <1>1, <1>2, AtSlotKeeps DEF ListRight, Acts
<1>5. AreAhead'
  <2>1. CASE connState = "open"
    BY <1>1, <2>1 DEF AreAhead
  <2>2. CASE connState /= "open"
    <3>1. ~listed'[h].held /\ Hand(t) = h
      BY <1>1, <2>2
    <3>2. \A g \in Listed : listed'[g].held =>
            g /= h /\ listed[g].held /\ listed'[g].slot = listed[g].slot /\ listed'[g].late = listed[g].late
      BY <1>1, <3>1 DEF Acts
    <3> QED
      BY <1>1, <1>2, <3>1, <3>2, AheadKeeps DEF ListRight, Acts
  <2> QED
    BY <2>1, <2>2
<1> QED
  BY <1>3, <1>4, <1>5 DEF ListRight

\* The slot that the handle names is cleared, which is its own.
LEMMA RemoveHandleRight ==
    ASSUME ListInv, LiveInv, ListRight, NEW t \in ListUsers, RemoveHandle(t)
    PROVE  ListRight'
<1>h. PICK h : h = Hand(t)
  OBVIOUS
<1>1. /\ Acts(t, h) /\ SamePlace(h) /\ listed'[h].held = listed[h].held /\ h \in Listed
      /\ At(t, "remove") /\ doing'[t].step = "end" /\ doing'[t].then = doing[t].then /\ doing'[t].i = doing[t].i
      /\ Hand(t)' = h /\ connState' = connState
      /\ connState /= "open" => UNCHANGED <<slots, usedSlots>>
      /\ connState = "open" => slots' = [slots EXCEPT ![listed[h].slot] = NoListed] /\ usedSlots' = usedSlots - 1
  BY <1>h, RemoveHandleEffect DEF Acts, Involved, Closing
<1>2. \A g \in Listed : /\ listed'[g].held = listed[g].held /\ listed'[g].slot = listed[g].slot
                        /\ listed'[g].late = listed[g].late
  BY <1>1 DEF Acts, SamePlace
<1>3. Walks(t)' <=> Walks(t)
  BY <1>1 DEF Walks, Pins, ClosesFor, Closing, At
<1>4. \A u, v \in ListUsers : At(u, "remove")' /\ At(v, "remove")' /\ Hand(u)' = Hand(v)' => u = v
  BY <1>1 DEF ListRight, SlotsRight, At, Acts, Hand
<1>5. CASE connState /= "open"
  <2>1. SlotsRight'
    <3>1. UsedSlots' = UsedSlots /\ \A i \in UsedSlots : listed'[slots[i]].slot = i
      BY <1>1, <1>2, <1>5, UsedFacts DEF UsedSlots, ListRight, SlotsRight
    <3> QED
      BY <1>1, <1>4, <1>5, <3>1 DEF ListRight, SlotsRight
  <2>2. AtItsSlot'
    BY <1>h, <1>1, <1>3, <1>5, AtSlotKeeps DEF ListRight, AtItsSlot, Acts, At
  <2>3. AreAhead'
    BY <1>1, <1>2, <1>3, <1>5, AheadKeeps DEF ListRight, Acts, At
  <2> QED
    BY <2>1, <2>2, <2>3 DEF ListRight
<1>6. CASE connState = "open"
  <2> DEFINE s == listed[h].slot
  <2>1. HasSlot(h) /\ s \in UsedSlots
    BY <1>h, <1>1, <1>6, UsedFacts DEF ListRight, SlotsRight
  <2>2. /\ DOMAIN slots' = DOMAIN slots /\ slots'[s] = NoListed
        /\ \A i \in DOMAIN slots \ {s} : slots'[i] = slots[i]
    BY <1>1, <1>6, <2>1, ListTypes DEF UsedSlots
  <2>3. UsedSlots' = UsedSlots \ {s}
    BY <2>2 DEF UsedSlots
  <2>4. usedSlots' = Cardinality(UsedSlots')
    BY <1>1, <1>6, <2>1, <2>3, UsedFacts, CountFacts DEF ListRight, SlotsRight
  <2> HIDE DEF s
  <2>5. \A i \in UsedSlots' : /\ i \in UsedSlots /\ i /= s /\ slots'[i] = slots[i] /\ slots[i] \in Listed
                              /\ listed[slots[i]].slot = i
    BY <2>2, <2>3, UsedFacts DEF UsedSlots, ListRight, SlotsRight
  <2>6. \A i \in UsedSlots' : slots[i] /= h
    BY <2>5 DEF s
  <2>7. \A i \in UsedSlots' : listed'[slots'[i]].held \/ BeingDone(slots[i], {"remove"})'
    <3> SUFFICES ASSUME NEW i \in UsedSlots', ~listed'[slots'[i]].held PROVE BeingDone(slots[i], {"remove"})'
      OBVIOUS
    <3>1. PICK g : g = slots[i]
      OBVIOUS
    <3>2. g = slots'[i] /\ g \in Listed /\ g /= h /\ ~listed[g].held
      BY <1>2, <2>5, <2>6, <3>1
    <3>3. BeingDone(g, {"remove"})
      BY <1>6, <2>5, <3>1, <3>2 DEF ListRight, SlotsRight
    <3>4. PICK u \in ListUsers : Hand(u) = g /\ doing[u].step = "remove"
      BY <3>3 DEF BeingDone
    <3>5. u /= t /\ doing'[u] = doing[u]
      BY <1>h, <1>1, <3>2, <3>4 DEF Acts
    <3> QED
      BY <3>2, <3>4, <3>5 DEF BeingDone, Hand
  <2>8. \A g \in Listed \ {h} : HasSlot(g) => HasSlot(g)'
    <3> SUFFICES ASSUME NEW g \in Listed \ {h}, HasSlot(g) PROVE HasSlot(g)'
      OBVIOUS
    <3>1. listed[g].slot /= s
      BY <2>1 DEF HasSlot, s
    <3> QED
      BY <1>2, <2>2, <3>1 DEF HasSlot
  <2>9. \A g \in Listed : listed'[g].held /\ ~BeingDone(g, {"add"})' => HasSlot(g)'
    <3> SUFFICES ASSUME NEW g \in Listed, listed[g].held, ~BeingDone(g, {"add"})' PROVE HasSlot(g)'
      BY <1>2
    <3>1. g /= h
      BY <1>h, <1>1 DEF ListInv, OneFrees
    <3>2. ~BeingDone(g, {"add"})
      BY <1>1 DEF BeingDone, Acts, Hand, At
    <3> QED
      BY <1>6, <2>8, <3>1, <3>2 DEF ListRight, SlotsRight
  <2>10. \A u \in ListUsers : At(u, "remove")' => HasSlot(Hand(u))'
    <3> SUFFICES ASSUME NEW u \in ListUsers, At(u, "remove")' PROVE HasSlot(Hand(u))'
      OBVIOUS
    <3>1. PICK g : g = Hand(u)
      OBVIOUS
    <3>2. u /= t /\ At(u, "remove") /\ Hand(u)' = g
      BY <1>1, <3>1 DEF At, Acts, Hand
    <3>3. g /= h /\ g \in Listed /\ HasSlot(g)
      BY <1>h, <1>1, <1>6, <3>1, <3>2 DEF ListRight, SlotsRight, ListInv, OnlyMadeAreUsed, Busy, At
    <3>4. HasSlot(g)'
      BY <2>8, <3>3
    <3> QED
      BY <3>2, <3>4 DEF HasSlot
  <2>11. SlotsRight'
    BY <1>1, <1>2, <1>4, <2>4, <2>5, <2>7, <2>9, <2>10 DEF SlotsRight
  <2>12. AtItsSlot'
    <3>1. \A u \in ListUsers : ~Walks(u)
      BY <1>6 DEF LiveInv, OneWalks
    <3>2. \A u \in ListUsers : ~Walks(u)'
      BY <1>1, <1>3, <3>1 DEF Acts, Walks, Pins, ClosesFor
    <3> QED
      BY <3>2 DEF AtItsSlot
  <2>13. AreAhead'
    BY <1>1, <1>6 DEF AreAhead
  <2> QED
    BY <2>11, <2>12, <2>13 DEF ListRight
<1> QED
  BY <1>5, <1>6

\* A handle is added to a slot that was empty.
LEMMA AddedIsEmpty ==
    ASSUME ListInv, SlotsRight, NEW h \in Listed, NEW s, Added(h, s)
    PROVE  s \notin UsedSlots
<1>1. NumSlots \in Nat \ {0} /\ DOMAIN slots = 0..NumSlots - 1 /\ NumSlots = Cardinality(DOMAIN slots)
  BY ListTypes DEF NumSlots
<1>2. CASE usedSlots = NumSlots
  <2>1. s = NumSlots
    BY <1>2 DEF Added
  <2> QED
    BY <1>1, <2>1 DEF UsedSlots
<1>3. CASE usedSlots /= NumSlots
  <2>1. PICK e \in DOMAIN slots : slots[e] = NoListed
    BY <1>1, <1>3, UsedFacts DEF SlotsRight
  <2>2. {i \in 0..NumSlots - 1 : slots[i] = NoListed} /= {}
    BY <1>1, <2>1
  <2>3. s \in {i \in 0..NumSlots - 1 : slots[i] = NoListed}
    BY <1>3, <2>2 DEF Added, IsNextSlot
  <2> QED
    BY <2>3 DEF UsedSlots
<1> QED
  BY <1>2, <1>3

LEMMA AddHandleRight ==
    ASSUME ListInv, LiveInv, ListRight, NEW t \in ListUsers, AddHandle(t)
    PROVE  ListRight'
<1>h. PICK h : h = Hand(t)
  OBVIOUS
<1>1. /\ Acts(t, h) /\ NotNew(t, h) /\ SameMark(h) /\ h \in Listed /\ At(t, "add") /\ IsIdle(t)'
      /\ listed'[h].late = (connState /= "open")
      /\ usedSlots' = usedSlots + 1 /\ connState' = connState
  BY <1>h, AddHandleEffect DEF Acts
<1>2. PICK s : Added(h, s)
  BY <1>h, AddHandleEffect
<1>3. /\ listed[h].held /\ (\A i \in DOMAIN slots : slots[i] /= h) /\ h /= NoListed
      /\ \A u \in ListUsers \ {t} : Busy(u) => Hand(u) /= h
  BY <1>h, <1>1, ListAssumption DEF ListInv, NewIsOwn, NoListed
<1>4. s \notin UsedSlots
  BY <1>1, <1>2, AddedIsEmpty DEF ListRight
<1>5. /\ s \in DOMAIN slots' /\ slots'[s] = h /\ listed'[h].slot = s
      /\ \A i \in UsedSlots : i \in DOMAIN slots' /\ slots'[i] = slots[i]
      /\ UsedSlots' = UsedSlots \union {s}
  BY <1>2, <1>3, <1>4 DEF Added, UsedSlots
<1>6. \A g \in Listed \ {h} : /\ listed'[g].held = listed[g].held /\ listed'[g].slot = listed[g].slot
                              /\ listed'[g].late = listed[g].late
                              /\ HasSlot(g) => HasSlot(g)'
  <2> SUFFICES ASSUME NEW g \in Listed \ {h}, HasSlot(g) PROVE HasSlot(g)'
    BY <1>1 DEF Acts
  <2>1. listed[g].slot \in UsedSlots /\ listed'[g] = listed[g]
    BY <1>1, UsedFacts DEF Acts
  <2> QED
    BY <1>5, <2>1 DEF HasSlot
<1>7. ~Walks(t)' /\ ~At(t, "remove")' /\ doing'[t].step = "idle"
  BY <1>1 DEF IsIdle, Walks, Pins, ClosesFor, Closing, At
<1>8. SlotsRight'
  <2>1. \A i \in UsedSlots' : listed'[slots'[i]].slot = i
    BY <1>3, <1>5, <1>6, UsedFacts DEF ListRight, SlotsRight, UsedSlots
  <2>2. usedSlots' = Cardinality(UsedSlots')
    BY <1>1, <1>4, <1>5, UsedFacts, CountFacts DEF ListRight, SlotsRight
  <2>3. \A u, v \in ListUsers : At(u, "remove")' /\ At(v, "remove")' /\ Hand(u)' = Hand(v)' => u = v
    BY <1>1, <1>7 DEF ListRight, SlotsRight, At, Acts, Hand
  <2>4. ASSUME connState = "open", NEW i \in UsedSlots'
        PROVE  listed'[slots'[i]].held \/ BeingDone(slots[i], {"remove"})'
    <3>1. CASE i = s
      BY <1>1, <1>3, <1>5, <3>1 DEF SameMark
    <3>2. CASE i \in UsedSlots
      <4>1. PICK g : g = slots[i]
        OBVIOUS
      <4>2. g = slots'[i] /\ g \in Listed /\ g /= h /\ (listed[g].held \/ BeingDone(g, {"remove"}))
        BY <1>3, <1>5, <2>4, <3>2, <4>1, UsedFacts DEF ListRight, SlotsRight, UsedSlots
      <4>3. BeingDone(g, {"remove"}) => BeingDone(g, {"remove"})'
        BY <1>1 DEF BeingDone, Acts, Hand, At
      <4> QED
        BY <1>6, <4>2, <4>3
    <3> QED
      BY <1>5, <3>1, <3>2
  <2>5. ASSUME connState = "open", NEW g \in Listed, listed'[g].held, ~BeingDone(g, {"add"})' PROVE HasSlot(g)'
    <3>1. CASE g = h
      BY <1>5, <3>1 DEF HasSlot
    <3>2. CASE g /= h
      <4>1. ~BeingDone(g, {"add"})
        BY <1>h, <1>1, <2>5, <3>2 DEF BeingDone, Acts, Hand
      <4> QED
        BY <1>6, <2>5, <3>2, <4>1 DEF ListRight, SlotsRight
    <3> QED
      BY <3>1, <3>2
  <2>6. ASSUME connState = "open", NEW u \in ListUsers, At(u, "remove")' PROVE HasSlot(Hand(u))'
    <3>1. PICK g : g = Hand(u)
      OBVIOUS
    <3>2. u /= t /\ At(u, "remove") /\ Hand(u)' = g
      BY <1>1, <1>7, <2>6, <3>1 DEF At, Acts, Hand
    <3>3. g /= h /\ g \in Listed /\ HasSlot(g)
      BY <1>3, <2>6, <3>1, <3>2 DEF ListRight, SlotsRight, ListInv, OnlyMadeAreUsed, Busy, At
    <3>4. HasSlot(g)'
      BY <1>6, <3>3
    <3> QED
      BY <3>2, <3>4 DEF HasSlot
  <2> QED
    BY <1>1, <2>1, <2>2, <2>3, <2>4, <2>5, <2>6 DEF SlotsRight
<1>9. AtItsSlot'
  <2> SUFFICES ASSUME NEW u \in ListUsers, Walks(u)', ~At(u, "read")'
               PROVE  doing'[u].i \in DOMAIN slots' /\ slots'[doing'[u].i] = Hand(u)'
    BY DEF AtItsSlot
  <2>1. u /= t /\ doing'[u] = doing[u] /\ Walks(u) /\ ~At(u, "read")
    BY <1>1, <1>7 DEF Acts, Walks, Pins, ClosesFor, At
  <2>2. doing[u].i \in DOMAIN slots /\ slots[doing[u].i] = Hand(u) /\ Hand(u) \in Listed
    BY <2>1 DEF ListRight, AtItsSlot, ListInv, OnlyMadeAreUsed, Busy, Walks, Pins, ClosesFor, Closing, At
  <2>3. doing[u].i \in UsedSlots
    BY <2>2, ListAssumption DEF UsedSlots, NoListed
  <2> QED
    BY <1>5, <2>1, <2>2, <2>3 DEF Hand
<1>10. AreAhead'
  <2> SUFFICES ASSUME connState /= "open", NEW g \in Listed, listed'[g].held, ~listed'[g].late,
                      ~BeingDone(g, {"add", "close", "oci"})'
               PROVE  Awaited(g)'
    BY <1>1 DEF AreAhead
  <2>1. g /= h
    BY <1>1
  <2>2. ~BeingDone(g, {"add", "close", "oci"})
    BY <1>h, <1>1, <2>1 DEF BeingDone, Acts, Hand
  <2>3. Awaited(g)
    BY <1>6, <2>1, <2>2 DEF ListRight, AreAhead
  <2>4. \A u \in ListUsers : Walks(u)' => u /= t /\ Walks(u) /\ doing'[u] = doing[u]
    BY <1>1, <1>7 DEF Acts, Walks, Pins, ClosesFor
  <2> QED
    BY <1>1, <1>6, <2>1, <2>3, <2>4 DEF Awaited
<1> QED
  BY <1>8, <1>9, <1>10 DEF ListRight

\* The thread begins before all slots.
LEMMA CloseConnRight ==
    ASSUME ListInv, LiveInv, ListRight, NEW t \in ListUsers, CloseConn(t)
    PROVE  ListRight'
<1>1. /\ \A u \in ListUsers \ {t} : doing'[u] = doing[u]
      /\ doing[t].step = "idle" /\ doing'[t].step = "read" /\ doing'[t].i = 0
      /\ UNCHANGED <<listed, slots, usedSlots>> /\ connState = "open" /\ connState' = "closing"
  BY ListTypes DEF CloseConn, IsIdle, Starts, slotVars
<1>2. ~At(t, "remove") /\ ~At(t, "remove")' /\ ~At(t, "add") /\ At(t, "read")'
  BY <1>1 DEF At
<1>3. SlotsRight'
  BY <1>1, <1>2, SlotsSame DEF ListRight
<1>4. AtItsSlot'
  BY <1>1, <1>2, AtSlotKeeps DEF ListRight
<1>5. AreAhead'
  <2>1. \A u \in ListUsers \ {t} : ~Walks(u)'
    BY <1>1 DEF LiveInv, OneWalks, Walks, Pins, ClosesFor
  <2> SUFFICES ASSUME NEW g \in Listed, listed[g].held, ~BeingDone(g, {"add", "close", "oci"})' PROVE Awaited(g)'
    BY <1>1 DEF AreAhead
  <2>2. HasSlot(g)
    BY <1>1 DEF ListRight, SlotsRight, BeingDone, Hand
  <2>3. HasSlot(g)' /\ 0 <= listed[g].slot
    BY <1>1, <2>2, ListTypes DEF HasSlot
  <2> QED
    BY <1>1, <2>1, <2>3 DEF Awaited
<1> QED
  BY <1>3, <1>4, <1>5 DEF ListRight

\* It ends behind them.
LEMMA ConnClosedRight ==
    ASSUME ListInv, LiveInv, ListRight, NEW t \in ListUsers, ConnClosed(t)
    PROVE  ListRight'
<1>1. /\ \A u \in ListUsers \ {t} : doing'[u] = doing[u]
      /\ doing[t].step = "read" /\ doing[t].i >= NumSlots /\ doing[t].i \in Nat /\ doing'[t].step = "idle"
      /\ UNCHANGED <<listed, slots, usedSlots>> /\ connState' = "closed"
  BY ListTypes DEF ConnClosed, At, Goes, Doings, slotVars
<1>2. ~At(t, "remove") /\ ~At(t, "remove")' /\ ~At(t, "add") /\ ~Walks(t)' /\ Walks(t)
  BY <1>1 DEF At, Walks, Pins, ClosesFor, Closing
<1>3. SlotsRight'
  BY <1>1, <1>2, SlotsSame DEF ListRight
<1>4. AtItsSlot'
  BY <1>1, <1>2, AtSlotKeeps DEF ListRight
<1>5. AreAhead'
  <2> SUFFICES ASSUME NEW g \in Listed, listed[g].held, ~listed[g].late, ~BeingDone(g, {"add", "close", "oci"})'
               PROVE  FALSE
    BY <1>1 DEF AreAhead
  <2>1. ~BeingDone(g, {"add", "close", "oci"})
    BY <1>1 DEF BeingDone, Hand
  <2>2. Awaited(g)
    BY <1>2, <2>1 DEF ListRight, AreAhead, LiveInv, OneWalks
  <2>3. listed[g].slot \in DOMAIN slots /\ doing[t].i <= listed[g].slot
    BY <1>2, <2>2 DEF Awaited, HasSlot
  <2> QED
    BY <1>1, <2>3, ListTypes
<1> QED
  BY <1>3, <1>4, <1>5 DEF ListRight

LEMMA KeptStays ==
    ASSUME ListInv, LiveInv, HoldInv, KeptInv, [ListNext]_listVars
    PROVE  KeptInv'
<1> SUFFICES ASSUME ~spoiled' PROVE ListRight'
  BY DEF KeptInv
<1>1. CASE UNCHANGED listVars
  <2>1. ListRight
    BY <1>1 DEF KeptInv, listVars
  <2> QED
    BY <1>1, <2>1 DEF listVars, slotVars, ListRight, SlotsRight, UsedSlots, AtItsSlot, AreAhead, Awaited, HasSlot,
       BeingDone, Walks, Pins, ClosesFor, Hand, At
<1>2. ASSUME NEW t \in ListUsers, NEW h \in Listed,
             CreateListed(t, h) \/ ShareListed(t, h) \/ ReleaseListed(t, h) \/ CloseListed(t, h)
      PROVE  ListRight'
  <2>1. ListRight
    BY <1>2 DEF KeptInv, CreateListed, ShareListed, ReleaseListed, CloseListed
  <2> QED
    BY <1>2, <2>1, NewIsRight, ReferencesRight
<1>3. ASSUME NEW t \in ListUsers,
             \/ AddHandle(t) \/ LobFails(t)
             \/ MarkClosing(t) \/ OciFree(t) \/ OciFails(t) \/ RemoveHandle(t) \/ CloseEnds(t)
      PROVE  ListRight'
  <2>1. spoiled' = spoiled
    BY <1>3, AddHandleEffect, LobFailsEffect, MarkClosingEffect, OciFreeEffect, OciFailsEffect, RemoveHandleEffect,
       CloseEndsEffect
  <2>2. ListRight
    BY <2>1 DEF KeptInv
  <2> QED
    BY <1>3, <2>2, AddHandleRight, NewIsRight, MarkClosingRight, OciFreeRight, ObjectStaysRight, RemoveHandleRight,
       CloseEndsRight
<1>4. ASSUME NEW t \in ListUsers,
             CloseConn(t) \/ ReadSlot(t) \/ PinListed(t) \/ NextListed(t) \/ CloseConnFrees(t) \/ ConnClosed(t)
      PROVE  ListRight'
  <2>1. ListRight
    BY <1>4 DEF KeptInv, CloseConn, ReadSlot, PinListed, NextListed, CloseConnFrees, ConnClosed
  <2> QED
    BY <1>4, <2>1, CloseConnRight, WalkRight, CloseConnFreesRight, ConnClosedRight
<1>5. ASSUME NEW t \in ListUsers,
             ObjectFails(t) \/ CloseConnFails(t) \/ CloseConnFailsFreed(t) \/ SessionEndFails(t)
      PROVE  FALSE
  BY <1>5 DEF ObjectFails, CloseConnFails, CloseConnFailsFreed, SessionEndFails
<1> QED
  BY <1>1, <1>2, <1>3, <1>4, <1>5 DEF ListNext

LEMMA KeptStarts ==
    ASSUME ListInit
    PROVE  HoldInv /\ KeptInv
<1> USE DEF ListInit
<1>1. \A t \in ListUsers : IsIdle(t) /\ ~Walks(t) /\ ~At(t, "remove") /\ ~At(t, "end")
  BY DEF Idle0, Starts, IsIdle, Walks, Pins, ClosesFor, Closing, At
<1>2. \A h \in Listed : ~listed[h].held
  BY DEF NotMade
<1>3. UsedSlots = {} /\ usedSlots = Cardinality(UsedSlots)
  BY FS_EmptySet DEF UsedSlots
<1> QED
  BY <1>1, <1>2, <1>3 DEF HoldInv, MarkedIsDone, FreedIsEmpty, KeptInv, ListRight, SlotsRight, AtItsSlot, AreAhead

\* What ListsAreKept says of the slots.
LEMMA RightMeansKept ==
    ASSUME ListInv, KeptInv
    PROVE  OpenAreListed /\ NoneOutlivesConnection
<1>1. OpenAreListed
  <2> SUFFICES ASSUME connState = "open", ~spoiled
      PROVE  /\ \A h \in Listed : listed[h].held /\ ~BeingDone(h, {"add"}) => slots[listed[h].slot] = h
             /\ \A i \in DOMAIN slots : slots[i] /= NoListed =>
                    listed[slots[i]].slot = i /\ (listed[slots[i]].held \/ BeingDone(slots[i], {"remove"}))
             /\ usedSlots = Cardinality({i \in DOMAIN slots : slots[i] /= NoListed})
    BY DEF OpenAreListed
  <2> QED
    BY DEF KeptInv, ListRight, SlotsRight, UsedSlots, HasSlot
<1>2. NoneOutlivesConnection
  BY DEF NoneOutlivesConnection, KeptInv, ListRight, AreAhead, Awaited
<1> QED
  BY <1>1, <1>2

\* For any number of threads, handles and slots, whatever is created, shared,
\* closed and released while a connection is closed, and whatever fails: the list
\* of an open connection has exactly what is open, nothing is freed twice or
\* while a thread is closing it, and nothing that was listed in time outlives its
\* connection; but for a slot cleared by mistake, and connections whose closing
\* has failed (dpiHandleList.c, dpiConn__close).
THEOREM ListsStayRight == ListSpec => []ListsAreKept
<1>1. ListInit => LiveInv /\ HoldInv /\ KeptInv
  BY LiveStarts, KeptStarts
<1>2. ListInv /\ (LiveInv /\ HoldInv /\ KeptInv) /\ [ListNext]_listVars => (LiveInv /\ HoldInv /\ KeptInv)'
  BY LiveStays, HoldStays, KeptStays
<1>3. ListInv /\ (LiveInv /\ HoldInv /\ KeptInv) => ListsAreKept
  BY ClosersHaveIt, RightMeansKept DEF ListsAreKept
<1> QED
  BY <1>1, <1>2, <1>3, ListInvariant, PTL DEF ListSpec
-----------------------------------------------------------------------------
\* The count of references.

CountSteps == {"idle", "acquire", "load", "store", "read", "mark", "unlock", "free"}
CountTypes ==
    /\ threaded \in BOOLEAN /\ alone \in BOOLEAN /\ checked \in BOOLEAN
    /\ counted \in Int /\ timesFreed \in Nat
    /\ holding \in [References -> Keepers \union {NoHolder}] /\ envMutex \in Keepers \union {NoHolder}
    /\ counting \in [Keepers -> [step : CountSteps, ref : References \union {0}, by : {-1, 0, 1},
                                 was : Int, now : Int]]

\* Before it stores the count, a thread that gives a reference up still has it,
\* and one that takes one has another.
Asking(t) == counting[t].step \in {"acquire", "load", "store"}
Takes(t) == counting[t].by = 1 /\ Has(NoHolder, counting[t].ref) /\ \E q \in References : Has(t, q)
ReturnsOne(t) == counting[t].by = -1 /\ Has(t, counting[t].ref)
AsksForOwn ==
    /\ \A t \in Keepers : Asking(t) => counting[t].ref \in References /\ (Takes(t) \/ ReturnsOne(t))
    /\ \A t, u \in Keepers : Asking(t) /\ Asking(u) /\ counting[t].ref = counting[u].ref => t = u

\* One thread at a time reads and writes the count.
InSection(t) == counting[t].step \in {"load", "store", "read", "mark", "unlock"}
OneCounts ==
    /\ threaded => \A t \in Keepers : InSection(t) <=> envMutex = t
    /\ alone => \A t, u \in Keepers : Calling(t, "idle") \/ Calling(u, "idle") \/ t = u

\* The count is that of the references.
HeldRefs == {r \in References : holding[r] /= NoHolder}
CountIsRight ==
    /\ IsFiniteSet(HeldRefs) /\ counted = Cardinality(HeldRefs)
    /\ \A t \in Keepers : Calling(t, "store") => counting[t].was = counted

\* A thread that has counted the last reference out, and will free the handle.
CountsOut(t) == Calling(t, "free") \/ (counting[t].now = 0 /\ counting[t].step \in {"mark", "unlock"})
Finishes(t) == (Calling(t, "read") /\ counted = 0) \/ CountsOut(t)
OneFinishes ==
    /\ \A t \in Keepers : Finishes(t) => HeldRefs = {} /\ timesFreed = 0
    /\ \A t, u \in Keepers : Finishes(t) /\ Finishes(u) => t = u
    /\ timesFreed \in {0, 1} /\ (timesFreed = 1 => HeldRefs = {})
    /\ HeldRefs = {} => timesFreed = 1 \/ \E t \in Keepers : Finishes(t)
    /\ HeldRefs /= {} => checked

\* The inductive invariant.
RightCount == threaded \/ alone => OneCounts /\ CountIsRight /\ OneFinishes
CountInv == CountTypes /\ AsksForOwn /\ RightCount

LEMMA CountStarts == CountInit => CountInv
<1> SUFFICES ASSUME CountInit PROVE CountInv
  OBVIOUS
<1>1. PICK t \in Keepers, r \in References : holding = [q \in References |-> IF q = r THEN t ELSE NoHolder]
  BY DEF CountInit
<1>2. \A u \in Keepers : counting[u] = Waiting
  BY DEF CountInit
<1>3. CountTypes
  BY <1>1 DEF CountInit, CountTypes, CountSteps, Waiting
<1>4. AsksForOwn
  BY <1>2 DEF AsksForOwn, Asking, Waiting
<1>5. OneCounts
  BY <1>2, HolderAssumption DEF CountInit, OneCounts, InSection, Calling, Waiting
<1>6. HeldRefs = {r}
  BY <1>1, HolderAssumption DEF HeldRefs
<1>7. CountIsRight
  BY <1>2, <1>6, FS_Singleton DEF CountInit, CountIsRight, Calling, Waiting
<1>8. OneFinishes
  BY <1>2, <1>6 DEF CountInit, OneFinishes, Finishes, CountsOut, Calling, Waiting
<1>9. QED
  BY <1>3, <1>4, <1>5, <1>7, <1>8 DEF CountInv, RightCount

\* The other threads stay where they are.
OthersWait(t) == \A u \in Keepers : u /= t => counting'[u] = counting[u]

LEMMA StartKeeps ==
    ASSUME CountInv, NEW t \in Keepers, AddRef(t) \/ ReleaseRef(t)
    PROVE  CountInv'
<1>1. PICK r \in References, by \in {-1, 1} :
          /\ StartsCounting(t, r, by)
          /\ by = 1 => /\ \E q \in References : Has(t, q)
                       /\ Has(NoHolder, r) /\ \A u \in Keepers : Calling(u, "idle") \/ counting[u].ref /= r
          /\ by = -1 => Has(t, r)
  BY DEF AddRef, ReleaseRef
<1>2. counting'[t] = [step |-> "acquire", ref |-> r, by |-> by, was |-> 0, now |-> 0]
  BY <1>1 DEF StartsCounting, Waiting, CountInv, CountTypes
<1>3. OthersWait(t) /\ Calling(t, "idle")
  BY <1>1 DEF StartsCounting, OthersWait, CountInv, CountTypes
<1>4. UNCHANGED <<threaded, alone, counted, checked, holding, envMutex, timesFreed>>
  BY <1>1 DEF StartsCounting
<1>5. counting' \in [Keepers -> [step : CountSteps, ref : References \union {0}, by : {-1, 0, 1}, was : Int, now : Int]]
  BY <1>1, <1>2, <1>3 DEF StartsCounting, CountInv, CountTypes, CountSteps, Waiting
<1>6. CountTypes'
  BY <1>4, <1>5 DEF CountInv, CountTypes
<1>7. AsksForOwn'
  <2>1. ASSUME NEW u \in Keepers, Asking(u)' PROVE (counting[u].ref \in References /\ (Takes(u) \/ ReturnsOne(u)))'
    <3>1. CASE u = t
      BY <1>1, <1>2, <1>4, <3>1 DEF Takes, ReturnsOne, Has
    <3>2. CASE u /= t
      BY <1>3, <1>4, <2>1, <3>2 DEF CountInv, AsksForOwn, Takes, ReturnsOne, Has, OthersWait, Asking
    <3>3. QED
      BY <3>1, <3>2
  <2>2. ASSUME NEW u \in Keepers, u /= t, Asking(u) PROVE counting[u].ref /= r
    BY <1>1, <2>2, HolderAssumption DEF CountInv, AsksForOwn, Takes, ReturnsOne, Has, Asking, Calling
  <2>3. \A u, v \in Keepers : (Asking(u) /\ Asking(v) /\ counting[u].ref = counting[v].ref => u = v)'
    BY <1>2, <1>3, <2>2 DEF CountInv, AsksForOwn, Asking, OthersWait
  <2>4. QED
    BY <2>1, <2>3 DEF AsksForOwn
<1>8. ASSUME threaded' \/ alone' PROVE (OneCounts /\ CountIsRight /\ OneFinishes)'
  <2>1. OneCounts /\ CountIsRight /\ OneFinishes
    BY <1>4, <1>8 DEF CountInv, RightCount
  <2>2. OneCounts'
    BY <1>1, <1>2, <1>3, <1>4, <2>1 DEF OneCounts, InSection, OthersWait, Calling, StartsCounting
  <2>3. HeldRefs' = HeldRefs
    BY <1>4 DEF HeldRefs
  <2>4. CountIsRight'
    BY <1>2, <1>3, <1>4, <2>1, <2>3 DEF CountIsRight, Calling, OthersWait
  <2>5. \A u \in Keepers : Finishes(u)' <=> Finishes(u)
    BY <1>2, <1>3, <1>4 DEF Finishes, CountsOut, Calling, OthersWait
  <2>6. OneFinishes'
    BY <1>4, <2>1, <2>3, <2>5 DEF OneFinishes
  <2>7. QED
    BY <2>2, <2>4, <2>6
<1>9. QED
  BY <1>6, <1>7, <1>8 DEF CountInv, RightCount

LEMMA PassKeeps ==
    ASSUME CountInv, NEW t \in Keepers, NEW u \in Keepers, Pass(t, u)
    PROVE  CountInv'
<1>1. PICK r \in References : Has(t, r) /\ holding' = [holding EXCEPT ![r] = u]
  BY DEF Pass
<1>2. UNCHANGED <<threaded, alone, counted, checked, envMutex, counting, timesFreed>> /\ Calling(t, "idle")
  BY DEF Pass
<1>3. CountTypes'
  BY <1>1, <1>2 DEF CountInv, CountTypes
<1>4. \A q \in References : holding'[q] = IF q = r THEN u ELSE holding[q]
  BY <1>1 DEF CountInv, CountTypes
<1>5. ASSUME NEW v \in Keepers, Asking(v) PROVE (Takes(v) \/ ReturnsOne(v))'
  <2>1. v /= t /\ counting[v].ref \in References
    BY <1>2, <1>5 DEF CountInv, AsksForOwn, Asking, Calling
  <2>2. ASSUME Takes(v) PROVE Takes(v)'
    BY <1>1, <1>2, <1>4, <2>1, <2>2, HolderAssumption DEF Takes, Has
  <2>3. ASSUME ReturnsOne(v) PROVE ReturnsOne(v)'
    BY <1>1, <1>2, <1>4, <2>1, <2>3 DEF ReturnsOne, Has
  <2>4. QED
    BY <1>5, <2>2, <2>3 DEF CountInv, AsksForOwn
<1>6. AsksForOwn'
  BY <1>2, <1>5 DEF CountInv, AsksForOwn, Asking
<1>7. HeldRefs' = HeldRefs
  BY <1>1, <1>4, HolderAssumption DEF HeldRefs, Has
<1>8. RightCount'
  BY <1>2, <1>7 DEF CountInv, RightCount, OneCounts, InSection, CountIsRight, OneFinishes, Finishes, CountsOut, Calling
<1>9. QED
  BY <1>3, <1>6, <1>8 DEF CountInv

\* A step that stores no count leaves what is asked for; who asks goes on.
LEMMA StillAsks ==
    ASSUME CountInv, NEW t \in Keepers, OthersWait(t), UNCHANGED holding,
           Asking(t)' => Asking(t) /\ counting'[t].ref = counting[t].ref /\ counting'[t].by = counting[t].by
    PROVE  AsksForOwn'
<1>1. \A u \in Keepers : Asking(u)' => Asking(u) /\ counting'[u].ref = counting[u].ref /\ counting'[u].by = counting[u].by
  BY DEF OthersWait, Asking
<1>2. QED
  BY <1>1 DEF CountInv, AsksForOwn, Takes, ReturnsOne, Has

LEMMA AcquireKeeps ==
    ASSUME CountInv, NEW t \in Keepers, AcquireMutex(t)
    PROVE  CountInv'
<1>1. counting'[t] = [counting[t] EXCEPT !.step = "load"] /\ OthersWait(t) /\ Calling(t, "acquire")
  BY DEF AcquireMutex, Advances, OthersWait, CountInv, CountTypes
<1>2. UNCHANGED <<threaded, alone, counted, checked, holding, timesFreed>>
  BY DEF AcquireMutex
<1>3. counting[t] \in [step : CountSteps, ref : References \union {0}, by : {-1, 0, 1}, was : Int, now : Int]
  BY DEF CountInv, CountTypes
<1>4. /\ counting'[t].step = "load" /\ counting'[t].ref = counting[t].ref /\ counting'[t].by = counting[t].by
      /\ counting'[t].now = counting[t].now
  BY <1>1, <1>3
<1>5. CountTypes'
  <2>1. counting' = [counting EXCEPT ![t].step = "load"] /\ envMutex' \in Keepers \union {NoHolder}
    BY DEF AcquireMutex, Advances, CountInv, CountTypes
  <2>2. counting' \in [Keepers -> [step : CountSteps, ref : References \union {0}, by : {-1, 0, 1}, was : Int, now : Int]]
    BY <2>1 DEF CountInv, CountTypes, CountSteps
  <2>3. QED
    BY <1>2, <2>1, <2>2 DEF CountInv, CountTypes
<1>6. AsksForOwn'
  BY <1>1, <1>2, <1>4, StillAsks DEF Asking, Calling
<1>7. ASSUME threaded' \/ alone' PROVE (OneCounts /\ CountIsRight /\ OneFinishes)'
  <2>1. OneCounts /\ CountIsRight /\ OneFinishes
    BY <1>2, <1>7 DEF CountInv, RightCount
  <2>2. OneCounts'
    <3>1. ASSUME threaded PROVE \A u \in Keepers : (InSection(u) <=> envMutex = u)'
      <4>1. envMutex = NoHolder /\ envMutex' = t
        BY <3>1 DEF AcquireMutex
      <4>2. \A u \in Keepers : ~InSection(u)
        BY <2>1, <3>1, <4>1, HolderAssumption DEF OneCounts
      <4>3. QED
        BY <1>1, <1>4, <4>1, <4>2 DEF InSection, OthersWait
    <3>2. QED
      BY <1>1, <1>2, <2>1, <3>1 DEF OneCounts, Calling, OthersWait
  <2>3. HeldRefs' = HeldRefs
    BY <1>2 DEF HeldRefs
  <2>4. CountIsRight'
    BY <1>1, <1>2, <1>4, <2>1, <2>3 DEF CountIsRight, Calling, OthersWait
  <2>5. \A u \in Keepers : Finishes(u)' <=> Finishes(u)
    BY <1>1, <1>2, <1>4 DEF Finishes, CountsOut, Calling, OthersWait
  <2>6. OneFinishes'
    BY <1>2, <2>1, <2>3, <2>5 DEF OneFinishes
  <2>7. QED
    BY <2>2, <2>4, <2>6
<1>8. QED
  BY <1>5, <1>6, <1>7 DEF CountInv, RightCount

LEMMA LoadKeeps ==
    ASSUME CountInv, NEW t \in Keepers, LoadCount(t)
    PROVE  CountInv'
<1>1. counting[t] \in [step : CountSteps, ref : References \union {0}, by : {-1, 0, 1}, was : Int, now : Int]
  BY DEF CountInv, CountTypes
<1>2. counting' = [counting EXCEPT ![t] = [counting[t] EXCEPT !.step = "store", !.was = counted]]
  BY <1>1 DEF LoadCount, CountInv, CountTypes
<1>3. counting'[t] = [counting[t] EXCEPT !.step = "store", !.was = counted] /\ OthersWait(t) /\ Calling(t, "load")
  BY <1>2 DEF LoadCount, OthersWait, CountInv, CountTypes
<1>4. UNCHANGED <<threaded, alone, counted, checked, holding, envMutex, timesFreed>>
  BY DEF LoadCount
<1>5. /\ counting'[t].step = "store" /\ counting'[t].ref = counting[t].ref /\ counting'[t].by = counting[t].by
      /\ counting'[t].was = counted /\ counting'[t].now = counting[t].now
  BY <1>1, <1>3
<1>6. CountTypes'
  <2>1. counted \in Int /\ [counting[t] EXCEPT !.step = "store", !.was = counted]
            \in [step : CountSteps, ref : References \union {0}, by : {-1, 0, 1}, was : Int, now : Int]
    BY <1>1 DEF CountInv, CountTypes, CountSteps
  <2>2. QED
    BY <1>2, <1>4, <2>1 DEF CountInv, CountTypes
<1>7. AsksForOwn'
  BY <1>3, <1>4, <1>5, StillAsks DEF Asking, Calling
<1>8. ASSUME threaded' \/ alone' PROVE (OneCounts /\ CountIsRight /\ OneFinishes)'
  <2>1. OneCounts /\ CountIsRight /\ OneFinishes
    BY <1>4, <1>8 DEF CountInv, RightCount
  <2>2. OneCounts'
    <3>1. InSection(t) /\ InSection(t)' /\ ~Calling(t, "idle") /\ OthersWait(t)
      BY <1>3, <1>5 DEF InSection, Calling
    <3>2. QED
      BY <1>4, <2>1, <3>1 DEF OneCounts, InSection, Calling, OthersWait
  <2>3. HeldRefs' = HeldRefs
    BY <1>4 DEF HeldRefs
  <2>4. CountIsRight'
    BY <1>3, <1>4, <1>5, <2>1, <2>3 DEF CountIsRight, Calling, OthersWait
  <2>5. \A u \in Keepers : Finishes(u)' <=> Finishes(u)
    BY <1>3, <1>4, <1>5 DEF Finishes, CountsOut, Calling, OthersWait
  <2>6. OneFinishes'
    BY <1>4, <2>1, <2>3, <2>5 DEF OneFinishes
  <2>7. QED
    BY <2>2, <2>4, <2>6
<1>9. QED
  BY <1>6, <1>7, <1>8 DEF CountInv, RightCount

\* While the count is right, no two threads are between reading and storing it.
LEMMA OneInSection ==
    ASSUME threaded \/ alone, OneCounts, NEW t \in Keepers, NEW u \in Keepers, InSection(t), InSection(u)
    PROVE  t = u
BY DEF OneCounts, InSection, Calling

LEMMA StoreKeeps ==
    ASSUME CountInv, NEW t \in Keepers, StoreCount(t)
    PROVE  CountInv'
<1> DEFINE r == counting[t].ref
           to == IF counting[t].by = 1 THEN t ELSE NoHolder
<1>1. counting[t] \in [step : CountSteps, ref : References \union {0}, by : {-1, 0, 1}, was : Int, now : Int]
  BY DEF CountInv, CountTypes
<1>2. counting' = [counting EXCEPT ![t].step = "read"] /\ Calling(t, "store")
  BY DEF StoreCount, Advances
<1>3. OthersWait(t)
  BY <1>2 DEF OthersWait, CountInv, CountTypes
<1>4. UNCHANGED <<threaded, alone, checked, envMutex, timesFreed>>
  BY DEF StoreCount
<1>5. /\ counting'[t].step = "read" /\ counting'[t].ref = r /\ counting'[t].by = counting[t].by
      /\ counting'[t].now = counting[t].now
  BY <1>1, <1>2 DEF CountInv, CountTypes
<1>6. r \in References /\ (Takes(t) \/ ReturnsOne(t))
  BY <1>2 DEF CountInv, AsksForOwn, Asking, Calling
<1>7. \A q \in References : holding'[q] = IF q = r THEN to ELSE holding[q]
  BY <1>6 DEF StoreCount, CountInv, CountTypes
<1>8. CountTypes'
  <2>1. counting' \in [Keepers -> [step : CountSteps, ref : References \union {0}, by : {-1, 0, 1}, was : Int, now : Int]]
    BY <1>2 DEF CountInv, CountTypes, CountSteps
  <2>2. holding' \in [References -> Keepers \union {NoHolder}]
    BY <1>6 DEF StoreCount, CountInv, CountTypes
  <2>3. counted' \in Int
    BY <1>1 DEF StoreCount
  <2>4. QED
    BY <1>4, <2>1, <2>2, <2>3 DEF CountInv, CountTypes
<1>9. AsksForOwn'
  <2>1. ASSUME NEW u \in Keepers, Asking(u)' PROVE u /= t /\ Asking(u) /\ counting'[u] = counting[u]
    BY <1>3, <1>5, <2>1 DEF Asking, OthersWait
  <2>2. ASSUME NEW u \in Keepers, u /= t, Asking(u), counting'[u] = counting[u]
        PROVE  (counting[u].ref \in References /\ (Takes(u) \/ ReturnsOne(u)))'
    <3>1. counting[u].ref \in References /\ counting[u].ref /= r
      BY <1>2, <2>2 DEF CountInv, AsksForOwn, Asking, Calling
    <3>2. ASSUME Takes(u) PROVE Takes(u)'
      <4>1. PICK q \in References : Has(u, q)
        BY <3>2 DEF Takes
      <4>2. q /= r
        BY <1>6, <2>2, <4>1, HolderAssumption DEF Takes, ReturnsOne, Has
      <4>3. Has(u, q)' /\ Has(NoHolder, counting[u].ref)'
        BY <1>7, <2>2, <3>1, <3>2, <4>1, <4>2 DEF Has, Takes
      <4>4. QED
        BY <2>2, <3>2, <4>3 DEF Takes
    <3>3. ASSUME ReturnsOne(u) PROVE ReturnsOne(u)'
      BY <1>7, <2>2, <3>1, <3>3 DEF ReturnsOne, Has
    <3>4. QED
      BY <2>2, <3>1, <3>2, <3>3 DEF CountInv, AsksForOwn
  <2>3. \A u, v \in Keepers : (Asking(u) /\ Asking(v) /\ counting[u].ref = counting[v].ref => u = v)'
    BY <2>1 DEF CountInv, AsksForOwn
  <2>4. QED
    BY <2>1, <2>2, <2>3 DEF AsksForOwn
<1>10. ASSUME threaded' \/ alone' PROVE (OneCounts /\ CountIsRight /\ OneFinishes)'
  <2>1. (threaded \/ alone) /\ OneCounts /\ CountIsRight /\ OneFinishes
    BY <1>4, <1>10 DEF CountInv, RightCount
  <2>2. OneCounts'
    BY <1>2, <1>3, <1>4, <1>5, <2>1 DEF OneCounts, InSection, Calling, OthersWait
  <2>3. counted' = counted + counting[t].by
    BY <1>2, <2>1 DEF StoreCount, CountIsRight
  <2>4. ASSUME NEW u \in Keepers, u /= t PROVE ~InSection(u)
    BY <1>2, <2>1, <2>4, OneInSection DEF InSection, Calling
  <2>5. IsFiniteSet(HeldRefs') /\ counted' = Cardinality(HeldRefs')
    <3>1. CASE Takes(t)
      <4>1. HeldRefs' = HeldRefs \union {r} /\ r \notin HeldRefs /\ counting[t].by = 1
        BY <1>6, <1>7, <3>1, HolderAssumption DEF HeldRefs, Takes, Has
      <4>2. QED
        BY <2>1, <2>3, <4>1, FS_AddElement DEF CountIsRight
    <3>2. CASE ReturnsOne(t)
      <4>1. HeldRefs' = HeldRefs \ {r} /\ r \in HeldRefs /\ counting[t].by = -1
        BY <1>6, <1>7, <3>2, HolderAssumption DEF HeldRefs, ReturnsOne, Has
      <4>2. Cardinality(HeldRefs) \in Nat
        BY <2>1, FS_CardinalityType DEF CountIsRight
      <4>3. QED
        BY <2>1, <2>3, <4>1, <4>2, FS_RemoveElement DEF CountIsRight
    <3>3. QED
      BY <1>6, <3>1, <3>2
  <2>6. CountIsRight'
    <3>1. \A u \in Keepers : ~Calling(u, "store")'
      BY <1>3, <1>5, <2>4 DEF Calling, OthersWait, InSection
    <3>2. QED
      BY <2>5, <3>1 DEF CountIsRight
  <2>7. HeldRefs /= {}
    <3>1. \E q \in References : Has(t, q)
      BY <1>6 DEF Takes, ReturnsOne
    <3>2. QED
      BY <3>1, HolderAssumption DEF Has, HeldRefs
  <2>8. timesFreed = 0 /\ checked /\ \A u \in Keepers : ~Finishes(u)
    BY <2>1, <2>7 DEF OneFinishes
  <2>9. HeldRefs' = {} <=> counted' = 0
    BY <2>5, FS_EmptySet
  <2>10. \A u \in Keepers : Finishes(u)' => u = t
    BY <1>3, <2>4, <2>8 DEF Finishes, CountsOut, Calling, OthersWait, InSection
  <2>11. Finishes(t)' <=> counted' = 0
    BY <1>5 DEF Finishes, CountsOut, Calling
  <2>12. OneFinishes'
    BY <1>4, <2>8, <2>9, <2>10, <2>11 DEF OneFinishes
  <2>13. QED
    BY <2>2, <2>6, <2>12
<1>11. QED
  BY <1>8, <1>9, <1>10 DEF CountInv, RightCount

LEMMA ReadKeeps ==
    ASSUME CountInv, NEW t \in Keepers, ReadCount(t)
    PROVE  CountInv'
<1>1. counting[t] \in [step : CountSteps, ref : References \union {0}, by : {-1, 0, 1}, was : Int, now : Int]
  BY DEF CountInv, CountTypes
<1>2. counting' = [counting EXCEPT ![t] = [counting[t] EXCEPT !.step = "mark", !.now = counted]]
  BY <1>1 DEF ReadCount, CountInv, CountTypes
<1>3. counting'[t] = [counting[t] EXCEPT !.step = "mark", !.now = counted] /\ OthersWait(t) /\ Calling(t, "read")
  BY <1>2 DEF ReadCount, OthersWait, CountInv, CountTypes
<1>4. UNCHANGED <<threaded, alone, counted, checked, holding, envMutex, timesFreed>>
  BY DEF ReadCount
<1>5. counting'[t].step = "mark" /\ counting'[t].now = counted
  BY <1>1, <1>3
<1>6. CountTypes'
  <2>1. counted \in Int /\ [counting[t] EXCEPT !.step = "mark", !.now = counted]
            \in [step : CountSteps, ref : References \union {0}, by : {-1, 0, 1}, was : Int, now : Int]
    BY <1>1 DEF CountInv, CountTypes, CountSteps
  <2>2. QED
    BY <1>2, <1>4, <2>1 DEF CountInv, CountTypes
<1>7. AsksForOwn'
  BY <1>3, <1>4, <1>5, StillAsks DEF Asking, Calling
<1>8. ASSUME threaded' \/ alone' PROVE (OneCounts /\ CountIsRight /\ OneFinishes)'
  <2>1. OneCounts /\ CountIsRight /\ OneFinishes
    BY <1>4, <1>8 DEF CountInv, RightCount
  <2>2. OneCounts'
    <3>1. InSection(t) /\ InSection(t)' /\ ~Calling(t, "idle") /\ OthersWait(t)
      BY <1>3, <1>5 DEF InSection, Calling
    <3>2. QED
      BY <1>4, <2>1, <3>1 DEF OneCounts, InSection, Calling, OthersWait
  <2>3. HeldRefs' = HeldRefs
    BY <1>4 DEF HeldRefs
  <2>4. CountIsRight'
    BY <1>3, <1>4, <1>5, <2>1, <2>3 DEF CountIsRight, Calling, OthersWait
  <2>5. \A u \in Keepers : Finishes(u)' <=> Finishes(u)
    BY <1>3, <1>4, <1>5 DEF Finishes, CountsOut, Calling, OthersWait
  <2>6. OneFinishes'
    BY <1>4, <2>1, <2>3, <2>5 DEF OneFinishes
  <2>7. QED
    BY <2>2, <2>4, <2>6
<1>9. QED
  BY <1>6, <1>7, <1>8 DEF CountInv, RightCount

LEMMA InvalidKeeps ==
    ASSUME CountInv, NEW t \in Keepers, MarkInvalid(t)
    PROVE  CountInv'
<1>1. counting' = [counting EXCEPT ![t].step = "unlock"] /\ Calling(t, "mark")
  BY DEF MarkInvalid, Advances
<1>2. OthersWait(t) /\ counting'[t].step = "unlock" /\ counting'[t].now = counting[t].now
  BY <1>1 DEF OthersWait, CountInv, CountTypes
<1>3. UNCHANGED <<threaded, alone, counted, holding, envMutex, timesFreed>>
      /\ checked' = (checked /\ counting[t].now /= 0)
  BY DEF MarkInvalid
<1>4. CountTypes'
  <2>1. counting' \in [Keepers -> [step : CountSteps, ref : References \union {0}, by : {-1, 0, 1}, was : Int, now : Int]]
    BY <1>1 DEF CountInv, CountTypes, CountSteps
  <2>2. QED
    BY <1>3, <2>1 DEF CountInv, CountTypes
<1>5. AsksForOwn'
  BY <1>2, <1>3, StillAsks DEF Asking
<1>6. ASSUME threaded' \/ alone' PROVE (OneCounts /\ CountIsRight /\ OneFinishes)'
  <2>1. OneCounts /\ CountIsRight /\ OneFinishes
    BY <1>3, <1>6 DEF CountInv, RightCount
  <2>2. OneCounts'
    BY <1>1, <1>2, <1>3, <2>1 DEF OneCounts, InSection, Calling, OthersWait
  <2>3. HeldRefs' = HeldRefs
    BY <1>3 DEF HeldRefs
  <2>4. CountIsRight'
    BY <1>2, <1>3, <2>1, <2>3 DEF CountIsRight, Calling, OthersWait
  <2>5. \A u \in Keepers : Finishes(u)' <=> Finishes(u)
    BY <1>1, <1>2, <1>3 DEF Finishes, CountsOut, Calling, OthersWait
  <2>6. counting[t].now = 0 => HeldRefs = {}
    BY <1>1, <2>1 DEF OneFinishes, Finishes, CountsOut, Calling
  <2>7. OneFinishes'
    BY <1>3, <2>1, <2>3, <2>5, <2>6 DEF OneFinishes
  <2>8. QED
    BY <2>2, <2>4, <2>7
<1>7. QED
  BY <1>4, <1>5, <1>6 DEF CountInv, RightCount

LEMMA UnlockKeeps ==
    ASSUME CountInv, NEW t \in Keepers, ReleaseMutex(t)
    PROVE  CountInv'
<1>1. /\ Calling(t, "unlock")
      /\ \/ counting[t].now = 0 /\ counting' = [counting EXCEPT ![t].step = "free"]
         \/ counting[t].now /= 0 /\ counting' = [counting EXCEPT ![t] = Waiting]
  BY DEF ReleaseMutex, Advances, ReturnsFrom
<1>2. /\ OthersWait(t) /\ counting[t].step = "unlock" /\ counting'[t].step \in {"free", "idle"}
      /\ counting'[t].step = "free" <=> counting[t].now = 0
      /\ counting[t].now = 0 => counting'[t].now = 0
  BY <1>1 DEF OthersWait, CountInv, CountTypes, Calling, Waiting
<1>3. UNCHANGED <<threaded, alone, counted, checked, holding, timesFreed>>
      /\ envMutex' = IF threaded THEN NoHolder ELSE envMutex
  BY DEF ReleaseMutex
<1>4. CountTypes'
  <2>1. Waiting \in [step : CountSteps, ref : References \union {0}, by : {-1, 0, 1}, was : Int, now : Int]
    BY DEF Waiting, CountSteps
  <2>2. counting' \in [Keepers -> [step : CountSteps, ref : References \union {0}, by : {-1, 0, 1}, was : Int, now : Int]]
    BY <1>1, <2>1 DEF CountInv, CountTypes, CountSteps
  <2>3. QED
    BY <1>3, <2>2 DEF CountInv, CountTypes
<1>5. AsksForOwn'
  BY <1>2, <1>3, StillAsks DEF Asking
<1>6. ASSUME threaded' \/ alone' PROVE (OneCounts /\ CountIsRight /\ OneFinishes)'
  <2>1. OneCounts /\ CountIsRight /\ OneFinishes
    BY <1>3, <1>6 DEF CountInv, RightCount
  <2>2. OneCounts'
    <3>1. ASSUME threaded PROVE \A u \in Keepers : (InSection(u) <=> envMutex = u)'
      <4>1. envMutex' = NoHolder /\ envMutex = t
        BY <1>2, <1>3, <2>1, <3>1 DEF OneCounts, InSection
      <4>2. \A u \in Keepers : ~InSection(u)'
        BY <1>2, <2>1, <3>1, <4>1 DEF OneCounts, InSection, OthersWait
      <4>3. QED
        BY <4>1, <4>2, HolderAssumption
    <3>2. QED
      BY <1>2, <1>3, <2>1, <3>1 DEF OneCounts, Calling, OthersWait
  <2>3. HeldRefs' = HeldRefs
    BY <1>3 DEF HeldRefs
  <2>4. CountIsRight'
    BY <1>2, <1>3, <2>1, <2>3 DEF CountIsRight, Calling, OthersWait
  <2>5. \A u \in Keepers : Finishes(u)' <=> Finishes(u)
    BY <1>2, <1>3 DEF Finishes, CountsOut, Calling, OthersWait
  <2>6. OneFinishes'
    BY <1>3, <2>1, <2>3, <2>5 DEF OneFinishes
  <2>7. QED
    BY <2>2, <2>4, <2>6
<1>7. QED
  BY <1>4, <1>5, <1>6 DEF CountInv, RightCount

LEMMA FreeKeeps ==
    ASSUME CountInv, NEW t \in Keepers, FreeHandle(t)
    PROVE  CountInv'
<1>1. counting' = [counting EXCEPT ![t] = Waiting] /\ Calling(t, "free")
  BY DEF FreeHandle, ReturnsFrom
<1>2. OthersWait(t) /\ counting'[t].step = "idle"
  BY <1>1 DEF OthersWait, CountInv, CountTypes, Waiting
<1>3. UNCHANGED <<threaded, alone, counted, checked, holding, envMutex>> /\ timesFreed' = timesFreed + 1
  BY DEF FreeHandle
<1>4. CountTypes'
  <2>1. Waiting \in [step : CountSteps, ref : References \union {0}, by : {-1, 0, 1}, was : Int, now : Int]
    BY DEF Waiting, CountSteps
  <2>2. counting' \in [Keepers -> [step : CountSteps, ref : References \union {0}, by : {-1, 0, 1}, was : Int, now : Int]]
    BY <1>1, <2>1 DEF CountInv, CountTypes
  <2>3. QED
    BY <1>3, <2>2 DEF CountInv, CountTypes
<1>5. AsksForOwn'
  BY <1>2, <1>3, StillAsks DEF Asking
<1>6. ASSUME threaded' \/ alone' PROVE (OneCounts /\ CountIsRight /\ OneFinishes)'
  <2>1. OneCounts /\ CountIsRight /\ OneFinishes
    BY <1>3, <1>6 DEF CountInv, RightCount
  <2>2. OneCounts'
    BY <1>1, <1>2, <1>3, <2>1 DEF OneCounts, InSection, Calling, OthersWait
  <2>3. HeldRefs' = HeldRefs
    BY <1>3 DEF HeldRefs
  <2>4. CountIsRight'
    BY <1>2, <1>3, <2>1, <2>3 DEF CountIsRight, Calling, OthersWait
  <2>5. Finishes(t)
    BY <1>1 DEF Finishes, CountsOut, Calling
  <2>6. HeldRefs = {} /\ timesFreed = 0 /\ \A u \in Keepers : Finishes(u) => u = t
    BY <2>1, <2>5 DEF OneFinishes
  <2>7. \A u \in Keepers : ~Finishes(u)'
    BY <1>2, <1>3, <2>6 DEF Finishes, CountsOut, Calling, OthersWait
  <2>8. OneFinishes'
    BY <1>3, <2>1, <2>3, <2>6, <2>7 DEF OneFinishes
  <2>9. QED
    BY <2>2, <2>4, <2>8
<1>7. QED
  BY <1>4, <1>5, <1>6 DEF CountInv, RightCount

LEMMA CountKeeps == CountInv /\ [CountNext]_countVars => CountInv'
<1>1. CountInv /\ CountNext => CountInv'
  BY StartKeeps, PassKeeps, AcquireKeeps, LoadKeeps, StoreKeeps, ReadKeeps, InvalidKeeps, UnlockKeeps, FreeKeeps
     DEF CountNext
<1>2. CountInv /\ UNCHANGED countVars => CountInv'
  BY DEF countVars, CountInv, CountTypes, AsksForOwn, Asking, Takes, ReturnsOne, Has, RightCount, OneCounts, InSection,
         CountIsRight, HeldRefs, OneFinishes, Finishes, CountsOut, Calling
<1>3. QED
  BY <1>1, <1>2

\* For any number of threads and references, taken, handed on and given up while
\* others do the same: with the mutex, or in turn, a handle is freed once, and
\* exactly when nobody has a reference to it.
THEOREM HandleFreedWithTheLast == CountSpec => []FreedWithTheLast
<1>1. CountInv => FreedWithTheLast
  <2> SUFFICES ASSUME CountInv, threaded \/ alone
               PROVE  /\ \A r \in References, t \in Keepers : Has(t, r) => checked /\ timesFreed = 0
                      /\ (\A t \in Keepers : Calling(t, "idle")) /\ (\A r \in References : Has(NoHolder, r))
                            => timesFreed = 1
                      /\ timesFreed <= 1
    BY DEF FreedWithTheLast
  <2>1. OneFinishes
    BY DEF CountInv, RightCount
  <2>2. ASSUME NEW r \in References, NEW t \in Keepers, Has(t, r) PROVE checked /\ timesFreed = 0
    BY <2>1, <2>2, HolderAssumption DEF OneFinishes, HeldRefs, Has
  <2>3. ASSUME \A t \in Keepers : Calling(t, "idle"), \A r \in References : Has(NoHolder, r) PROVE timesFreed = 1
    BY <2>1, <2>3 DEF OneFinishes, HeldRefs, Has, Finishes, CountsOut, Calling
  <2>4. timesFreed <= 1
    BY <2>1 DEF OneFinishes
  <2>5. QED
    BY <2>2, <2>3, <2>4
<1>2. QED
  BY <1>1, CountStarts, CountKeeps, PTL DEF CountSpec

===============================================================================
