-------------------------- MODULE OdpiHandlesProofs --------------------------
(***************************************************************************)
(* Theorems about OdpiHandles, for every finite set of handles, any number *)
(* of bind names and any fetchArraySize.                                   *)
(***************************************************************************)
EXTENDS OdpiHandles, FiniteSetTheorems, FunctionTheorems, SequenceTheorems, TLAPS

-----------------------------------------------------------------------------
\* Counting.

Is(x, h) == IF x = h THEN 1 ELSE 0
Occurs(f, h) == Cardinality({i \in DOMAIN f : f[i] = h})
OccursIn(F, S, P, h) == Cardinality({sp \in S \X P : F[sp[1]][sp[2]] = h})

LEMMA IsType == \A x, h : Is(x, h) \in {0, 1}
BY DEF Is

\* A set of numbers, each moved by k, is as large.
LEMMA Shifted ==
    ASSUME NEW A, NEW C, NEW k \in Int, A \subseteq Int, IsFiniteSet(A), \A c : c \in C <=> \E a \in A : c = a + k
    PROVE  IsFiniteSet(C) /\ Cardinality(C) = Cardinality(A)
<1> DEFINE F == [a \in A |-> a + k]
<1>1. F \in Injection(A, C)
  BY DEF Injection, IsInjective
<1>2. F \in Surjection(A, C)
  BY DEF Surjection
<1>3. ExistsBijection(A, C)
  BY <1>1, <1>2 DEF ExistsBijection, Bijection
<1>4. QED
  BY <1>3, FS_Bijection

LEMMA OccursType ==
    ASSUME NEW f, NEW h, IsFiniteSet(DOMAIN f)
    PROVE  IsFiniteSet({i \in DOMAIN f : f[i] = h}) /\ Occurs(f, h) \in Nat
<1>1. {i \in DOMAIN f : f[i] = h} \in SUBSET (DOMAIN f)
  OBVIOUS
<1>2. QED
  BY <1>1, FS_Subset, FS_CardinalityType DEF Occurs

\* Handles that do not occur, and those that occur only once.
LEMMA OccursNever ==
    ASSUME NEW f, NEW h, \A i \in DOMAIN f : f[i] /= h
    PROVE  Occurs(f, h) = 0
<1>1. {i \in DOMAIN f : f[i] = h} = {}
  OBVIOUS
<1>2. QED
  BY <1>1, FS_EmptySet DEF Occurs

LEMMA OccursOnce ==
    ASSUME NEW f, NEW h, NEW i \in DOMAIN f, f[i] = h, \A j \in DOMAIN f : f[j] = h => j = i
    PROVE  Occurs(f, h) = 1
<1>1. {j \in DOMAIN f : f[j] = h} = {i}
  OBVIOUS
<1>2. QED
  BY <1>1, FS_Singleton DEF Occurs

LEMMA OccursSomewhere ==
    ASSUME NEW f, NEW h, IsFiniteSet(DOMAIN f), Occurs(f, h) = 0
    PROVE  \A i \in DOMAIN f : f[i] /= h
<1>1. {i \in DOMAIN f : f[i] = h} = {}
  BY OccursType, FS_EmptySet DEF Occurs
<1>2. QED
  BY <1>1

LEMMA OccursExcept ==
    ASSUME NEW f, NEW g, IsFiniteSet(DOMAIN f), DOMAIN g = DOMAIN f, NEW i \in DOMAIN f,
           \A j \in DOMAIN f : j /= i => g[j] = f[j], NEW h
    PROVE  Occurs(g, h) = Occurs(f, h) - Is(f[i], h) + Is(g[i], h)
<1> DEFINE D == DOMAIN f
           A == {j \in D : f[j] = h}
           B == {j \in D : g[j] = h}
<1>1. Occurs(f, h) = Cardinality(A) /\ Occurs(g, h) = Cardinality(B)
  BY DEF Occurs
<1>2. A \in SUBSET D /\ (i \in A <=> f[i] = h)
  OBVIOUS
<1>3. B = IF g[i] = h THEN (A \ {i}) \union {i} ELSE A \ {i}
  OBVIOUS
<1> HIDE DEF A, B
<1>4. IsFiniteSet(A) /\ Cardinality(A) \in Nat
  BY <1>2, FS_Subset, FS_CardinalityType
<1>5. IsFiniteSet(A \ {i}) /\ Cardinality(A \ {i}) = Cardinality(A) - Is(f[i], h)
  BY <1>2, <1>4, FS_RemoveElement DEF Is
<1>6. i \notin A \ {i} /\ Cardinality((A \ {i}) \union {i}) = Cardinality(A \ {i}) + 1
  BY <1>5, FS_AddElement
<1>7. QED
  BY <1>1, <1>3, <1>4, <1>5, <1>6 DEF Is

\* Two parts of which one is moved.
LEMMA TwoParts ==
    ASSUME NEW A, NEW B, NEW C, NEW k \in Int, A \subseteq Int, B \subseteq Int, IsFiniteSet(A), IsFiniteSet(B),
           \A c : c \in C <=> \E b \in B : c = b + k, A \cap C = {}
    PROVE  IsFiniteSet(A \union C) /\ Cardinality(A \union C) = Cardinality(A) + Cardinality(B)
<1>1. IsFiniteSet(C) /\ Cardinality(C) = Cardinality(B)
  BY Shifted
<1>2. Cardinality(A) \in Nat /\ Cardinality(C) \in Nat
  BY <1>1, FS_CardinalityType
<1>3. IsFiniteSet(A \union C) /\ Cardinality(A \union C) = Cardinality(A) + Cardinality(C) - Cardinality({})
  BY <1>1, FS_Union
<1>4. QED
  BY <1>1, <1>2, <1>3, FS_EmptySet

\* Sequences.
LEMMA OccursConcat ==
    ASSUME NEW T, NEW s \in Seq(T), NEW t \in Seq(T), NEW h
    PROVE  Occurs(s \o t, h) = Occurs(s, h) + Occurs(t, h)
<1> DEFINE A == {i \in 1..Len(s) : s[i] = h}
           B == {i \in 1..Len(t) : t[i] = h}
           C == {b + Len(s) : b \in B}
           U == {i \in 1..(Len(s) + Len(t)) : (s \o t)[i] = h}
<1>1. Len(s) \in Nat /\ Len(t) \in Nat /\ DOMAIN s = 1..Len(s) /\ DOMAIN t = 1..Len(t)
      /\ DOMAIN (s \o t) = 1..(Len(s) + Len(t))
      /\ \A i \in 1..(Len(s) + Len(t)) : (s \o t)[i] = IF i <= Len(s) THEN s[i] ELSE t[i - Len(s)]
  BY ConcatProperties, LenProperties
<1>2. U = A \union C
  <2>1. ASSUME NEW i \in 1..(Len(s) + Len(t)), (s \o t)[i] = h PROVE i \in A \union C
    <3>1. CASE i <= Len(s)
      BY <1>1, <2>1, <3>1
    <3>2. CASE i > Len(s)
      <4>1. i - Len(s) \in B /\ i = (i - Len(s)) + Len(s)
        BY <1>1, <2>1, <3>2
      <4>2. QED
        BY <4>1
    <3>3. QED
      BY <1>1, <3>1, <3>2
  <2>2. ASSUME NEW i \in A PROVE i \in 1..(Len(s) + Len(t)) /\ (s \o t)[i] = h
    BY <1>1
  <2>3. ASSUME NEW b \in B PROVE b + Len(s) \in 1..(Len(s) + Len(t)) /\ (s \o t)[b + Len(s)] = h
    BY <1>1
  <2>4. QED
    BY <2>1, <2>2, <2>3
<1>3. A \cap C = {} /\ A \subseteq Int /\ B \subseteq Int
  BY <1>1
<1>4. A \in SUBSET (1..Len(s)) /\ B \in SUBSET (1..Len(t)) /\ \A c : c \in C <=> \E b \in B : c = b + Len(s)
  OBVIOUS
<1>5. Occurs(s, h) = Cardinality(A) /\ Occurs(t, h) = Cardinality(B) /\ Occurs(s \o t, h) = Cardinality(U)
  BY <1>1 DEF Occurs
<1> HIDE DEF A, B, C, U
<1>6. IsFiniteSet(A) /\ IsFiniteSet(B)
  <2>1. IsFiniteSet(1..Len(s)) /\ IsFiniteSet(1..Len(t))
    BY <1>1, FS_Interval
  <2>2. QED
    BY <1>4, <2>1, FS_Subset
<1>7. Cardinality(A \union C) = Cardinality(A) + Cardinality(B)
  <2>1. Len(s) \in Int
    BY <1>1
  <2>2. QED
    BY <1>3, <1>4, <1>6, <2>1, TwoParts
<1>8. QED
  BY <1>2, <1>5, <1>7

LEMMA OccursEmpty == \A h : Occurs(<<>>, h) = 0
BY OccursNever

LEMMA OccursSingle == \A x, h : Occurs(<<x>>, h) = Is(x, h)
<1> TAKE x, h
<1>1. CASE x = h
  <2>1. {i \in DOMAIN <<x>> : <<x>>[i] = h} = {1}
    BY <1>1
  <2>2. QED
    BY <1>1, <2>1, FS_Singleton DEF Occurs, Is
<1>2. CASE x /= h
  <2>1. {i \in DOMAIN <<x>> : <<x>>[i] = h} = {}
    BY <1>2
  <2>2. QED
    BY <1>2, <2>1, FS_EmptySet DEF Occurs, Is
<1>3. QED
  BY <1>1, <1>2

LEMMA Concatenation ==
    ASSUME NEW x, NEW T, NEW s \in Seq(T), x \in T
    PROVE  /\ <<x>> \o s \in Seq(T) /\ Len(<<x>> \o s) = Len(s) + 1 /\ (<<x>> \o s)[1] = x
           /\ \A i \in 1..Len(s) : (<<x>> \o s)[i + 1] = s[i]
<1>1. <<x>> \in Seq(T) /\ Len(<<x>>) = 1 /\ <<x>>[1] = x /\ Len(s) \in Nat
  BY LenProperties
<1>2. QED
  BY <1>1, ConcatProperties

LEMMA OccursPair == \A x, y, h : Occurs(<<x, y>>, h) = Is(x, h) + Is(y, h)
<1> TAKE x, y, h
<1>1. /\ <<x>> \in Seq({x, y}) /\ <<y>> \in Seq({x, y}) /\ <<x, y>> \in Seq({x, y}) /\ x \in {x, y}
      /\ Len(<<y>>) = 1 /\ Len(<<x, y>>) = 2
  OBVIOUS
<1>2. <<x, y>> = <<x>> \o <<y>>
  <2>1. Len(<<x>> \o <<y>>) = 2 /\ (<<x>> \o <<y>>)[1] = x /\ (<<x>> \o <<y>>)[2] = y
        /\ <<x>> \o <<y>> \in Seq({x, y})
    BY <1>1, Concatenation
  <2>2. \A i \in 1..2 : <<x, y>>[i] = (<<x>> \o <<y>>)[i]
    BY <2>1
  <2>3. QED
    BY <1>1, <2>1, <2>2, SeqEqual
<1>3. Occurs(<<x>> \o <<y>>, h) = Occurs(<<x>>, h) + Occurs(<<y>>, h)
  BY <1>1, OccursConcat
<1>4. Occurs(<<x>>, h) = Is(x, h) /\ Occurs(<<y>>, h) = Is(y, h)
  BY OccursSingle
<1>5. QED
  BY <1>2, <1>3, <1>4

LEMMA OccursTail ==
    ASSUME NEW T, NEW s \in Seq(T), s /= <<>>, NEW h
    PROVE  Tail(s) \in Seq(T) /\ Head(s) \in T /\ Occurs(Tail(s), h) = Occurs(s, h) - Is(Head(s), h)
<1>1. Tail(s) \in Seq(T) /\ Head(s) \in T /\ Len(Tail(s)) = Len(s) - 1 /\ Len(s) \in Nat
      /\ \A i \in 1..Len(Tail(s)) : Tail(s)[i] = s[i + 1]
  BY HeadTailProperties, LenProperties
<1>2. s = <<Head(s)>> \o Tail(s)
  <2>1. /\ <<Head(s)>> \o Tail(s) \in Seq(T) /\ Len(<<Head(s)>> \o Tail(s)) = Len(s)
        /\ (<<Head(s)>> \o Tail(s))[1] = Head(s)
        /\ \A i \in 1..Len(Tail(s)) : (<<Head(s)>> \o Tail(s))[i + 1] = Tail(s)[i]
    BY <1>1, Concatenation
  <2>2. ASSUME NEW i \in 1..Len(s) PROVE s[i] = (<<Head(s)>> \o Tail(s))[i]
    <3>1. CASE i = 1
      BY <2>1, <3>1
    <3>2. CASE i /= 1
      <4>1. i - 1 \in 1..Len(Tail(s)) /\ (i - 1) + 1 = i
        BY <1>1, <3>2
      <4>2. Tail(s)[i - 1] = s[i] /\ (<<Head(s)>> \o Tail(s))[i] = Tail(s)[i - 1]
        BY <1>1, <2>1, <4>1
      <4>3. QED
        BY <4>2
    <3>3. QED
      BY <3>1, <3>2
  <2>3. QED
    BY <2>1, <2>2, SeqEqual
<1>3. <<Head(s)>> \in Seq(T)
  BY <1>1
<1>4. Occurs(<<Head(s)>> \o Tail(s), h) = Is(Head(s), h) + Occurs(Tail(s), h)
  <2>1. Occurs(<<Head(s)>> \o Tail(s), h) = Occurs(<<Head(s)>>, h) + Occurs(Tail(s), h)
    BY <1>1, <1>3, OccursConcat
  <2>2. Occurs(<<Head(s)>>, h) = Is(Head(s), h)
    BY OccursSingle
  <2>3. QED
    BY <2>1, <2>2
<1>5. Occurs(Tail(s), h) \in Nat
  <2>1. DOMAIN Tail(s) = 1..Len(Tail(s)) /\ Len(Tail(s)) \in Int
    BY <1>1, LenProperties
  <2>2. IsFiniteSet(DOMAIN Tail(s))
    BY <2>1, FS_Interval
  <2>3. QED
    BY <2>2, OccursType
<1>6. Occurs(s, h) = Is(Head(s), h) + Occurs(Tail(s), h)
  BY <1>2, <1>4, Zenon
<1>7. QED
  BY <1>1, <1>5, <1>6 DEF Is

\* Arrays of arrays of which one is replaced.
LEMMA OccursInExcept ==
    ASSUME NEW S, NEW P, IsFiniteSet(S), IsFiniteSet(P), NEW F, NEW G, NEW s \in S, NEW f, NEW g,
           F[s] = f, G[s] = g, DOMAIN f = P, DOMAIN g = P, \A x \in S : x /= s => G[x] = F[x], NEW h
    PROVE  /\ OccursIn(F, S, P, h) \in Nat /\ Occurs(f, h) \in Nat /\ Occurs(g, h) \in Nat
           /\ OccursIn(G, S, P, h) = OccursIn(F, S, P, h) - Occurs(f, h) + Occurs(g, h)
<1> DEFINE Before == {p \in P : f[p] = h}
           After == {p \in P : g[p] = h}
           Rest == {sp \in S \X P : sp[1] /= s /\ F[sp[1]][sp[2]] = h}
           All == {sp \in S \X P : F[sp[1]][sp[2]] = h}
           AllAfter == {sp \in S \X P : G[sp[1]][sp[2]] = h}
<1>1. All = Rest \union ({s} \X Before) /\ AllAfter = Rest \union ({s} \X After)
  OBVIOUS
<1>2. Rest \cap ({s} \X Before) = {} /\ Rest \cap ({s} \X After) = {}
  OBVIOUS
<1>3. Rest \in SUBSET (S \X P) /\ Before \in SUBSET P /\ After \in SUBSET P
  OBVIOUS
<1>4. Occurs(f, h) = Cardinality(Before) /\ Occurs(g, h) = Cardinality(After)
  BY DEF Occurs
<1>5. OccursIn(F, S, P, h) = Cardinality(All) /\ OccursIn(G, S, P, h) = Cardinality(AllAfter)
  BY DEF OccursIn
<1> HIDE DEF Before, After, Rest, All, AllAfter
<1>6. IsFiniteSet(Before) /\ IsFiniteSet(After) /\ IsFiniteSet(Rest)
  BY <1>3, FS_Subset, FS_Product
<1>7. Cardinality(Before) \in Nat /\ Cardinality(After) \in Nat /\ Cardinality(Rest) \in Nat
  BY <1>6, FS_CardinalityType
<1>8. ASSUME NEW A, IsFiniteSet(A), Rest \cap ({s} \X A) = {}, Cardinality(A) \in Nat
      PROVE  Cardinality(Rest \union ({s} \X A)) = Cardinality(Rest) + Cardinality(A)
  <2>1. IsFiniteSet({s}) /\ Cardinality({s}) = 1
    BY FS_Singleton
  <2>2. IsFiniteSet({s} \X A) /\ Cardinality({s} \X A) = Cardinality(A)
    BY <1>8, <2>1, FS_Product
  <2>3. Cardinality(Rest \union ({s} \X A)) = Cardinality(Rest) + Cardinality({s} \X A) - Cardinality({})
    BY <1>6, <1>8, <2>2, FS_Union
  <2>4. QED
    BY <1>7, <1>8, <2>2, <2>3, FS_EmptySet
<1>9. Cardinality(All) = Cardinality(Rest) + Cardinality(Before)
  BY <1>1, <1>2, <1>6, <1>7, <1>8
<1>10. Cardinality(AllAfter) = Cardinality(Rest) + Cardinality(After)
  BY <1>1, <1>2, <1>6, <1>7, <1>8
<1>11. QED
  BY <1>4, <1>5, <1>7, <1>9, <1>10

-----------------------------------------------------------------------------
\* The references to a handle, by where they are.
HeldRefs(h) == IF h \in held THEN 1 ELSE 0
BoundRefs(h) == OccursIn(bound, Stmt, Param, h)
ColumnRefs(h) == Occurs(column, h)
RowRefs(h) == OccursIn(row, Var, Row, h)
Dependents == {g \in Handle \ {Conn} : Open(g)}
ConnRefs(h) == IF h = Conn THEN Cardinality(Dependents) ELSE 0
PendingRefs(h) == Occurs(pending, h)
RefParts(h) == HeldRefs(h) + BoundRefs(h) + ColumnRefs(h) + RowRefs(h) + ConnRefs(h) + PendingRefs(h)

\* Nothing leaks, and the decoder gives nothing back that it has only borrowed.
Exact == ~DefineMayFail /\ ~(LobColumn /\ NonNullLobs)

\* The counts suffice for the references there are and for those a re-execution
\* has added, or are their number.
Counted ==
    \A h \in Handle : /\ h \notin Lob => refs[h] >= RefParts(h) + Extra(h)
                      /\ Exact => refs[h] = RefParts(h) + Extra(h)

\* A handle is open as long as its count is not 0.
LiveCounts == \A h \in Handle : refs[h] > 0 <=> Open(h)

\* A handle that is not open points at nothing.
ClosedEmpty ==
    /\ \A s \in Stmt : ~Open(s) => column[s] = None /\ \A p \in Param : bound[s][p] = None
    /\ \A v \in Var : ~Open(v) => \A r \in Row : row[v][r] = None

\* The row that is decoded is one of a statement of the caller's that has a
\* column the row was fetched into.
Ready ==
    /\ \A s \in Stmt : s \in held \/ New(s) =>
          cursor[s] <= rowsIn[s]
    /\ decoding /= None => decoding \in held /\ cursor[decoding] > 0 /\ column[decoding] /= None

ListedOpen == \A h \in openStmts \union openLobs : Open(h)

HandleInv == TypeOK /\ Counted /\ LiveCounts /\ ClosedEmpty /\ Ready /\ ListedOpen

-----------------------------------------------------------------------------
LEMMA Finiteness ==
    /\ IsFiniteSet(Stmt) /\ IsFiniteSet(Var) /\ IsFiniteSet(Param) /\ IsFiniteSet(Row) /\ IsFiniteSet(Handle)
    /\ Params \in Nat /\ Rows \in Nat \ {0} /\ 1 \in Row
<1>1. IsFiniteSet({Conn} \union Stmt)
  BY HandleAssumption, FS_Union, FS_Singleton
<1>2. IsFiniteSet({Conn} \union Stmt \union Var)
  BY <1>1, HandleAssumption, FS_Union
<1>3. IsFiniteSet(({Conn} \union Stmt \union Var) \union Lob)
  BY <1>2, HandleAssumption, FS_Union
<1>4. IsFiniteSet(1..Params) /\ IsFiniteSet(1..Rows) /\ Params \in Nat /\ Rows \in Nat \ {0} /\ 1 \in 1..Rows
  BY SizeAssumption, FS_Interval
<1>5. QED
  BY <1>3, <1>4, HandleAssumption DEF Handle, Param, Row

LEMMA PartTypes ==
    ASSUME TypeOK, NEW h
    PROVE  /\ HeldRefs(h) \in Nat /\ BoundRefs(h) \in Nat /\ ColumnRefs(h) \in Nat /\ RowRefs(h) \in Nat
           /\ ConnRefs(h) \in Nat /\ PendingRefs(h) \in Nat
<1>1. HeldRefs(h) \in Nat
  BY DEF HeldRefs
<1>2. BoundRefs(h) \in Nat
  <2>1. {sp \in Stmt \X Param : bound[sp[1]][sp[2]] = h} \in SUBSET (Stmt \X Param)
    OBVIOUS
  <2>2. IsFiniteSet(Stmt \X Param)
    BY Finiteness, FS_Product
  <2>3. QED
    BY <2>1, <2>2, FS_Subset, FS_CardinalityType DEF BoundRefs, OccursIn
<1>3. RowRefs(h) \in Nat
  <2>1. {sp \in Var \X Row : row[sp[1]][sp[2]] = h} \in SUBSET (Var \X Row)
    OBVIOUS
  <2>2. IsFiniteSet(Var \X Row)
    BY Finiteness, FS_Product
  <2>3. QED
    BY <2>1, <2>2, FS_Subset, FS_CardinalityType DEF RowRefs, OccursIn
<1>4. ColumnRefs(h) \in Nat
  <2>1. DOMAIN column = Stmt
    BY DEF TypeOK
  <2>2. QED
    BY <2>1, Finiteness, OccursType DEF ColumnRefs
<1>5. ConnRefs(h) \in Nat
  <2>1. Dependents \in SUBSET Handle
    BY DEF Dependents
  <2>2. QED
    BY <2>1, Finiteness, FS_Subset, FS_CardinalityType DEF ConnRefs
<1>6. PendingRefs(h) \in Nat
  <2>1. DOMAIN pending = 1..Len(pending) /\ Len(pending) \in Int
    BY LenProperties DEF TypeOK
  <2>2. IsFiniteSet(DOMAIN pending)
    BY <2>1, FS_Interval
  <2>3. QED
    BY <2>2, OccursType DEF PendingRefs
<1>7. QED
  BY <1>1, <1>2, <1>3, <1>4, <1>5, <1>6

\* The references are the sum of the parts.
LEMMA ReferencesAreParts ==
    ASSUME TypeOK, NEW h
    PROVE  References(h) = RefParts(h)
<1>1. Cardinality({g \in held : g = h}) = HeldRefs(h)
  <2>1. {g \in held : g = h} = IF h \in held THEN {h} ELSE {}
    OBVIOUS
  <2>2. QED
    BY <2>1, FS_Singleton, FS_EmptySet DEF HeldRefs
<1>2. Cardinality({s \in Stmt : column[s] = h}) = ColumnRefs(h)
  <2>1. DOMAIN column = Stmt
    BY DEF TypeOK
  <2>2. QED
    BY <2>1 DEF ColumnRefs, Occurs
<1>3. Cardinality({g \in Handle \ {Conn} : h = Conn /\ Open(g)}) = ConnRefs(h)
  <2>1. {g \in Handle \ {Conn} : h = Conn /\ Open(g)} = IF h = Conn THEN Dependents ELSE {}
    BY DEF Dependents
  <2>2. QED
    BY <2>1, FS_EmptySet DEF ConnRefs
<1>4. QED
  BY <1>1, <1>2, <1>3 DEF References, RefParts, BoundRefs, RowRefs, OccursIn, PendingRefs, Occurs

-----------------------------------------------------------------------------
\* How a step changes each part.

LEMMA BoundReplaced ==
    ASSUME TypeOK, NEW s \in Stmt, NEW f, DOMAIN f = Param, NEW h,
           bound'[s] = f, \A x \in Stmt : x /= s => bound'[x] = bound[x]
    PROVE  /\ BoundRefs(h)' = BoundRefs(h) - Occurs(bound[s], h) + Occurs(f, h)
           /\ Occurs(bound[s], h) \in Nat /\ Occurs(f, h) \in Nat
<1> DEFINE G == bound'
           e == bound[s]
<1>1. bound[s] = e /\ G[s] = f /\ \A x \in Stmt : x /= s => G[x] = bound[x]
  OBVIOUS
<1>2. s \in Stmt /\ DOMAIN f = Param /\ DOMAIN e = Param /\ IsFiniteSet(Stmt) /\ IsFiniteSet(Param)
  BY Finiteness DEF TypeOK
<1>3. BoundRefs(h)' = OccursIn(G, Stmt, Param, h)
  BY DEF BoundRefs
<1> HIDE DEF G, e
<1>4. /\ OccursIn(G, Stmt, Param, h) = OccursIn(bound, Stmt, Param, h) - Occurs(e, h) + Occurs(f, h)
      /\ Occurs(e, h) \in Nat /\ Occurs(f, h) \in Nat
  BY ONLY <1>1, <1>2, OccursInExcept
<1>5. QED
  BY <1>1, <1>3, <1>4 DEF BoundRefs

LEMMA BoundOnce ==
    ASSUME TypeOK, NEW s \in Stmt, NEW p \in Param, NEW v \in Var \union {None},
           bound' = [bound EXCEPT ![s][p] = v], NEW h
    PROVE  BoundRefs(h)' = BoundRefs(h) - Is(bound[s][p], h) + Is(v, h)
<1> DEFINE f == [bound[s] EXCEPT ![p] = v]
<1>1. bound[s] \in [Param -> Var \union {None}] /\ DOMAIN f = Param
      /\ bound'[s] = f /\ \A x \in Stmt : x /= s => bound'[x] = bound[x]
  BY DEF TypeOK
<1>2. Occurs(f, h) = Occurs(bound[s], h) - Is(bound[s][p], h) + Is(v, h)
  <2>1. IsFiniteSet(DOMAIN bound[s]) /\ DOMAIN f = DOMAIN bound[s] /\ p \in DOMAIN bound[s]
    BY <1>1, Finiteness
  <2>2. f[p] = v /\ \A q \in DOMAIN bound[s] : q /= p => f[q] = bound[s][q]
    BY <1>1
  <2> HIDE DEF f
  <2>3. QED
    BY <2>1, <2>2, OccursExcept
<1> HIDE DEF f
<1>3. /\ BoundRefs(h)' = BoundRefs(h) - Occurs(bound[s], h) + Occurs(f, h)
      /\ Occurs(bound[s], h) \in Nat /\ Occurs(f, h) \in Nat
  BY <1>1, BoundReplaced
<1>4. QED
  BY <1>2, <1>3, PartTypes, IsType

LEMMA ColumnReplaced ==
    ASSUME TypeOK, NEW s \in Stmt, NEW v, column' = [column EXCEPT ![s] = v], NEW h
    PROVE  ColumnRefs(h)' = ColumnRefs(h) - Is(column[s], h) + Is(v, h)
<1> DEFINE g == column'
<1>1. IsFiniteSet(DOMAIN column) /\ DOMAIN g = DOMAIN column /\ s \in DOMAIN column
  BY Finiteness DEF TypeOK
<1>2. g[s] = v /\ \A x \in DOMAIN column : x /= s => g[x] = column[x]
  BY DEF TypeOK
<1>3. ColumnRefs(h)' = Occurs(g, h)
  BY DEF ColumnRefs
<1> HIDE DEF g
<1>4. Occurs(g, h) = Occurs(column, h) - Is(column[s], h) + Is(g[s], h)
  BY <1>1, <1>2, OccursExcept
<1>5. QED
  BY <1>2, <1>3, <1>4 DEF ColumnRefs

LEMMA RowsReplaced ==
    ASSUME TypeOK, NEW v \in Var, NEW f, DOMAIN f = Row, NEW h,
           row'[v] = f, \A x \in Var : x /= v => row'[x] = row[x]
    PROVE  /\ RowRefs(h)' = RowRefs(h) - Occurs(row[v], h) + Occurs(f, h)
           /\ Occurs(row[v], h) \in Nat /\ Occurs(f, h) \in Nat
<1> DEFINE G == row'
           e == row[v]
<1>1. row[v] = e /\ G[v] = f /\ \A x \in Var : x /= v => G[x] = row[x]
  OBVIOUS
<1>2. v \in Var /\ DOMAIN f = Row /\ DOMAIN e = Row /\ IsFiniteSet(Var) /\ IsFiniteSet(Row)
  BY Finiteness DEF TypeOK
<1>3. RowRefs(h)' = OccursIn(G, Var, Row, h)
  BY DEF RowRefs
<1> HIDE DEF G, e
<1>4. /\ OccursIn(G, Var, Row, h) = OccursIn(row, Var, Row, h) - Occurs(e, h) + Occurs(f, h)
      /\ Occurs(e, h) \in Nat /\ Occurs(f, h) \in Nat
  BY ONLY <1>1, <1>2, OccursInExcept
<1>5. QED
  BY <1>1, <1>3, <1>4 DEF RowRefs

\* An allocation of handles that are new, with the counts they are left with.
Allocation(news, counts) ==
    /\ news \in SUBSET (Handle \ {Conn}) /\ Allocated(news, counts)
    /\ \A n \in news : New(n) /\ counts[n] \in Nat \ {0}

\* What is allocated has the counts it was given, and one more depends on the
\* connection.
LEMMA AllocatedParts ==
    ASSUME TypeOK, LiveCounts, NEW news, NEW counts, Allocation(news, counts), NEW h \in Handle
    PROVE  /\ h \in news => refs[h] = 0 /\ refs'[h] = counts[h] /\ ConnRefs(h)' = ConnRefs(h)
           /\ h \notin news => refs'[h] - refs[h] = ConnRefs(h)' - ConnRefs(h)
           /\ refs'[h] \in Nat /\ ConnRefs(h)' \in Nat /\ state'[h] \in {"none", "open", "freed"}
           /\ h \in news => state'[h] = "open"
           /\ h \notin news => state'[h] = state[h]
           /\ h \notin news /\ h /= Conn => refs'[h] = refs[h]
           /\ refs' \in [Handle -> Nat] /\ state' \in [Handle -> {"none", "open", "freed"}]
           /\ refs'[Conn] = refs[Conn] + Cardinality(news) /\ Cardinality(news) \in Nat
<1> /\ news \in SUBSET (Handle \ {Conn}) /\ Allocated(news, counts)
    /\ \A n \in news : New(n) /\ counts[n] \in Nat \ {0}
  BY DEF Allocation
<1>1. Dependents' = Dependents \union news /\ Dependents \cap news = {}
  BY DEF Dependents, Open, New, Allocated
<1>2. Dependents \in SUBSET Handle /\ news \in SUBSET Handle
  BY DEF Dependents
<1>3. IsFiniteSet(Dependents) /\ IsFiniteSet(news)
  BY <1>2, Finiteness, FS_Subset
<1>4. Cardinality(Dependents) \in Nat /\ Cardinality(news) \in Nat
  BY <1>3, FS_CardinalityType
<1>5. Cardinality(Dependents') = Cardinality(Dependents) + Cardinality(news)
  <2>1. Cardinality(Dependents \union news)
            = Cardinality(Dependents) + Cardinality(news) - Cardinality(Dependents \cap news)
    BY <1>3, FS_Union
  <2>2. Cardinality(Dependents') = Cardinality(Dependents) + Cardinality(news) - Cardinality({})
    BY <1>1, <2>1
  <2>3. QED
    BY <1>4, <2>2, FS_EmptySet
<1>6. Conn \in Handle
  BY DEF Handle
<1>7. refs \in [Handle -> Nat] /\ state \in [Handle -> {"none", "open", "freed"}]
  BY DEF TypeOK
<1>8. h \in news => refs[h] = 0
  BY <1>7 DEF LiveCounts, New, Open
<1>9. refs' \in [Handle -> Nat] /\ state' \in [Handle -> {"none", "open", "freed"}]
  BY <1>4, <1>6, <1>7 DEF Allocated
<1>10. h \in news => refs'[h] = counts[h] /\ state'[h] = "open"
  BY DEF Allocated
<1>11. h \notin news => state'[h] = state[h]
       /\ refs'[h] = IF h = Conn THEN refs[h] + Cardinality(news) ELSE refs[h]
  BY DEF Allocated
<1>12. refs'[Conn] = refs[Conn] + Cardinality(news)
  BY <1>6 DEF Allocated
<1>13. ConnRefs(h)' = ConnRefs(h) + IF h = Conn THEN Cardinality(news) ELSE 0
  BY <1>4, <1>5 DEF ConnRefs
<1>14. ConnRefs(h) \in Nat /\ ConnRefs(h)' \in Nat
  BY <1>4, <1>5 DEF ConnRefs
<1>15. QED
  BY <1>4, <1>7, <1>8, <1>9, <1>10, <1>11, <1>12, <1>13, <1>14

LEMMA FreedParts ==
    ASSUME TypeOK, NEW g \in Handle \ {Conn}, Open(g), state' = [state EXCEPT ![g] = "freed"], NEW h
    PROVE  ConnRefs(h)' = ConnRefs(h) - Is(Conn, h)
<1>1. Dependents' = Dependents \ {g} /\ g \in Dependents /\ Dependents \in SUBSET Handle
  BY DEF Dependents, Open, TypeOK
<1>2. IsFiniteSet(Dependents) /\ Cardinality(Dependents) \in Nat
  BY <1>1, Finiteness, FS_Subset, FS_CardinalityType
<1>3. Cardinality(Dependents') = Cardinality(Dependents) - 1
  BY <1>1, <1>2, FS_RemoveElement
<1>4. QED
  BY <1>2, <1>3 DEF ConnRefs, Is

\* What is left alone keeps its references.
LEMMA Unmoved ==
    ASSUME NEW h
    PROVE  /\ held' = held => HeldRefs(h)' = HeldRefs(h)
           /\ bound' = bound => BoundRefs(h)' = BoundRefs(h)
           /\ column' = column => ColumnRefs(h)' = ColumnRefs(h)
           /\ row' = row => RowRefs(h)' = RowRefs(h)
           /\ state' = state => ConnRefs(h)' = ConnRefs(h)
           /\ pending' = pending => PendingRefs(h)' = PendingRefs(h)
<1>1. held' = held => HeldRefs(h)' = HeldRefs(h)
  BY DEF HeldRefs
<1>2. bound' = bound => BoundRefs(h)' = BoundRefs(h)
  BY DEF BoundRefs
<1>3. column' = column => ColumnRefs(h)' = ColumnRefs(h)
  BY DEF ColumnRefs
<1>4. row' = row => RowRefs(h)' = RowRefs(h)
  BY DEF RowRefs
<1>5. state' = state => ConnRefs(h)' = ConnRefs(h)
  BY DEF ConnRefs, Dependents, Open
<1>6. pending' = pending => PendingRefs(h)' = PendingRefs(h)
  BY DEF PendingRefs
<1>7. QED
  BY <1>1, <1>2, <1>3, <1>4, <1>5, <1>6

LEMMA HeldChanges ==
    ASSUME NEW x, NEW h
    PROVE  /\ x \notin held /\ held' = held \union {x} => HeldRefs(h)' = HeldRefs(h) + Is(x, h)
           /\ x \in held /\ held' = held \ {x} => HeldRefs(h)' = HeldRefs(h) - Is(x, h)
BY DEF HeldRefs, Is

LEMMA PendingStarts ==
    ASSUME NEW h
    PROVE  /\ pending = <<>> => PendingRefs(h) = 0
           /\ pending' = <<>> => PendingRefs(h)' = 0
           /\ \A x : pending' = <<x>> => PendingRefs(h)' = Is(x, h)
           /\ \A x, y : pending' = <<x, y>> => PendingRefs(h)' = Is(x, h) + Is(y, h)
BY OccursEmpty, OccursSingle, OccursPair DEF PendingRefs

\* The head of the stack is replaced by what it releases.
LEMMA PendingContinues ==
    ASSUME TypeOK, pending /= <<>>, NEW releases \in Seq(Handle \union {None}), NEW h,
           pending' = releases \o Tail(pending)
    PROVE  /\ PendingRefs(h)' = PendingRefs(h) - Is(Head(pending), h) + Occurs(releases, h)
           /\ Occurs(releases, h) \in Nat /\ pending' \in Seq(Handle \union {None})
<1>1. pending \in Seq(Handle \union {None})
  BY DEF TypeOK
<1>2. Tail(pending) \in Seq(Handle \union {None}) /\ Occurs(Tail(pending), h) = Occurs(pending, h) - Is(Head(pending), h)
  BY <1>1, OccursTail
<1>3. Occurs(releases \o Tail(pending), h) = Occurs(releases, h) + Occurs(Tail(pending), h)
  BY <1>2, OccursConcat
<1>4. Occurs(releases, h) \in Nat
  <2>1. DOMAIN releases = 1..Len(releases) /\ Len(releases) \in Int
    BY LenProperties
  <2>2. IsFiniteSet(DOMAIN releases)
    BY <2>1, FS_Interval
  <2>3. QED
    BY <2>2, OccursType
<1>5. PendingRefs(h) \in Nat
  BY PartTypes
<1>6. pending' \in Seq(Handle \union {None})
  BY <1>2, ConcatProperties
<1>7. PendingRefs(h)' = Occurs(releases \o Tail(pending), h)
  BY DEF PendingRefs
<1>8. PendingRefs(h) = Occurs(pending, h)
  BY DEF PendingRefs
<1>9. QED
  BY ONLY <1>2, <1>3, <1>4, <1>5, <1>6, <1>7, <1>8, IsType

LEMMA PendingDrops ==
    ASSUME TypeOK, pending /= <<>>, NEW h, pending' = Tail(pending)
    PROVE  /\ PendingRefs(h)' = PendingRefs(h) - Is(Head(pending), h)
           /\ pending' \in Seq(Handle \union {None})
<1>1. pending \in Seq(Handle \union {None})
  BY DEF TypeOK
<1>2. QED
  BY <1>1, OccursTail DEF PendingRefs

PartsTyped ==
    \A h : /\ HeldRefs(h) \in Nat /\ BoundRefs(h) \in Nat /\ ColumnRefs(h) \in Nat /\ RowRefs(h) \in Nat
          /\ ConnRefs(h) \in Nat /\ PendingRefs(h) \in Nat

LEMMA AlwaysTyped == TypeOK => PartsTyped
BY PartTypes DEF PartsTyped

LEMMA TypedAfter == TypeOK' => PartsTyped'
BY AlwaysTyped, PTL

LEMMA PartTypesAfter ==
    ASSUME TypeOK', NEW h
    PROVE  /\ HeldRefs(h)' \in Nat /\ BoundRefs(h)' \in Nat /\ ColumnRefs(h)' \in Nat /\ RowRefs(h)' \in Nat
           /\ ConnRefs(h)' \in Nat /\ PendingRefs(h)' \in Nat
BY TypedAfter DEF PartsTyped

LEMMA ExtraType == ASSUME TypeOK, NEW h PROVE Extra(h) \in Nat
BY DEF Extra, TypeOK

\* A step that changes counts and references alike keeps them counted.
LEMMA Balanced ==
    ASSUME TypeOK, TypeOK', Counted, extra' = extra,
           \A h \in Handle : /\ h \notin Lob => refs'[h] - refs[h] >= RefParts(h)' - RefParts(h)
                             /\ Exact => refs'[h] - refs[h] = RefParts(h)' - RefParts(h)
    PROVE  Counted'
<1> SUFFICES ASSUME NEW h \in Handle
             PROVE  /\ h \notin Lob => refs'[h] >= RefParts(h)' + Extra(h)
                    /\ Exact => refs'[h] = RefParts(h)' + Extra(h)
  BY DEF Counted, Exact, Extra
<1>1. refs[h] \in Nat /\ refs'[h] \in Nat
  BY DEF TypeOK
<1>2. RefParts(h) \in Nat /\ RefParts(h)' \in Nat
  BY PartTypes, PartTypesAfter DEF RefParts
<1>3. Extra(h) \in Nat
  BY ExtraType
<1>4. QED
  BY <1>1, <1>2, <1>3 DEF Counted

LEMMA BalancedExactly ==
    ASSUME TypeOK, TypeOK', Counted, extra' = extra,
           \A h \in Handle : refs'[h] - refs[h] = RefParts(h)' - RefParts(h)
    PROVE  Counted'
<1>1. \A h \in Handle : refs[h] \in Nat /\ refs'[h] \in Nat
  BY DEF TypeOK
<1>2. \A h \in Handle : RefParts(h) \in Nat /\ RefParts(h)' \in Nat
  BY PartTypes, PartTypesAfter DEF RefParts
<1>3. QED
  BY <1>1, <1>2, Balanced

\* What is referred to is open, but for a LOB the decoder has given back.
LEMMA Referenced ==
    ASSUME TypeOK, Counted, LiveCounts, NEW h \in Handle, RefParts(h) > 0, h \notin Lob \/ Exact
    PROVE  Open(h)
<1>1. refs[h] \in Nat /\ Extra(h) \in Nat
  BY ExtraType DEF TypeOK
<1>2. RefParts(h) \in Nat
  BY PartTypes DEF RefParts
<1>3. QED
  BY <1>1, <1>2 DEF Counted, LiveCounts

LEMMA HeldOpen ==
    ASSUME TypeOK, Counted, LiveCounts, NEW h \in held
    PROVE  Open(h) /\ h \in Handle
<1>1. h \in Handle /\ h \notin Lob
  BY HandleAssumption DEF TypeOK, Handle
<1>2. RefParts(h) > 0
  BY PartTypes DEF RefParts, HeldRefs
<1>3. QED
  BY <1>1, <1>2, Referenced

LEMMA ColumnOpen ==
    ASSUME TypeOK, Counted, LiveCounts, NEW s \in Stmt, column[s] /= None
    PROVE  Open(column[s]) /\ column[s] \in Var
<1>1. column[s] \in Var /\ column[s] \in Handle /\ column[s] \notin Lob /\ DOMAIN column = Stmt
  BY HandleAssumption DEF TypeOK, Handle
<1>2. ColumnRefs(column[s]) /= 0
  BY <1>1, Finiteness, OccursSomewhere DEF ColumnRefs
<1>3. RefParts(column[s]) > 0
  BY <1>2, PartTypes DEF RefParts
<1>4. QED
  BY <1>1, <1>3, Referenced

\* A place that refers to a handle counts.
LEMMA SomewhereCounts ==
    ASSUME TypeOK, NEW h
    PROVE  /\ h \in held => HeldRefs(h) > 0
           /\ (\E s \in Stmt, p \in Param : bound[s][p] = h) => BoundRefs(h) > 0
           /\ (\E s \in Stmt : column[s] = h) => ColumnRefs(h) > 0
           /\ (\E v \in Var, r \in Row : row[v][r] = h) => RowRefs(h) > 0
           /\ (\E i \in DOMAIN pending : pending[i] = h) => PendingRefs(h) > 0
<1>1. h \in held => HeldRefs(h) > 0
  BY DEF HeldRefs
<1>2. ASSUME NEW F, NEW S, NEW P, IsFiniteSet(S), IsFiniteSet(P), NEW s \in S, NEW p \in P, F[s][p] = h
      PROVE  OccursIn(F, S, P, h) /= 0
  <2> DEFINE A == {sp \in S \X P : F[sp[1]][sp[2]] = h}
  <2>1. A \in SUBSET (S \X P) /\ <<s, p>> \in A
    BY <1>2
  <2>2. OccursIn(F, S, P, h) = Cardinality(A)
    BY DEF OccursIn
  <2> HIDE DEF A
  <2>3. IsFiniteSet(S \X P)
    BY <1>2, FS_Product
  <2>4. IsFiniteSet(A)
    BY <2>1, <2>3, FS_Subset
  <2>5. QED
    BY <2>1, <2>2, <2>4, FS_EmptySet
<1>3. (\E s \in Stmt, p \in Param : bound[s][p] = h) => BoundRefs(h) > 0
  BY <1>2, Finiteness, PartTypes DEF BoundRefs
<1>4. (\E v \in Var, r \in Row : row[v][r] = h) => RowRefs(h) > 0
  BY <1>2, Finiteness, PartTypes DEF RowRefs
<1>5. (\E s \in Stmt : column[s] = h) => ColumnRefs(h) > 0
  <2>1. DOMAIN column = Stmt
    BY DEF TypeOK
  <2>2. QED
    BY <2>1, Finiteness, OccursSomewhere, PartTypes DEF ColumnRefs
<1>6. (\E i \in DOMAIN pending : pending[i] = h) => PendingRefs(h) > 0
  <2>1. DOMAIN pending = 1..Len(pending) /\ Len(pending) \in Int
    BY LenProperties DEF TypeOK
  <2>2. IsFiniteSet(DOMAIN pending)
    BY <2>1, FS_Interval
  <2>3. QED
    BY <2>2, OccursSomewhere, PartTypes DEF PendingRefs
<1>7. QED
  BY <1>1, <1>3, <1>4, <1>5, <1>6

\* The connection outlives what is allocated through it.
LEMMA ConnOpen ==
    ASSUME TypeOK, Counted, LiveCounts, NEW g \in Handle, Open(g)
    PROVE  Open(Conn)
<1>1. CASE g = Conn
  BY <1>1
<1>2. CASE g /= Conn
  <2>1. g \in Dependents /\ Dependents \in SUBSET Handle
    BY <1>2 DEF Dependents
  <2>2. IsFiniteSet(Dependents) /\ Cardinality(Dependents) /= 0
    <3>1. IsFiniteSet(Dependents)
      BY <2>1, Finiteness, FS_Subset
    <3>2. QED
      BY <2>1, <3>1, FS_EmptySet
  <2>3. ConnRefs(Conn) \in Nat /\ ConnRefs(Conn) /= 0
    BY <2>2, PartTypes DEF ConnRefs
  <2>4. RefParts(Conn) > 0
    BY <2>3, PartTypes DEF RefParts
  <2>5. Conn \in Handle /\ Conn \notin Lob
    BY HandleAssumption DEF Handle
  <2>6. QED
    BY <2>4, <2>5, Referenced
<1>3. QED
  BY <1>1, <1>2

LEMMA Kinds ==
    /\ Conn \in Handle /\ None \notin Handle
    /\ Conn \notin Stmt /\ Conn \notin Var /\ Conn \notin Lob
    /\ \A s \in Stmt : s \in Handle \ {Conn} /\ s \notin Var /\ s \notin Lob
    /\ \A v \in Var : v \in Handle \ {Conn} /\ v \notin Stmt /\ v \notin Lob
    /\ \A l \in Lob : l \in Handle \ {Conn} /\ l \notin Stmt /\ l \notin Var
BY HandleAssumption DEF Handle

LEMMA AllocatedKeeps ==
    ASSUME TypeOK, LiveCounts, Open(Conn), NEW news, NEW counts, Allocation(news, counts)
    PROVE  /\ LiveCounts' /\ \A h \in Handle : (Open(h)' <=> Open(h) \/ h \in news) /\ (New(h)' => New(h))
           /\ refs' \in [Handle -> Nat] /\ state' \in [Handle -> {"none", "open", "freed"}]
<1>1. ASSUME NEW h \in Handle PROVE (refs'[h] > 0 <=> Open(h)') /\ (Open(h)' <=> Open(h) \/ h \in news)
  <2>1. CASE h \in news
    <3>1. refs'[h] = counts[h] /\ state'[h] = "open" /\ counts[h] \in Nat \ {0}
      BY <2>1, AllocatedParts DEF Allocation
    <3>2. QED
      BY <2>1, <3>1 DEF Open
  <2>2. CASE h = Conn
    <3> Conn \notin news
      BY DEF Allocation
    <3>1. refs'[h] = refs[h] + Cardinality(news) /\ Cardinality(news) \in Nat /\ state'[h] = state[h]
      BY <2>2, AllocatedParts
    <3>2. refs[h] > 0 /\ refs[h] \in Nat
      BY <2>2 DEF LiveCounts, TypeOK
    <3>3. QED
      BY <2>2, <3>1, <3>2 DEF Open
  <2>3. CASE h \notin news /\ h /= Conn
    <3>1. refs'[h] = refs[h] /\ state'[h] = state[h]
      BY <2>3, AllocatedParts
    <3>2. QED
      BY <2>3, <3>1 DEF LiveCounts, Open
  <2>4. QED
    BY <2>1, <2>2, <2>3
<1>2. Conn \in Handle
  BY Kinds
<1>3. ASSUME NEW h \in Handle, New(h)' PROVE New(h)
  BY <1>3 DEF New, Allocated, Allocation
<1>4. QED
  BY <1>1, <1>2, <1>3, AllocatedParts DEF LiveCounts

-----------------------------------------------------------------------------
\* Every step keeps the invariant: the calls.

LEMMA ConnectKeeps == ASSUME HandleInv, extra' = extra, Connect PROVE HandleInv'
<1>1. TypeOK /\ Counted /\ LiveCounts /\ ClosedEmpty /\ Ready /\ ListedOpen
  BY DEF HandleInv
<1>2. /\ pending = <<>> /\ decoding = None /\ state[Conn] = "none"
      /\ state' = [state EXCEPT ![Conn] = "open"] /\ refs' = [refs EXCEPT ![Conn] = 1] /\ held' = {Conn}
      /\ bound' = bound /\ column' = column /\ row' = row /\ openStmts' = openStmts /\ openLobs' = openLobs
      /\ executed' = executed /\ rowsIn' = rowsIn /\ cursor' = cursor /\ decoding' = decoding /\ pending' = pending
  BY DEF Connect, Idle, New, buffers
<1>3. \A h \in Handle : ~Open(h)
  BY <1>1, <1>2, ConnOpen DEF Open
<1>4. held = {}
  BY <1>1, <1>3, HeldOpen
<1>5. TypeOK'
  BY <1>1, <1>2, Kinds DEF TypeOK
<1>6. Counted'
  <2> SUFFICES ASSUME NEW h \in Handle
               PROVE  refs'[h] - refs[h] = RefParts(h)' - RefParts(h)
    BY <1>1, <1>5, BalancedExactly
  <2>1. refs[Conn] = 0 /\ refs[h] \in Nat
    BY <1>1, <1>3, Kinds DEF LiveCounts, TypeOK
  <2>2. refs'[h] - refs[h] = Is(Conn, h)
    BY <1>1, <1>2, <2>1 DEF TypeOK, Is
  <2>3. HeldRefs(h)' = HeldRefs(h) + Is(Conn, h)
    BY <1>2, <1>4 DEF HeldRefs, Is
  <2>4. ConnRefs(h)' = ConnRefs(h)
    <3>1. Dependents' = Dependents
      BY <1>1, <1>2 DEF Dependents, Open, TypeOK
    <3>2. QED
      BY <3>1 DEF ConnRefs
  <2>5. /\ BoundRefs(h)' = BoundRefs(h) /\ ColumnRefs(h)' = ColumnRefs(h) /\ RowRefs(h)' = RowRefs(h)
        /\ PendingRefs(h)' = PendingRefs(h)
    BY <1>2, Unmoved
  <2>6. /\ HeldRefs(h) \in Nat /\ BoundRefs(h) \in Nat /\ ColumnRefs(h) \in Nat /\ RowRefs(h) \in Nat
        /\ ConnRefs(h) \in Nat /\ PendingRefs(h) \in Nat
    BY <1>1, PartTypes
  <2>7. QED
    BY <2>2, <2>3, <2>4, <2>5, <2>6, IsType DEF RefParts
<1>7. LiveCounts'
  BY <1>1, <1>2 DEF LiveCounts, Open, TypeOK
<1>8. ClosedEmpty' /\ Ready' /\ ListedOpen'
  BY <1>1, <1>2, <1>3, Kinds DEF ClosedEmpty, Ready, ListedOpen, Open, New, TypeOK
<1>9. QED
  BY <1>5, <1>6, <1>7, <1>8 DEF HandleInv

\* The caller gives up a reference of its own.
LEMMA GivenUp ==
    ASSUME HandleInv, extra' = extra, Idle, NEW x \in held, held' = held \ {x}, pending' = <<x>>,
           UNCHANGED <<handles, buffers, decoding>>
    PROVE  HandleInv'
<1>1. TypeOK /\ Counted /\ LiveCounts /\ ClosedEmpty /\ Ready /\ ListedOpen
  BY DEF HandleInv
<1>2. /\ pending = <<>> /\ decoding = None
      /\ state' = state /\ refs' = refs /\ bound' = bound /\ column' = column /\ row' = row
      /\ openStmts' = openStmts /\ openLobs' = openLobs
      /\ executed' = executed /\ rowsIn' = rowsIn /\ cursor' = cursor /\ decoding' = decoding
  BY DEF Idle, handles, buffers
<1>3. TypeOK'
  BY <1>1, <1>2, Kinds DEF TypeOK
<1>4. Counted'
  <2> SUFFICES ASSUME NEW h \in Handle
               PROVE  refs'[h] - refs[h] = RefParts(h)' - RefParts(h)
    BY <1>1, <1>3, BalancedExactly
  <2>1. HeldRefs(h)' = HeldRefs(h) - Is(x, h) /\ PendingRefs(h) = 0 /\ PendingRefs(h)' = Is(x, h)
    BY <1>2, HeldChanges, PendingStarts
  <2>2. refs[h] \in Nat
    BY <1>1 DEF TypeOK
  <2>3. QED
    BY <1>1, <1>2, <2>1, <2>2, Unmoved, PartTypes, IsType DEF RefParts
<1>5. LiveCounts' /\ ClosedEmpty' /\ Ready' /\ ListedOpen'
  BY <1>1, <1>2 DEF LiveCounts, ClosedEmpty, Ready, ListedOpen, Open, New
<1>6. QED
  BY <1>3, <1>4, <1>5 DEF HandleInv

LEMMA DisconnectKeeps == ASSUME HandleInv, extra' = extra, Disconnect PROVE HandleInv'
BY GivenUp DEF Disconnect

LEMMA ReleaseKeeps == ASSUME HandleInv, extra' = extra, NEW s \in Stmt, Release(s) PROVE HandleInv'
BY GivenUp DEF Release

\* A statement that is new is allocated, whether the caller gets it or it is
\* released at once.
LEMMA StatementKeeps ==
    ASSUME HandleInv, extra' = extra, Idle, NEW s \in Stmt, Conn \in held, New(s), Allocated({s}, Once({s})),
           \/ openStmts' = openStmts \union {s} /\ held' = held \union {s} /\ pending' = pending
           \/ openStmts' = openStmts /\ held' = held /\ pending' = <<s>>,
           UNCHANGED <<bound, column, row, openLobs, buffers, decoding>>
    PROVE  HandleInv'
<1>1. TypeOK /\ Counted /\ LiveCounts /\ ClosedEmpty /\ Ready /\ ListedOpen
  BY DEF HandleInv
<1>2. /\ pending = <<>> /\ decoding = None /\ bound' = bound /\ column' = column /\ row' = row /\ openLobs' = openLobs
      /\ executed' = executed /\ rowsIn' = rowsIn /\ cursor' = cursor /\ decoding' = decoding
  BY DEF Idle, buffers
<1>3. Open(Conn) /\ s \notin held /\ ~Open(s)
  BY <1>1, HeldOpen DEF New, Open
<1>4. Allocation({s}, Once({s})) /\ Once({s})[s] = 1
  BY Kinds DEF Once, Allocation
<1>5. /\ LiveCounts' /\ \A h \in Handle : (Open(h)' <=> Open(h) \/ h \in {s}) /\ (New(h)' => New(h))
      /\ refs' \in [Handle -> Nat] /\ state' \in [Handle -> {"none", "open", "freed"}]
  BY <1>1, <1>3, <1>4, AllocatedKeeps
<1>6. TypeOK'
  <2>1. held' \subseteq {Conn} \union Stmt /\ openStmts' \subseteq Stmt /\ pending' \in Seq(Handle \union {None})
    <3>1. /\ held \subseteq {Conn} \union Stmt /\ openStmts \subseteq Stmt /\ pending \in Seq(Handle \union {None})
          /\ <<s>> \in Seq(Handle \union {None})
      BY <1>1, Kinds DEF TypeOK
    <3>2. CASE openStmts' = openStmts \union {s} /\ held' = held \union {s} /\ pending' = pending
      BY <3>1, <3>2
    <3>3. CASE openStmts' = openStmts /\ held' = held /\ pending' = <<s>>
      BY <3>1, <3>3
    <3>4. QED
      BY <3>2, <3>3
  <2>2. QED
    BY <1>1, <1>2, <1>5, <2>1 DEF TypeOK
<1>7. Counted'
  <2> SUFFICES ASSUME NEW h \in Handle
               PROVE  refs'[h] - refs[h] = RefParts(h)' - RefParts(h)
    BY <1>1, <1>6, BalancedExactly
  <2>1. refs'[h] - refs[h] = Is(s, h) + ConnRefs(h)' - ConnRefs(h) /\ ConnRefs(h)' \in Nat
    <3>1. CASE h = s
      BY <1>1, <1>4, <3>1, AllocatedParts DEF Is
    <3>2. CASE h /= s
      BY <1>1, <1>4, <3>2, AllocatedParts, PartTypes DEF Is
    <3>3. QED
      BY <3>1, <3>2
  <2>2. HeldRefs(h)' + PendingRefs(h)' = HeldRefs(h) + PendingRefs(h) + Is(s, h)
    BY <1>1, <1>2, <1>3, HeldChanges, PendingStarts, Unmoved, PartTypes, IsType
  <2>3. refs[h] \in Nat
    BY <1>1 DEF TypeOK
  <2>4. BoundRefs(h)' = BoundRefs(h) /\ ColumnRefs(h)' = ColumnRefs(h) /\ RowRefs(h)' = RowRefs(h)
    BY <1>2, Unmoved
  <2>5. HeldRefs(h)' \in Nat /\ PendingRefs(h)' \in Nat
    BY <1>6, PartTypesAfter
  <2>6. QED
    BY <1>1, <2>1, <2>2, <2>3, <2>4, <2>5, PartTypes, IsType DEF RefParts
<1>8. ClosedEmpty'
  BY <1>1, <1>2, <1>5, Kinds DEF ClosedEmpty
<1>9. Ready'
  <2>1. \A t \in Stmt : t \in held' \/ New(t)' => t \in held \/ New(t)
    BY <1>5, Kinds
  <2>2. QED
    BY <1>1, <1>2, <2>1 DEF Ready
<1>10. ListedOpen'
  BY <1>1, <1>2, <1>5, Kinds DEF ListedOpen, TypeOK
<1>11. QED
  BY <1>5, <1>6, <1>7, <1>8, <1>9, <1>10 DEF HandleInv

LEMMA PrepareKeeps == ASSUME HandleInv, extra' = extra, NEW s \in Stmt, Prepare(s) PROVE HandleInv'
BY StatementKeeps DEF Prepare

LEMMA PrepareFailsKeeps == ASSUME HandleInv, extra' = extra, NEW s \in Stmt, PrepareFails(s) PROVE HandleInv'
BY StatementKeeps DEF PrepareFails

LEMMA NullIsNothing == \A h \in Handle : Is(None, h) = 0
BY Kinds DEF Is

LEMMA BindKeeps ==
    ASSUME HandleInv, extra' = extra, NEW s \in Stmt, NEW p \in Param, NEW v \in Var, New(v), Bind(s, p, v)
    PROVE  HandleInv'
<1> DEFINE counts == [h \in {v} |-> 2]
           old == bound[s][p]
<1>1. TypeOK /\ Counted /\ LiveCounts /\ ClosedEmpty /\ Ready /\ ListedOpen
  BY DEF HandleInv
<1>2. /\ pending = <<>> /\ decoding = None /\ s \in held /\ Allocated({v}, counts)
      /\ bound' = [bound EXCEPT ![s][p] = v] /\ pending' = <<old, v>>
      /\ column' = column /\ row' = row /\ openStmts' = openStmts /\ openLobs' = openLobs
      /\ executed' = executed /\ rowsIn' = rowsIn /\ cursor' = cursor /\ decoding' = decoding /\ held' = held
  BY DEF Bind, Idle, buffers
<1>3. Open(s) /\ Open(Conn)
  BY <1>1, <1>2, HeldOpen, ConnOpen
<1>4. Allocation({v}, counts) /\ counts[v] = 2
  BY <1>2, Kinds DEF Allocation
<1>5. /\ LiveCounts' /\ \A h \in Handle : (Open(h)' <=> Open(h) \/ h \in {v}) /\ (New(h)' => New(h))
      /\ refs' \in [Handle -> Nat] /\ state' \in [Handle -> {"none", "open", "freed"}]
  BY <1>1, <1>3, <1>4, AllocatedKeeps
<1>6. TypeOK'
  <2>1. old \in Var \union {None} /\ bound' \in [Stmt -> [Param -> Var \union {None}]]
    BY <1>1, <1>2 DEF TypeOK
  <2>2. pending' \in Seq(Handle \union {None})
    BY <1>2, <2>1, Kinds
  <2>3. QED
    BY <1>1, <1>2, <1>5, <2>1, <2>2 DEF TypeOK
<1>7. Counted'
  <2> SUFFICES ASSUME NEW h \in Handle
               PROVE  refs'[h] - refs[h] = RefParts(h)' - RefParts(h)
    BY <1>1, <1>6, BalancedExactly
  <2>1. refs'[h] - refs[h] = Is(v, h) + Is(v, h) + ConnRefs(h)' - ConnRefs(h) /\ ConnRefs(h)' \in Nat
    <3>1. CASE h = v
      BY <1>1, <1>4, <3>1, AllocatedParts, PartTypes DEF Is
    <3>2. CASE h /= v
      BY <1>1, <1>4, <3>2, AllocatedParts, PartTypes DEF Is
    <3>3. QED
      BY <3>1, <3>2
  <2>2. PendingRefs(h) = 0 /\ PendingRefs(h)' = Is(old, h) + Is(v, h)
    BY <1>2, PendingStarts
  <2>3. BoundRefs(h)' = BoundRefs(h) - Is(old, h) + Is(v, h)
    BY <1>1, <1>2, BoundOnce
  <2>4. HeldRefs(h)' = HeldRefs(h) /\ ColumnRefs(h)' = ColumnRefs(h) /\ RowRefs(h)' = RowRefs(h)
    BY <1>2, Unmoved
  <2>5. /\ HeldRefs(h) \in Nat /\ BoundRefs(h) \in Nat /\ ColumnRefs(h) \in Nat /\ RowRefs(h) \in Nat
        /\ ConnRefs(h) \in Nat /\ PendingRefs(h) \in Nat
    BY <1>1, PartTypes
  <2>6. Is(old, h) \in {0, 1} /\ Is(v, h) \in {0, 1}
    BY IsType
  <2> HIDE DEF old
  <2>7. QED
    BY <2>1, <2>2, <2>3, <2>4, <2>5, <2>6 DEF RefParts
<1>8. ClosedEmpty'
  <2>1. \A t \in Stmt : t /= s => bound'[t] = bound[t]
    BY <1>1, <1>2 DEF TypeOK
  <2>2. \A g \in Handle : ~Open(g)' => ~Open(g)
    BY <1>5
  <2>3. QED
    BY <1>1, <1>2, <1>3, <2>1, <2>2, Kinds DEF ClosedEmpty
<1>9. Ready' /\ ListedOpen'
  BY <1>1, <1>2, <1>5, Kinds DEF Ready, ListedOpen, TypeOK
<1>10. QED
  BY <1>5, <1>6, <1>7, <1>8, <1>9 DEF HandleInv

\* A variable nothing refers to: its count is not given up.
LEMMA BindCopyFailsKeeps ==
    ASSUME HandleInv, extra' = extra, NEW s \in Stmt, NEW v \in Var, New(v), BindCopyFails(s, v)
    PROVE  HandleInv'
<1>1. TypeOK /\ Counted /\ LiveCounts /\ ClosedEmpty /\ Ready /\ ListedOpen
  BY DEF HandleInv
<1>2. /\ DefineMayFail /\ pending = <<>> /\ decoding = None /\ s \in held /\ Allocated({v}, Once({v}))
      /\ bound' = bound /\ pending' = pending
      /\ column' = column /\ row' = row /\ openStmts' = openStmts /\ openLobs' = openLobs
      /\ executed' = executed /\ rowsIn' = rowsIn /\ cursor' = cursor /\ decoding' = decoding /\ held' = held
  BY DEF BindCopyFails, Idle, buffers
<1>3. Open(s) /\ Open(Conn)
  BY <1>1, <1>2, HeldOpen, ConnOpen
<1>4. Allocation({v}, Once({v})) /\ Once({v})[v] = 1
  BY <1>2, Kinds DEF Allocation, Once
<1>5. /\ LiveCounts' /\ \A h \in Handle : (Open(h)' <=> Open(h) \/ h \in {v}) /\ (New(h)' => New(h))
      /\ refs' \in [Handle -> Nat] /\ state' \in [Handle -> {"none", "open", "freed"}]
  BY <1>1, <1>3, <1>4, AllocatedKeeps
<1>6. TypeOK'
  BY <1>1, <1>2, <1>5 DEF TypeOK
<1>7. Counted'
  <2> SUFFICES ASSUME NEW h \in Handle
               PROVE  refs'[h] - refs[h] >= RefParts(h)' - RefParts(h)
    BY <1>1, <1>2, <1>6, Balanced DEF Exact, TypeOK
  <2>1. refs'[h] - refs[h] >= ConnRefs(h)' - ConnRefs(h) /\ ConnRefs(h)' \in Nat
    <3>1. CASE h = v
      BY <1>1, <1>4, <3>1, AllocatedParts, PartTypes
    <3>2. CASE h /= v
      BY <1>1, <1>4, <3>2, AllocatedParts, PartTypes
    <3>3. QED
      BY <3>1, <3>2
  <2>2. /\ HeldRefs(h)' = HeldRefs(h) /\ ColumnRefs(h)' = ColumnRefs(h) /\ RowRefs(h)' = RowRefs(h)
        /\ BoundRefs(h)' = BoundRefs(h) /\ PendingRefs(h)' = PendingRefs(h)
    BY <1>2, Unmoved
  <2>3. /\ HeldRefs(h) \in Nat /\ BoundRefs(h) \in Nat /\ ColumnRefs(h) \in Nat /\ RowRefs(h) \in Nat
        /\ ConnRefs(h) \in Nat /\ PendingRefs(h) \in Nat
    BY <1>1, PartTypes
  <2>4. refs[h] \in Nat /\ refs'[h] \in Nat
    BY <1>1, <1>5 DEF TypeOK
  <2>5. QED
    BY <2>1, <2>2, <2>3, <2>4 DEF RefParts
<1>8. ClosedEmpty' /\ Ready' /\ ListedOpen'
  BY <1>1, <1>2, <1>5, Kinds DEF ClosedEmpty, Ready, ListedOpen, TypeOK
<1>9. QED
  BY <1>5, <1>6, <1>7, <1>8 DEF HandleInv

LEMMA ExecuteKeeps ==
    ASSUME HandleInv, extra' = extra, NEW s \in Stmt, NEW changed \in BOOLEAN, Execute(s, changed)
    PROVE  HandleInv'
<1> DEFINE old == column[s]
           new == IF changed THEN None ELSE old
<1>1. TypeOK /\ Counted /\ LiveCounts /\ ClosedEmpty /\ Ready /\ ListedOpen
  BY DEF HandleInv
<1>2. /\ pending = <<>> /\ decoding = None /\ s \in held /\ executed' = executed \union {s}
      /\ rowsIn' = [rowsIn EXCEPT ![s] = 0] /\ cursor' = [cursor EXCEPT ![s] = 0]
      /\ column' = [column EXCEPT ![s] = new] /\ pending' = IF changed THEN <<old>> ELSE <<>>
      /\ bound' = bound /\ row' = row /\ openStmts' = openStmts /\ openLobs' = openLobs
      /\ state' = state /\ refs' = refs /\ decoding' = decoding /\ held' = held
  BY DEF Execute, Idle
<1>3. TypeOK'
  <2>1. old \in Var \union {None} /\ column' \in [Stmt -> Var \union {None}]
    BY <1>1, <1>2 DEF TypeOK
  <2>2. pending' \in Seq(Handle \union {None})
    <3>1. old \in Handle \union {None}
      BY <2>1, Kinds
    <3> HIDE DEF old
    <3>2. <<old>> \in Seq(Handle \union {None}) /\ <<>> \in Seq(Handle \union {None})
      BY <3>1
    <3>3. QED
      BY <1>2, <3>2
  <2>3. QED
    BY <1>1, <1>2, <2>1, <2>2, SizeAssumption DEF TypeOK
<1>4. Counted'
  <2> SUFFICES ASSUME NEW h \in Handle
               PROVE  refs'[h] - refs[h] = RefParts(h)' - RefParts(h)
    BY <1>1, <1>3, BalancedExactly
  <2>1. PendingRefs(h) = 0 /\ PendingRefs(h)' = IF changed THEN Is(old, h) ELSE 0
    <3>1. CASE changed
      BY <1>2, <3>1, PendingStarts
    <3>2. CASE ~changed
      BY <1>2, <3>2, PendingStarts
    <3>3. QED
      BY <3>1, <3>2
  <2>2. ColumnRefs(h)' = ColumnRefs(h) - Is(old, h) + Is(new, h)
    BY <1>1, <1>2, ColumnReplaced
  <2>3. /\ HeldRefs(h)' = HeldRefs(h) /\ BoundRefs(h)' = BoundRefs(h) /\ RowRefs(h)' = RowRefs(h)
        /\ ConnRefs(h)' = ConnRefs(h)
    BY <1>2, Unmoved
  <2>4. /\ HeldRefs(h) \in Nat /\ BoundRefs(h) \in Nat /\ ColumnRefs(h) \in Nat /\ RowRefs(h) \in Nat
        /\ ConnRefs(h) \in Nat /\ PendingRefs(h) \in Nat
    BY <1>1, PartTypes
  <2>5. Is(old, h) \in {0, 1} /\ Is(new, h) = IF changed THEN 0 ELSE Is(old, h)
    BY IsType, NullIsNothing
  <2>6. refs'[h] = refs[h] /\ refs[h] \in Nat
    BY <1>1, <1>2 DEF TypeOK
  <2> HIDE DEF old, new
  <2>7. QED
    BY <2>1, <2>2, <2>3, <2>4, <2>5, <2>6 DEF RefParts
<1>5. LiveCounts' /\ ListedOpen'
  BY <1>1, <1>2 DEF LiveCounts, ListedOpen, Open
<1>6. ClosedEmpty'
  <2>1. \A t \in Stmt : column'[t] = column[t] \/ column'[t] = None
    BY <1>1, <1>2 DEF TypeOK
  <2>2. QED
    BY <1>1, <1>2, <2>1 DEF ClosedEmpty, Open
<1>7. Ready'
  BY <1>1, <1>2 DEF Ready, New, TypeOK
<1>8. QED
  BY <1>3, <1>4, <1>5, <1>6, <1>7 DEF HandleInv

\* What a re-execution binds once more is open, and its count grows.
LEMMA ReboundKeeps ==
    ASSUME HandleInv, NEW s \in Stmt, NEW again \in SUBSET Param, state' = state,
           refs' = [h \in Handle |-> refs[h] + Rebound(s, again, h)]
    PROVE  LiveCounts' /\ \A h \in Handle : Rebound(s, again, h) \in Nat /\ (Rebound(s, again, h) > 0 => h \in Var)
<1>1. TypeOK /\ Counted /\ LiveCounts
  BY DEF HandleInv
<1>2. ASSUME NEW h \in Handle
      PROVE  /\ Rebound(s, again, h) \in Nat /\ (Rebound(s, again, h) > 0 => h \in Var)
             /\ Rebound(s, again, h) > 0 => Open(h)
  <2> DEFINE A == {p \in again : bound[s][p] = h}
  <2>1. A \in SUBSET Param /\ Rebound(s, again, h) = Cardinality(A)
    BY DEF Rebound
  <2>2. IsFiniteSet(A) /\ Cardinality(A) \in Nat
    BY <2>1, Finiteness, FS_Subset, FS_CardinalityType
  <2>3. Cardinality(A) > 0 => \E p \in Param : p \in A
    BY <2>1, <2>2, FS_EmptySet
  <2>4. ASSUME NEW p \in Param, bound[s][p] = h PROVE h \in Var /\ Open(h)
    <3>1. h \in Var /\ h \notin Lob
      BY <1>1, <2>4, Kinds DEF TypeOK
    <3>2. RefParts(h) > 0
      BY <1>1, <2>4, SomewhereCounts, PartTypes DEF RefParts
    <3>3. QED
      BY <1>1, <3>1, <3>2, Referenced
  <2>5. A \subseteq {p \in Param : bound[s][p] = h}
    OBVIOUS
  <2> HIDE DEF A
  <2>6. QED
    BY <2>1, <2>2, <2>3, <2>4, <2>5
<1>3. ASSUME NEW h \in Handle PROVE refs'[h] > 0 <=> Open(h)'
  <2>1. refs[h] \in Nat /\ (refs[h] > 0 <=> Open(h)) /\ (Open(h)' <=> Open(h))
    BY <1>1 DEF TypeOK, LiveCounts, Open
  <2>2. refs'[h] = refs[h] + Rebound(s, again, h)
    OBVIOUS
  <2>3. QED
    BY <1>2, <2>1, <2>2
<1>4. QED
  BY <1>2, <1>3 DEF LiveCounts

LEMMA ReExecuteKeeps ==
    ASSUME HandleInv, NEW s \in Stmt, NEW again \in SUBSET Param, ReExecute(s, again)
    PROVE  HandleInv'
<1> DEFINE old == column[s]
           k(h) == Rebound(s, again, h)
<1>1. TypeOK /\ Counted /\ LiveCounts /\ ClosedEmpty /\ Ready /\ ListedOpen
  BY DEF HandleInv
<1>2. /\ pending = <<>> /\ decoding = None /\ s \in held
      /\ column' = [column EXCEPT ![s] = None] /\ pending' = <<old>>
      /\ bound' = bound /\ row' = row /\ openStmts' = openStmts /\ openLobs' = openLobs
      /\ state' = state /\ decoding' = decoding /\ held' = held
      /\ refs' = [h \in Handle |-> refs[h] + k(h)] /\ extra' = [v \in Var |-> extra[v] + k(v)]
      /\ \/ /\ executed' = executed \union {s} /\ rowsIn' = [rowsIn EXCEPT ![s] = 0]
            /\ cursor' = [cursor EXCEPT ![s] = 0]
         \/ executed' = executed /\ rowsIn' = rowsIn /\ cursor' = cursor
  BY DEF ReExecute, Idle, buffers
<1>3. LiveCounts' /\ \A h \in Handle : k(h) \in Nat /\ (k(h) > 0 => h \in Var)
  BY <1>2, ReboundKeeps
<1> HIDE DEF k
<1>4. TypeOK'
  <2>1. old \in Var \union {None} /\ column' \in [Stmt -> Var \union {None}]
    BY <1>1, <1>2 DEF TypeOK
  <2>2. pending' \in Seq(Handle \union {None})
    <3>1. old \in Handle \union {None}
      BY <2>1, Kinds
    <3> HIDE DEF old
    <3>2. <<old>> \in Seq(Handle \union {None})
      BY <3>1
    <3>3. QED
      BY <1>2, <3>2
  <2>3. refs' \in [Handle -> Nat] /\ extra' \in [Var -> Nat]
    BY <1>1, <1>2, <1>3, Kinds DEF TypeOK
  <2>4. executed' \subseteq Stmt /\ rowsIn' \in [Stmt -> 0..Rows] /\ cursor' \in [Stmt -> 0..Rows]
    <3>1. executed \subseteq Stmt /\ rowsIn \in [Stmt -> 0..Rows] /\ cursor \in [Stmt -> 0..Rows] /\ 0 \in 0..Rows
      BY <1>1, SizeAssumption DEF TypeOK
    <3>2. QED
      BY <1>2, <3>1
  <2>5. QED
    BY <1>1, <1>2, <2>1, <2>2, <2>3, <2>4 DEF TypeOK
<1>5. Counted'
  <2>1. ASSUME NEW h \in Handle PROVE RefParts(h)' = RefParts(h) /\ RefParts(h) \in Nat
    <3>1. PendingRefs(h) = 0 /\ PendingRefs(h)' = Is(old, h)
      BY <1>2, PendingStarts
    <3>2. ColumnRefs(h)' = ColumnRefs(h) - Is(old, h) + Is(None, h)
      BY <1>1, <1>2, ColumnReplaced
    <3>3. /\ HeldRefs(h)' = HeldRefs(h) /\ BoundRefs(h)' = BoundRefs(h) /\ RowRefs(h)' = RowRefs(h)
          /\ ConnRefs(h)' = ConnRefs(h)
      BY <1>2, Unmoved
    <3>4. /\ HeldRefs(h) \in Nat /\ BoundRefs(h) \in Nat /\ ColumnRefs(h) \in Nat /\ RowRefs(h) \in Nat
          /\ ConnRefs(h) \in Nat /\ PendingRefs(h) \in Nat
      BY <1>1, PartTypes
    <3>5. Is(old, h) \in {0, 1} /\ Is(None, h) = 0
      BY IsType, NullIsNothing
    <3> HIDE DEF old
    <3>6. QED
      BY <3>1, <3>2, <3>3, <3>4, <3>5 DEF RefParts
  <2>2. ASSUME NEW h \in Handle
        PROVE  /\ refs'[h] = refs[h] + k(h) /\ Extra(h)' = Extra(h) + k(h)
               /\ refs[h] \in Nat /\ Extra(h) \in Nat /\ k(h) \in Nat
    <3>1. refs'[h] = refs[h] + k(h) /\ refs[h] \in Nat /\ Extra(h) \in Nat /\ k(h) \in Nat
      BY <1>1, <1>2, <1>3, ExtraType DEF TypeOK
    <3>2. CASE h \in Var
      BY <1>2, <3>1, <3>2 DEF Extra
    <3>3. CASE h \notin Var
      BY <1>3, <3>1, <3>3 DEF Extra
    <3>4. QED
      BY <3>1, <3>2, <3>3
  <2>3. ASSUME NEW h \in Handle
        PROVE  /\ h \notin Lob => refs'[h] >= RefParts(h)' + Extra(h)'
               /\ Exact => refs'[h] = RefParts(h)' + Extra(h)'
    <3>1. /\ h \notin Lob => refs[h] >= RefParts(h) + Extra(h)
          /\ Exact => refs[h] = RefParts(h) + Extra(h)
      BY <1>1 DEF Counted
    <3>2. QED
      BY <2>1, <2>2, <3>1
  <2>4. QED
    BY <2>3 DEF Counted, Exact
<1>6. ClosedEmpty' /\ ListedOpen'
  <2>1. \A t \in Stmt : column'[t] = column[t] \/ column'[t] = None
    BY <1>1, <1>2 DEF TypeOK
  <2>2. QED
    BY <1>1, <1>2, <2>1 DEF ClosedEmpty, ListedOpen, Open
<1>7. Ready'
  BY <1>1, <1>2 DEF Ready, New, TypeOK
<1>8. QED
  BY <1>3, <1>4, <1>5, <1>6, <1>7 DEF HandleInv

\* No reference moves.
LEMMA FetchBufferedKeeps == ASSUME HandleInv, extra' = extra, NEW s \in Stmt, FetchBuffered(s) PROVE HandleInv'
<1>1. TypeOK /\ Counted /\ LiveCounts /\ ClosedEmpty /\ Ready /\ ListedOpen
  BY DEF HandleInv
<1>2. /\ s \in held /\ cursor[s] < rowsIn[s] /\ cursor' = [cursor EXCEPT ![s] = @ + 1]
      /\ decoding' = (IF column[s] = None THEN None ELSE s)
      /\ state' = state /\ refs' = refs /\ bound' = bound /\ column' = column /\ row' = row
      /\ openStmts' = openStmts /\ openLobs' = openLobs
      /\ executed' = executed /\ rowsIn' = rowsIn /\ held' = held /\ pending' = pending
  BY DEF FetchBuffered, handles
<1>3. cursor[s] + 1 \in 0..Rows /\ cursor[s] + 1 <= rowsIn[s] /\ cursor[s] \in Nat
  BY <1>1, <1>2, SizeAssumption DEF TypeOK
<1>4. TypeOK'
  BY <1>1, <1>2, <1>3 DEF TypeOK
<1>5. Counted'
  <2> SUFFICES ASSUME NEW h \in Handle
               PROVE  refs'[h] - refs[h] = RefParts(h)' - RefParts(h)
    BY <1>1, <1>4, BalancedExactly
  <2>1. RefParts(h)' = RefParts(h) /\ refs'[h] = refs[h]
    BY <1>2, Unmoved DEF RefParts
  <2>2. RefParts(h) \in Nat
    BY <1>1, PartTypes DEF RefParts
  <2>3. refs[h] \in Nat
    BY <1>1 DEF TypeOK
  <2>4. QED
    BY <2>1, <2>2, <2>3
<1>6. LiveCounts' /\ ListedOpen' /\ ClosedEmpty'
  BY <1>1, <1>2 DEF LiveCounts, ListedOpen, ClosedEmpty, Open
<1>7. Ready'
  BY <1>1, <1>2, <1>3 DEF Ready, New, TypeOK
<1>8. QED
  BY <1>4, <1>5, <1>6, <1>7 DEF HandleInv

\* The row that is decoded is in the buffer of the statement's variable.
LEMMA DecodesOne ==
    ASSUME TypeOK, Ready, decoding /= None
    PROVE  column[decoding] \in Var /\ row[column[decoding]][cursor[decoding]] \in Lob \union {None}
<1>1. decoding \in Stmt /\ decoding \in held /\ cursor[decoding] > 0 /\ column[decoding] /= None
  BY DEF TypeOK, Ready
<1>2. cursor[decoding] \in 0..Rows /\ rowsIn[decoding] \in 0..Rows /\ column[decoding] \in Var \union {None}
  BY <1>1 DEF TypeOK
<1>3. cursor[decoding] <= rowsIn[decoding]
  BY <1>1 DEF Ready
<1>4. column[decoding] \in Var /\ cursor[decoding] \in Row
  BY <1>1, <1>2, <1>3, SizeAssumption DEF Row
<1>5. QED
  BY <1>4 DEF TypeOK

\* A LOB that is only lent is given back: no other count is concerned.
LEMMA DecodeKeeps == ASSUME HandleInv, extra' = extra, Decode \/ DecodeLob PROVE HandleInv'
<1> DEFINE lob == row[column[decoding]][cursor[decoding]]
<1>1. TypeOK /\ Counted /\ LiveCounts /\ ClosedEmpty /\ Ready /\ ListedOpen
  BY DEF HandleInv
<1>2. /\ pending = <<>> /\ decoding /= None /\ decoding' = None
      /\ pending' = pending \/ (pending' = <<lob>> /\ LobColumn /\ NonNullLobs)
      /\ state' = state /\ refs' = refs /\ bound' = bound /\ column' = column /\ row' = row
      /\ openStmts' = openStmts /\ openLobs' = openLobs
      /\ executed' = executed /\ rowsIn' = rowsIn /\ cursor' = cursor /\ held' = held
  BY DEF Decode, DecodeLob, handles, buffers
<1>3. lob \in Lob \union {None}
  BY <1>1, <1>2, DecodesOne
<1> HIDE DEF lob
<1>4. TypeOK'
  <2>1. <<lob>> \in Seq(Handle \union {None})
    BY <1>3, Kinds
  <2>2. QED
    BY <1>1, <1>2, <2>1 DEF TypeOK
<1>5. Counted'
  <2> SUFFICES ASSUME NEW h \in Handle
               PROVE  /\ h \notin Lob => refs'[h] - refs[h] = RefParts(h)' - RefParts(h)
                      /\ Exact => refs'[h] - refs[h] = RefParts(h)' - RefParts(h)
    <3>1. \A h \in Handle : refs[h] \in Nat /\ refs'[h] \in Nat
      BY <1>1, <1>4 DEF TypeOK
    <3>2. \A h \in Handle : RefParts(h) \in Nat /\ RefParts(h)' \in Nat
      BY <1>1, <1>4, PartTypes, PartTypesAfter DEF RefParts
    <3>3. QED
      BY <1>1, <1>4, <3>1, <3>2, Balanced
  <2>0. refs[h] \in Nat /\ RefParts(h) \in Nat
    <3>1. refs[h] \in Nat
      BY <1>1 DEF TypeOK
    <3>2. RefParts(h) \in Nat
      BY <1>1, PartTypes DEF RefParts
    <3>3. QED
      BY <3>1, <3>2
  <2>1. CASE pending' = pending
    <3>1. RefParts(h)' = RefParts(h) /\ refs'[h] = refs[h]
      BY <1>2, <2>1, Unmoved DEF RefParts
    <3>2. QED
      BY <2>0, <3>1
  <2>2. CASE pending' = <<lob>> /\ LobColumn /\ NonNullLobs
    <3>1. ~Exact
      BY <2>2 DEF Exact
    <3>2. h \notin Lob => PendingRefs(h) = 0 /\ PendingRefs(h)' = 0
      BY <1>2, <1>3, <2>2, PendingStarts, Kinds DEF Is
    <3>3. h \notin Lob => RefParts(h)' = RefParts(h) /\ refs'[h] = refs[h]
      BY <1>2, <3>2, Unmoved DEF RefParts
    <3>4. QED
      BY <2>0, <3>1, <3>3
  <2>3. QED
    BY <1>2, <2>1, <2>2
<1>6. LiveCounts' /\ ListedOpen' /\ ClosedEmpty' /\ Ready'
  BY <1>1, <1>2 DEF LiveCounts, ListedOpen, ClosedEmpty, Open, Ready, New
<1>7. QED
  BY <1>4, <1>5, <1>6 DEF HandleInv

-----------------------------------------------------------------------------
\* Every step keeps the invariant: the decrements.

LEMMA SkipKeeps == ASSUME HandleInv, extra' = extra, Skip PROVE HandleInv'
<1>1. TypeOK /\ Counted /\ LiveCounts /\ ClosedEmpty /\ Ready /\ ListedOpen
  BY DEF HandleInv
<1>2. /\ pending /= <<>> /\ Head(pending) = None /\ pending' = Tail(pending) /\ decoding' = decoding
      /\ state' = state /\ refs' = refs /\ bound' = bound /\ column' = column /\ row' = row
      /\ openStmts' = openStmts /\ openLobs' = openLobs
      /\ executed' = executed /\ rowsIn' = rowsIn /\ cursor' = cursor /\ held' = held
  BY DEF Skip, handles, buffers
<1>3. TypeOK'
  <2>1. pending' \in Seq(Handle \union {None})
    BY <1>1, <1>2, PendingDrops
  <2>2. QED
    BY <1>1, <1>2, <2>1 DEF TypeOK
<1>4. Counted'
  <2> SUFFICES ASSUME NEW h \in Handle
               PROVE  refs'[h] - refs[h] = RefParts(h)' - RefParts(h)
    BY <1>1, <1>3, BalancedExactly
  <2>1. PendingRefs(h)' = PendingRefs(h) - 0
    BY <1>1, <1>2, PendingDrops, NullIsNothing
  <2>2. PendingRefs(h) \in Nat
    BY <1>1, PartTypes
  <2>3. RefParts(h)' = RefParts(h) /\ refs'[h] = refs[h]
    BY <1>2, <2>1, <2>2, Unmoved DEF RefParts
  <2>4. RefParts(h) \in Nat
    BY <1>1, PartTypes DEF RefParts
  <2>5. refs[h] \in Nat
    BY <1>1 DEF TypeOK
  <2>6. QED
    BY <2>3, <2>4, <2>5
<1>5. LiveCounts' /\ ListedOpen' /\ ClosedEmpty' /\ Ready'
  BY <1>1, <1>2 DEF LiveCounts, ListedOpen, ClosedEmpty, Open, Ready, New
<1>6. QED
  BY <1>3, <1>4, <1>5 DEF HandleInv

LEMMA DecrementKeeps == ASSUME HandleInv, extra' = extra, NEW g \in Handle, Decrement(g) PROVE HandleInv'
<1>1. TypeOK /\ Counted /\ LiveCounts /\ ClosedEmpty /\ Ready /\ ListedOpen
  BY DEF HandleInv
<1>2. /\ pending /= <<>> /\ g = Head(pending) /\ pending' = Tail(pending) /\ decoding' = decoding
      /\ state' = state /\ refs[g] > 1 /\ refs' = [refs EXCEPT ![g] = @ - 1]
      /\ bound' = bound /\ column' = column /\ row' = row /\ openStmts' = openStmts /\ openLobs' = openLobs
      /\ executed' = executed /\ rowsIn' = rowsIn /\ cursor' = cursor /\ held' = held
  BY DEF Decrement, Down, buffers
<1>3. TypeOK'
  <2>1. pending' \in Seq(Handle \union {None})
    BY <1>1, <1>2, PendingDrops
  <2>2. refs' \in [Handle -> Nat]
    BY <1>1, <1>2 DEF TypeOK
  <2>3. QED
    BY <1>1, <1>2, <2>1, <2>2 DEF TypeOK
<1>4. Counted'
  <2> SUFFICES ASSUME NEW h \in Handle
               PROVE  refs'[h] - refs[h] = RefParts(h)' - RefParts(h)
    BY <1>1, <1>3, BalancedExactly
  <2>1. PendingRefs(h)' = PendingRefs(h) - Is(g, h)
    BY <1>1, <1>2, PendingDrops
  <2>2. refs'[h] - refs[h] = 0 - Is(g, h)
    BY <1>1, <1>2 DEF TypeOK, Is
  <2>3. /\ HeldRefs(h)' = HeldRefs(h) /\ BoundRefs(h)' = BoundRefs(h) /\ ColumnRefs(h)' = ColumnRefs(h)
        /\ RowRefs(h)' = RowRefs(h) /\ ConnRefs(h)' = ConnRefs(h)
    BY <1>2, Unmoved
  <2>4. /\ HeldRefs(h) \in Nat /\ BoundRefs(h) \in Nat /\ ColumnRefs(h) \in Nat /\ RowRefs(h) \in Nat
        /\ ConnRefs(h) \in Nat /\ PendingRefs(h) \in Nat
    BY <1>1, PartTypes
  <2>5. Is(g, h) \in {0, 1}
    BY IsType
  <2>6. QED
    BY <2>1, <2>2, <2>3, <2>4, <2>5 DEF RefParts
<1>5. LiveCounts'
  BY <1>1, <1>2 DEF LiveCounts, Open, TypeOK
<1>6. ListedOpen' /\ ClosedEmpty' /\ Ready'
  BY <1>1, <1>2 DEF ListedOpen, ClosedEmpty, Open, Ready, New
<1>7. QED
  BY <1>3, <1>4, <1>5, <1>6 DEF HandleInv

\* The last reference to a handle that is being given up is the one given up.
LEMMA LastReference ==
    ASSUME TypeOK, Counted, LiveCounts, NEW g \in Handle, Last(g)
    PROVE  /\ pending /= <<>> /\ g = Head(pending) /\ Open(g) /\ refs[g] = 1
           /\ g \notin Lob => HeldRefs(g) = 0 /\ BoundRefs(g) = 0 /\ ColumnRefs(g) = 0 /\ RowRefs(g) = 0
<1>1. pending /= <<>> /\ g = Head(pending) /\ Open(g) /\ refs[g] = 1
  BY DEF Last, Down, Open
<1>2. PendingRefs(g) >= 1
  <2>1. pending \in Seq(Handle \union {None})
    BY DEF TypeOK
  <2>2. DOMAIN pending = 1..Len(pending) /\ Len(pending) \in Nat /\ Len(pending) > 0 /\ pending[1] = g
    BY <1>1, <2>1, EmptySeq, LenProperties
  <2>3. IsFiniteSet(DOMAIN pending) /\ 1 \in DOMAIN pending
    BY <2>2, FS_Interval
  <2>4. PendingRefs(g) /= 0
    BY <2>2, <2>3, OccursSomewhere DEF PendingRefs
  <2>5. QED
    BY <2>4, PartTypes
<1>3. g \notin Lob => RefParts(g) <= 1
  <2>1. RefParts(g) \in Nat /\ Extra(g) \in Nat
    BY PartTypes, ExtraType DEF RefParts
  <2>2. QED
    BY <1>1, <2>1 DEF Counted
<1>4. /\ HeldRefs(g) \in Nat /\ BoundRefs(g) \in Nat /\ ColumnRefs(g) \in Nat /\ RowRefs(g) \in Nat
      /\ ConnRefs(g) \in Nat /\ PendingRefs(g) \in Nat
  BY PartTypes
<1>5. QED
  BY <1>1, <1>2, <1>3, <1>4 DEF RefParts

\* A handle is freed: the counts and what is open.
LEMMA FreedKeeps ==
    ASSUME TypeOK, LiveCounts, NEW g \in Handle, Open(g), refs[g] = 1,
           state' = [state EXCEPT ![g] = "freed"], refs' = [refs EXCEPT ![g] = 0]
    PROVE  /\ LiveCounts' /\ \A h \in Handle : (Open(h)' <=> Open(h) /\ h /= g) /\ (New(h)' => New(h))
           /\ refs' \in [Handle -> Nat] /\ state' \in [Handle -> {"none", "open", "freed"}]
           /\ \A h \in Handle : refs'[h] - refs[h] = 0 - Is(g, h)
<1>1. refs' \in [Handle -> Nat] /\ state' \in [Handle -> {"none", "open", "freed"}]
  BY DEF TypeOK
<1>2. ASSUME NEW h \in Handle
      PROVE  /\ (refs'[h] > 0 <=> Open(h)') /\ (Open(h)' <=> Open(h) /\ h /= g)
             /\ New(h)' => New(h)
             /\ refs'[h] - refs[h] = 0 - Is(g, h)
  BY DEF TypeOK, LiveCounts, Open, New, Is
<1>3. QED
  BY <1>1, <1>2 DEF LiveCounts

LEMMA OccursNothing == \A P, h : h \in Handle => Occurs([p \in P |-> None], h) = 0
<1> TAKE P, h
<1> HAVE h \in Handle
<1>1. \A i \in DOMAIN [p \in P |-> None] : [p \in P |-> None][i] /= h
  BY Kinds
<1>2. QED
  BY <1>1, OccursNever

LEMMA FreeStmtKeeps == ASSUME HandleInv, extra' = extra, NEW s \in Stmt, FreeStmt(s) PROVE HandleInv'
<1> DEFINE args == bound[s]
           col == column[s]
           releases == args \o <<col, Conn>>
           nothing == [p \in Param |-> None]
<1>1. TypeOK /\ Counted /\ LiveCounts /\ ClosedEmpty /\ Ready /\ ListedOpen
  BY DEF HandleInv
<1>2. /\ Last(s) /\ pending' = releases \o Tail(pending) /\ decoding' = decoding
      /\ state' = [state EXCEPT ![s] = "freed"] /\ refs' = [refs EXCEPT ![s] = 0]
      /\ bound' = [bound EXCEPT ![s] = nothing] /\ column' = [column EXCEPT ![s] = None]
      /\ row' = row /\ openStmts' = openStmts \ {s} /\ openLobs' = openLobs
      /\ executed' = executed \ {s} /\ rowsIn' = rowsIn /\ cursor' = cursor /\ held' = held
  BY DEF FreeStmt, Freed
<1>3. s \in Handle /\ s \in Handle \ {Conn} /\ s \notin Lob
  BY Kinds
<1>4. /\ pending /= <<>> /\ s = Head(pending) /\ Open(s) /\ refs[s] = 1 /\ HeldRefs(s) = 0
  BY <1>1, <1>2, <1>3, LastReference
<1>5. /\ LiveCounts' /\ \A h \in Handle : (Open(h)' <=> Open(h) /\ h /= s) /\ (New(h)' => New(h))
      /\ refs' \in [Handle -> Nat] /\ state' \in [Handle -> {"none", "open", "freed"}]
      /\ \A h \in Handle : refs'[h] - refs[h] = 0 - Is(s, h)
  BY <1>1, <1>2, <1>3, <1>4, FreedKeeps
<1>6. args \in Seq(Handle \union {None}) /\ <<col, Conn>> \in Seq(Handle \union {None})
  <2>1. args \in [1..Params -> Handle \union {None}] /\ col \in Handle \union {None} /\ Params \in Nat
    BY <1>1, Kinds, SizeAssumption DEF TypeOK, Param
  <2> HIDE DEF args, col
  <2>2. QED
    BY <2>1, Kinds, IsASeq
<1>7. releases \in Seq(Handle \union {None})
  BY <1>6, ConcatProperties
<1>8. TypeOK'
  <2>1. pending' \in Seq(Handle \union {None})
    BY <1>1, <1>2, <1>4, <1>7, PendingContinues
  <2>2. bound' \in [Stmt -> [Param -> Var \union {None}]] /\ column' \in [Stmt -> Var \union {None}]
    BY <1>1, <1>2 DEF TypeOK
  <2>3. QED
    BY <1>1, <1>2, <1>5, <2>1, <2>2 DEF TypeOK
<1>9. Counted'
  <2> SUFFICES ASSUME NEW h \in Handle
               PROVE  refs'[h] - refs[h] = RefParts(h)' - RefParts(h)
    BY <1>1, <1>8, BalancedExactly
  <2>1. /\ PendingRefs(h)' = PendingRefs(h) - Is(s, h) + Occurs(releases, h)
    BY <1>1, <1>2, <1>4, <1>7, PendingContinues
  <2>2. Occurs(releases, h) = Occurs(args, h) + Is(col, h) + Is(Conn, h)
    <3>1. Occurs(releases, h) = Occurs(args, h) + Occurs(<<col, Conn>>, h)
      BY <1>6, OccursConcat
    <3>2. Occurs(<<col, Conn>>, h) = Is(col, h) + Is(Conn, h)
      BY OccursPair
    <3>3. Occurs(args, h) \in Nat
      <4>1. IsFiniteSet(DOMAIN args)
        BY <1>1, Finiteness DEF TypeOK
      <4>2. QED
        BY <4>1, OccursType
    <3> HIDE DEF args, col, releases
    <3>4. QED
      BY <3>1, <3>2, <3>3, IsType
  <2>3. BoundRefs(h)' = BoundRefs(h) - Occurs(args, h) + 0 /\ Occurs(args, h) \in Nat
    <3>1. DOMAIN nothing = Param /\ bound'[s] = nothing /\ \A x \in Stmt : x /= s => bound'[x] = bound[x]
      BY <1>1, <1>2 DEF TypeOK
    <3>2. Occurs(nothing, h) = 0
      BY OccursNothing
    <3> HIDE DEF nothing
    <3>3. QED
      BY <1>1, <3>1, <3>2, BoundReplaced
  <2>4. ColumnRefs(h)' = ColumnRefs(h) - Is(col, h) + 0
    BY <1>1, <1>2, ColumnReplaced, NullIsNothing
  <2>5. ConnRefs(h)' = ConnRefs(h) - Is(Conn, h)
    BY <1>1, <1>2, <1>3, <1>4, FreedParts
  <2>6. HeldRefs(h)' = HeldRefs(h) /\ RowRefs(h)' = RowRefs(h)
    BY <1>2, Unmoved
  <2>7. /\ HeldRefs(h) \in Nat /\ BoundRefs(h) \in Nat /\ ColumnRefs(h) \in Nat /\ RowRefs(h) \in Nat
        /\ ConnRefs(h) \in Nat /\ PendingRefs(h) \in Nat
    BY <1>1, PartTypes
  <2>8. Is(s, h) \in {0, 1} /\ Is(col, h) \in {0, 1} /\ Is(Conn, h) \in {0, 1}
    BY IsType
  <2>9. refs'[h] - refs[h] = 0 - Is(s, h)
    BY <1>5
  <2> HIDE DEF args, col, releases
  <2>10. QED
    BY <2>1, <2>2, <2>3, <2>4, <2>5, <2>6, <2>7, <2>8, <2>9 DEF RefParts
<1>10. ClosedEmpty'
  <2>1. bound'[s] = nothing /\ column'[s] = None
        /\ \A t \in Stmt : t /= s => bound'[t] = bound[t] /\ column'[t] = column[t]
    BY <1>1, <1>2 DEF TypeOK
  <2>2. QED
    BY <1>1, <1>2, <1>5, <2>1, Kinds DEF ClosedEmpty
<1>11. Ready'
  <2>1. s \notin held /\ ~New(s)
    BY <1>4 DEF HeldRefs, Open, New
  <2>2. \A t \in Stmt : t /= s => column'[t] = column[t]
    BY <1>1, <1>2 DEF TypeOK
  <2>3. \A t \in Stmt : t \in held' \/ New(t)' => (t \in held \/ New(t)) /\ t /= s
    BY <1>2, <1>5, <2>1, Kinds
  <2>4. QED
    BY <1>1, <1>2, <2>2, <2>3 DEF Ready
<1>12. ListedOpen'
  BY <1>1, <1>2, <1>5, Kinds DEF ListedOpen, TypeOK
<1>13. QED
  BY <1>5, <1>8, <1>9, <1>10, <1>11, <1>12 DEF HandleInv

LEMMA FreeVarKeeps == ASSUME HandleInv, extra' = extra, NEW v \in Var, FreeVar(v) PROVE HandleInv'
<1> DEFINE lobs == row[v]
           releases == lobs \o <<Conn>>
           nothing == [r \in Row |-> None]
<1>1. TypeOK /\ Counted /\ LiveCounts /\ ClosedEmpty /\ Ready /\ ListedOpen
  BY DEF HandleInv
<1>2. /\ Last(v) /\ pending' = releases \o Tail(pending) /\ decoding' = decoding
      /\ state' = [state EXCEPT ![v] = "freed"] /\ refs' = [refs EXCEPT ![v] = 0]
      /\ row' = [row EXCEPT ![v] = nothing]
      /\ bound' = bound /\ column' = column /\ openStmts' = openStmts /\ openLobs' = openLobs
      /\ executed' = executed /\ rowsIn' = rowsIn /\ cursor' = cursor /\ held' = held
  BY DEF FreeVar, Freed, buffers
<1>3. v \in Handle /\ v \in Handle \ {Conn} /\ v \notin Lob
  BY Kinds
<1>4. pending /= <<>> /\ v = Head(pending) /\ Open(v) /\ refs[v] = 1
  BY <1>1, <1>2, <1>3, LastReference
<1>5. /\ LiveCounts' /\ \A h \in Handle : (Open(h)' <=> Open(h) /\ h /= v) /\ (New(h)' => New(h))
      /\ refs' \in [Handle -> Nat] /\ state' \in [Handle -> {"none", "open", "freed"}]
      /\ \A h \in Handle : refs'[h] - refs[h] = 0 - Is(v, h)
  BY <1>1, <1>2, <1>3, <1>4, FreedKeeps
<1>6. lobs \in Seq(Handle \union {None}) /\ <<Conn>> \in Seq(Handle \union {None})
  <2>1. lobs \in [1..Rows -> Handle \union {None}] /\ Rows \in Nat
    BY <1>1, Kinds, SizeAssumption DEF TypeOK, Row
  <2> HIDE DEF lobs
  <2>2. QED
    BY <2>1, Kinds, IsASeq
<1>7. releases \in Seq(Handle \union {None})
  BY <1>6, ConcatProperties
<1>8. TypeOK'
  <2>1. pending' \in Seq(Handle \union {None})
    BY <1>1, <1>2, <1>4, <1>7, PendingContinues
  <2>2. row' \in [Var -> [Row -> Lob \union {None}]]
    BY <1>1, <1>2 DEF TypeOK
  <2>3. QED
    BY <1>1, <1>2, <1>5, <2>1, <2>2 DEF TypeOK
<1>9. Counted'
  <2> SUFFICES ASSUME NEW h \in Handle
               PROVE  refs'[h] - refs[h] = RefParts(h)' - RefParts(h)
    BY <1>1, <1>8, BalancedExactly
  <2>1. /\ PendingRefs(h)' = PendingRefs(h) - Is(v, h) + Occurs(releases, h)
    BY <1>1, <1>2, <1>4, <1>7, PendingContinues
  <2>2. Occurs(releases, h) = Occurs(lobs, h) + Is(Conn, h)
    <3>1. Occurs(releases, h) = Occurs(lobs, h) + Occurs(<<Conn>>, h)
      BY <1>6, OccursConcat
    <3>2. Occurs(<<Conn>>, h) = Is(Conn, h)
      BY OccursSingle
    <3> HIDE DEF lobs, releases
    <3>3. QED
      BY <3>1, <3>2
  <2>3. RowRefs(h)' = RowRefs(h) - Occurs(lobs, h) + 0 /\ Occurs(lobs, h) \in Nat
    <3>1. DOMAIN nothing = Row /\ row'[v] = nothing /\ \A x \in Var : x /= v => row'[x] = row[x]
      BY <1>1, <1>2 DEF TypeOK
    <3>2. Occurs(nothing, h) = 0
      BY OccursNothing
    <3> HIDE DEF nothing
    <3>3. QED
      BY <1>1, <3>1, <3>2, RowsReplaced
  <2>4. ConnRefs(h)' = ConnRefs(h) - Is(Conn, h)
    BY <1>1, <1>2, <1>3, <1>4, FreedParts
  <2>5. HeldRefs(h)' = HeldRefs(h) /\ BoundRefs(h)' = BoundRefs(h) /\ ColumnRefs(h)' = ColumnRefs(h)
    BY <1>2, Unmoved
  <2>6. /\ HeldRefs(h) \in Nat /\ BoundRefs(h) \in Nat /\ ColumnRefs(h) \in Nat /\ RowRefs(h) \in Nat
        /\ ConnRefs(h) \in Nat /\ PendingRefs(h) \in Nat
    BY <1>1, PartTypes
  <2>7. Is(v, h) \in {0, 1} /\ Is(Conn, h) \in {0, 1}
    BY IsType
  <2>8. refs'[h] - refs[h] = 0 - Is(v, h)
    BY <1>5
  <2> HIDE DEF lobs, releases
  <2>9. QED
    BY <2>1, <2>2, <2>3, <2>4, <2>5, <2>6, <2>7, <2>8 DEF RefParts
<1>10. ClosedEmpty'
  <2>1. row'[v] = nothing /\ \A w \in Var : w /= v => row'[w] = row[w]
    BY <1>1, <1>2 DEF TypeOK
  <2>2. QED
    BY <1>1, <1>2, <1>5, <2>1, Kinds DEF ClosedEmpty
<1>11. Ready' /\ ListedOpen'
  BY <1>1, <1>2, <1>5, Kinds DEF Ready, ListedOpen, TypeOK
<1>12. QED
  BY <1>5, <1>8, <1>9, <1>10, <1>11 DEF HandleInv

LEMMA FreeLobKeeps == ASSUME HandleInv, extra' = extra, NEW l \in Lob, FreeLob(l) PROVE HandleInv'
<1>1. TypeOK /\ Counted /\ LiveCounts /\ ClosedEmpty /\ Ready /\ ListedOpen
  BY DEF HandleInv
<1>2. /\ Last(l) /\ pending' = <<Conn>> \o Tail(pending) /\ decoding' = decoding
      /\ state' = [state EXCEPT ![l] = "freed"] /\ refs' = [refs EXCEPT ![l] = 0]
      /\ row' = row /\ bound' = bound /\ column' = column /\ openStmts' = openStmts /\ openLobs' = openLobs \ {l}
      /\ executed' = executed /\ rowsIn' = rowsIn /\ cursor' = cursor /\ held' = held
  BY DEF FreeLob, Freed, buffers
<1>3. l \in Handle /\ l \in Handle \ {Conn}
  BY Kinds
<1>4. pending /= <<>> /\ l = Head(pending) /\ Open(l) /\ refs[l] = 1
  BY <1>1, <1>2, <1>3, LastReference
<1>5. /\ LiveCounts' /\ \A h \in Handle : (Open(h)' <=> Open(h) /\ h /= l) /\ (New(h)' => New(h))
      /\ refs' \in [Handle -> Nat] /\ state' \in [Handle -> {"none", "open", "freed"}]
      /\ \A h \in Handle : refs'[h] - refs[h] = 0 - Is(l, h)
  BY <1>1, <1>2, <1>3, <1>4, FreedKeeps
<1>6. <<Conn>> \in Seq(Handle \union {None})
  BY Kinds
<1>7. TypeOK'
  <2>1. pending' \in Seq(Handle \union {None})
    BY <1>1, <1>2, <1>4, <1>6, PendingContinues
  <2>2. QED
    BY <1>1, <1>2, <1>5, <2>1 DEF TypeOK
<1>8. Counted'
  <2> SUFFICES ASSUME NEW h \in Handle
               PROVE  refs'[h] - refs[h] = RefParts(h)' - RefParts(h)
    BY <1>1, <1>7, BalancedExactly
  <2>1. PendingRefs(h)' = PendingRefs(h) - Is(l, h) + Occurs(<<Conn>>, h)
    BY <1>1, <1>2, <1>4, <1>6, PendingContinues
  <2>2. Occurs(<<Conn>>, h) = Is(Conn, h)
    BY OccursSingle
  <2>3. ConnRefs(h)' = ConnRefs(h) - Is(Conn, h)
    BY <1>1, <1>2, <1>3, <1>4, FreedParts
  <2>4. /\ HeldRefs(h)' = HeldRefs(h) /\ BoundRefs(h)' = BoundRefs(h) /\ ColumnRefs(h)' = ColumnRefs(h)
        /\ RowRefs(h)' = RowRefs(h)
    BY <1>2, Unmoved
  <2>5. /\ HeldRefs(h) \in Nat /\ BoundRefs(h) \in Nat /\ ColumnRefs(h) \in Nat /\ RowRefs(h) \in Nat
        /\ ConnRefs(h) \in Nat /\ PendingRefs(h) \in Nat
    BY <1>1, PartTypes
  <2>6. Is(l, h) \in {0, 1} /\ Is(Conn, h) \in {0, 1}
    BY IsType
  <2>7. refs'[h] - refs[h] = 0 - Is(l, h)
    BY <1>5
  <2>8. QED
    BY <2>1, <2>2, <2>3, <2>4, <2>5, <2>6, <2>7 DEF RefParts
<1>9. ClosedEmpty' /\ Ready'
  BY <1>1, <1>2, <1>5, Kinds DEF ClosedEmpty, Ready
<1>10. ListedOpen'
  <2>1. \A h \in openStmts' \union openLobs' : h \in openStmts \union openLobs /\ h \in Handle /\ h /= l
    BY <1>1, <1>2, Kinds DEF TypeOK
  <2>2. QED
    BY <1>1, <1>5, <2>1 DEF ListedOpen
<1>11. QED
  BY <1>5, <1>7, <1>8, <1>9, <1>10 DEF HandleInv

LEMMA FreeConnKeeps == ASSUME HandleInv, extra' = extra, FreeConn PROVE HandleInv'
<1>1. TypeOK /\ Counted /\ LiveCounts /\ ClosedEmpty /\ Ready /\ ListedOpen
  BY DEF HandleInv
<1>2. /\ Last(Conn) /\ pending' = <<>> \o Tail(pending) /\ decoding' = decoding
      /\ state' = [state EXCEPT ![Conn] = "freed"] /\ refs' = [refs EXCEPT ![Conn] = 0]
      /\ row' = row /\ bound' = bound /\ column' = column /\ openStmts' = openStmts /\ openLobs' = openLobs
      /\ executed' = executed /\ rowsIn' = rowsIn /\ cursor' = cursor /\ held' = held
  BY DEF FreeConn, Freed, buffers
<1>3. pending /= <<>> /\ Conn = Head(pending) /\ Open(Conn) /\ refs[Conn] = 1
  BY <1>1, <1>2, Kinds, LastReference
<1>4. /\ LiveCounts' /\ \A h \in Handle : (Open(h)' <=> Open(h) /\ h /= Conn) /\ (New(h)' => New(h))
      /\ refs' \in [Handle -> Nat] /\ state' \in [Handle -> {"none", "open", "freed"}]
      /\ \A h \in Handle : refs'[h] - refs[h] = 0 - Is(Conn, h)
  BY <1>1, <1>2, <1>3, Kinds, FreedKeeps
<1>5. <<>> \in Seq(Handle \union {None})
  OBVIOUS
<1>6. TypeOK'
  <2>1. pending' \in Seq(Handle \union {None})
    BY <1>1, <1>2, <1>3, <1>5, PendingContinues
  <2>2. QED
    BY <1>1, <1>2, <1>4, <2>1 DEF TypeOK
<1>7. Counted'
  <2> SUFFICES ASSUME NEW h \in Handle
               PROVE  refs'[h] - refs[h] = RefParts(h)' - RefParts(h)
    BY <1>1, <1>6, BalancedExactly
  <2>1. PendingRefs(h)' = PendingRefs(h) - Is(Conn, h) + Occurs(<<>>, h)
    BY <1>1, <1>2, <1>3, <1>5, PendingContinues
  <2>2. Occurs(<<>>, h) = 0
    BY OccursEmpty
  <2>3. ConnRefs(h)' = ConnRefs(h)
    <3>1. Dependents' = Dependents
      BY <1>1, <1>2 DEF Dependents, Open, TypeOK
    <3>2. QED
      BY <3>1 DEF ConnRefs
  <2>4. /\ HeldRefs(h)' = HeldRefs(h) /\ BoundRefs(h)' = BoundRefs(h) /\ ColumnRefs(h)' = ColumnRefs(h)
        /\ RowRefs(h)' = RowRefs(h)
    BY <1>2, Unmoved
  <2>5. /\ HeldRefs(h) \in Nat /\ BoundRefs(h) \in Nat /\ ColumnRefs(h) \in Nat /\ RowRefs(h) \in Nat
        /\ ConnRefs(h) \in Nat /\ PendingRefs(h) \in Nat
    BY <1>1, PartTypes
  <2>6. Is(Conn, h) \in {0, 1}
    BY IsType
  <2>7. refs'[h] - refs[h] = 0 - Is(Conn, h)
    BY <1>4
  <2>8. QED
    BY <2>1, <2>2, <2>3, <2>4, <2>5, <2>6, <2>7 DEF RefParts
<1>8. ClosedEmpty' /\ Ready' /\ ListedOpen'
  BY <1>1, <1>2, <1>4, Kinds DEF ClosedEmpty, Ready, ListedOpen, TypeOK
<1>9. QED
  BY <1>4, <1>6, <1>7, <1>8 DEF HandleInv

-----------------------------------------------------------------------------
\* Every step keeps the invariant: a buffer is made ready and rows arrive.

Member(h, S) == IF h \in S THEN 1 ELSE 0

\* Where no place repeats another, a handle occurs once or not at all.
LEMMA OccursDistinct ==
    ASSUME NEW f, \A i, j \in DOMAIN f : f[i] = f[j] /\ f[i] /= None => i = j, NEW h \in Handle
    PROVE  Occurs(f, h) = Member(h, LobsIn(f))
<1>1. h /= None
  BY Kinds
<1>2. CASE h \in LobsIn(f)
  <2>1. PICK i \in DOMAIN f : f[i] = h
    BY <1>2 DEF LobsIn
  <2>2. \A j \in DOMAIN f : f[j] = h => j = i
    BY <1>1, <2>1
  <2>3. Occurs(f, h) = 1
    BY <2>1, <2>2, OccursOnce
  <2>4. QED
    BY <1>2, <2>3 DEF Member
<1>3. CASE h \notin LobsIn(f)
  <2>1. \A i \in DOMAIN f : f[i] /= h
    BY <1>1, <1>3 DEF LobsIn
  <2>2. Occurs(f, h) = 0
    BY <2>1, OccursNever
  <2>3. QED
    BY <1>3, <2>2 DEF Member
<1>4. QED
  BY <1>2, <1>3

LEMMA OneOfIn == \A S : \A x \in OneOf(S) : x \in S
BY DEF OneOf

LEMMA FreshOnes ==
    ASSUME NEW lobs \in FreshLobs
    PROVE  /\ lobs \in [Row -> Lob \union {None}]
           /\ \A r \in Row : lobs[r] /= None => lobs[r] \in Lob /\ New(lobs[r])
           /\ \A r, q \in Row : lobs[r] = lobs[q] /\ lobs[r] /= None => r = q
<1>1. lobs \in [Row -> {l \in Lob : New(l)} \union {None}] /\ Fresh(lobs)
  BY OneOfIn DEF FreshLobs
<1>2. QED
  BY <1>1 DEF Fresh

LEMMA FreshVar == \A v \in OneOf(NewVars) : v \in Var /\ New(v)
BY OneOfIn DEF NewVars

\* What is allocated with one reference each.
LEMMA AllocatedOnce ==
    ASSUME TypeOK, LiveCounts, NEW news, Allocation(news, Once(news)), NEW h \in Handle
    PROVE  refs'[h] - refs[h] = Member(h, news) + ConnRefs(h)' - ConnRefs(h) /\ ConnRefs(h)' \in Nat
<1>1. CASE h \in news
  <2>1. Once(news)[h] = 1
    BY <1>1 DEF Once
  <2>2. QED
    BY <1>1, <2>1, AllocatedParts, PartTypes DEF Member
<1>2. CASE h \notin news
  BY <1>2, AllocatedParts, PartTypes DEF Member
<1>3. QED
  BY <1>1, <1>2

LEMMA NewVarEmpty ==
    ASSUME TypeOK, ClosedEmpty, NEW v \in Var, New(v), NEW h \in Handle
    PROVE  /\ row[v] \in [Row -> Lob \union {None}] /\ \A r \in Row : row[v][r] = None
           /\ Occurs(row[v], h) = 0
<1>1. row[v] \in [Row -> Lob \union {None}]
  BY DEF TypeOK
<1>2. \A r \in Row : row[v][r] = None
  BY DEF ClosedEmpty, New, Open
<1>3. \A r \in DOMAIN row[v] : row[v][r] /= h
  BY <1>1, <1>2, Kinds
<1>4. QED
  BY <1>1, <1>2, <1>3, OccursNever

\* The row buffer of a variable is replaced.
LEMMA RowFilled ==
    ASSUME TypeOK, NEW v \in Var, NEW f \in [Row -> Lob \union {None}], row' = [row EXCEPT ![v] = f]
    PROVE  /\ row' \in [Var -> [Row -> Lob \union {None}]]
           /\ row'[v] = f /\ \A x \in Var : x /= v => row'[x] = row[x]
           /\ \A h : /\ RowRefs(h)' = RowRefs(h) - Occurs(row[v], h) + Occurs(f, h)
                     /\ Occurs(row[v], h) \in Nat /\ Occurs(f, h) \in Nat
<1>1. /\ row' \in [Var -> [Row -> Lob \union {None}]]
      /\ row'[v] = f /\ \A x \in Var : x /= v => row'[x] = row[x]
  BY DEF TypeOK
<1>2. DOMAIN f = Row
  OBVIOUS
<1>3. QED
  BY <1>1, <1>2, RowsReplaced

\* A sequence of places of which the first r are replaced, the last of them
\* by no handle.
LEMMA KeptOccur ==
    ASSUME NEW T, NEW old \in [Row -> T], NEW lobs \in [Row -> T], NEW kept \in [Row -> T], NEW r \in Row,
           \A q \in Row : kept[q] = IF q < r THEN lobs[q] ELSE IF q = r THEN None ELSE old[q],
           NEW h \in Handle
    PROVE  /\ Occurs(kept, h) = Occurs(SubSeq(lobs, 1, r - 1), h) + Occurs(SubSeq(old, r + 1, Rows), h)
           /\ Occurs(old, h) = Occurs(SubSeq(old, 1, r), h) + Occurs(SubSeq(old, r + 1, Rows), h)
           /\ SubSeq(old, 1, r) \in Seq(T)
<1> DEFINE a == SubSeq(lobs, 1, r - 1)
           b == SubSeq(old, r + 1, Rows)
           c == SubSeq(old, 1, r)
<1>1. r \in 1..Rows /\ r \in Int /\ r - 1 \in Int /\ r + 1 \in Int /\ Rows \in Nat /\ Rows \in Int /\ Row = 1..Rows
  BY SizeAssumption DEF Row
<1>2. a \in Seq(T) /\ Len(a) = r - 1 /\ \A i \in 1..(r - 1) : a[i] = lobs[i]
  <2>1. \A i \in 1..(r - 1) : lobs[i] \in T
    BY <1>1
  <2>2. /\ a \in Seq(T) /\ Len(a) = (IF 1 <= r - 1 THEN (r - 1) - 1 + 1 ELSE 0)
        /\ \A i \in 1..((r - 1) - 1 + 1) : a[i] = lobs[1 + i - 1]
    BY <1>1, <2>1, SubSeqProperties
  <2> HIDE DEF a
  <2>3. QED
    BY <1>1, <2>2
<1>3. b \in Seq(T) /\ Len(b) = Rows - r /\ \A i \in 1..(Rows - r) : b[i] = old[r + i]
  <2>1. \A i \in (r + 1)..Rows : old[i] \in T
    BY <1>1
  <2>2. /\ b \in Seq(T) /\ Len(b) = (IF r + 1 <= Rows THEN Rows - (r + 1) + 1 ELSE 0)
        /\ \A i \in 1..(Rows - (r + 1) + 1) : b[i] = old[(r + 1) + i - 1]
    BY <1>1, <2>1, SubSeqProperties
  <2> HIDE DEF b
  <2>3. QED
    BY <1>1, <2>2
<1>4. c \in Seq(T) /\ Len(c) = r /\ \A i \in 1..r : c[i] = old[i]
  <2>1. \A i \in 1..r : old[i] \in T
    BY <1>1
  <2>2. /\ c \in Seq(T) /\ Len(c) = (IF 1 <= r THEN r - 1 + 1 ELSE 0)
        /\ \A i \in 1..(r - 1 + 1) : c[i] = old[1 + i - 1]
    BY <1>1, <2>1, SubSeqProperties
  <2> HIDE DEF c
  <2>3. QED
    BY <1>1, <2>2
<1> HIDE DEF a, b, c
<1>5. <<None>> \in Seq(T) /\ Len(<<None>>) = 1 /\ <<None>>[1] = None
  <2>1. None \in T
    BY <1>1
  <2>2. QED
    BY <2>1
<1>6. old = c \o b
  <2>1. c \o b \in Seq(T) /\ Len(c \o b) = Rows
        /\ \A i \in 1..Rows : (c \o b)[i] = IF i <= r THEN c[i] ELSE b[i - r]
    <3>1. c \o b \in Seq(T) /\ Len(c \o b) = Len(c) + Len(b)
          /\ \A i \in 1..(Len(c) + Len(b)) : (c \o b)[i] = IF i <= Len(c) THEN c[i] ELSE b[i - Len(c)]
      BY <1>3, <1>4, ConcatProperties
    <3>2. Len(c) + Len(b) = Rows /\ Len(c) = r
      BY <1>1, <1>3, <1>4
    <3>3. QED
      BY <3>1, <3>2
  <2>2. old \in Seq(T) /\ Len(old) = Rows
    BY <1>1, IsASeq
  <2>3. ASSUME NEW i \in 1..Rows PROVE old[i] = (c \o b)[i]
    <3>1. CASE i <= r
      <4>1. i \in 1..r
        BY <1>1, <3>1
      <4>2. QED
        BY <1>4, <2>1, <3>1, <4>1
    <3>2. CASE ~(i <= r)
      <4>1. i - r \in 1..(Rows - r) /\ r + (i - r) = i
        BY <1>1, <3>2
      <4>2. b[i - r] = old[i]
        BY <1>3, <4>1
      <4>3. QED
        BY <2>1, <3>2, <4>2
    <3>3. QED
      BY <3>1, <3>2
  <2>4. QED
    BY <2>1, <2>2, <2>3, SeqEqual
<1>7. kept = (a \o <<None>>) \o b
  <2>1. a \o <<None>> \in Seq(T) /\ Len(a \o <<None>>) = r
        /\ \A i \in 1..r : (a \o <<None>>)[i] = IF i <= r - 1 THEN a[i] ELSE <<None>>[i - (r - 1)]
    BY <1>1, <1>2, <1>5, ConcatProperties
  <2>2. (a \o <<None>>) \o b \in Seq(T) /\ Len((a \o <<None>>) \o b) = Rows
        /\ \A i \in 1..Rows : ((a \o <<None>>) \o b)[i] = IF i <= r THEN (a \o <<None>>)[i] ELSE b[i - r]
    BY <1>1, <1>3, <2>1, ConcatProperties
  <2>3. kept \in Seq(T) /\ Len(kept) = Rows
    BY <1>1, IsASeq
  <2>4. ASSUME NEW i \in 1..Rows PROVE kept[i] = ((a \o <<None>>) \o b)[i]
    <3>1. CASE i < r
      <4>1. i \in 1..r /\ i <= r /\ i <= r - 1 /\ i \in 1..(r - 1)
        BY <1>1, <3>1
      <4>2. (a \o <<None>>)[i] = lobs[i] /\ kept[i] = lobs[i]
        BY <1>1, <1>2, <2>1, <3>1, <4>1
      <4>3. QED
        BY <2>2, <4>1, <4>2
    <3>2. CASE i = r
      <4>1. i \in 1..r /\ i <= r /\ ~(i <= r - 1) /\ i - (r - 1) = 1 /\ ~(i < r)
        BY <1>1, <3>2
      <4>2. (a \o <<None>>)[i] = None /\ kept[i] = None
        BY <1>1, <1>5, <2>1, <3>2, <4>1
      <4>3. QED
        BY <2>2, <4>1, <4>2
    <3>3. CASE ~(i < r) /\ i /= r
      <4>1. i - r \in 1..(Rows - r) /\ r + (i - r) = i /\ ~(i <= r)
        BY <1>1, <3>3
      <4>2. b[i - r] = old[i] /\ kept[i] = old[i]
        BY <1>1, <1>3, <3>3, <4>1
      <4>3. QED
        BY <2>2, <4>1, <4>2
    <3>4. QED
      BY <3>1, <3>2, <3>3
  <2>5. QED
    BY <2>2, <2>3, <2>4, SeqEqual
<1>8. Occurs(old, h) = Occurs(c, h) + Occurs(b, h)
  BY <1>3, <1>4, <1>6, OccursConcat
<1>9. Occurs(kept, h) = Occurs(a, h) + Occurs(b, h)
  <2>1. a \o <<None>> \in Seq(T)
    BY <1>2, <1>5, ConcatProperties
  <2>2. Occurs((a \o <<None>>) \o b, h) = Occurs(a \o <<None>>, h) + Occurs(b, h)
    BY <1>3, <2>1, OccursConcat
  <2>3. Occurs(a \o <<None>>, h) = Occurs(a, h) + Occurs(<<None>>, h)
    BY <1>2, <1>5, OccursConcat
  <2>4. Occurs(<<None>>, h) = 0
    BY OccursSingle, NullIsNothing
  <2>5. Occurs(a, h) \in Nat
    <3>1. DOMAIN a = 1..Len(a) /\ Len(a) \in Int
      BY <1>2, LenProperties
    <3>2. IsFiniteSet(DOMAIN a)
      BY <3>1, FS_Interval
    <3>3. QED
      BY <3>2, OccursType
  <2>6. Occurs(kept, h) = Occurs((a \o <<None>>) \o b, h)
    BY <1>7
  <2>7. QED
    BY ONLY <2>2, <2>3, <2>4, <2>5, <2>6
<1>10. QED
  BY <1>4, <1>8, <1>9 DEF a, b, c

\* The handles after a step that fills a row buffer: as the invariant has
\* them, and with counts that moved as the references did.
Filled ==
    /\ LiveCounts' /\ ClosedEmpty' /\ ListedOpen'
    /\ refs' \in [Handle -> Nat] /\ state' \in [Handle -> {"none", "open", "freed"}]
    /\ column' \in [Stmt -> Var \union {None}] /\ row' \in [Var -> [Row -> Lob \union {None}]]
    /\ openLobs' \subseteq Lob /\ pending' \in Seq(Handle \union {None})
    /\ \A h \in Handle : New(h)' => New(h)

Moved == \A h \in Handle : refs'[h] - refs[h] = RefParts(h)' - RefParts(h)

\* A variable and LOBs that are new are allocated, the LOBs into the buffer of
\* the variable.
LEMMA NewVarFilled ==
    ASSUME HandleInv, extra' = extra, Open(Conn), NEW v \in Var, New(v), NEW news \in SUBSET Lob, \A l \in news : New(l),
           Allocated({v} \union news, Once({v} \union news)),
           NEW f \in [Row -> Lob \union {None}], row' = [row EXCEPT ![v] = f],
           \A h \in Handle : Occurs(f, h) = Member(h, news),
           openLobs' = openLobs \union news, openStmts' = openStmts, bound' = bound, held' = held,
           column' \in [Stmt -> Var \union {None}], pending' \in Seq(Handle \union {None}),
           \A s \in Stmt : column'[s] /= column[s] => Open(s)
    PROVE  /\ Filled
           /\ \A h \in Handle :
                 /\ refs'[h] - refs[h] = Is(v, h) + Member(h, news) + ConnRefs(h)' - ConnRefs(h)
                 /\ RowRefs(h)' = RowRefs(h) + Member(h, news)
                 /\ ConnRefs(h)' \in Nat /\ Member(h, news) \in {0, 1}
<1> DEFINE all == {v} \union news
<1>1. TypeOK /\ Counted /\ LiveCounts /\ ClosedEmpty /\ Ready /\ ListedOpen
  BY DEF HandleInv
<1>2. Allocation(all, Once(all))
  BY Kinds DEF Allocation, Once
<1> HIDE DEF all
<1>3. /\ LiveCounts' /\ \A h \in Handle : (Open(h)' <=> Open(h) \/ h \in all) /\ (New(h)' => New(h))
      /\ refs' \in [Handle -> Nat] /\ state' \in [Handle -> {"none", "open", "freed"}]
  BY <1>1, <1>2, AllocatedKeeps
<1>4. /\ row' \in [Var -> [Row -> Lob \union {None}]]
      /\ row'[v] = f /\ \A x \in Var : x /= v => row'[x] = row[x]
      /\ \A h : /\ RowRefs(h)' = RowRefs(h) - Occurs(row[v], h) + Occurs(f, h)
                /\ Occurs(row[v], h) \in Nat /\ Occurs(f, h) \in Nat
  BY <1>1, RowFilled
<1>5. ClosedEmpty'
  <2>1. ASSUME NEW s \in Stmt, ~Open(s)' PROVE column'[s] = None /\ \A p \in Param : bound'[s][p] = None
    <3>1. ~Open(s)
      BY <1>3, <2>1, Kinds
    <3>2. QED
      BY <1>1, <3>1 DEF ClosedEmpty
  <2>2. ASSUME NEW w \in Var, ~Open(w)' PROVE \A r \in Row : row'[w][r] = None
    <3>1. ~Open(w) /\ w /= v
      BY <1>3, <2>2, Kinds DEF all
    <3>2. QED
      BY <1>1, <1>4, <3>1 DEF ClosedEmpty
  <2>3. QED
    BY <2>1, <2>2 DEF ClosedEmpty
<1>6. ListedOpen'
  <2>1. \A h \in openStmts' \union openLobs' : h \in Handle /\ (h \in openStmts \union openLobs \/ h \in all)
    BY <1>1, Kinds DEF TypeOK, all
  <2>2. QED
    BY <1>1, <1>3, <2>1 DEF ListedOpen
<1>7. openLobs' \subseteq Lob
  BY <1>1 DEF TypeOK
<1>8. ASSUME NEW h \in Handle
      PROVE  /\ refs'[h] - refs[h] = Is(v, h) + Member(h, news) + ConnRefs(h)' - ConnRefs(h)
             /\ RowRefs(h)' = RowRefs(h) + Member(h, news)
             /\ ConnRefs(h)' \in Nat /\ Member(h, news) \in {0, 1}
  <2>1. refs'[h] - refs[h] = Member(h, all) + ConnRefs(h)' - ConnRefs(h) /\ ConnRefs(h)' \in Nat
    BY <1>1, <1>2, AllocatedOnce
  <2>2. Member(h, all) = Is(v, h) + Member(h, news) /\ Member(h, news) \in {0, 1}
    BY Kinds DEF Member, Is, all
  <2>3. Occurs(row[v], h) = 0
    BY <1>1, NewVarEmpty
  <2>4. RowRefs(h)' = RowRefs(h) - 0 + Member(h, news) /\ RowRefs(h) \in Nat
    BY <1>1, <1>4, <2>3, PartTypes
  <2>5. QED
    BY <2>1, <2>2, <2>4
<1>9. QED
  BY <1>3, <1>4, <1>5, <1>6, <1>7, <1>8 DEF Filled

\* LOBs that are new are allocated into the buffer of the variable in use; what
\* was there before is on its way to be released.
LEMMA UsedVarFilled ==
    ASSUME HandleInv, extra' = extra, Open(Conn), NEW s \in Stmt, column[s] /= None, NEW news \in SUBSET Lob, \A l \in news : New(l),
           Allocated(news, Once(news)), pending = <<>>, pending' \in Seq(Handle \union {None}),
           NEW f \in [Row -> Lob \union {None}], row' = [row EXCEPT ![column[s]] = f],
           \A h \in Handle : /\ Occurs(f, h) + PendingRefs(h)' = Occurs(row[column[s]], h) + Member(h, news)
                             /\ PendingRefs(h)' \in Nat,
           openLobs' = openLobs \union news,
           openStmts' = openStmts, bound' = bound, held' = held, column' = column
    PROVE  Filled /\ Moved
<1> DEFINE v == column[s]
<1>1. TypeOK /\ Counted /\ LiveCounts /\ ClosedEmpty /\ Ready /\ ListedOpen
  BY DEF HandleInv
<1>2. v \in Var /\ Open(v)
  BY <1>1, ColumnOpen
<1> HIDE DEF v
<1>3. Allocation(news, Once(news))
  BY Kinds DEF Allocation, Once
<1>4. /\ LiveCounts' /\ \A h \in Handle : (Open(h)' <=> Open(h) \/ h \in news) /\ (New(h)' => New(h))
      /\ refs' \in [Handle -> Nat] /\ state' \in [Handle -> {"none", "open", "freed"}]
  BY <1>1, <1>3, AllocatedKeeps
<1>5. /\ row' \in [Var -> [Row -> Lob \union {None}]]
      /\ row'[v] = f /\ \A x \in Var : x /= v => row'[x] = row[x]
      /\ \A h : /\ RowRefs(h)' = RowRefs(h) - Occurs(row[v], h) + Occurs(f, h)
                /\ Occurs(row[v], h) \in Nat /\ Occurs(f, h) \in Nat
  BY <1>1, <1>2, RowFilled DEF v
<1>6. ClosedEmpty'
  <2>1. ASSUME NEW t \in Stmt, ~Open(t)' PROVE column'[t] = None /\ \A p \in Param : bound'[t][p] = None
    <3>1. ~Open(t)
      BY <1>4, <2>1, Kinds
    <3>2. QED
      BY <1>1, <3>1 DEF ClosedEmpty
  <2>2. ASSUME NEW w \in Var, ~Open(w)' PROVE \A r \in Row : row'[w][r] = None
    <3>1. ~Open(w) /\ w /= v
      BY <1>2, <1>4, <2>2, Kinds
    <3>2. QED
      BY <1>1, <1>5, <3>1 DEF ClosedEmpty
  <2>3. QED
    BY <2>1, <2>2 DEF ClosedEmpty
<1>7. ListedOpen'
  <2>1. \A h \in openStmts' \union openLobs' : h \in Handle /\ (h \in openStmts \union openLobs \/ h \in news)
    BY <1>1, Kinds DEF TypeOK
  <2>2. QED
    BY <1>1, <1>4, <2>1 DEF ListedOpen
<1>8. openLobs' \subseteq Lob /\ column' \in [Stmt -> Var \union {None}]
  BY <1>1 DEF TypeOK
<1>9. ASSUME NEW h \in Handle PROVE refs'[h] - refs[h] = RefParts(h)' - RefParts(h)
  <2>1. refs'[h] - refs[h] = Member(h, news) + ConnRefs(h)' - ConnRefs(h) /\ ConnRefs(h)' \in Nat
    BY <1>1, <1>3, AllocatedOnce
  <2>2. Member(h, news) \in {0, 1}
    BY DEF Member
  <2>3. /\ RowRefs(h)' = RowRefs(h) - Occurs(row[v], h) + Occurs(f, h)
        /\ Occurs(row[v], h) \in Nat /\ Occurs(f, h) \in Nat
    BY <1>5
  <2>4. Occurs(f, h) + PendingRefs(h)' = Occurs(row[v], h) + Member(h, news) /\ PendingRefs(h)' \in Nat
    BY DEF v
  <2>5. PendingRefs(h) = 0
    BY PendingStarts
  <2>6. HeldRefs(h)' = HeldRefs(h) /\ BoundRefs(h)' = BoundRefs(h) /\ ColumnRefs(h)' = ColumnRefs(h)
    BY Unmoved
  <2>7. /\ HeldRefs(h) \in Nat /\ BoundRefs(h) \in Nat /\ ColumnRefs(h) \in Nat /\ RowRefs(h) \in Nat
        /\ ConnRefs(h) \in Nat
    BY <1>1, PartTypes
  <2>8. QED
    BY ONLY <2>1, <2>2, <2>3, <2>4, <2>5, <2>6, <2>7 DEF RefParts
<1>10. QED
  BY <1>4, <1>5, <1>6, <1>7, <1>8, <1>9 DEF Filled, Moved

LEMMA FreshLobsIn ==
    ASSUME NEW lobs \in FreshLobs
    PROVE  /\ LobsIn(lobs) \in SUBSET Lob /\ \A l \in LobsIn(lobs) : New(l)
           /\ \A h \in Handle : Occurs(lobs, h) = Member(h, LobsIn(lobs))
<1>1. /\ lobs \in [Row -> Lob \union {None}]
      /\ \A r \in Row : lobs[r] /= None => lobs[r] \in Lob /\ New(lobs[r])
      /\ \A r, q \in Row : lobs[r] = lobs[q] /\ lobs[r] /= None => r = q
  BY FreshOnes
<1>2. LobsIn(lobs) \in SUBSET Lob /\ \A l \in LobsIn(lobs) : New(l)
  BY <1>1 DEF LobsIn
<1>3. \A i, j \in DOMAIN lobs : lobs[i] = lobs[j] /\ lobs[i] /= None => i = j
  BY <1>1
<1>4. QED
  BY <1>2, <1>3, OccursDistinct

LEMMA FirstBufferKeeps ==
    ASSUME HandleInv, extra' = extra, pending = <<>>, NEW s \in Stmt, s \in held, NEW lobs \in FreshLobs, NEW v \in Var, New(v),
           FirstBuffer(s, v, lobs), UNCHANGED <<bound, openStmts, held>>
    PROVE  Filled /\ Moved /\ column'[s] /= None /\ \A t \in Stmt : t /= s => column'[t] = column[t]
<1> DEFINE news == LobsIn(lobs)
<1>1. TypeOK /\ Counted /\ LiveCounts /\ ClosedEmpty /\ Ready /\ ListedOpen
  BY DEF HandleInv
<1>2. /\ column[s] = None /\ Allocated({v} \union news, Once({v} \union news))
      /\ column' = [column EXCEPT ![s] = v] /\ row' = [row EXCEPT ![v] = lobs]
      /\ openLobs' = openLobs \union news /\ pending' = <<>>
      /\ bound' = bound /\ openStmts' = openStmts /\ held' = held
  BY DEF FirstBuffer
<1>3. Open(s) /\ Open(Conn)
  BY <1>1, HeldOpen, ConnOpen
<1>4. lobs \in [Row -> Lob \union {None}]
  BY FreshOnes
<1>5. news \in SUBSET Lob /\ (\A l \in news : New(l)) /\ \A h \in Handle : Occurs(lobs, h) = Member(h, news)
  BY FreshLobsIn
<1> HIDE DEF news
<1>6. /\ column' \in [Stmt -> Var \union {None}] /\ \A t \in Stmt : t /= s => column'[t] = column[t]
      /\ column'[s] = v /\ v /= None
  BY <1>1, <1>2, Kinds DEF TypeOK
<1>7. pending' \in Seq(Handle \union {None}) /\ \A t \in Stmt : column'[t] /= column[t] => Open(t)
  BY <1>2, <1>3, <1>6
<1>8. /\ Filled
      /\ \A h \in Handle :
            /\ refs'[h] - refs[h] = Is(v, h) + Member(h, news) + ConnRefs(h)' - ConnRefs(h)
            /\ RowRefs(h)' = RowRefs(h) + Member(h, news)
            /\ ConnRefs(h)' \in Nat /\ Member(h, news) \in {0, 1}
  BY <1>2, <1>3, <1>4, <1>5, <1>6, <1>7, NewVarFilled
<1>9. ASSUME NEW h \in Handle PROVE refs'[h] - refs[h] = RefParts(h)' - RefParts(h)
  <2>1. /\ refs'[h] - refs[h] = Is(v, h) + Member(h, news) + ConnRefs(h)' - ConnRefs(h)
        /\ RowRefs(h)' = RowRefs(h) + Member(h, news) /\ ConnRefs(h)' \in Nat /\ Member(h, news) \in {0, 1}
    BY <1>8
  <2>2. ColumnRefs(h)' = ColumnRefs(h) - Is(column[s], h) + Is(v, h)
    BY <1>1, <1>2, ColumnReplaced
  <2>3. Is(column[s], h) = 0
    BY <1>2, NullIsNothing
  <2>4. PendingRefs(h) = 0 /\ PendingRefs(h)' = 0
    BY <1>2, PendingStarts
  <2>5. HeldRefs(h)' = HeldRefs(h) /\ BoundRefs(h)' = BoundRefs(h)
    BY <1>2, Unmoved
  <2>6. /\ HeldRefs(h) \in Nat /\ BoundRefs(h) \in Nat /\ ColumnRefs(h) \in Nat /\ RowRefs(h) \in Nat
        /\ ConnRefs(h) \in Nat
    BY <1>1, PartTypes
  <2>7. Is(v, h) \in {0, 1}
    BY IsType
  <2>8. QED
    BY ONLY <2>1, <2>2, <2>3, <2>4, <2>5, <2>6, <2>7 DEF RefParts
<1>10. QED
  BY <1>6, <1>8, <1>9 DEF Moved

LEMMA NextBufferKeeps ==
    ASSUME HandleInv, extra' = extra, pending = <<>>, NEW s \in Stmt, s \in held, NEW lobs \in FreshLobs,
           NextBuffer(s, lobs), UNCHANGED <<bound, openStmts, held>>
    PROVE  Filled /\ Moved /\ column'[s] /= None /\ \A t \in Stmt : t /= s => column'[t] = column[t]
<1> DEFINE news == LobsIn(lobs)
           old == row[column[s]]
<1>1. TypeOK /\ Counted /\ LiveCounts /\ ClosedEmpty /\ Ready /\ ListedOpen
  BY DEF HandleInv
<1>2. /\ column[s] /= None /\ Allocated(news, Once(news)) /\ row' = [row EXCEPT ![column[s]] = lobs]
      /\ openLobs' = openLobs \union news /\ pending' = old
      /\ bound' = bound /\ openStmts' = openStmts /\ held' = held /\ column' = column
  BY DEF NextBuffer
<1>3. Open(s) /\ Open(Conn)
  BY <1>1, HeldOpen, ConnOpen
<1>4. lobs \in [Row -> Lob \union {None}]
  BY FreshOnes
<1>5. news \in SUBSET Lob /\ (\A l \in news : New(l)) /\ \A h \in Handle : Occurs(lobs, h) = Member(h, news)
  BY FreshLobsIn
<1>6. old \in Seq(Handle \union {None})
  <2>1. column[s] \in Var
    BY <1>1, <1>2 DEF TypeOK
  <2>2. old \in [1..Rows -> Handle \union {None}] /\ Rows \in Nat
    BY <1>1, <2>1, Kinds, SizeAssumption DEF TypeOK, Row
  <2> HIDE DEF old
  <2>3. QED
    BY <2>2, IsASeq
<1>7. ASSUME NEW h \in Handle
      PROVE  Occurs(lobs, h) + PendingRefs(h)' = Occurs(old, h) + Member(h, news) /\ PendingRefs(h)' \in Nat
  <2>1. PendingRefs(h)' = Occurs(old, h)
    BY <1>2 DEF PendingRefs
  <2>2. Occurs(old, h) \in Nat
    <3>1. DOMAIN old = 1..Len(old) /\ Len(old) \in Int
      BY <1>6, LenProperties
    <3>2. IsFiniteSet(DOMAIN old)
      BY <3>1, FS_Interval
    <3>3. QED
      BY <3>2, OccursType
  <2>3. Occurs(lobs, h) = Member(h, news) /\ Member(h, news) \in {0, 1}
    BY <1>5 DEF Member
  <2> HIDE DEF old, news
  <2>4. QED
    BY <2>1, <2>2, <2>3
<1> HIDE DEF news
<1>8. pending' \in Seq(Handle \union {None})
  BY <1>2, <1>6
<1>9. Filled /\ Moved
  BY <1>2, <1>3, <1>4, <1>5, <1>7, <1>8, UsedVarFilled
<1>10. QED
  BY <1>2, <1>9

LEMMA BufferKeeps ==
    ASSUME HandleInv, extra' = extra, NEW s \in Stmt, MustFetch(s), Buffer(s), held' = held
    PROVE  /\ Filled /\ Moved /\ column'[s] /= None /\ \A t \in Stmt : t /= s => column'[t] = column[t]
           /\ bound' = bound /\ openStmts' = openStmts
<1>1. pending = <<>> /\ s \in held /\ bound' = bound /\ openStmts' = openStmts
  BY DEF MustFetch, Idle, Buffer
<1>2. PICK lobs \in FreshLobs : NextBuffer(s, lobs) \/ \E v \in OneOf(NewVars) : FirstBuffer(s, v, lobs)
  BY DEF Buffer
<1>3. CASE NextBuffer(s, lobs)
  BY <1>1, <1>3, NextBufferKeeps
<1>4. CASE \E v \in OneOf(NewVars) : FirstBuffer(s, v, lobs)
  <2>1. PICK v \in OneOf(NewVars) : FirstBuffer(s, v, lobs)
    BY <1>4
  <2>2. v \in Var /\ New(v)
    BY FreshVar
  <2>3. QED
    BY <1>1, <2>1, <2>2, FirstBufferKeeps
<1>5. QED
  BY <1>2, <1>3, <1>4

LEMMA MovedCounted == ASSUME TypeOK, TypeOK', Counted, extra' = extra, Moved PROVE Counted'
<1>1. \A h \in Handle : refs[h] \in Nat /\ refs'[h] \in Nat
  BY DEF TypeOK
<1>2. \A h \in Handle : RefParts(h) \in Nat /\ RefParts(h)' \in Nat
  BY PartTypes, PartTypesAfter DEF RefParts
<1>3. QED
  BY <1>1, <1>2, Balanced DEF Moved

LEMMA FetchKeeps == ASSUME HandleInv, extra' = extra, NEW s \in Stmt, NEW n \in 0..Rows, Fetch(s, n) PROVE HandleInv'
<1>1. TypeOK /\ Counted /\ LiveCounts /\ ClosedEmpty /\ Ready /\ ListedOpen
  BY DEF HandleInv
<1>2. /\ MustFetch(s) /\ Buffer(s) /\ held' = held /\ s \in held
      /\ rowsIn' = [rowsIn EXCEPT ![s] = n] /\ cursor' = [cursor EXCEPT ![s] = IF n > 0 THEN 1 ELSE 0]
      /\ executed' = (IF n < Rows THEN executed \ {s} ELSE executed)
      /\ decoding' = (IF n > 0 THEN s ELSE None)
  BY DEF Fetch, MustFetch
<1>3. /\ Filled /\ Moved /\ column'[s] /= None /\ \A t \in Stmt : t /= s => column'[t] = column[t]
      /\ bound' = bound /\ openStmts' = openStmts
  BY <1>2, BufferKeeps
<1>4. TypeOK'
  <2>1. rowsIn' \in [Stmt -> 0..Rows] /\ cursor' \in [Stmt -> 0..Rows]
    BY <1>1, <1>2, SizeAssumption DEF TypeOK
  <2>2. executed' \subseteq Stmt /\ decoding' \in Stmt \union {None} /\ held' \subseteq {Conn} \union Stmt
    BY <1>1, <1>2 DEF TypeOK
  <2>3. QED
    BY <1>1, <1>3, <2>1, <2>2 DEF TypeOK, Filled
<1>5. Counted'
  BY <1>1, <1>3, <1>4, MovedCounted
<1>6. Ready'
  <2>1. \A t \in Stmt : t \in held' \/ New(t)' => t \in held \/ New(t)
    BY <1>2, <1>3, Kinds DEF Filled
  <2>2. rowsIn'[s] = n /\ cursor'[s] <= n /\ (n > 0 => cursor'[s] > 0)
    BY <1>1, <1>2 DEF TypeOK
  <2>3. \A t \in Stmt : t /= s => rowsIn'[t] = rowsIn[t] /\ cursor'[t] = cursor[t]
    BY <1>1, <1>2 DEF TypeOK
  <2>4. QED
    BY <1>1, <1>2, <1>3, <2>1, <2>2, <2>3 DEF Ready
<1>7. QED
  BY <1>3, <1>4, <1>5, <1>6 DEF HandleInv, Filled

LEMMA FetchFailsKeeps == ASSUME HandleInv, extra' = extra, NEW s \in Stmt, FetchFails(s) PROVE HandleInv'
<1>1. TypeOK /\ Counted /\ LiveCounts /\ ClosedEmpty /\ Ready /\ ListedOpen
  BY DEF HandleInv
<1>2. /\ MustFetch(s) /\ Buffer(s) /\ held' = held /\ rowsIn' = rowsIn /\ cursor' = cursor
      /\ executed' = executed /\ decoding' = decoding /\ decoding = None
  BY DEF FetchFails, MustFetch, Idle, buffers
<1>3. /\ Filled /\ Moved /\ column'[s] /= None /\ \A t \in Stmt : t /= s => column'[t] = column[t]
      /\ bound' = bound /\ openStmts' = openStmts
  BY <1>2, BufferKeeps
<1>4. TypeOK'
  BY <1>1, <1>2, <1>3 DEF TypeOK, Filled
<1>5. Counted'
  BY <1>1, <1>3, <1>4, MovedCounted
<1>6. Ready'
  <2>1. \A t \in Stmt : t \in held' \/ New(t)' => t \in held \/ New(t)
    BY <1>2, <1>3, Kinds DEF Filled
  <2>2. QED
    BY <1>1, <1>2, <1>3, <2>1 DEF Ready
<1>7. QED
  BY <1>3, <1>4, <1>5, <1>6 DEF HandleInv, Filled

\* The buffer is left with the LOBs it has so far.
LEMMA FetchAllocationFailsKeeps ==
    ASSUME HandleInv, extra' = extra, NEW s \in Stmt, NEW r \in Row, NEW lobs \in FreshLobs, FetchAllocationFails(s, r, lobs)
    PROVE  HandleInv'
<1> DEFINE a == SubSeq(lobs, 1, r - 1)
           news == LobsIn(a)
           kept(old) == [q \in Row |-> IF q < r THEN lobs[q] ELSE IF q = r THEN None ELSE old[q]]
<1>1. TypeOK /\ Counted /\ LiveCounts /\ ClosedEmpty /\ Ready /\ ListedOpen
  BY DEF HandleInv
<1>2. /\ MustFetch(s) /\ openLobs' = openLobs \union news
      /\ bound' = bound /\ column' = column /\ openStmts' = openStmts /\ decoding' = decoding /\ held' = held
      /\ executed' = executed /\ rowsIn' = rowsIn /\ cursor' = cursor /\ pending = <<>> /\ s \in held
  BY DEF FetchAllocationFails, MustFetch, Idle, buffers
<1>3. Open(s) /\ Open(Conn)
  BY <1>1, <1>2, HeldOpen, ConnOpen
<1>4. lobs \in [Row -> Lob \union {None}]
  BY FreshOnes
<1>5. r \in 1..Rows /\ Rows \in Nat /\ Row = 1..Rows
  BY SizeAssumption DEF Row
<1>6. /\ Len(a) = r - 1 /\ DOMAIN a = 1..(r - 1) /\ a \in Seq(Lob \union {None})
      /\ \A i \in 1..(r - 1) : i \in Row /\ a[i] = lobs[i]
  <2>1. \A i \in 1..(r - 1) : lobs[i] \in Lob \union {None}
    BY <1>4, <1>5
  <2>2. /\ a \in Seq(Lob \union {None}) /\ Len(a) = (IF 1 <= r - 1 THEN (r - 1) - 1 + 1 ELSE 0)
        /\ \A i \in 1..((r - 1) - 1 + 1) : a[i] = lobs[1 + i - 1]
    BY <1>5, <2>1, SubSeqProperties
  <2> HIDE DEF a
  <2>3. Len(a) = r - 1 /\ \A i \in 1..(r - 1) : i \in Row /\ a[i] = lobs[i]
    BY <1>5, <2>2
  <2>4. QED
    BY <2>2, <2>3, LenProperties
<1> HIDE DEF a
<1>7. /\ news \in SUBSET Lob /\ \A l \in news : New(l)
      /\ \A h \in Handle : Occurs(a, h) = Member(h, news) /\ Member(h, news) \in {0, 1}
  <2>1. /\ \A q \in Row : lobs[q] /= None => lobs[q] \in Lob /\ New(lobs[q])
        /\ \A q, p \in Row : lobs[q] = lobs[p] /\ lobs[q] /= None => q = p
    BY FreshOnes
  <2>2. news \in SUBSET Lob /\ \A l \in news : New(l)
    BY <1>6, <2>1 DEF LobsIn
  <2>3. \A i, j \in DOMAIN a : a[i] = a[j] /\ a[i] /= None => i = j
    BY <1>6, <2>1
  <2>4. QED
    BY <2>2, <2>3, OccursDistinct DEF Member
<1> HIDE DEF news
<1>8. ASSUME NEW old \in [Row -> Lob \union {None}]
      PROVE  /\ kept(old) \in [Row -> Lob \union {None}] /\ SubSeq(old, 1, r) \in Seq(Lob \union {None})
             /\ \A h \in Handle :
                   /\ Occurs(kept(old), h) = Occurs(a, h) + Occurs(SubSeq(old, r + 1, Rows), h)
                   /\ Occurs(old, h) = Occurs(SubSeq(old, 1, r), h) + Occurs(SubSeq(old, r + 1, Rows), h)
  <2> DEFINE k == kept(old)
  <2>1. /\ k \in [Row -> Lob \union {None}]
        /\ \A q \in Row : k[q] = IF q < r THEN lobs[q] ELSE IF q = r THEN None ELSE old[q]
    BY <1>4
  <2> HIDE DEF k
  <2>2. \A h \in Handle :
           /\ Occurs(k, h) = Occurs(SubSeq(lobs, 1, r - 1), h) + Occurs(SubSeq(old, r + 1, Rows), h)
           /\ Occurs(old, h) = Occurs(SubSeq(old, 1, r), h) + Occurs(SubSeq(old, r + 1, Rows), h)
           /\ SubSeq(old, 1, r) \in Seq(Lob \union {None})
    BY <1>4, <2>1, KeptOccur
  <2>3. QED
    BY <2>1, <2>2, Kinds DEF k, a
<1>9. ASSUME NEW old \in [Row -> Lob \union {None}], NEW h \in Handle
      PROVE  Occurs(SubSeq(old, 1, r), h) \in Nat /\ Occurs(SubSeq(old, r + 1, Rows), h) \in Nat
  <2>1. r \in Int /\ r + 1 \in Int /\ Rows \in Int /\ (\A i \in 1..r : old[i] \in Lob \union {None})
        /\ \A i \in (r + 1)..Rows : old[i] \in Lob \union {None}
    BY <1>5
  <2>2. SubSeq(old, 1, r) \in Seq(Lob \union {None}) /\ SubSeq(old, r + 1, Rows) \in Seq(Lob \union {None})
    BY <2>1, SubSeqProperties
  <2>3. ASSUME NEW t \in Seq(Lob \union {None}) PROVE Occurs(t, h) \in Nat
    <3>1. DOMAIN t = 1..Len(t) /\ Len(t) \in Int
      BY LenProperties
    <3>2. IsFiniteSet(DOMAIN t)
      BY <3>1, FS_Interval
    <3>3. QED
      BY <3>2, OccursType
  <2>4. QED
    BY <2>2, <2>3
<1>10. Filled /\ Moved
  <2>1. CASE /\ column[s] /= None /\ Allocated(news, Once(news))
             /\ row' = [row EXCEPT ![column[s]] = kept(@)] /\ pending' = SubSeq(row[column[s]], 1, r)
    <3> DEFINE old == row[column[s]]
               f == kept(old)
    <3>1. old \in [Row -> Lob \union {None}]
      BY <1>1, <2>1 DEF TypeOK
    <3>2. row' = [row EXCEPT ![column[s]] = f] /\ pending' = SubSeq(old, 1, r)
      BY <2>1
    <3> HIDE DEF old
    <3>3. /\ f \in [Row -> Lob \union {None}] /\ SubSeq(old, 1, r) \in Seq(Lob \union {None})
          /\ \A h \in Handle :
                /\ Occurs(f, h) = Occurs(a, h) + Occurs(SubSeq(old, r + 1, Rows), h)
                /\ Occurs(old, h) = Occurs(SubSeq(old, 1, r), h) + Occurs(SubSeq(old, r + 1, Rows), h)
      BY <1>8, <3>1
    <3> HIDE DEF f, kept
    <3>4. pending' \in Seq(Handle \union {None})
      <4>1. Lob \union {None} \subseteq Handle \union {None}
        BY Kinds
      <4>2. SubSeq(old, 1, r) \in Seq(Handle \union {None})
        BY <3>3, <4>1
      <4>3. QED
        BY <3>2, <4>2
    <3>5. ASSUME NEW h \in Handle
          PROVE  Occurs(f, h) + PendingRefs(h)' = Occurs(old, h) + Member(h, news) /\ PendingRefs(h)' \in Nat
      <4>1. PendingRefs(h)' = Occurs(SubSeq(old, 1, r), h)
        BY <3>2 DEF PendingRefs
      <4>2. Occurs(SubSeq(old, 1, r), h) \in Nat /\ Occurs(SubSeq(old, r + 1, Rows), h) \in Nat
        BY <1>9, <3>1
      <4>3. Occurs(a, h) = Member(h, news) /\ Member(h, news) \in {0, 1}
        BY <1>7
      <4>4. /\ Occurs(f, h) = Occurs(a, h) + Occurs(SubSeq(old, r + 1, Rows), h)
            /\ Occurs(old, h) = Occurs(SubSeq(old, 1, r), h) + Occurs(SubSeq(old, r + 1, Rows), h)
        BY <3>3
      <4>5. QED
        BY ONLY <4>1, <4>2, <4>3, <4>4
    <3>6. QED
      BY <1>2, <1>3, <1>7, <2>1, <3>2, <3>3, <3>4, <3>5, UsedVarFilled DEF old
  <2>2. CASE \E v \in OneOf(NewVars) :
                 /\ column[s] = None /\ Allocated({v} \union news, Once({v} \union news))
                 /\ row' = [row EXCEPT ![v] = kept(@)] /\ pending' = <<v>>
    <3>1. PICK v \in OneOf(NewVars) :
                 /\ column[s] = None /\ Allocated({v} \union news, Once({v} \union news))
                 /\ row' = [row EXCEPT ![v] = kept(@)] /\ pending' = <<v>>
      BY <2>2
    <3> DEFINE old == row[v]
               f == kept(old)
    <3>2. v \in Var /\ New(v) /\ v \in Handle
      BY FreshVar, Kinds
    <3>3. /\ old \in [Row -> Lob \union {None}] /\ row' = [row EXCEPT ![v] = f]
          /\ \A h \in Handle : Occurs(old, h) = 0
      BY <1>1, <3>1, <3>2, NewVarEmpty DEF TypeOK
    <3> HIDE DEF old
    <3>4. /\ f \in [Row -> Lob \union {None}]
          /\ \A h \in Handle :
                /\ Occurs(f, h) = Occurs(a, h) + Occurs(SubSeq(old, r + 1, Rows), h)
                /\ Occurs(old, h) = Occurs(SubSeq(old, 1, r), h) + Occurs(SubSeq(old, r + 1, Rows), h)
      BY <1>8, <3>3
    <3> HIDE DEF f, kept
    <3>5. ASSUME NEW h \in Handle PROVE Occurs(f, h) = Member(h, news)
      <4>1. Occurs(SubSeq(old, 1, r), h) \in Nat /\ Occurs(SubSeq(old, r + 1, Rows), h) \in Nat
        BY <1>9, <3>3
      <4>2. Occurs(old, h) = 0 /\ Occurs(a, h) = Member(h, news) /\ Member(h, news) \in {0, 1}
        BY <1>7, <3>3
      <4>3. /\ Occurs(f, h) = Occurs(a, h) + Occurs(SubSeq(old, r + 1, Rows), h)
            /\ Occurs(old, h) = Occurs(SubSeq(old, 1, r), h) + Occurs(SubSeq(old, r + 1, Rows), h)
        BY <3>4
      <4>4. QED
        BY ONLY <4>1, <4>2, <4>3
    <3>6. column' \in [Stmt -> Var \union {None}] /\ \A t \in Stmt : column'[t] /= column[t] => Open(t)
      BY <1>1, <1>2 DEF TypeOK
    <3>7. pending' \in Seq(Handle \union {None})
      BY <3>1, <3>2
    <3>8. /\ Filled
          /\ \A h \in Handle :
                /\ refs'[h] - refs[h] = Is(v, h) + Member(h, news) + ConnRefs(h)' - ConnRefs(h)
                /\ RowRefs(h)' = RowRefs(h) + Member(h, news)
                /\ ConnRefs(h)' \in Nat /\ Member(h, news) \in {0, 1}
      BY <1>2, <1>3, <1>7, <3>1, <3>2, <3>3, <3>4, <3>5, <3>6, <3>7, NewVarFilled
    <3>9. ASSUME NEW h \in Handle PROVE refs'[h] - refs[h] = RefParts(h)' - RefParts(h)
      <4>1. /\ refs'[h] - refs[h] = Is(v, h) + Member(h, news) + ConnRefs(h)' - ConnRefs(h)
            /\ RowRefs(h)' = RowRefs(h) + Member(h, news) /\ ConnRefs(h)' \in Nat /\ Member(h, news) \in {0, 1}
        BY <3>8
      <4>2. PendingRefs(h) = 0 /\ PendingRefs(h)' = Is(v, h) /\ Is(v, h) \in {0, 1}
        BY <1>2, <3>1, PendingStarts, IsType
      <4>3. HeldRefs(h)' = HeldRefs(h) /\ BoundRefs(h)' = BoundRefs(h) /\ ColumnRefs(h)' = ColumnRefs(h)
        BY <1>2, Unmoved
      <4>4. /\ HeldRefs(h) \in Nat /\ BoundRefs(h) \in Nat /\ ColumnRefs(h) \in Nat /\ RowRefs(h) \in Nat
            /\ ConnRefs(h) \in Nat
        BY <1>1, PartTypes
      <4>5. QED
        BY ONLY <4>1, <4>2, <4>3, <4>4 DEF RefParts
    <3>10. QED
      BY <3>8, <3>9 DEF Moved
  <2>3. QED
    BY <2>1, <2>2 DEF FetchAllocationFails, news, a
<1>11. TypeOK'
  BY <1>1, <1>2, <1>10 DEF TypeOK, Filled
<1>12. Counted'
  BY <1>1, <1>10, <1>11, MovedCounted
<1>13. Ready'
  <2>1. \A t \in Stmt : t \in held' \/ New(t)' => t \in held \/ New(t)
    BY <1>2, <1>10, Kinds DEF Filled
  <2>2. QED
    BY <1>1, <1>2, <2>1 DEF Ready
<1>14. QED
  BY <1>10, <1>11, <1>12, <1>13 DEF HandleInv, Filled

\* The variable is not given back, nor the LOBs in its buffer.
LEMMA DefineFailsKeeps ==
    ASSUME HandleInv, extra' = extra, NEW s \in Stmt, NEW v \in Var, New(v), NEW lobs \in FreshLobs, DefineFails(s, v, lobs)
    PROVE  HandleInv'
<1> DEFINE news == LobsIn(lobs)
<1>1. TypeOK /\ Counted /\ LiveCounts /\ ClosedEmpty /\ Ready /\ ListedOpen
  BY DEF HandleInv
<1>2. /\ DefineMayFail /\ pending = <<>> /\ s \in held /\ Allocated({v} \union news, Once({v} \union news))
      /\ row' = [row EXCEPT ![v] = lobs] /\ openLobs' = openLobs \union news
      /\ bound' = bound /\ column' = column /\ openStmts' = openStmts /\ decoding' = decoding /\ held' = held
      /\ executed' = executed /\ rowsIn' = rowsIn /\ cursor' = cursor /\ pending' = pending
  BY DEF DefineFails, MustFetch, Idle, buffers
<1>3. Open(Conn)
  BY <1>1, <1>2, HeldOpen, ConnOpen
<1>4. lobs \in [Row -> Lob \union {None}]
  BY FreshOnes
<1>5. news \in SUBSET Lob /\ (\A l \in news : New(l)) /\ \A h \in Handle : Occurs(lobs, h) = Member(h, news)
  BY FreshLobsIn
<1> HIDE DEF news
<1>6. /\ column' \in [Stmt -> Var \union {None}] /\ pending' \in Seq(Handle \union {None})
      /\ \A t \in Stmt : column'[t] /= column[t] => Open(t)
  BY <1>1, <1>2 DEF TypeOK
<1>7. /\ Filled
      /\ \A h \in Handle :
            /\ refs'[h] - refs[h] = Is(v, h) + Member(h, news) + ConnRefs(h)' - ConnRefs(h)
            /\ RowRefs(h)' = RowRefs(h) + Member(h, news)
            /\ ConnRefs(h)' \in Nat /\ Member(h, news) \in {0, 1}
  BY <1>2, <1>3, <1>4, <1>5, <1>6, NewVarFilled
<1>8. TypeOK'
  BY <1>1, <1>2, <1>7 DEF TypeOK, Filled
<1>9. Counted'
  <2> SUFFICES ASSUME NEW h \in Handle
               PROVE  refs'[h] - refs[h] >= RefParts(h)' - RefParts(h)
    BY <1>1, <1>2, <1>8, Balanced DEF Exact
  <2>1. /\ refs'[h] - refs[h] = Is(v, h) + Member(h, news) + ConnRefs(h)' - ConnRefs(h)
        /\ RowRefs(h)' = RowRefs(h) + Member(h, news) /\ ConnRefs(h)' \in Nat /\ Member(h, news) \in {0, 1}
    BY <1>7
  <2>2. Is(v, h) \in {0, 1}
    BY IsType
  <2>3. /\ HeldRefs(h)' = HeldRefs(h) /\ BoundRefs(h)' = BoundRefs(h) /\ ColumnRefs(h)' = ColumnRefs(h)
        /\ PendingRefs(h)' = PendingRefs(h)
    BY <1>2, Unmoved
  <2>4. /\ HeldRefs(h) \in Nat /\ BoundRefs(h) \in Nat /\ ColumnRefs(h) \in Nat /\ RowRefs(h) \in Nat
        /\ ConnRefs(h) \in Nat /\ PendingRefs(h) \in Nat
    BY <1>1, PartTypes
  <2>5. QED
    BY ONLY <2>1, <2>2, <2>3, <2>4 DEF RefParts
<1>10. Ready'
  <2>1. \A t \in Stmt : t \in held' \/ New(t)' => t \in held \/ New(t)
    BY <1>2, <1>7, Kinds DEF Filled
  <2>2. QED
    BY <1>1, <1>2, <2>1 DEF Ready
<1>11. QED
  BY <1>7, <1>8, <1>9, <1>10 DEF HandleInv, Filled

-----------------------------------------------------------------------------
\* The theorems.

LEMMA InitHolds == Init => HandleInv
<1> SUFFICES ASSUME Init PROVE HandleInv
  OBVIOUS
<1>1. TypeOK
  BY SizeAssumption DEF Init, TypeOK
<1>2. Counted
  <2> SUFFICES ASSUME NEW h \in Handle PROVE RefParts(h) = 0 /\ refs[h] = 0
    BY DEF Counted, Extra, Init
  <2>1. HeldRefs(h) = 0 /\ PendingRefs(h) = 0
    BY PendingStarts DEF Init, HeldRefs
  <2>2. ColumnRefs(h) = 0
    BY OccursNothing DEF Init, ColumnRefs
  <2>3. BoundRefs(h) = 0
    <3>1. {sp \in Stmt \X Param : bound[sp[1]][sp[2]] = h} = {}
      BY Kinds DEF Init
    <3>2. QED
      BY <3>1, FS_EmptySet DEF BoundRefs, OccursIn
  <2>4. RowRefs(h) = 0
    <3>1. {sp \in Var \X Row : row[sp[1]][sp[2]] = h} = {}
      BY Kinds DEF Init
    <3>2. QED
      BY <3>1, FS_EmptySet DEF RowRefs, OccursIn
  <2>5. ConnRefs(h) = 0
    <3>1. Dependents = {}
      BY DEF Init, Dependents, Open
    <3>2. QED
      BY <3>1, FS_EmptySet DEF ConnRefs
  <2>6. refs[h] = 0
    BY DEF Init
  <2>7. QED
    BY <2>1, <2>2, <2>3, <2>4, <2>5, <2>6 DEF RefParts
<1>3. LiveCounts /\ ClosedEmpty /\ Ready /\ ListedOpen
  BY DEF Init, LiveCounts, ClosedEmpty, Ready, ListedOpen, Open
<1>4. QED
  BY <1>1, <1>2, <1>3 DEF HandleInv

LEMMA StutterKeeps == ASSUME HandleInv, UNCHANGED vars PROVE HandleInv'
<1>1. TypeOK /\ Counted /\ LiveCounts /\ ClosedEmpty /\ Ready /\ ListedOpen
  BY DEF HandleInv
<1>2. /\ state' = state /\ refs' = refs /\ extra' = extra /\ bound' = bound /\ column' = column /\ row' = row
      /\ openStmts' = openStmts /\ openLobs' = openLobs /\ executed' = executed /\ rowsIn' = rowsIn
      /\ cursor' = cursor /\ decoding' = decoding /\ held' = held /\ pending' = pending
  BY DEF vars, handles, buffers
<1>3. TypeOK' /\ LiveCounts' /\ ClosedEmpty' /\ Ready' /\ ListedOpen'
  BY <1>1, <1>2 DEF TypeOK, LiveCounts, ClosedEmpty, Ready, ListedOpen, Open, New
<1>4. ASSUME NEW h \in Handle PROVE RefParts(h)' = RefParts(h) /\ Extra(h)' = Extra(h)
  BY <1>2, Unmoved DEF RefParts, Extra
<1>5. Counted'
  BY <1>1, <1>2, <1>4 DEF Counted, Exact
<1>6. QED
  BY <1>3, <1>5 DEF HandleInv

LEMMA StepKeeps == HandleInv /\ [Next]_vars => HandleInv'
<1> SUFFICES ASSUME HandleInv, [Next]_vars PROVE HandleInv'
  OBVIOUS
<1>1. CASE Connect \/ Disconnect \/ Decode \/ DecodeLob
  <2>1. extra' = extra
    BY <1>1 DEF Connect, Disconnect, Decode, DecodeLob
  <2>2. QED
    BY <1>1, <2>1, ConnectKeeps, DisconnectKeeps, DecodeKeeps
<1>2. ASSUME NEW s \in Stmt,
             Prepare(s) \/ PrepareFails(s) \/ Release(s) \/ FetchBuffered(s) \/ FetchFails(s)
      PROVE  HandleInv'
  <2>1. extra' = extra
    BY <1>2 DEF Prepare, PrepareFails, Release, FetchBuffered, FetchFails
  <2>2. QED
    BY <1>2, <2>1, PrepareKeeps, PrepareFailsKeeps, ReleaseKeeps, FetchBufferedKeeps, FetchFailsKeeps
<1>3. ASSUME NEW s \in Stmt, NEW v \in OneOf(NewVars), BindCopyFails(s, v) \/ \E p \in Param : Bind(s, p, v)
      PROVE  HandleInv'
  <2>1. v \in Var /\ New(v)
    BY FreshVar
  <2>2. extra' = extra
    BY <1>3 DEF BindCopyFails, Bind
  <2>3. QED
    BY <1>3, <2>1, <2>2, BindCopyFailsKeeps, BindKeeps
<1>4. ASSUME NEW s \in Stmt, \/ \E changed \in BOOLEAN : Execute(s, changed)
                            \/ \E again \in SUBSET Param : ReExecute(s, again)
      PROVE  HandleInv'
  <2>1. ASSUME NEW changed \in BOOLEAN, Execute(s, changed) PROVE HandleInv'
    BY <2>1, ExecuteKeeps DEF Execute
  <2>2. QED
    BY <1>4, <2>1, ReExecuteKeeps
<1>5. ASSUME NEW s \in Stmt, \E n \in 0..Rows : Fetch(s, n) PROVE HandleInv'
  BY <1>5, FetchKeeps DEF Fetch
<1>6. ASSUME NEW s \in Stmt, NEW lobs \in FreshLobs,
             \/ \E r \in Row : FetchAllocationFails(s, r, lobs)
             \/ \E v \in OneOf(NewVars) : DefineFails(s, v, lobs)
      PROVE  HandleInv'
  <2>1. \A v \in OneOf(NewVars) : v \in Var /\ New(v)
    BY FreshVar
  <2>2. extra' = extra
    BY <1>6 DEF FetchAllocationFails, DefineFails
  <2>3. QED
    BY <1>6, <2>1, <2>2, FetchAllocationFailsKeeps, DefineFailsKeeps
<1>7. CASE Releasing
  <2>1. extra' = extra
    BY <1>7 DEF Releasing, Skip, Decrement, FreeStmt, FreeVar, FreeLob, FreeConn
  <2>2. QED
    BY <1>7, <2>1, SkipKeeps, DecrementKeeps, FreeStmtKeeps, FreeVarKeeps, FreeLobKeeps, FreeConnKeeps DEF Releasing
<1>8. CASE UNCHANGED vars
  BY <1>8, StutterKeeps
<1>9. CASE Calling
  BY <1>1, <1>2, <1>3, <1>4, <1>5, <1>6, <1>9 DEF Calling
<1>10. QED
  BY <1>7, <1>8, <1>9 DEF Next

LEMMA AlwaysHandleInv == Spec => []HandleInv
BY InitHolds, StepKeeps, PTL DEF Spec

\* Handles, counts, lists and the stack of decrements keep their types through
\* every call, failure and cascade of dpiGen__setRefCount.
THEOREM TypeCorrect == Spec => []TypeOK
<1>1. HandleInv => TypeOK
  BY DEF HandleInv
<1>2. QED
  BY <1>1, AlwaysHandleInv, PTL

\* Whatever the caller does and whichever OCI call fails, and though decodeColumn
\* gives back LOB handles it has only borrowed: the count of an open connection,
\* statement or variable is never below the references there are to it, so that
\* none of them is freed under one of its users.
THEOREM CountsAlwaysSuffice == Spec => []CountsSuffice
<1>1. ASSUME HandleInv, NEW h \in Handle \ Lob PROVE refs[h] >= References(h)
  <2>1. TypeOK /\ refs[h] >= RefParts(h) + Extra(h)
    BY <1>1 DEF HandleInv, Counted
  <2>2. refs[h] \in Nat /\ Extra(h) \in Nat /\ References(h) = RefParts(h)
    BY <2>1, ReferencesAreParts, ExtraType DEF TypeOK
  <2>3. RefParts(h) \in Nat
    BY <2>1, PartTypes DEF RefParts
  <2>4. QED
    BY <2>1, <2>2, <2>3
<1>2. HandleInv => CountsSuffice
  BY <1>1 DEF CountsSuffice
<1>3. QED
  BY <1>2, AlwaysHandleInv, PTL

\* Where no define and no copy of a bind value fails and no LOB column is decoded,
\* the counts are the references there are, in every order of calls and releases
\* and at every step of a cascade.
THEOREM CountsAreExact ==
    ASSUME ~DefineMayFail, ~(LobColumn /\ NonNullLobs)
    PROVE  Spec => []CountsExact
<1>1. HandleInv => CountsExact
  BY ReferencesAreParts DEF HandleInv, Counted, CountsExact, Exact
<1>2. QED
  BY <1>1, AlwaysHandleInv, PTL

\* Under the same conditions nothing that has been freed is still pointed at: by
\* the caller, by bindVars, queryVars or a row buffer, by openStmts or openLobs of
\* the connection, or by a decrement that is still to come.
THEOREM NothingDangles ==
    ASSUME ~DefineMayFail, ~(LobColumn /\ NonNullLobs)
    PROVE  Spec => []NoDanglingPointer
<1>1. ASSUME HandleInv PROVE NoDanglingPointer
  <2>1. TypeOK /\ Counted /\ LiveCounts /\ ListedOpen /\ Exact
    BY <1>1 DEF HandleInv, Exact
  <2>2. ASSUME NEW h \in Handle, RefParts(h) > 0 PROVE Open(h)
    BY <2>1, <2>2, Referenced
  <2>3. ASSUME NEW h \in Handle, HeldRefs(h) > 0 \/ BoundRefs(h) > 0 \/ ColumnRefs(h) > 0 \/ RowRefs(h) > 0
                                 \/ PendingRefs(h) > 0
        PROVE  Open(h)
    BY <2>1, <2>2, <2>3, PartTypes DEF RefParts
  <2>4. ASSUME NEW h \in held \union openStmts \union openLobs PROVE h \in Handle /\ Open(h)
    <3>1. h \in Handle
      BY <2>1, Kinds DEF TypeOK
    <3>2. QED
      BY <2>1, <2>3, <2>4, <3>1, SomewhereCounts DEF ListedOpen
  <2>5. ASSUME NEW s \in Stmt, NEW p \in Param, bound[s][p] /= None PROVE Open(bound[s][p])
    <3>1. bound[s][p] \in Handle
      BY <2>1, <2>5, Kinds DEF TypeOK
    <3>2. QED
      BY <2>1, <2>3, <3>1, SomewhereCounts
  <2>6. ASSUME NEW s \in Stmt, column[s] /= None PROVE Open(column[s])
    <3>1. column[s] \in Handle
      BY <2>1, <2>6, Kinds DEF TypeOK
    <3>2. QED
      BY <2>1, <2>3, <3>1, SomewhereCounts
  <2>7. ASSUME NEW v \in Var, NEW r \in Row, row[v][r] /= None PROVE Open(row[v][r])
    <3>1. row[v][r] \in Handle
      BY <2>1, <2>7, Kinds DEF TypeOK
    <3>2. QED
      BY <2>1, <2>3, <3>1, SomewhereCounts
  <2>8. ASSUME NEW i \in DOMAIN pending, pending[i] /= None PROVE Open(pending[i])
    <3>1. pending[i] \in Handle
      <4>1. pending \in Seq(Handle \union {None})
        BY <2>1 DEF TypeOK
      <4>2. pending[i] \in Handle \union {None}
        BY <4>1, ElementOfSeq, LenProperties
      <4>3. QED
        BY <2>8, <4>2
    <3>2. QED
      BY <2>1, <2>3, <3>1, SomewhereCounts
  <2>9. (\E g \in Handle \ {Conn} : Open(g)) => Open(Conn)
    BY <2>1, ConnOpen
  <2>10. QED
    BY <2>4, <2>5, <2>6, <2>7, <2>8, <2>9 DEF NoDanglingPointer, Pointers
<1>2. QED
  BY <1>1, AlwaysHandleInv, PTL

\* And when the caller has given up every reference it held, in whatever order,
\* and the cascade is through, no handle is open but those of a variable bound
\* again by a re-execution: the statements go first, with them the variables they
\* were the last to keep, with those the LOBs in their buffers, and then the
\* connection, on which nothing depends any more.
THEOREM NothingIsLeft ==
    ASSUME ~DefineMayFail, ~(LobColumn /\ NonNullLobs)
    PROVE  Spec => []NothingLeft
<1>1. ASSUME HandleInv, held = {}, pending = <<>>, NEW h \in Handle, Open(h)
      PROVE  h \in Lost \/ (\E v \in Lost, r \in Row : row[v][r] = h) \/ (h = Conn /\ Lost /= {})
  <2>1. TypeOK /\ Counted /\ LiveCounts /\ ClosedEmpty /\ Exact
    BY <1>1 DEF HandleInv, Exact
  <2>2. ASSUME NEW g \in Handle, g \notin Lost, BoundRefs(g) = 0, ColumnRefs(g) = 0, RowRefs(g) = 0, ConnRefs(g) = 0
        PROVE  ~Open(g)
    <3>1. HeldRefs(g) = 0 /\ PendingRefs(g) = 0
      BY <1>1, PendingStarts DEF HeldRefs
    <3>2. RefParts(g) = 0
      BY <2>2, <3>1 DEF RefParts
    <3>3. Extra(g) = 0
      BY <2>1, <2>2 DEF Extra, Lost, TypeOK
    <3>4. QED
      BY <2>1, <3>2, <3>3 DEF Counted, LiveCounts
  <2>3. ASSUME NEW g, \A s \in Stmt, p \in Param : bound[s][p] /= g PROVE BoundRefs(g) = 0
    <3>1. {sp \in Stmt \X Param : bound[sp[1]][sp[2]] = g} = {}
      BY <2>3
    <3>2. QED
      BY <3>1, FS_EmptySet DEF BoundRefs, OccursIn
  <2>4. ASSUME NEW g, \A v \in Var, r \in Row : row[v][r] /= g PROVE RowRefs(g) = 0
    <3>1. {sp \in Var \X Row : row[sp[1]][sp[2]] = g} = {}
      BY <2>4
    <3>2. QED
      BY <3>1, FS_EmptySet DEF RowRefs, OccursIn
  <2>5. ASSUME NEW g, \A s \in Stmt : column[s] /= g PROVE ColumnRefs(g) = 0
    <3>1. DOMAIN column = Stmt
      BY <2>1 DEF TypeOK
    <3>2. QED
      BY <2>5, <3>1, OccursNever DEF ColumnRefs
  <2>6. \A s \in Stmt : column[s] \notin Stmt \union Lob \union {Conn}
                        /\ \A p \in Param : bound[s][p] \notin Stmt \union Lob \union {Conn}
    BY <2>1, HandleAssumption DEF TypeOK, Handle
  <2>7. \A v \in Var, r \in Row : row[v][r] \notin Stmt \union Var \union {Conn}
    BY <2>1, HandleAssumption DEF TypeOK, Handle
  <2>8. ASSUME NEW s \in Stmt PROVE ~Open(s)
    <3>1. BoundRefs(s) = 0 /\ ColumnRefs(s) = 0 /\ RowRefs(s) = 0
      BY <2>3, <2>4, <2>5, <2>6, <2>7
    <3>2. ConnRefs(s) = 0 /\ s \notin Lost
      BY Kinds DEF ConnRefs, Lost
    <3>3. QED
      BY <2>2, <3>1, <3>2, Kinds
  <2>9. \A s \in Stmt : column[s] = None /\ \A p \in Param : bound[s][p] = None
    BY <2>1, <2>8 DEF ClosedEmpty
  <2>10. ASSUME NEW v \in Var, v \notin Lost PROVE ~Open(v)
    <3>1. BoundRefs(v) = 0 /\ ColumnRefs(v) = 0 /\ RowRefs(v) = 0
      BY <2>3, <2>4, <2>5, <2>7, <2>9, Kinds
    <3>2. ConnRefs(v) = 0
      BY Kinds DEF ConnRefs
    <3>3. QED
      BY <2>2, <2>10, <3>1, <3>2, Kinds
  <2>11. \A v \in Var \ Lost, r \in Row : row[v][r] = None
    BY <2>1, <2>10 DEF ClosedEmpty
  <2>12. ASSUME NEW l \in Lob, \A v \in Lost, r \in Row : row[v][r] /= l PROVE ~Open(l)
    <3>1. BoundRefs(l) = 0 /\ ColumnRefs(l) = 0
      BY <2>3, <2>5, <2>6
    <3>2. RowRefs(l) = 0
      BY <2>4, <2>11, <2>12, Kinds
    <3>3. ConnRefs(l) = 0 /\ l \notin Lost
      BY Kinds DEF ConnRefs, Lost
    <3>4. QED
      BY <2>2, <3>1, <3>2, <3>3, Kinds
  <2>13. ASSUME Lost = {} PROVE ~Open(Conn)
    <3>1. BoundRefs(Conn) = 0 /\ ColumnRefs(Conn) = 0 /\ RowRefs(Conn) = 0
      BY <2>3, <2>4, <2>5, <2>6, <2>7
    <3>2. Dependents = {}
      BY <2>8, <2>10, <2>12, <2>13 DEF Dependents, Handle
    <3>3. ConnRefs(Conn) = 0
      BY <3>2, FS_EmptySet DEF ConnRefs
    <3>4. QED
      BY <2>2, <2>13, <3>1, <3>3, Kinds
  <2>14. QED
    BY <1>1, <2>8, <2>10, <2>12, <2>13 DEF Handle
<1>2. HandleInv => NothingLeft
  BY <1>1 DEF NothingLeft
<1>3. QED
  BY <1>2, AlwaysHandleInv, PTL

=============================================================================
