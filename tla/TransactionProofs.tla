-------------------------- MODULE TransactionProofs --------------------------
(***************************************************************************)
(* Theorems about Transaction, for every number of calls and statements,   *)
(* every depth and whatever failing commits and rollbacks leave.           *)
(***************************************************************************)
EXTENDS Transaction, TLAPS

-----------------------------------------------------------------------------
\* The calls that run are those begun that have not returned; each is on the
\* stack once, and all but the innermost have begun another.
Running == Range(stack)
Stacked ==
    /\ \A i, j \in 1..Len(stack) : stack[i] = stack[j] => i = j
    /\ \A i \in 2..Len(stack) : stack[i] \in outer
    /\ \A x \in Units : result[x] = "none" <=> x > begun \/ x \in Running
    /\ pc /= "action" => stack /= <<>>

\* Statements are executed in calls that have begun.
Executed == \A w \in DOMAIN path : path[w] \subseteq 1..begun

\* What a call without others in it has done is all in the transaction as long
\* as it runs, unless the session was lost; then it is all permanent, all
\* still in the transaction, or all undone.
Kept(x) == WritesOf(x) \cap durable = {} /\ (alive => WritesOf(x) \subseteq open)
Gone(x) == WritesOf(x) \cap (open \union durable) = {}
Over(x) ==
    /\ WritesOf(x) \subseteq durable \/ WritesOf(x) \subseteq open \/ Gone(x)
    /\ result[x] = "Right" => WritesOf(x) \subseteq durable
    /\ result[x] = "Left" /\ x \notin doubt => Gone(x)
Settled ==
    \A x \in (1..begun) \ outer : IF x \in Running THEN Kept(x) ELSE Over(x)

Inv == TypeOK /\ Stacked /\ Executed /\ Settled

LEMMA Units1 == MaxUnits \in Nat /\ Units = 1..MaxUnits
BY BoundAssumption DEF Units

LEMMA RangeInSet ==
    ASSUME NEW S, NEW s \in Seq(S)
    PROVE  Range(s) \subseteq S
<1>1. \A i \in DOMAIN s : s[i] \in S
  OBVIOUS
<1>2. QED
  BY <1>1 DEF Range

LEMMA InRange ==
    ASSUME NEW S, NEW s \in Seq(S), NEW x
    PROVE  x \in Range(s) <=> \E i \in 1..Len(s) : x = s[i]
<1>1. DOMAIN s = 1..Len(s)
  OBVIOUS
<1>2. QED
  BY <1>1 DEF Range

\* Sequences without repetition.
LEMMA Pushed ==
    ASSUME NEW S, NEW s \in Seq(S), NEW e
    PROVE  /\ Range(<<e>> \o s) = {e} \union Range(s)
           /\ <<e>> \o s /= <<>>
           /\ Len(<<e>> \o s) = Len(s) + 1 /\ (<<e>> \o s)[1] = e
           /\ \A i \in 2..(Len(s) + 1) : (<<e>> \o s)[i] = s[i - 1]
<1>1. /\ <<e>> \o s \in Seq(S \union {e})
      /\ Len(<<e>> \o s) = Len(s) + 1 /\ (<<e>> \o s)[1] = e
      /\ \A i \in 2..(Len(s) + 1) : (<<e>> \o s)[i] = s[i - 1]
      /\ \A i \in 1..Len(s) : (<<e>> \o s)[i + 1] = s[i]
  <2>1. s \in Seq(S \union {e}) /\ <<e>> \in Seq(S \union {e}) /\ Len(<<e>>) = 1 /\ <<e>>[1] = e
    OBVIOUS
  <2>2. <<e>> \o s \in Seq(S \union {e}) /\ Len(<<e>> \o s) = Len(s) + 1
    BY <2>1
  <2>3. (<<e>> \o s)[1] = e /\ \A i \in 1..Len(s) : (<<e>> \o s)[i + 1] = s[i]
    BY <2>1
  <2>4. \A i \in 2..(Len(s) + 1) : i - 1 \in 1..Len(s) /\ (i - 1) + 1 = i
    OBVIOUS
  <2>5. QED
    BY <2>2, <2>3, <2>4
<1>2. /\ \A x : x \in Range(<<e>> \o s) <=> \E i \in 1..(Len(s) + 1) : x = (<<e>> \o s)[i]
      /\ \A x : x \in Range(s) <=> \E i \in 1..Len(s) : x = s[i]
  <2>1. <<e>> \o s \in Seq(S \union {e}) /\ Len(<<e>> \o s) = Len(s) + 1
    BY <1>1
  <2>2. \A x : x \in Range(<<e>> \o s) <=> \E i \in 1..Len(<<e>> \o s) : x = (<<e>> \o s)[i]
    BY <2>1, InRange, Zenon
  <2>3. \A x : x \in Range(s) <=> \E i \in 1..Len(s) : x = s[i]
    BY InRange, Zenon
  <2>4. QED
    BY <2>1, <2>2, <2>3
<1>3. Range(<<e>> \o s) \subseteq {e} \union Range(s)
  <2> SUFFICES ASSUME NEW i \in 1..(Len(s) + 1) PROVE (<<e>> \o s)[i] = e \/ (<<e>> \o s)[i] \in Range(s)
    BY <1>2
  <2>1. CASE i = 1
    BY <1>1, <2>1
  <2>2. CASE i /= 1
    <3>1. i \in 2..(Len(s) + 1) /\ i - 1 \in 1..Len(s)
      BY <2>2
    <3>2. QED
      BY <1>1, <1>2, <3>1
  <2>3. QED
    BY <2>1, <2>2
<1>4. {e} \union Range(s) \subseteq Range(<<e>> \o s)
  <2>1. 1 \in 1..(Len(s) + 1) /\ \A i \in 1..Len(s) : i + 1 \in 1..(Len(s) + 1)
    OBVIOUS
  <2>2. e \in Range(<<e>> \o s)
    BY <1>1, <1>2, <2>1
  <2>3. ASSUME NEW x \in Range(s) PROVE x \in Range(<<e>> \o s)
    <3>1. PICK i \in 1..Len(s) : x = s[i]
      BY <1>2, <2>3
    <3>2. x = (<<e>> \o s)[i + 1] /\ i + 1 \in 1..(Len(s) + 1)
      BY <1>1, <2>1, <3>1
    <3>3. QED
      BY <1>2, <3>2
  <2>4. QED
    BY <2>2, <2>3
<1>5. QED
  BY <1>1, <1>3, <1>4

LEMMA Popped ==
    ASSUME NEW S, NEW s \in Seq(S), s /= <<>>,
           \A i, j \in 1..Len(s) : s[i] = s[j] => i = j
    PROVE  /\ Tail(s) \in Seq(S) /\ Head(s) = s[1] /\ Head(s) \in S /\ Head(s) \in Range(s)
           /\ Len(Tail(s)) = Len(s) - 1 /\ \A i \in 1..Len(Tail(s)) : Tail(s)[i] = s[i + 1]
           /\ Range(Tail(s)) = Range(s) \ {Head(s)}
<1>1. /\ Tail(s) \in Seq(S) /\ Head(s) = s[1] /\ Head(s) \in S /\ Len(s) \in Nat /\ Len(s) >= 1
      /\ Len(Tail(s)) = Len(s) - 1 /\ \A i \in 1..Len(Tail(s)) : Tail(s)[i] = s[i + 1]
  <2>1. Len(s) \in Nat /\ Len(s) >= 1 /\ Head(s) = s[1]
    OBVIOUS
  <2>2. Tail(s) \in Seq(S) /\ Len(Tail(s)) = Len(s) - 1 /\ \A i \in 1..Len(Tail(s)) : Tail(s)[i] = s[i + 1]
    BY <2>1
  <2>3. Head(s) \in S
    BY <2>1
  <2>4. QED
    BY <2>1, <2>2, <2>3
<1>2. /\ \A x : x \in Range(Tail(s)) <=> \E i \in 1..(Len(s) - 1) : x = Tail(s)[i]
      /\ \A x : x \in Range(s) <=> \E i \in 1..Len(s) : x = s[i]
  <2>1. Tail(s) \in Seq(S) /\ Len(Tail(s)) = Len(s) - 1
    BY <1>1
  <2>2. \A x : x \in Range(Tail(s)) <=> \E i \in 1..Len(Tail(s)) : x = Tail(s)[i]
    BY <2>1, InRange, Zenon
  <2>3. \A x : x \in Range(s) <=> \E i \in 1..Len(s) : x = s[i]
    BY InRange, Zenon
  <2>4. QED
    BY <2>1, <2>2, <2>3
<1>3. Range(Tail(s)) \subseteq Range(s) \ {Head(s)}
  <2> SUFFICES ASSUME NEW i \in 1..(Len(s) - 1) PROVE Tail(s)[i] \in Range(s) \ {Head(s)}
    BY <1>2
  <2>1. i + 1 \in 1..Len(s) /\ 1 \in 1..Len(s) /\ i + 1 /= 1
    BY <1>1
  <2>2. s[i + 1] /= s[1]
    BY <2>1
  <2>3. QED
    BY <1>1, <1>2, <2>1, <2>2
<1>4. Range(s) \ {Head(s)} \subseteq Range(Tail(s))
  <2> SUFFICES ASSUME NEW i \in 1..Len(s), s[i] /= Head(s) PROVE s[i] \in Range(Tail(s))
    BY <1>2
  <2>1. i - 1 \in 1..(Len(s) - 1) /\ i = (i - 1) + 1
    BY <1>1
  <2>2. QED
    BY <1>1, <1>2, <2>1
<1>5. Head(s) \in Range(s)
  BY <1>1, <1>2
<1>6. QED
  BY <1>1, <1>3, <1>4, <1>5

LEMMA InvInit == Init => Inv
<1> SUFFICES ASSUME Init PROVE Inv
  OBVIOUS
<1>1. stack = <<>> /\ path = <<>> /\ Len(stack) = 0 /\ DOMAIN path = {}
  BY DEF Init
<1>2. TypeOK
  <2>1. stack \in Seq(1..begun) /\ path \in Seq(SUBSET Units) /\ begun \in 0..MaxUnits
    BY <1>1, Units1 DEF Init
  <2>2. result \in [Units -> {"none", "Left", "Right"}]
    BY DEF Init
  <2>3. QED
    BY <1>1, <2>1, <2>2 DEF Init, TypeOK
<1>3. Stacked
  <2>1. \A x \in Units : x > 0 /\ result[x] = "none"
    BY Units1 DEF Init
  <2>2. QED
    BY <1>1, <2>1 DEF Init, Stacked
<1>4. QED
  BY <1>1, <1>2, <1>3 DEF Inv, Init, Executed, Settled

-----------------------------------------------------------------------------
\* The session comes and goes; what is in the transaction is undone with it.
LEMMA SessionKeeps ==
    ASSUME Inv, Connect \/ Disconnect \/ Lose
    PROVE  Inv'
<1>1. /\ UNCHANGED <<pc, program, durable>> /\ alive' \in BOOLEAN
      /\ open' \subseteq open /\ (open' /= {} => open' = open)
      /\ alive' => stack = <<>>
      /\ open' = {} /\ open \cap durable = {}
  BY DEF Connect, Disconnect, Lose, Inv, TypeOK
<1>2. TypeOK'
  BY <1>1 DEF Inv, TypeOK, program
<1>3. Stacked' /\ Executed'
  BY <1>1 DEF Inv, Stacked, Executed, Running, program
<1>4. Settled'
  <2> SUFFICES ASSUME NEW x \in (1..begun) \ outer
               PROVE  IF x \in Running THEN Kept(x)' ELSE Over(x)'
    BY <1>1 DEF Settled, Running, program
  <2>1. WritesOf(x)' = WritesOf(x) /\ result' = result /\ doubt' = doubt
    BY <1>1 DEF WritesOf, program
  <2>2. CASE x \in Running
    <3>1. Kept(x)
      BY <2>2 DEF Inv, Settled
    <3>2. stack /= <<>>
      BY <2>2 DEF Running, Range
    <3>3. QED
      BY <1>1, <2>1, <2>2, <3>1, <3>2 DEF Kept
  <2>3. CASE x \notin Running
    <3>1. Over(x)
      BY <2>3 DEF Inv, Settled
    <3>2. QED
      BY <1>1, <2>1, <2>3, <3>1 DEF Over, Gone
  <2>4. QED
    BY <2>2, <2>3
<1>5. QED
  BY <1>2, <1>3, <1>4 DEF Inv

\* A call begins, and those that run contain it.
LEMMA BeginKeeps == Inv /\ Begin => Inv'
<1> SUFFICES ASSUME Inv, Begin PROVE Inv'
  OBVIOUS
<1>1. /\ pc = "action" /\ begun \in Nat /\ begun + 1 \in 1..MaxUnits /\ begun' = begun + 1
      /\ stack' = <<begun + 1>> \o stack /\ outer' = outer \union Running
      /\ UNCHANGED <<pc, alive, path, open, durable, result, doubt>>
  BY Units1 DEF Begin, Inv, TypeOK, Running
<1>2. stack \in Seq(1..begun) /\ stack \in Seq(1..begun')
  BY <1>1 DEF Inv, TypeOK
<1>3. /\ Running' = {begun + 1} \union Running /\ stack' /= <<>> /\ Len(stack') = Len(stack) + 1
      /\ stack'[1] = begun + 1 /\ \A i \in 2..Len(stack') : stack'[i] = stack[i - 1]
  BY <1>1, <1>2, Pushed DEF Running
<1>4. \A x : x \in Running <=> \E i \in 1..Len(stack) : x = stack[i]
  BY <1>2, InRange, Zenon DEF Running
<1>5. Running \subseteq 1..begun
  BY <1>2, RangeInSet DEF Running
<1>6. TypeOK'
  <2>1. stack' \in Seq(1..begun')
    <3>1. <<begun + 1>> \in Seq(1..begun')
      BY <1>1
    <3>2. QED
      BY <1>1, <1>2, <3>1
  <2>2. outer' \subseteq 1..begun' /\ doubt' \subseteq 1..begun'
    <3>1. 1..begun \subseteq 1..begun'
      BY <1>1
    <3>2. doubt \subseteq 1..begun /\ outer \subseteq 1..begun
      BY DEF Inv, TypeOK
    <3>3. QED
      BY <1>1, <1>5, <3>1, <3>2
  <2>3. begun' \in 0..MaxUnits
    BY <1>1
  <2>4. UNCHANGED <<pc, alive, path, open, durable, result>>
    BY <1>1
  <2>5. QED
    BY <2>1, <2>2, <2>3, <2>4 DEF Inv, TypeOK
<1>7. Stacked'
  <2>1. \A i \in 2..Len(stack') : i - 1 \in 1..Len(stack) /\ stack'[i] = stack[i - 1]
    BY <1>2, <1>3
  <2>2. \A i \in 2..Len(stack') : stack'[i] \in Running
    BY <1>4, <2>1
  <2>3. \A i \in 2..Len(stack') : stack'[i] \in outer' /\ stack'[i] \in 1..begun
    BY <1>1, <1>5, <2>2
  <2>4. ASSUME NEW i \in 1..Len(stack'), NEW j \in 1..Len(stack'), stack'[i] = stack'[j] PROVE i = j
    <3>1. CASE i = 1 \/ j = 1
      <4>1. i \in 2..Len(stack') \/ i = 1
        OBVIOUS
      <4>2. j \in 2..Len(stack') \/ j = 1
        OBVIOUS
      <4>3. begun + 1 \notin 1..begun
        BY <1>1
      <4>4. QED
        BY <1>3, <2>3, <2>4, <3>1, <4>1, <4>2, <4>3
    <3>2. CASE i /= 1 /\ j /= 1
      <4>1. i \in 2..Len(stack') /\ j \in 2..Len(stack')
        BY <3>2
      <4>2. stack[i - 1] = stack[j - 1] /\ i - 1 \in 1..Len(stack) /\ j - 1 \in 1..Len(stack)
        BY <2>1, <2>4, <4>1
      <4>3. i - 1 = j - 1
        BY <4>2 DEF Inv, Stacked
      <4>4. QED
        BY <4>1, <4>3
    <3>3. QED
      BY <3>1, <3>2
  <2>5. ASSUME NEW x \in Units PROVE result'[x] = "none" <=> x > begun' \/ x \in Running'
    <3>1. result[x] = "none" <=> x > begun \/ x \in Running
      BY DEF Inv, Stacked
    <3>2. x > begun <=> x > begun + 1 \/ x = begun + 1
      BY <1>1, Units1
    <3>3. QED
      BY <1>1, <1>3, <3>1, <3>2
  <2>6. QED
    BY <1>3, <2>3, <2>4, <2>5 DEF Stacked
<1>8. Executed'
  BY <1>1 DEF Inv, Executed
<1>9. Settled'
  <2> SUFFICES ASSUME NEW x \in (1..begun') \ outer'
               PROVE  IF x \in Running' THEN Kept(x)' ELSE Over(x)'
    BY DEF Settled
  <2>1. WritesOf(x)' = WritesOf(x)
    BY <1>1 DEF WritesOf
  <2>2. CASE x = begun + 1
    <3>1. WritesOf(x) = {}
      BY <1>1, <2>2 DEF WritesOf, Inv, Executed
    <3>2. QED
      BY <1>3, <2>1, <2>2, <3>1 DEF Kept
  <2>3. CASE x /= begun + 1
    <3>1. x \in (1..begun) \ outer /\ x \notin Running /\ x \notin Running'
      BY <1>1, <1>3, <2>3
    <3>2. Over(x)
      BY <3>1 DEF Inv, Settled
    <3>3. QED
      BY <1>1, <2>1, <3>1, <3>2 DEF Over, Gone
  <2>4. QED
    BY <2>2, <2>3
<1>10. QED
  BY <1>6, <1>7, <1>8, <1>9 DEF Inv

\* A statement is executed, in every call that runs.
LEMMA WriteKeeps == Inv /\ Write => Inv'
<1> SUFFICES ASSUME Inv, Write PROVE Inv'
  OBVIOUS
<1> DEFINE w0 == Len(path) + 1
<1>1. /\ stack /= <<>> /\ alive = TRUE /\ path' = Append(path, Running)
      /\ UNCHANGED <<pc, alive, stack, begun, outer, durable, result, doubt>>
  BY DEF Write, Running, Inv, TypeOK
<1>2. path \in Seq(SUBSET Units) /\ stack \in Seq(1..begun) /\ begun \in 0..MaxUnits
  BY DEF Inv, TypeOK
<1>3. Running \subseteq 1..begun /\ Running \subseteq Units
  <2>1. Running \subseteq 1..begun
    BY <1>2, RangeInSet DEF Running
  <2>2. QED
    BY <1>2, <2>1, Units1
<1>4. /\ path' \in Seq(SUBSET Units) /\ Len(path') = w0 /\ DOMAIN path' = DOMAIN path \union {w0}
      /\ w0 \notin DOMAIN path /\ path'[w0] = Running /\ \A w \in DOMAIN path : path'[w] = path[w]
  <2>1. Len(path') = w0 /\ DOMAIN path = 1..Len(path) /\ DOMAIN path' = 1..w0 /\ Len(path) \in Nat
    BY <1>1, <1>2
  <2>2. QED
    BY <1>1, <1>2, <1>3, <2>1
<1>5. open' = open \union {w0}
  BY <1>4 DEF Write
<1>6. TypeOK'
  BY <1>1, <1>4, <1>5 DEF Inv, TypeOK
<1>7. Stacked' /\ Executed'
  BY <1>1, <1>3, <1>4 DEF Inv, Stacked, Executed, Running
<1>8. Settled'
  <2> SUFFICES ASSUME NEW x \in (1..begun) \ outer
               PROVE  IF x \in Running THEN Kept(x)' ELSE Over(x)'
    BY <1>1 DEF Settled, Running
  <2>1. w0 \notin durable
    BY <1>4 DEF Inv, TypeOK
  <2>2. CASE x \in Running
    <3>1. Kept(x)
      BY <2>2 DEF Inv, Settled
    <3>2. WritesOf(x)' = WritesOf(x) \union {w0}
      BY <1>4, <2>2 DEF WritesOf
    <3>3. QED
      BY <1>1, <1>5, <2>1, <2>2, <3>1, <3>2 DEF Kept
  <2>3. CASE x \notin Running
    <3>1. Over(x)
      BY <2>3 DEF Inv, Settled
    <3>2. WritesOf(x)' = WritesOf(x) /\ w0 \notin WritesOf(x)
      BY <1>4, <2>3 DEF WritesOf
    <3>3. QED
      BY <1>1, <1>5, <2>3, <3>1, <3>2 DEF Over, Gone
  <2>4. QED
    BY <2>2, <2>3
<1>9. QED
  BY <1>6, <1>7, <1>8 DEF Inv

LEMMA ActionKeeps ==
    ASSUME Inv, ActionRight \/ ActionLeft
    PROVE  Inv'
<1>1. /\ stack /= <<>> /\ pc' \in {"commit", "rollback"}
      /\ UNCHANGED <<alive, stack, begun, outer, path, open, durable, result, doubt>>
  BY DEF ActionRight, ActionLeft, program
<1>2. TypeOK'
  BY <1>1 DEF Inv, TypeOK
<1>3. Stacked' /\ Executed'
  BY <1>1 DEF Inv, Stacked, Executed, Running
<1>4. Settled'
  BY <1>1 DEF Inv, Settled, Running, Kept, Over, Gone, WritesOf
<1>5. QED
  BY <1>2, <1>3, <1>4 DEF Inv

\* The innermost call returns; what was open or permanent stays so, is undone
\* or becomes permanent, all of it.
LEMMA ReturnKeeps ==
    ASSUME Inv, stack /= <<>>, NEW r \in {"Left", "Right"}, Return(r),
           open' = open \/ open' = {},
           durable' = durable \/ (durable' = durable \union open /\ open' = {}),
           doubt' = doubt \/ doubt' = doubt \union {Head(stack)},
           Kept(Head(stack)) => /\ r = "Right" => WritesOf(Head(stack)) \subseteq durable'
                                /\ r = "Left" /\ Head(stack) \notin doubt' =>
                                       WritesOf(Head(stack)) \cap (open' \union durable') = {}
                                /\ ~(WritesOf(Head(stack)) \subseteq durable') =>
                                       \/ WritesOf(Head(stack)) \subseteq open'
                                       \/ WritesOf(Head(stack)) \cap (open' \union durable') = {}
    PROVE  Inv'
<1> DEFINE x0 == Head(stack)
<1>1. /\ pc' = "action" /\ stack' = Tail(stack) /\ result' = [result EXCEPT ![x0] = r]
      /\ UNCHANGED <<alive, begun, outer, path>>
  BY DEF Return
<1>2. /\ stack \in Seq(1..begun) /\ begun \in 0..MaxUnits /\ open \cap durable = {}
      /\ open \union durable \subseteq DOMAIN path /\ (open /= {} => alive)
      /\ result \in [Units -> {"none", "Left", "Right"}]
  BY DEF Inv, TypeOK
<1>3. \A i, j \in 1..Len(stack) : stack[i] = stack[j] => i = j
  BY DEF Inv, Stacked
<1>4. /\ stack' \in Seq(1..begun) /\ x0 \in 1..begun /\ x0 \in Running /\ x0 = stack[1]
      /\ Len(stack') = Len(stack) - 1 /\ \A i \in 1..Len(stack') : stack'[i] = stack[i + 1]
      /\ Running' = Running \ {x0}
  BY <1>1, <1>2, <1>3, Popped DEF Running
<1>5. x0 \in Units /\ Len(stack) \in Nat
  BY <1>2, <1>4, Units1
<1>6. result'[x0] = r /\ \A x \in Units \ {x0} : result'[x] = result[x]
  BY <1>1, <1>2, <1>5
<1>7. TypeOK'
  <2>1. result' \in [Units -> {"none", "Left", "Right"}]
    BY <1>1, <1>2
  <2>2. open' \union durable' \subseteq DOMAIN path /\ open' \cap durable' = {} /\ (open' /= {} => alive)
    BY <1>2
  <2>3. doubt' \union outer \subseteq 1..begun
    BY <1>4 DEF Inv, TypeOK
  <2>4. QED
    BY <1>1, <1>4, <2>1, <2>2, <2>3 DEF Inv, TypeOK
<1>8. Stacked'
  <2>1. \A i \in 1..Len(stack') : i + 1 \in 2..Len(stack) /\ i + 1 \in 1..Len(stack) /\ stack'[i] = stack[i + 1]
    BY <1>4, <1>5
  <2>2. \A i \in 2..Len(stack') : stack'[i] \in outer'
    <3> TAKE i \in 2..Len(stack')
    <3>1. i \in 1..Len(stack')
      OBVIOUS
    <3>2. QED
      BY <1>1, <2>1, <3>1 DEF Inv, Stacked
  <2>3. ASSUME NEW i \in 1..Len(stack'), NEW j \in 1..Len(stack'), stack'[i] = stack'[j] PROVE i = j
    <3>1. i + 1 = j + 1
      BY <1>3, <2>1, <2>3
    <3>2. QED
      BY <3>1
  <2>4. ASSUME NEW x \in Units PROVE result'[x] = "none" <=> x > begun' \/ x \in Running'
    <3>1. CASE x = x0
      <4>1. ~(x0 > begun)
        BY <1>2, <1>4
      <4>2. QED
        BY <1>1, <1>4, <1>6, <3>1, <4>1
    <3>2. CASE x /= x0
      <4>1. result[x] = "none" <=> x > begun \/ x \in Running
        BY DEF Inv, Stacked
      <4>2. QED
        BY <1>1, <1>4, <1>6, <3>2, <4>1
    <3>3. QED
      BY <3>1, <3>2
  <2>5. QED
    BY <1>1, <2>2, <2>3, <2>4 DEF Stacked
<1>9. Executed'
  BY <1>1 DEF Inv, Executed
<1>10. Settled'
  <2> SUFFICES ASSUME NEW x \in (1..begun) \ outer
               PROVE  IF x \in Running' THEN Kept(x)' ELSE Over(x)'
    BY <1>1 DEF Settled
  <2>1. WritesOf(x)' = WritesOf(x) /\ x \in Units
    BY <1>1, <1>2, Units1 DEF WritesOf
  <2>2. CASE x = x0
    <3>1. Kept(x0)
      BY <1>4, <2>2 DEF Inv, Settled
    <3>2. QED
      BY <1>4, <1>6, <2>1, <2>2, <3>1 DEF Over, Gone
  <2>3. CASE x /= x0
    <3>1. x \notin Running
      <4>1. \A y : y \in Running <=> \E i \in 1..Len(stack) : y = stack[i]
        BY <1>2, InRange, Zenon DEF Running
      <4>2. SUFFICES ASSUME NEW i \in 1..Len(stack), x = stack[i] PROVE FALSE
        BY <4>1
      <4>3. i \in 2..Len(stack)
        BY <1>4, <2>3, <4>2
      <4>4. QED
        BY <4>2, <4>3 DEF Inv, Stacked
    <3>2. Over(x)
      BY <3>1 DEF Inv, Settled
    <3>3. (x \in doubt) = (x \in doubt') /\ result'[x] = result[x] /\ x \notin Running'
      BY <1>4, <1>6, <2>1, <2>3, <3>1
    <3>4. QED
      BY <1>2, <2>1, <3>2, <3>3 DEF Over, Gone
  <2>4. QED
    BY <2>2, <2>3
<1>11. QED
  BY <1>7, <1>8, <1>9, <1>10 DEF Inv

LEMMA ReturnsKeep ==
    ASSUME Inv, Commit \/ CommitFails \/ Rollback \/ RollbackFails
    PROVE  Inv'
<1> DEFINE W == WritesOf(Head(stack))
<1>1. stack /= <<>>
  BY DEF Inv, Stacked, Commit, CommitFails, Rollback, RollbackFails
<1>2. open \cap durable = {} /\ (open /= {} => alive) /\ alive \in BOOLEAN
  BY DEF Inv, TypeOK
<1>3. Kept(Head(stack)) => W \cap durable = {} /\ (alive => W \subseteq open)
  BY DEF Kept
<1>4. CASE Commit
  BY <1>1, <1>3, <1>4, ReturnKeeps DEF Commit
<1>5. CASE CommitFails
  <2>1. CASE ~alive /\ UNCHANGED <<open, durable, doubt>>
    <3>1. open = {}
      BY <1>2, <2>1
    <3>2. QED
      BY <1>1, <1>3, <1>5, <2>1, <3>1, ReturnKeeps DEF CommitFails
  <2>2. CASE alive /\ open' = {} /\ UNCHANGED <<durable, doubt>>
    BY <1>1, <1>3, <1>5, <2>2, ReturnKeeps DEF CommitFails
  <2>3. CASE alive /\ Doubtful /\ UNCHANGED <<open, durable>>
    BY <1>1, <1>3, <1>5, <2>3, ReturnKeeps DEF CommitFails, Doubtful
  <2>4. CASE alive /\ Doubtful /\ durable' = durable \union open /\ open' = {}
    BY <1>1, <1>3, <1>5, <2>4, ReturnKeeps DEF CommitFails, Doubtful
  <2>5. QED
    BY <1>5, <2>1, <2>2, <2>3, <2>4 DEF CommitFails
<1>6. CASE Rollback
  BY <1>1, <1>3, <1>6, ReturnKeeps DEF Rollback
<1>7. CASE RollbackFails
  <2>1. CASE alive
    BY <1>1, <1>3, <1>7, <2>1, ReturnKeeps DEF RollbackFails, Doubtful
  <2>2. CASE ~alive
    <3>1. open = {}
      BY <1>2, <2>2
    <3>2. QED
      BY <1>1, <1>3, <1>7, <2>2, <3>1, ReturnKeeps DEF RollbackFails
  <2>3. QED
    BY <2>1, <2>2
<1>8. QED
  BY <1>4, <1>5, <1>6, <1>7

LEMMA InvStep == Inv /\ [Next]_vars => Inv'
<1>1. Inv /\ UNCHANGED vars => Inv'
  BY DEF vars, program, Inv, TypeOK, Stacked, Executed, Settled, Running, Kept, Over, Gone, WritesOf
<1>2. QED
  BY <1>1, SessionKeeps, BeginKeeps, WriteKeeps, ActionKeeps, ReturnsKeep DEF Next

\* Types, and that a statement is never permanent and in the transaction.
THEOREM TypeCorrect == Spec => []TypeOK
<1>1. Inv => TypeOK
  BY DEF Inv
<1>2. QED
  BY <1>1, InvInit, InvStep, PTL DEF Spec

\* A call without others in it that returned Left, and whose own commit or
\* rollback did not fail with the session alive, leaves nothing permanent,
\* whatever the calls after it commit.
THEOREM LeftLeavesNothing == Spec => []LeftIsNothing
<1>1. Inv => LeftIsNothing
  <2> SUFFICES ASSUME Inv, NEW x \in Units \ (outer \union doubt), result[x] = "Left"
               PROVE  WritesOf(x) \cap durable = {}
    BY DEF LeftIsNothing, NothingOf
  <2>1. ~(x > begun \/ x \in Running)
    BY DEF Inv, Stacked
  <2>2. x \in (1..begun) \ outer /\ x \notin Running
    BY <2>1, Units1 DEF Inv, TypeOK
  <2>3. Over(x)
    BY <2>2 DEF Inv, Settled
  <2>4. QED
    BY <2>3 DEF Over, Gone
<1>2. QED
  BY <1>1, InvInit, InvStep, PTL DEF Spec

\* What a call without others in it has done is permanent as a whole or not at
\* all, and is permanent when it has returned Right.
THEOREM InnermostIsAtomic == Spec => []InnermostAtomic
<1>1. Inv => InnermostAtomic
  <2> SUFFICES ASSUME Inv, NEW x \in Units \ outer PROVE Atomic(x)
    BY DEF InnermostAtomic
  <2>1. CASE x > begun
    <3>1. x \notin 1..begun /\ result[x] = "none"
      BY <2>1, Units1 DEF Inv, TypeOK, Stacked
    <3>2. WritesOf(x) = {}
      BY <3>1 DEF WritesOf, Inv, Executed
    <3>3. QED
      BY <3>2 DEF Atomic
  <2>2. CASE ~(x > begun)
    <3>1. x \in (1..begun) \ outer
      BY <2>2, Units1 DEF Inv, TypeOK
    <3>2. CASE x \in Running
      <4>1. Kept(x) /\ result[x] = "none"
        BY <3>1, <3>2 DEF Inv, Settled, Stacked
      <4>2. QED
        BY <4>1 DEF Kept, Atomic
    <3>3. CASE x \notin Running
      <4>1. Over(x) /\ open \cap durable = {}
        BY <3>1, <3>3 DEF Inv, Settled, TypeOK
      <4>2. QED
        BY <4>1 DEF Over, Gone, Atomic
    <3>4. QED
      BY <3>2, <3>3
  <2>3. QED
    BY <2>1, <2>2
<1>2. QED
  BY <1>1, InvInit, InvStep, PTL DEF Spec

-----------------------------------------------------------------------------
\* Calls that follow each other implement the transactions of TransactionUnit.

\* What the refinement maps to `writes`.
Writes == [x \in Units |-> WritesOf(x)]

\* Only one call runs; the transaction is what it has done and what was left.
LEMMA OneRuns ==
    ASSUME Inv, outer = {}, stack /= <<>>
    PROVE  /\ Head(stack) \in Units /\ Head(stack) \in Running
           /\ result[Head(stack)] = "none" /\ Kept(Head(stack))
           /\ \A w \in open : w \in WritesOf(Head(stack)) \/ w \in LeftOpen
           /\ \A w \in open : \A x \in path[w] : x = Head(stack) \/ result[x] /= "none"
           /\ \A w \in LeftOpen : w \notin WritesOf(Head(stack))
<1> DEFINE x0 == Head(stack)
<1>1. /\ stack \in Seq(1..begun) /\ begun \in 0..MaxUnits /\ open \subseteq DOMAIN path
      /\ path \in Seq(SUBSET Units)
      /\ \A i, j \in 1..Len(stack) : stack[i] = stack[j] => i = j
  BY DEF Inv, TypeOK, Stacked
<1>2. x0 \in Running /\ x0 \in 1..begun /\ x0 = stack[1]
  BY <1>1, Popped DEF Running
<1>3. x0 \in Units /\ result[x0] = "none"
  BY <1>1, <1>2, Units1 DEF Inv, Stacked
<1>4. Kept(x0)
  BY <1>2 DEF Inv, Settled
<1>5. Running \subseteq {x0}
  <2> SUFFICES ASSUME NEW x \in Running PROVE x = x0
    OBVIOUS
  <2>1. PICK i \in 1..Len(stack) : x = stack[i]
    BY <1>1, InRange DEF Running
  <2>2. i \notin 2..Len(stack)
    BY DEF Inv, Stacked
  <2>3. QED
    BY <1>2, <2>1, <2>2
<1>6. \A w \in open : \A x \in path[w] : x = x0 \/ result[x] /= "none"
  <2> SUFFICES ASSUME NEW w \in open, NEW x \in path[w], result[x] = "none" PROVE x = x0
    OBVIOUS
  <2>1. x \in 1..begun /\ x \in Units
    <3>1. w \in DOMAIN path
      BY <1>1
    <3>2. path[w] \subseteq 1..begun
      BY <3>1 DEF Inv, Executed
    <3>3. QED
      BY <1>1, <3>2, Units1
  <2>2. ~(x > begun)
    BY <1>1, <2>1, Units1
  <2>3. x \in Running
    BY <2>1, <2>2 DEF Inv, Stacked
  <2>4. QED
    BY <1>5, <2>3
<1>7. \A w \in open : w \in WritesOf(x0) \/ w \in LeftOpen
  BY <1>1, <1>6 DEF WritesOf, LeftOpen
<1>8. \A w \in LeftOpen : w \notin WritesOf(x0)
  BY <1>3 DEF WritesOf, LeftOpen
<1>9. QED
  BY <1>2, <1>3, <1>4, <1>6, <1>7, <1>8

LEMMA SameUnits ==
    ASSUME UNCHANGED <<path, durable, result>>, LeftOpen' = LeftOpen
    PROVE  UNCHANGED Promise!unitVars
<1>1. [x \in Units |-> WritesOf(x)]' = [x \in Units |-> WritesOf(x)]
  BY DEF WritesOf
<1>2. QED
  BY <1>1 DEF Promise!unitVars

\* The session comes and goes.
LEMMA SessionRefines ==
    ASSUME Inv, Connect \/ Disconnect \/ Lose
    PROVE  Promise!Next
<1>1. UNCHANGED <<path, durable, result>> /\ open' = {}
  BY DEF Connect, Disconnect, Lose, program, Inv, TypeOK
<1>2. [x \in Units |-> WritesOf(x)]' = [x \in Units |-> WritesOf(x)] /\ LeftOpen' = {}
  BY <1>1 DEF WritesOf, LeftOpen
<1>3. QED
  BY <1>1, <1>2 DEF Promise!Next, Promise!Forget

LEMMA WriteRefines ==
    ASSUME Inv, Write, outer = {}
    PROVE  Promise!Next
<1> DEFINE x0 == Head(stack)
           w0 == Len(path) + 1
<1>1. /\ stack /= <<>> /\ alive /\ path' = Append(path, Running) /\ Len(path) < MaxWrites
      /\ UNCHANGED <<stack, durable, result>>
  BY DEF Write, Running
<1>2. x0 \in Units /\ x0 \in Running /\ result[x0] = "none"
  BY <1>1, OneRuns
<1>3. \A x \in Running : x = x0
  <2>1. stack \in Seq(1..begun) /\ x0 = stack[1] /\ \A i \in 2..Len(stack) : stack[i] \in outer
    BY <1>1 DEF Inv, TypeOK, Stacked
  <2>2. \A x \in Running : \E i \in 1..Len(stack) : x = stack[i]
    BY <2>1, InRange DEF Running
  <2>3. \A i \in 1..Len(stack) : i = 1 \/ i \in 2..Len(stack)
    BY <2>1
  <2>4. QED
    BY <2>1, <2>2, <2>3
<1>4. path \in Seq(SUBSET Units) /\ open \subseteq DOMAIN path /\ DOMAIN path = 1..Len(path)
      /\ Len(path) \in Nat
  BY DEF Inv, TypeOK
<1>5. Running \subseteq Units
  BY <1>2, <1>3
<1>6. /\ DOMAIN path' = DOMAIN path \union {w0} /\ w0 \notin DOMAIN path /\ Len(path') = w0
      /\ path'[w0] = Running /\ \A w \in DOMAIN path : path'[w] = path[w]
  BY <1>1, <1>4, <1>5
<1>7. w0 \in 1..MaxWrites
  BY <1>1, <1>4, BoundAssumption
<1>8. Writes' = [Writes EXCEPT ![x0] = @ \union {w0}]
  <2>1. ASSUME NEW x \in Running PROVE WritesOf(x)' = WritesOf(x) \union {w0}
    BY <1>6 DEF WritesOf
  <2>2. ASSUME NEW x \in Units \ Running PROVE WritesOf(x)' = WritesOf(x)
    BY <1>6 DEF WritesOf
  <2>3. \A x \in Units : x /= x0 => x \notin Running
    BY <1>3
  <2>4. x0' = x0
    BY <1>1
  <2>5. QED
    BY <1>2, <2>1, <2>2, <2>3, <2>4 DEF Writes
<1>9. w0 \notin UNION {Writes[y] : y \in Units}
  BY <1>6 DEF Writes, WritesOf
<1>10. LeftOpen' = LeftOpen
  <2>1. open' = open \union {w0}
    BY <1>6 DEF Write
  <2>2. QED
    BY <1>1, <1>2, <1>4, <1>6, <2>1 DEF LeftOpen
<1>11. Promise!Write(x0, w0)
  BY <1>1, <1>2, <1>8, <1>9, <1>10 DEF Promise!Write, Writes
<1>12. QED
  BY <1>2, <1>7, <1>11 DEF Promise!Next

\* The innermost call returns, and there is no other.
LEMMA ReturnRefines ==
    ASSUME Inv, outer = {}, stack /= <<>>, NEW r \in {"Left", "Right"}, Return(r),
           \/ durable' = durable \union open /\ open' = {} /\ alive
           \/ durable' = durable /\ open' = {} /\ r = "Left"
           \/ durable' = durable /\ open' = open /\ r = "Left" /\ alive
    PROVE  Promise!Next
<1> DEFINE x0 == Head(stack)
<1>1. /\ x0 \in Units /\ x0 \in Running /\ result[x0] = "none" /\ Kept(x0)
      /\ \A w \in open : w \in WritesOf(x0) \/ w \in LeftOpen
      /\ \A w \in open : \A x \in path[w] : x = x0 \/ result[x] /= "none"
  BY OneRuns
<1>2. result' = [result EXCEPT ![x0] = r] /\ UNCHANGED path
  BY DEF Return
<1>3. Writes' = Writes /\ Writes[x0] = WritesOf(x0)
  BY <1>1, <1>2 DEF Writes, WritesOf
<1>4. Promise!Return(x0, r)
  BY <1>1, <1>2, <1>3 DEF Promise!Return, Writes
<1>5. LeftOpen \subseteq open
  BY DEF LeftOpen
<1>6. CASE durable' = durable /\ open' = {} /\ r = "Left"
  <2>1. LeftOpen' = {}
    BY <1>6 DEF LeftOpen
  <2>2. Promise!Undo(x0)
    BY <1>4, <1>6, <2>1 DEF Promise!Undo
  <2>3. QED
    BY <1>1, <2>2 DEF Promise!Next
<1>7. CASE durable' = durable /\ open' = open /\ r = "Left" /\ alive
  <2>1. result \in [Units -> {"none", "Left", "Right"}]
    BY DEF Inv, TypeOK
  <2>2. \A x : x = x0 => result'[x] /= "none"
    BY <1>1, <1>2, <2>1
  <2>3. \A x \in Units : x /= x0 => result'[x] = result[x]
    BY <1>2, <2>1
  <2>4. \A w \in open : path[w] \subseteq Units
    BY DEF Inv, TypeOK
  <2>5. LeftOpen' = open
    BY <1>1, <1>2, <1>7, <2>2, <2>3, <2>4 DEF LeftOpen
  <2>6. open = LeftOpen \union WritesOf(x0)
    BY <1>1, <1>5, <1>7 DEF Kept
  <2>7. Promise!Suspend(x0)
    BY <1>3, <1>4, <1>7, <2>5, <2>6 DEF Promise!Suspend, Writes
  <2>8. QED
    BY <1>1, <2>7 DEF Promise!Next
<1>8. CASE durable' = durable \union open /\ open' = {} /\ alive
  <2>1. LeftOpen' = {}
    BY <1>8 DEF LeftOpen
  <2>2. open = LeftOpen \union WritesOf(x0)
    BY <1>1, <1>5, <1>8 DEF Kept
  <2>3. Promise!Finish(x0)
    BY <1>3, <1>4, <1>8, <2>1, <2>2 DEF Promise!Finish, Writes
  <2>4. QED
    BY <1>1, <2>3 DEF Promise!Next
<1>9. QED
  BY <1>6, <1>7, <1>8

LEMMA StepRefines ==
    ASSUME Inv, Next, outer' = {}
    PROVE  Promise!Next \/ UNCHANGED Promise!unitVars
<1>1. CASE Connect \/ Disconnect \/ Lose
  BY <1>1, SessionRefines
<1>2. CASE Begin \/ ActionRight \/ ActionLeft
  <2>1. UNCHANGED <<path, open, durable, result>>
    BY <1>2 DEF Begin, ActionRight, ActionLeft, program
  <2>2. LeftOpen' = LeftOpen
    BY <2>1 DEF LeftOpen
  <2>3. QED
    BY <2>1, <2>2, SameUnits
<1>3. CASE Write
  <2>1. outer = {}
    BY <1>3 DEF Write
  <2>2. QED
    BY <1>3, <2>1, WriteRefines
<1>4. CASE Commit \/ CommitFails \/ Rollback \/ RollbackFails
  <2>1. stack /= <<>> /\ outer = {}
    BY <1>4 DEF Inv, Stacked, Commit, CommitFails, Rollback, RollbackFails, Return
  <2>2. open /= {} => alive
    BY DEF Inv, TypeOK
  <2>3. CASE Commit
    BY <2>1, <2>3, ReturnRefines DEF Commit
  <2>4. CASE CommitFails
    <3>1. CASE ~alive
      <4>1. open = {} /\ UNCHANGED <<open, durable>> /\ Return("Left")
        BY <2>2, <2>4, <3>1 DEF CommitFails
      <4>2. QED
        BY <2>1, <4>1, ReturnRefines
    <3>2. CASE alive
      BY <2>1, <2>4, <3>2, ReturnRefines DEF CommitFails
    <3>3. QED
      BY <3>1, <3>2
  <2>5. CASE Rollback
    BY <2>1, <2>5, ReturnRefines DEF Rollback
  <2>6. CASE RollbackFails
    <3>1. CASE ~alive
      <4>1. open = {} /\ UNCHANGED <<open, durable>> /\ Return("Left")
        BY <2>2, <2>6, <3>1 DEF RollbackFails
      <4>2. QED
        BY <2>1, <4>1, ReturnRefines
    <3>2. CASE alive
      BY <2>1, <2>6, <3>2, ReturnRefines DEF RollbackFails
    <3>3. QED
      BY <3>1, <3>2
  <2>7. QED
    BY <1>4, <2>3, <2>4, <2>5, <2>6
<1>5. QED
  BY <1>1, <1>2, <1>3, <1>4 DEF Next

LEMMA InitRefines == Init => Promise!Init
<1> SUFFICES ASSUME Init PROVE Promise!Init
  OBVIOUS
<1>1. [x \in Units |-> WritesOf(x)] = [x \in Units |-> {}] /\ LeftOpen = {}
  BY DEF Init, WritesOf, LeftOpen
<1>2. QED
  BY <1>1 DEF Init, Promise!Init

\* As long as the calls follow each other, whatever fails: the statements of a
\* call become permanent together, are undone together, or stay together in the
\* transaction until a later call commits them.
THEOREM ImplementsUnit == Spec => RefinesUnit
<1>1. Inv /\ [Next]_vars => [outer' = {} => Promise!Next]_(Promise!unitVars)
  <2> SUFFICES ASSUME Inv, [Next]_vars
               PROVE  (outer' = {} => Promise!Next) \/ UNCHANGED Promise!unitVars
    OBVIOUS
  <2>1. CASE Next
    BY <2>1, StepRefines
  <2>2. CASE UNCHANGED vars
    <3>1. UNCHANGED <<path, durable, result>> /\ LeftOpen' = LeftOpen
      BY <2>2 DEF vars, program, LeftOpen
    <3>2. QED
      BY <3>1, SameUnits
  <2>3. QED
    BY <2>1, <2>2
<1>2. QED
  BY <1>1, InvInit, InvStep, InitRefines, PTL DEF Spec, RefinesUnit

=============================================================================
