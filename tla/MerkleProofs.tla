---------------------------- MODULE MerkleProofs ----------------------------
(***************************************************************************)
(* Proofs about modules MerkleTree and LogInclusion.  Both are defined by  *)
(* recursive functions, which TLA+ reads as a CHOOSE: each one is shown to *)
(* satisfy its equation first (there is a function that does), and what it *)
(* computes is then shown by induction.  Inductions are over sets of       *)
(* numbers, lists are functions on 1..n.                                   *)
(***************************************************************************)
EXTENDS LogInclusion, SequenceTheorems, WellFoundedInduction, TLAPS

-----------------------------------------------------------------------------
(* Induction and iteration *)

\* A set of naturals that is not empty has a least element.
LEMMA LeastNumber ==
    ASSUME NEW T \in SUBSET Nat, T # {}
    PROVE  \E x \in T : \A y \in T : x <= y
<1>1. PICK x \in T : \A y \in T : ~ (<<y, x>> \in OpToRel(<, Nat))
  BY WFMin, NatLessThanWellFounded
<1>2. \A y \in T : ~ (y < x)
  BY <1>1 DEF OpToRel
<1>3. \A y \in T : x <= y
  BY <1>2
<1> QED BY <1>3

\* Induction, from each number to the next.
LEMMA StepInduction ==
    ASSUME NEW T, 0 \in T, \A n \in Nat : n \in T => n + 1 \in T
    PROVE  \A n \in Nat : n \in T
<1> DEFINE Rest == {n \in Nat : n \notin T}
<1>1. SUFFICES ASSUME Rest # {} PROVE FALSE
  OBVIOUS
<1>2. PICK x \in Rest : \A y \in Rest : x <= y
  BY <1>1, LeastNumber
<1>3. x # 0 /\ x - 1 \in Nat /\ x - 1 \notin Rest
  BY <1>2
<1>4. (x - 1) + 1 \in T
  BY <1>3
<1> QED BY <1>2, <1>3, <1>4

\* Induction, from all the smaller numbers to each number.
LEMMA CourseInduction ==
    ASSUME NEW T, \A n \in Nat : (\A m \in 0..(n - 1) : m \in T) => n \in T
    PROVE  \A n \in Nat : n \in T
<1> DEFINE Rest == {n \in Nat : n \notin T}
<1>1. SUFFICES ASSUME Rest # {} PROVE FALSE
  OBVIOUS
<1>2. PICK x \in Rest : \A y \in Rest : x <= y
  BY <1>1, LeastNumber
<1>3. \A m \in 0..(x - 1) : m \in T
  BY <1>2
<1> QED BY <1>2, <1>3

-----------------------------------------------------------------------------
(* The recursive functions of the model exist *)

\* What the recursions of the model do from one value to the next.
Step(v, a) ==
    CASE a[1] = "level"    -> NextLevel(v)
      [] a[1] = "fold"     -> FoldStep(v, a[2])
      [] a[1] = "double"   -> 2 * v
      [] a[1] = "halve"    -> v \div 2
      [] a[1] = "position" -> Advance(v)

\* The first n values of such a recursion.
IsRun(h, n, x, a) ==
    /\ h = [i \in 0..n |-> h[i]]
    /\ h[0] = x
    /\ \A i \in 0..(n - 1) : h[i + 1] = Step(h[i], a[i + 1])

\* All its values.
Runs(f, x, a) ==
    /\ f = [n \in Nat |-> f[n]]
    /\ f[0] = x
    /\ \A n \in Nat : f[n + 1] = Step(f[n], a[n + 1])

\* The form of a recursive definition.
Recurs(f, x, a) == f = [n \in Nat |-> IF n = 0 THEN x ELSE Step(f[n - 1], a[n])]

\* There is a function with the values the recursion asks for.
LEMMA Recursion ==
    ASSUME NEW x, NEW a
    PROVE  \E f : Runs(f, x, a)
<1> DEFINE T == {n \in Nat : \E h : IsRun(h, n, x, a)}
<1>1. 0 \in T
  <2>1. IsRun([i \in 0..0 |-> x], 0, x, a)
    BY DEF IsRun
  <2> QED BY <2>1
<1>2. ASSUME NEW n \in Nat, n \in T PROVE n + 1 \in T
  <2>1. PICK h : IsRun(h, n, x, a)
    BY <1>2
  <2> DEFINE k == [i \in 0..(n + 1) |-> IF i <= n THEN h[i] ELSE Step(h[n], a[n + 1])]
  <2>2. k = [i \in 0..(n + 1) |-> k[i]] /\ k[0] = x
    BY <2>1 DEF IsRun
  <2>3. ASSUME NEW i \in 0..n PROVE k[i + 1] = Step(k[i], a[i + 1])
    <3>1. CASE i = n
      <4>1. k[i] = h[n] /\ k[i + 1] = Step(h[n], a[n + 1])
        BY <3>1
      <4> QED BY <4>1, <3>1
    <3>2. CASE i # n
      <4>1. i \in 0..(n - 1) /\ k[i] = h[i] /\ k[i + 1] = h[i + 1]
        BY <3>2
      <4> QED BY <4>1, <2>1 DEF IsRun
    <3> QED BY <3>1, <3>2
  <2> HIDE DEF k
  <2>4. \A i \in 0..((n + 1) - 1) : k[i + 1] = Step(k[i], a[i + 1])
    BY <2>3
  <2>5. IsRun(k, n + 1, x, a)
    BY <2>2, <2>4 DEF IsRun
  <2> QED BY <2>5
<1>3. \A n \in Nat : \E h : IsRun(h, n, x, a)
  <2> HIDE DEF T
  <2>1. \A n \in Nat : n \in T
    BY <1>1, <1>2, StepInduction
  <2> QED BY <2>1 DEF T
<1>4. ASSUME NEW n \in Nat, NEW h, NEW k, IsRun(h, n, x, a), IsRun(k, n + 1, x, a)
      PROVE  \A i \in 0..n : h[i] = k[i]
  <2> DEFINE U == {i \in Nat : i <= n => h[i] = k[i]}
  <2>1. 0 \in U
    BY <1>4 DEF IsRun
  <2>2. ASSUME NEW i \in Nat, i \in U PROVE i + 1 \in U
    <3>1. SUFFICES ASSUME i + 1 <= n PROVE h[i + 1] = k[i + 1]
      OBVIOUS
    <3>2. h[i] = k[i] /\ i \in 0..(n - 1) /\ i \in 0..((n + 1) - 1)
      BY <2>2, <3>1
    <3> QED BY <3>2, <1>4 DEF IsRun
  <2>3. \A i \in Nat : i \in U
    <3> HIDE DEF U
    <3> QED BY <2>1, <2>2, StepInduction
  <2> QED BY <2>3
<1> DEFINE run(n) == CHOOSE h : IsRun(h, n, x, a)
           f == [n \in Nat |-> run(n)[n]]
<1>5. \A n \in Nat : IsRun(run(n), n, x, a)
  BY <1>3
<1> HIDE DEF run
<1>6. f[0] = x
  BY <1>5 DEF IsRun
<1>7. ASSUME NEW n \in Nat PROVE f[n + 1] = Step(f[n], a[n + 1])
  <2>1. IsRun(run(n), n, x, a) /\ IsRun(run(n + 1), n + 1, x, a)
    BY <1>5
  <2>2. run(n)[n] = run(n + 1)[n]
    BY <2>1, <1>4
  <2>3. run(n + 1)[n + 1] = Step(run(n + 1)[n], a[n + 1])
    BY <2>1 DEF IsRun
  <2>4. f[n] = run(n)[n] /\ f[n + 1] = run(n + 1)[n + 1]
    OBVIOUS
  <2> HIDE DEF f
  <2> QED BY <2>2, <2>3, <2>4
<1>8. f = [n \in Nat |-> f[n]]
  OBVIOUS
<1> HIDE DEF f
<1> QED BY <1>6, <1>7, <1>8 DEF Runs

\* In the form of a recursive definition.
LEMMA Recursive ==
    ASSUME NEW x, NEW a
    PROVE  \E f : Recurs(f, x, a)
<1>1. PICK f : Runs(f, x, a)
  BY Recursion
<1>2. ASSUME NEW n \in Nat
      PROVE  f[n] = IF n = 0 THEN x ELSE Step(f[n - 1], a[n])
  <2>1. CASE n = 0
    BY <2>1, <1>1 DEF Runs
  <2>2. CASE n # 0
    <3>1. n - 1 \in Nat /\ (n - 1) + 1 = n
      BY <2>2
    <3>2. f[(n - 1) + 1] = Step(f[n - 1], a[(n - 1) + 1])
      BY <3>1, <1>1 DEF Runs
    <3> QED BY <3>1, <3>2, <2>2
  <2> QED BY <2>1, <2>2
<1>3. Recurs(f, x, a)
  BY <1>1, <1>2 DEF Recurs, Runs
<1> QED BY <1>3

\* The values of a function defined that way.
LEMMA RecursiveValues ==
    ASSUME NEW x, NEW a, NEW f, Recurs(f, x, a)
    PROVE  f[0] = x /\ \A n \in Nat : f[n + 1] = Step(f[n], a[n + 1])
<1>1. f[0] = x
  BY DEF Recurs
<1>2. ASSUME NEW n \in Nat PROVE f[n + 1] = Step(f[n], a[n + 1])
  <2>1. n + 1 \in Nat /\ n + 1 # 0 /\ (n + 1) - 1 = n
    OBVIOUS
  <2>2. f[n + 1] = IF n + 1 = 0 THEN x ELSE Step(f[(n + 1) - 1], a[n + 1])
    BY <2>1 DEF Recurs
  <2> QED BY <2>1, <2>2
<1> QED BY <1>1, <1>2

\* Levels: each one is made of the one below it.
LEMMA LevelsFrom ==
    ASSUME NEW level
    PROVE  /\ Levels(level)[0] = level
           /\ \A n \in Nat : Levels(level)[n + 1] = NextLevel(Levels(level)[n])
<1> DEFINE a == [n \in Nat |-> <<"level">>]
           f == Levels(level)
<1>1. ASSUME NEW g, NEW n \in Nat PROVE Step(g[n - 1], a[n]) = NextLevel(g[n - 1])
  BY DEF Step
<1>2. ASSUME NEW g
      PROVE  Recurs(g, level, a)
               <=> g = [n \in Nat |-> IF n = 0 THEN level ELSE NextLevel(g[n - 1])]
  BY <1>1 DEF Recurs
<1>3. PICK h : Recurs(h, level, a)
  <2> HIDE DEF a
  <2> QED BY Recursive
<1>4. h = [n \in Nat |-> IF n = 0 THEN level ELSE NextLevel(h[n - 1])]
  BY <1>2, <1>3
<1>5. f = [n \in Nat |-> IF n = 0 THEN level ELSE NextLevel(f[n - 1])]
  BY <1>4 DEF Levels
<1>6. Recurs(f, level, a)
  BY <1>2, <1>5
<1>7. f[0] = level /\ \A n \in Nat : f[n + 1] = Step(f[n], a[n + 1])
  <2> HIDE DEF f, a
  <2> QED BY <1>6, RecursiveValues
<1>8. ASSUME NEW n \in Nat PROVE Step(f[n], a[n + 1]) = NextLevel(f[n])
  BY DEF Step
<1> QED BY <1>7, <1>8

\* Refolds: each node is folded with one more step.
LEMMA RefoldsFrom ==
    ASSUME NEW node, NEW steps
    PROVE  /\ Refolds(node, steps)[0] = node
           /\ \A n \in Nat : Refolds(node, steps)[n + 1]
                                = FoldStep(Refolds(node, steps)[n], steps[n + 1])
<1> DEFINE a == [n \in Nat |-> <<"fold", steps[n]>>]
           f == Refolds(node, steps)
<1>1. ASSUME NEW g, NEW n \in Nat
      PROVE  Step(g[n - 1], a[n]) = FoldStep(g[n - 1], steps[n])
  BY DEF Step
<1>2. ASSUME NEW g
      PROVE  Recurs(g, node, a)
               <=> g = [n \in Nat |-> IF n = 0 THEN node ELSE FoldStep(g[n - 1], steps[n])]
  BY <1>1 DEF Recurs
<1>3. PICK h : Recurs(h, node, a)
  <2> HIDE DEF a
  <2> QED BY Recursive
<1>4. h = [n \in Nat |-> IF n = 0 THEN node ELSE FoldStep(h[n - 1], steps[n])]
  BY <1>2, <1>3
<1>5. f = [n \in Nat |-> IF n = 0 THEN node ELSE FoldStep(f[n - 1], steps[n])]
  BY <1>4 DEF Refolds
<1>6. Recurs(f, node, a)
  BY <1>2, <1>5
<1>7. f[0] = node /\ \A n \in Nat : f[n + 1] = Step(f[n], a[n + 1])
  <2> HIDE DEF f, a
  <2> QED BY <1>6, RecursiveValues
<1>8. ASSUME NEW n \in Nat PROVE Step(f[n], a[n + 1]) = FoldStep(f[n], steps[n + 1])
  BY DEF Step
<1> QED BY <1>7, <1>8

\* PowerOfTwo: each power is twice the one before it.
LEMMA PowersFrom ==
           /\ PowerOfTwo[0] = 1
           /\ \A n \in Nat : PowerOfTwo[n + 1] = 2 * PowerOfTwo[n]
<1> DEFINE a == [n \in Nat |-> <<"double">>]
           f == PowerOfTwo
<1>1. ASSUME NEW g, NEW n \in Nat PROVE Step(g[n - 1], a[n]) = 2 * g[n - 1]
  BY DEF Step
<1>2. ASSUME NEW g
      PROVE  Recurs(g, 1, a)
               <=> g = [n \in Nat |-> IF n = 0 THEN 1 ELSE 2 * g[n - 1]]
  BY <1>1 DEF Recurs
<1>3. PICK h : Recurs(h, 1, a)
  <2> HIDE DEF a
  <2> QED BY Recursive
<1>4. h = [n \in Nat |-> IF n = 0 THEN 1 ELSE 2 * h[n - 1]]
  BY <1>2, <1>3
<1>5. f = [n \in Nat |-> IF n = 0 THEN 1 ELSE 2 * f[n - 1]]
  BY <1>4 DEF PowerOfTwo
<1>6. Recurs(f, 1, a)
  BY <1>2, <1>5
<1>7. f[0] = 1 /\ \A n \in Nat : f[n + 1] = Step(f[n], a[n + 1])
  <2> HIDE DEF f, a
  <2> QED BY <1>6, RecursiveValues
<1>8. ASSUME NEW n \in Nat PROVE Step(f[n], a[n + 1]) = 2 * f[n]
  BY DEF Step
<1> QED BY <1>7, <1>8

\* Halves: each number is half the one before it.
LEMMA HalvesFrom ==
    ASSUME NEW m
    PROVE  /\ Halves(m)[0] = m
           /\ \A n \in Nat : Halves(m)[n + 1] = Halves(m)[n] \div 2
<1> DEFINE a == [n \in Nat |-> <<"halve">>]
           f == Halves(m)
<1>1. ASSUME NEW g, NEW n \in Nat PROVE Step(g[n - 1], a[n]) = g[n - 1] \div 2
  BY DEF Step
<1>2. ASSUME NEW g
      PROVE  Recurs(g, m, a)
               <=> g = [n \in Nat |-> IF n = 0 THEN m ELSE g[n - 1] \div 2]
  BY <1>1 DEF Recurs
<1>3. PICK h : Recurs(h, m, a)
  <2> HIDE DEF a
  <2> QED BY Recursive
<1>4. h = [n \in Nat |-> IF n = 0 THEN m ELSE h[n - 1] \div 2]
  BY <1>2, <1>3
<1>5. f = [n \in Nat |-> IF n = 0 THEN m ELSE f[n - 1] \div 2]
  BY <1>4 DEF Halves
<1>6. Recurs(f, m, a)
  BY <1>2, <1>5
<1>7. f[0] = m /\ \A n \in Nat : f[n + 1] = Step(f[n], a[n + 1])
  <2> HIDE DEF f, a
  <2> QED BY <1>6, RecursiveValues
<1>8. ASSUME NEW n \in Nat PROVE Step(f[n], a[n + 1]) = f[n] \div 2
  BY DEF Step
<1> QED BY <1>7, <1>8

\* Positions: each one is advanced from the one before it.
LEMMA PositionsFrom ==
    ASSUME NEW m, NEW last
    PROVE  /\ Positions(m, last)[0] = <<m, last>>
           /\ \A n \in Nat : Positions(m, last)[n + 1] = Advance(Positions(m, last)[n])
<1> DEFINE a == [n \in Nat |-> <<"position">>]
           f == Positions(m, last)
<1>1. ASSUME NEW g, NEW n \in Nat PROVE Step(g[n - 1], a[n]) = Advance(g[n - 1])
  BY DEF Step
<1>2. ASSUME NEW g
      PROVE  Recurs(g, <<m, last>>, a)
               <=> g = [n \in Nat |-> IF n = 0 THEN <<m, last>> ELSE Advance(g[n - 1])]
  BY <1>1 DEF Recurs
<1>3. PICK h : Recurs(h, <<m, last>>, a)
  <2> HIDE DEF a
  <2> QED BY Recursive
<1>4. h = [n \in Nat |-> IF n = 0 THEN <<m, last>> ELSE Advance(h[n - 1])]
  BY <1>2, <1>3
<1>5. f = [n \in Nat |-> IF n = 0 THEN <<m, last>> ELSE Advance(f[n - 1])]
  BY <1>4 DEF Positions
<1>6. Recurs(f, <<m, last>>, a)
  BY <1>2, <1>5
<1>7. f[0] = <<m, last>> /\ \A n \in Nat : f[n + 1] = Step(f[n], a[n + 1])
  <2> HIDE DEF f, a
  <2> QED BY <1>6, RecursiveValues
<1>8. ASSUME NEW n \in Nat PROVE Step(f[n], a[n + 1]) = Advance(f[n])
  BY DEF Step
<1> QED BY <1>7, <1>8

-----------------------------------------------------------------------------
(* Lists and levels *)

\* A list of n elements, of whatever set.
IsList(s, n) == n \in Nat /\ s = [i \in 1..n |-> s[i]]

\* A list is a sequence over some set.
LEMMA ListIsSeq ==
    ASSUME NEW s, NEW n, IsList(s, n)
    PROVE  /\ Len(s) = n
           /\ \E S : s \in Seq(S)
<1> DEFINE S == {s[i] : i \in 1..n}
<1>1. n \in Nat /\ s \in [1..n -> S]
  BY DEF IsList
<1>2. s \in Seq(S)
  BY <1>1
<1>3. DOMAIN s = 1..n
  BY <1>1
<1>4. Len(s) = n
  BY <1>1, <1>2, <1>3, LenProperties
<1> QED BY <1>2, <1>4

\* Conversely.
LEMMA SeqIsList ==
    ASSUME NEW S, NEW s \in Seq(S)
    PROVE  IsList(s, Len(s))
BY DEF IsList

\* A sequence is empty, or has one element, or more.
LEMMA EmptyOrNot ==
    ASSUME NEW S, NEW s \in Seq(S)
    PROVE  /\ Len(s) = 0 <=> s = <<>>
           /\ Len(s) = 1 => s # <<>>
           /\ Len(s) >= 2 => s # <<>> /\ Len(s) # 1
           /\ s = <<>> \/ Len(s) = 1 \/ Len(s) >= 2
<1> DEFINE n == Len(s)
           empty == s = <<>>
<1>1. n \in Nat /\ (empty <=> n = 0)
  OBVIOUS
<1> HIDE DEF n, empty
<1>2. /\ n = 0 <=> empty
      /\ n = 1 => ~empty
      /\ n >= 2 => ~empty /\ n # 1
      /\ empty \/ n = 1 \/ n >= 2
  BY <1>1
<1> QED BY <1>2, Zenon DEF n, empty

\* Lists with the same elements are the same list.
LEMMA SameList ==
    ASSUME NEW n, NEW s, NEW t, IsList(s, n), IsList(t, n), \A i \in 1..n : s[i] = t[i]
    PROVE  s = t
<1>1. [i \in 1..n |-> s[i]] = [i \in 1..n |-> t[i]]
  OBVIOUS
<1> QED BY <1>1 DEF IsList

\* A list with one more element.
Adds(t, s, x) == t = s \o <<x>>

\* Its length and its last element.
LEMMA ListAppend ==
    ASSUME NEW s, NEW n, NEW x, IsList(s, n), NEW t, Adds(t, s, x)
    PROVE  IsList(t, n + 1) /\ t[n + 1] = x
<1>1. PICK S : s \in Seq(S)
  BY ListIsSeq
<1> DEFINE S2 == S \cup {x}
<1>2. s \in Seq(S2) /\ x \in S2 /\ Len(s) = n /\ n \in Nat
  BY <1>1, ListIsSeq DEF IsList
<1> HIDE DEF S2
<1>3. t = Append(s, x)
  BY <1>2, AppendIsConcat DEF Adds
<1>4. t \in Seq(S2) /\ Len(t) = n + 1 /\ t[n + 1] = x
  BY <1>2, <1>3
<1> QED BY <1>4, SeqIsList

\* Its other elements.
LEMMA ListKeeps ==
    ASSUME NEW s, NEW n, NEW x, IsList(s, n), NEW t, Adds(t, s, x)
    PROVE  \A i \in 1..n : t[i] = s[i]
<1>1. PICK S : s \in Seq(S)
  BY ListIsSeq
<1> DEFINE S2 == S \cup {x}
<1>2. s \in Seq(S2) /\ x \in S2 /\ Len(s) = n /\ n \in Nat
  BY <1>1, ListIsSeq DEF IsList
<1> HIDE DEF S2
<1>3. t = Append(s, x)
  BY <1>2, AppendIsConcat DEF Adds
<1> QED BY <1>2, <1>3

\* The level above: its length and its nodes.
LEMMA LevelAbove ==
    ASSUME NEW level, NEW n, IsList(level, n)
    PROVE  /\ IsList(NextLevel(level), (n + 1) \div 2)
           /\ \A k \in 1..((n + 1) \div 2) :
                 NextLevel(level)[k] = IF 2 * k <= n
                                       THEN hash_node(level[2 * k - 1], level[2 * k])
                                       ELSE level[2 * k - 1]
<1>1. Len(level) = n /\ n \in Nat
  BY ListIsSeq DEF IsList
<1>2. (n + 1) \div 2 \in Nat
  BY <1>1
<1> QED BY <1>1, <1>2 DEF NextLevel, IsList

\* A single node stays as it is.
LEMMA TopStays ==
    ASSUME NEW level, IsList(level, 1)
    PROVE  NextLevel(level) = level
<1>1. IsList(NextLevel(level), 1)
  <2>1. IsList(NextLevel(level), (1 + 1) \div 2)
    BY LevelAbove
  <2>2. (1 + 1) \div 2 = 1
    OBVIOUS
  <2> QED BY <2>1, <2>2
<1>2. NextLevel(level)[1] = level[1]
  <2>1. 1 \in 1..((1 + 1) \div 2) /\ ~(2 * 1 <= 1) /\ 2 * 1 - 1 = 1
    OBVIOUS
  <2> QED BY <2>1, LevelAbove
<1> QED BY <1>1, <1>2, SameList

\* Starting one level up is having made one round more.
LEMMA LevelsShift ==
    ASSUME NEW level
    PROVE  \A n \in Nat : Levels(NextLevel(level))[n] = Levels(level)[n + 1]
<1> DEFINE T == {n \in Nat : Levels(NextLevel(level))[n] = Levels(level)[n + 1]}
<1>1. 0 \in T
  <2>1. Levels(level)[0 + 1] = NextLevel(level)
    BY LevelsFrom
  <2> QED BY <2>1, LevelsFrom
<1>2. ASSUME NEW n \in Nat, n \in T PROVE n + 1 \in T
  <2>1. Levels(NextLevel(level))[n + 1] = NextLevel(Levels(NextLevel(level))[n])
    BY LevelsFrom
  <2>2. n + 1 \in Nat /\ Levels(level)[(n + 1) + 1] = NextLevel(Levels(level)[n + 1])
    BY LevelsFrom
  <2> QED BY <1>2, <2>1, <2>2
<1> HIDE DEF T
<1>3. \A n \in Nat : n \in T
  BY <1>1, <1>2, StepInduction
<1> QED BY <1>3 DEF T

\* Every round takes a node away until one is left.
LEMMA LevelsShrink ==
    ASSUME NEW level, NEW n \in Nat \ {0}, IsList(level, n)
    PROVE  \A j \in Nat : \E k \in Nat \ {0} : /\ IsList(Levels(level)[j], k)
                                               /\ k = 1 \/ k <= n - j
<1> DEFINE T == {j \in Nat : \E k \in Nat \ {0} : /\ IsList(Levels(level)[j], k)
                                                  /\ k = 1 \/ k <= n - j}
<1>1. 0 \in T
  <2>1. Levels(level)[0] = level /\ n <= n - 0
    BY LevelsFrom
  <2> QED BY <2>1
<1>2. ASSUME NEW j \in Nat, j \in T PROVE j + 1 \in T
  <2>1. PICK k \in Nat \ {0} : IsList(Levels(level)[j], k) /\ (k = 1 \/ k <= n - j)
    BY <1>2
  <2>2. IsList(Levels(level)[j + 1], (k + 1) \div 2)
    <3>1. Levels(level)[j + 1] = NextLevel(Levels(level)[j])
      BY LevelsFrom
    <3>2. IsList(NextLevel(Levels(level)[j]), (k + 1) \div 2)
      BY <2>1, LevelAbove
    <3> QED BY <3>1, <3>2
  <2>3. (k + 1) \div 2 \in Nat \ {0} /\ ((k + 1) \div 2 = 1 \/ (k + 1) \div 2 <= n - (j + 1))
    BY <2>1
  <2> QED BY <2>2, <2>3
<1> HIDE DEF T
<1>3. \A j \in Nat : j \in T
  BY <1>1, <1>2, StepInduction
<1> QED BY <1>3 DEF T

\* From then on nothing changes.
LEMMA LevelsSettle ==
    ASSUME NEW level, NEW n \in Nat \ {0}, IsList(level, n)
    PROVE  \A j \in Nat : Levels(level)[(n - 1) + j] = Levels(level)[n - 1]
<1> DEFINE T == {j \in Nat : Levels(level)[(n - 1) + j] = Levels(level)[n - 1]}
<1>1. IsList(Levels(level)[n - 1], 1)
  <2>1. n - 1 \in Nat
    OBVIOUS
  <2>2. PICK k \in Nat \ {0} : /\ IsList(Levels(level)[n - 1], k)
                               /\ k = 1 \/ k <= n - (n - 1)
    BY <2>1, LevelsShrink
  <2>3. k = 1
    BY <2>2
  <2> QED BY <2>2, <2>3
<1>2. 0 \in T
  OBVIOUS
<1>3. ASSUME NEW j \in Nat, j \in T PROVE j + 1 \in T
  <2>1. (n - 1) + j \in Nat /\ ((n - 1) + j) + 1 = (n - 1) + (j + 1)
    OBVIOUS
  <2>2. Levels(level)[((n - 1) + j) + 1] = NextLevel(Levels(level)[(n - 1) + j])
    BY <2>1, LevelsFrom
  <2>3. NextLevel(Levels(level)[n - 1]) = Levels(level)[n - 1]
    BY <1>1, TopStays
  <2>4. Levels(level)[(n - 1) + (j + 1)] = Levels(level)[n - 1]
    BY <1>3, <2>1, <2>2, <2>3
  <2> QED BY <2>4
<1> HIDE DEF T
<1>4. \A j \in Nat : j \in T
  BY <1>2, <1>3, StepInduction
<1> QED BY <1>4 DEF T

\* What the loop of compute_root returns does not change as it climbs.
LEMMA CollapseAbove ==
    ASSUME NEW level, NEW n \in Nat, n >= 2, IsList(level, n)
    PROVE  Collapse(level) = Collapse(NextLevel(level))
<1> DEFINE m == (n + 1) \div 2
           up == NextLevel(level)
<1>1. IsList(up, m) /\ m \in Nat \ {0} /\ n - m \in Nat
  BY LevelAbove
<1>2. Len(level) = n /\ Len(up) = m
  BY <1>1, ListIsSeq
<1>3. Levels(level)[n] = Levels(up)[n - 1]
  <2>1. n - 1 \in Nat /\ (n - 1) + 1 = n
    OBVIOUS
  <2> HIDE DEF up
  <2>2. Levels(NextLevel(level))[n - 1] = Levels(level)[(n - 1) + 1]
    BY <2>1, LevelsShift
  <2> QED BY <2>1, <2>2 DEF up
<1> HIDE DEF m, up
<1>4. Levels(up)[(m - 1) + (n - m)] = Levels(up)[m - 1]
  BY <1>1, LevelsSettle
<1>5. Levels(up)[(m - 1) + 1] = Levels(up)[m - 1]
  BY <1>1, LevelsSettle
<1>6. (m - 1) + (n - m) = n - 1 /\ (m - 1) + 1 = m
  BY <1>1
<1>7. Levels(level)[n] = Levels(up)[m]
  BY <1>3, <1>4, <1>5, <1>6
<1>8. Collapse(up) = Levels(up)[m][1] /\ Collapse(level) = Levels(level)[n][1]
  BY <1>2 DEF Collapse
<1> QED BY <1>7, <1>8 DEF up

\* At a single node the loop is done.
LEMMA CollapseTop ==
    ASSUME NEW level, IsList(level, 1)
    PROVE  Collapse(level) = level[1]
<1>1. Len(level) = 1
  BY ListIsSeq
<1>2. Levels(level)[0] = level /\ Levels(level)[0 + 1] = NextLevel(Levels(level)[0])
  BY LevelsFrom
<1>3. Levels(level)[1] = level
  BY <1>2, TopStays
<1> QED BY <1>1, <1>3 DEF Collapse

-----------------------------------------------------------------------------
(* The tree hash *)

\* Powers of two are positive and exceed their exponent.
LEMMA PowersGrow ==
    \A e \in Nat : PowerOfTwo[e] \in Nat \ {0} /\ e < PowerOfTwo[e]
<1> DEFINE T == {e \in Nat : PowerOfTwo[e] \in Nat \ {0} /\ e < PowerOfTwo[e]}
<1>1. 0 \in T
  BY PowersFrom
<1>2. ASSUME NEW e \in Nat, e \in T PROVE e + 1 \in T
  <2>1. PowerOfTwo[e + 1] = 2 * PowerOfTwo[e]
    BY PowersFrom
  <2>2. PowerOfTwo[e] \in Nat \ {0} /\ e < PowerOfTwo[e]
    BY <1>2
  <2>3. 2 * PowerOfTwo[e] \in Nat \ {0} /\ e + 1 < 2 * PowerOfTwo[e]
    BY <2>2
  <2> QED BY <2>1, <2>3
<1> HIDE DEF T
<1>3. \A e \in Nat : e \in T
  BY <1>1, <1>2, StepInduction
<1> QED BY <1>3 DEF T

\* C is A followed by B.
Joins(A, B, C, a, b) ==
    /\ IsList(A, a) /\ IsList(B, b) /\ IsList(C, a + b)
    /\ \A i \in 1..a : C[i] = A[i]
    /\ \A i \in 1..b : C[a + i] = B[i]

\* One level up, an even number of nodes is still followed by the rest.
LEMMA JoinsAbove ==
    ASSUME NEW A, NEW B, NEW C, NEW a \in Nat, NEW b \in Nat, Joins(A, B, C, 2 * a, b)
    PROVE  Joins(NextLevel(A), NextLevel(B), NextLevel(C), a, (b + 1) \div 2)
<1> DEFINE up == (b + 1) \div 2
<1>1. IsList(NextLevel(A), a) /\ IsList(NextLevel(B), up) /\ IsList(NextLevel(C), a + up)
  <2>1. (2 * a + 1) \div 2 = a /\ ((2 * a + b) + 1) \div 2 = a + up
    OBVIOUS
  <2>2. /\ IsList(NextLevel(A), (2 * a + 1) \div 2)
        /\ IsList(NextLevel(B), up)
        /\ IsList(NextLevel(C), ((2 * a + b) + 1) \div 2)
    BY LevelAbove DEF Joins
  <2> QED BY <2>1, <2>2
<1>2. ASSUME NEW i \in 1..a PROVE NextLevel(C)[i] = NextLevel(A)[i]
  <2>1. /\ i \in 1..((2 * a + 1) \div 2) /\ i \in 1..(((2 * a + b) + 1) \div 2)
        /\ 2 * i <= 2 * a /\ 2 * i <= 2 * a + b
        /\ 2 * i \in 1..(2 * a) /\ 2 * i - 1 \in 1..(2 * a)
    OBVIOUS
  <2>2. NextLevel(C)[i] = hash_node(C[2 * i - 1], C[2 * i])
    BY <2>1, LevelAbove DEF Joins
  <2>3. NextLevel(A)[i] = hash_node(A[2 * i - 1], A[2 * i])
    BY <2>1, LevelAbove DEF Joins
  <2>4. C[2 * i - 1] = A[2 * i - 1] /\ C[2 * i] = A[2 * i]
    BY <2>1 DEF Joins
  <2> QED BY <2>2, <2>3, <2>4
<1>3. ASSUME NEW i \in 1..up PROVE NextLevel(C)[a + i] = NextLevel(B)[i]
  <2>1. /\ a + i \in 1..(((2 * a + b) + 1) \div 2)
        /\ 2 * (a + i) = 2 * a + 2 * i /\ 2 * (a + i) - 1 = 2 * a + (2 * i - 1)
        /\ (2 * a + 2 * i <= 2 * a + b) <=> (2 * i <= b)
        /\ 2 * i - 1 \in 1..b /\ (2 * i <= b => 2 * i \in 1..b)
    OBVIOUS
  <2>2. NextLevel(C)[a + i] = IF 2 * (a + i) <= 2 * a + b
                              THEN hash_node(C[2 * (a + i) - 1], C[2 * (a + i)])
                              ELSE C[2 * (a + i) - 1]
    BY <2>1, LevelAbove DEF Joins
  <2>3. NextLevel(B)[i] = IF 2 * i <= b THEN hash_node(B[2 * i - 1], B[2 * i])
                          ELSE B[2 * i - 1]
    BY LevelAbove DEF Joins
  <2>4. C[2 * a + (2 * i - 1)] = B[2 * i - 1] /\ (2 * i <= b => C[2 * a + 2 * i] = B[2 * i])
    BY <2>1 DEF Joins
  <2> QED BY <2>1, <2>2, <2>3, <2>4
<1> QED BY <1>1, <1>2, <1>3 DEF Joins

\* The loop hashes a full tree and what follows it, up to as many nodes, on
\* their own and then together.
LEMMA CollapseSplits ==
    ASSUME NEW e \in Nat
    PROVE  \A b \in 1..PowerOfTwo[e] : \A A, B, C : Joins(A, B, C, PowerOfTwo[e], b) =>
               Collapse(C) = hash_node(Collapse(A), Collapse(B))
<1> DEFINE P(n) == \A b \in 1..PowerOfTwo[n] : \A A, B, C :
                      Joins(A, B, C, PowerOfTwo[n], b) =>
                          Collapse(C) = hash_node(Collapse(A), Collapse(B))
           T == {n \in Nat : P(n)}
<1>1. 0 \in T
  <2>1. PowerOfTwo[0] = 1
    BY PowersFrom
  <2>2. ASSUME NEW A, NEW B, NEW C, Joins(A, B, C, 1, 1)
        PROVE  Collapse(C) = hash_node(Collapse(A), Collapse(B))
    <3>1. IsList(A, 1) /\ IsList(B, 1) /\ IsList(C, 2) /\ C[1] = A[1] /\ C[2] = B[1]
      <4>1. 1 + 1 = 2 /\ 1 \in 1..1
        OBVIOUS
      <4> QED BY <2>2, <4>1 DEF Joins
    <3>2. IsList(NextLevel(C), 1) /\ NextLevel(C)[1] = hash_node(C[1], C[2])
      <4>1. (2 + 1) \div 2 = 1 /\ 1 \in 1..1 /\ 2 * 1 <= 2 /\ 2 * 1 = 2 /\ 2 * 1 - 1 = 1
        OBVIOUS
      <4>2. IsList(NextLevel(C), (2 + 1) \div 2)
        BY <3>1, LevelAbove
      <4>3. \A k \in 1..((2 + 1) \div 2) :
                NextLevel(C)[k] = IF 2 * k <= 2 THEN hash_node(C[2 * k - 1], C[2 * k])
                                  ELSE C[2 * k - 1]
        BY <3>1, LevelAbove
      <4> QED BY <4>1, <4>2, <4>3
    <3>3. Collapse(C) = NextLevel(C)[1]
      BY <3>1, <3>2, CollapseAbove, CollapseTop
    <3> QED BY <3>1, <3>2, <3>3, CollapseTop
  <2>3. \A b \in 1..1 : b = 1
    OBVIOUS
  <2>4. P(0)
    BY <2>1, <2>2, <2>3
  <2> QED BY <2>4
<1>2. ASSUME NEW n \in Nat, n \in T PROVE n + 1 \in T
  <2> DEFINE p == PowerOfTwo[n]
  <2>1. p \in Nat \ {0} /\ PowerOfTwo[n + 1] = 2 * p
    BY PowersFrom, PowersGrow
  <2>2. P(n)
    BY <1>2
  <2> HIDE DEF p
  <2>3. ASSUME NEW b \in 1..(2 * p), NEW A, NEW B, NEW C, Joins(A, B, C, 2 * p, b)
        PROVE  Collapse(C) = hash_node(Collapse(A), Collapse(B))
    <3> DEFINE up == (b + 1) \div 2
    <3>1. Joins(NextLevel(A), NextLevel(B), NextLevel(C), p, up)
      BY <2>1, <2>3, JoinsAbove
    <3>2. up \in 1..p
      BY <2>1
    <3>3. Collapse(NextLevel(C)) = hash_node(Collapse(NextLevel(A)), Collapse(NextLevel(B)))
      <4> HIDE DEF up
      <4> QED BY <2>2, <3>1, <3>2 DEF p
    <3>4. IsList(A, 2 * p) /\ IsList(B, b) /\ IsList(C, 2 * p + b)
      BY <2>3 DEF Joins
    <3>5. 2 * p \in Nat /\ 2 * p >= 2 /\ 2 * p + b \in Nat /\ 2 * p + b >= 2
      BY <2>1
    <3>6. Collapse(A) = Collapse(NextLevel(A)) /\ Collapse(C) = Collapse(NextLevel(C))
      BY <3>4, <3>5, CollapseAbove
    <3>7. Collapse(B) = Collapse(NextLevel(B))
      <4>1. CASE b = 1
        BY <4>1, <3>4, TopStays
      <4>2. CASE b # 1
        <5>1. b \in Nat /\ b >= 2
          BY <4>2, <2>1
        <5> QED BY <5>1, <3>4, CollapseAbove
      <4> QED BY <4>1, <4>2
    <3> QED BY <3>3, <3>6, <3>7
  <2>4. P(n + 1)
    BY <2>1, <2>3
  <2> QED BY <2>4
<1> HIDE DEF T
<1>3. \A n \in Nat : n \in T
  BY <1>1, <1>2, StepInduction
<1>4. e \in T
  BY <1>3
<1> QED BY <1>4 DEF T

\* RFC 6962 splits every list of two or more.
LEMMA SplitPointIs ==
    ASSUME NEW n \in Nat, n >= 2
    PROVE  /\ SplitPoint(n) \in 1..(n - 1)
           /\ \E e \in Nat : SplitPoint(n) = PowerOfTwo[e] /\ n <= 2 * PowerOfTwo[e]
<1> DEFINE T == {e \in Nat : n <= PowerOfTwo[e]}
<1>1. n \in T
  BY PowersGrow
<1>2. PICK e \in T : \A d \in T : e <= d
  BY <1>1, LeastNumber
<1>3. e \in Nat /\ n <= PowerOfTwo[e] /\ e <= n
  BY <1>1, <1>2
<1>4. e # 0
  <2>1. PowerOfTwo[0] = 1
    BY PowersFrom
  <2> QED BY <2>1, <1>3
<1> DEFINE d == e - 1
           k == PowerOfTwo[d]
<1>5. d \in Nat /\ d + 1 = e /\ d \in 0..n
  BY <1>3, <1>4
<1>6. k \in Nat \ {0} /\ PowerOfTwo[e] = 2 * k
  <2>1. PowerOfTwo[d + 1] = 2 * PowerOfTwo[d]
    BY <1>5, PowersFrom
  <2> QED BY <2>1, <1>5, PowersGrow
<1>7. ~(n <= k)
  <2>1. d \notin T
    BY <1>2, <1>5
  <2> QED BY <2>1, <1>5
<1>8. k \in 1..(n - 1) /\ (\E c \in 0..n : k = PowerOfTwo[c]) /\ n <= 2 * k
  BY <1>3, <1>5, <1>6, <1>7
<1> HIDE DEF k
<1>9. /\ SplitPoint(n) \in 1..(n - 1)
      /\ \E c \in 0..n : SplitPoint(n) = PowerOfTwo[c]
      /\ n <= 2 * SplitPoint(n)
  BY <1>8 DEF SplitPoint
<1>10. PICK c \in 0..n : SplitPoint(n) = PowerOfTwo[c]
  BY <1>9
<1>11. c \in Nat /\ n <= 2 * PowerOfTwo[c]
  BY <1>9, <1>10
<1> QED BY <1>9, <1>10, <1>11

\* compute_root, one leaf.
LEMMA RootOfOne ==
    ASSUME NEW S, NEW s \in Seq(S), Len(s) = 1
    PROVE  compute_root(s) = hash_leaf(s[1])
<1>1. s # <<>>
  OBVIOUS
<1>2. IsList(LeafHashes(s), 1) /\ LeafHashes(s)[1] = hash_leaf(s[1])
  BY DEF IsList, LeafHashes
<1>3. Collapse(LeafHashes(s)) = hash_leaf(s[1])
  BY <1>2, CollapseTop
<1> QED BY <1>1, <1>3 DEF compute_root

\* The parts of a list of two or more are shorter lists.
LEMMA Parts ==
    ASSUME NEW S, NEW s \in Seq(S), Len(s) >= 2, NEW k, k = SplitPoint(Len(s))
    PROVE  /\ SubSeq(s, 1, k) \in Seq(S) /\ SubSeq(s, k + 1, Len(s)) \in Seq(S)
           /\ k \in 1..(Len(s) - 1)
           /\ Len(SubSeq(s, 1, k)) = k /\ Len(SubSeq(s, k + 1, Len(s))) = Len(s) - k
           /\ \A i \in 1..k : SubSeq(s, 1, k)[i] = s[i]
           /\ \A i \in 1..(Len(s) - k) : SubSeq(s, k + 1, Len(s))[i] = s[k + i]
<1> DEFINE n == Len(s)
<1>1. n \in Nat /\ k \in 1..(n - 1)
  BY SplitPointIs
<1>2. SubSeq(s, 1, k) \in Seq(S) /\ SubSeq(s, k + 1, n) \in Seq(S)
  BY <1>1
<1>3. Len(SubSeq(s, 1, k)) = k /\ \A i \in 1..k : SubSeq(s, 1, k)[i] = s[i]
  BY <1>1, SubSeqProperties
<1>4. /\ Len(SubSeq(s, k + 1, n)) = IF k + 1 <= n THEN n - (k + 1) + 1 ELSE 0
      /\ \A i \in 1..(n - (k + 1) + 1) : SubSeq(s, k + 1, n)[i] = s[(k + 1) + i - 1]
  BY <1>1, SubSeqProperties
<1>5. n - (k + 1) + 1 = n - k /\ \A i \in 1..(n - k) : (k + 1) + i - 1 = k + i
  BY <1>1
<1>6. Len(SubSeq(s, k + 1, n)) = n - k
  BY <1>1, <1>4
<1>7. ASSUME NEW i \in 1..(n - k) PROVE SubSeq(s, k + 1, n)[i] = s[k + i]
  <2>1. i \in 1..(n - (k + 1) + 1) /\ (k + 1) + i - 1 = k + i
    BY <1>1
  <2> QED BY <1>4, <2>1
<1> QED BY <1>1, <1>2, <1>3, <1>6, <1>7

\* compute_root, two leaves or more: the equation of RFC 6962.
LEMMA RootOfMany ==
    ASSUME NEW S, NEW s \in Seq(S), Len(s) >= 2, NEW k, k = SplitPoint(Len(s))
    PROVE  compute_root(s) = hash_node(compute_root(SubSeq(s, 1, k)),
                                       compute_root(SubSeq(s, k + 1, Len(s))))
<1> DEFINE n == Len(s)
           u == SubSeq(s, 1, k)
           v == SubSeq(s, k + 1, n)
<1>1. n \in Nat /\ k \in 1..(n - 1)
  BY SplitPointIs
<1>2. PICK e \in Nat : k = PowerOfTwo[e] /\ n <= 2 * PowerOfTwo[e]
  <2>1. n \in Nat /\ n >= 2
    OBVIOUS
  <2> QED BY <2>1, SplitPointIs
<1>3. u \in Seq(S) /\ Len(u) = k /\ \A i \in 1..k : u[i] = s[i]
  BY Parts
<1>4. v \in Seq(S) /\ Len(v) = n - k /\ \A i \in 1..(n - k) : v[i] = s[k + i]
  BY Parts
<1> HIDE DEF n, u, v
<1>5. Joins(LeafHashes(u), LeafHashes(v), LeafHashes(s), k, n - k)
  <2>1. k \in Nat /\ n - k \in Nat /\ k + (n - k) = n
    BY <1>1
  <2>2. IsList(LeafHashes(u), k) /\ IsList(LeafHashes(v), n - k) /\ IsList(LeafHashes(s), n)
    BY <1>1, <2>1, <1>3, <1>4 DEF IsList, LeafHashes, n
  <2>3. \A i \in 1..k : LeafHashes(s)[i] = LeafHashes(u)[i]
    BY <1>1, <1>3 DEF LeafHashes, n
  <2>4. \A i \in 1..(n - k) : LeafHashes(s)[k + i] = LeafHashes(v)[i]
    BY <1>1, <1>4 DEF LeafHashes, n
  <2> QED BY <2>1, <2>2, <2>3, <2>4 DEF Joins
<1>6. n - k \in 1..PowerOfTwo[e]
  BY <1>1, <1>2, PowersGrow
<1>7. Collapse(LeafHashes(s)) = hash_node(Collapse(LeafHashes(u)), Collapse(LeafHashes(v)))
  BY <1>2, <1>5, <1>6, CollapseSplits
<1>8. s # <<>> /\ u # <<>> /\ v # <<>>
  BY <1>1, <1>3, <1>4 DEF n
<1> QED BY <1>7, <1>8 DEF compute_root, u, v, n

\* What RFC 6962 asks of a tree hash T, for the leaves s.
HashOf(T, s) ==
    IF s = <<>> THEN <<"b3", <<>>>>
    ELSE IF Len(s) = 1 THEN <<"b3", <<0, s[1]>>>>
    ELSE LET k == SplitPoint(Len(s))
         IN  <<"b3", <<1, T[SubSeq(s, 1, k)], T[SubSeq(s, k + 1, Len(s))]>>>>

\* TreeHash satisfies its defining equation: compute_root does.
LEMMA TreeHashEquation ==
    \A s \in Seq(Leaf) : TreeHash[s] = HashOf(TreeHash, s)
<1> DEFINE R == [t \in Seq(Leaf) |-> compute_root(t)]
<1>1. ASSUME NEW s \in Seq(Leaf) PROVE compute_root(s) = HashOf(R, s)
  <2>1. CASE s = <<>>
    BY <2>1 DEF HashOf, compute_root, b3_raw
  <2>2. CASE Len(s) = 1
    <3>1. s # <<>>
      BY <2>2, EmptyOrNot
    <3> QED BY <2>2, <3>1, RootOfOne DEF HashOf, hash_leaf, b3_raw
  <2>3. CASE Len(s) >= 2
    <3> DEFINE k == SplitPoint(Len(s))
    <3>1. compute_root(s) = hash_node(compute_root(SubSeq(s, 1, k)),
                                      compute_root(SubSeq(s, k + 1, Len(s))))
      BY <2>3, RootOfMany
    <3>2. SubSeq(s, 1, k) \in Seq(Leaf) /\ SubSeq(s, k + 1, Len(s)) \in Seq(Leaf)
      BY <2>3, Parts
    <3>3. /\ R[SubSeq(s, 1, k)] = compute_root(SubSeq(s, 1, k))
          /\ R[SubSeq(s, k + 1, Len(s))] = compute_root(SubSeq(s, k + 1, Len(s)))
      BY <3>2
    <3>4. s # <<>> /\ Len(s) # 1
      BY <2>3, EmptyOrNot
    <3> HIDE DEF R
    <3> QED BY <3>1, <3>3, <3>4 DEF HashOf, hash_node, b3_raw
  <2>4. s = <<>> \/ Len(s) = 1 \/ Len(s) >= 2
    BY EmptyOrNot
  <2> QED BY <2>1, <2>2, <2>3, <2>4
<1>2. R = [s \in Seq(Leaf) |-> HashOf(R, s)]
  BY <1>1
<1> HIDE DEF R
<1>3. TreeHash = [s \in Seq(Leaf) |-> HashOf(TreeHash, s)]
  BY <1>2 DEF TreeHash, HashOf
<1> QED BY <1>3

\* The level loop computes the tree hash of RFC 6962.
LEMMA RootIsHash ==
    \A s \in Seq(Leaf) : compute_root(s) = TreeHash[s]
<1> DEFINE T == {n \in Nat : \A t \in Seq(Leaf) : Len(t) = n => compute_root(t) = TreeHash[t]}
<1>1. ASSUME NEW n \in Nat, \A m \in 0..(n - 1) : m \in T PROVE n \in T
  <2>1. SUFFICES ASSUME NEW s \in Seq(Leaf), Len(s) = n PROVE compute_root(s) = TreeHash[s]
    OBVIOUS
  <2>2. TreeHash[s] = HashOf(TreeHash, s)
    BY TreeHashEquation
  <2>3. CASE s = <<>>
    BY <2>2, <2>3 DEF HashOf, compute_root, b3_raw
  <2>4. CASE Len(s) = 1
    <3>1. s # <<>>
      BY <2>4, EmptyOrNot
    <3> QED BY <2>2, <2>4, <3>1, RootOfOne DEF HashOf, hash_leaf, b3_raw
  <2>5. CASE Len(s) >= 2
    <3> DEFINE k == SplitPoint(Len(s))
               u == SubSeq(s, 1, k)
               v == SubSeq(s, k + 1, Len(s))
    <3>1. compute_root(s) = hash_node(compute_root(u), compute_root(v))
      BY <2>5, RootOfMany
    <3>2. /\ u \in Seq(Leaf) /\ v \in Seq(Leaf)
          /\ Len(u) \in 0..(n - 1) /\ Len(v) \in 0..(n - 1)
      <4>1. /\ u \in Seq(Leaf) /\ v \in Seq(Leaf) /\ k \in 1..(Len(s) - 1)
            /\ Len(u) = k /\ Len(v) = Len(s) - k
        BY <2>5, Parts
      <4> HIDE DEF k, u, v
      <4> QED BY <4>1, <2>1
    <3>3. compute_root(u) = TreeHash[u] /\ compute_root(v) = TreeHash[v]
      <4> HIDE DEF k, u, v
      <4> QED BY <3>2, <1>1
    <3>4. s # <<>> /\ Len(s) # 1
      BY <2>5, EmptyOrNot
    <3> QED BY <2>2, <3>1, <3>3, <3>4 DEF HashOf, hash_node, b3_raw
  <2>6. s = <<>> \/ Len(s) = 1 \/ Len(s) >= 2
    BY EmptyOrNot
  <2> QED BY <2>3, <2>4, <2>5, <2>6
<1> HIDE DEF T
<1>2. \A n \in Nat : n \in T
  BY <1>1, CourseInduction
<1>3. SUFFICES ASSUME NEW s \in Seq(Leaf) PROVE compute_root(s) = TreeHash[s]
  OBVIOUS
<1>4. Len(s) \in T
  BY <1>2
<1> QED BY <1>4 DEF T

-----------------------------------------------------------------------------
(* The digests *)

\* A digest is that of a leaf or of two nodes, and of one leaf or pair only.
LEMMA Digests ==
    ASSUME NEW x, NEW y, NEW l, NEW r, NEW l2, NEW r2
    PROVE  /\ hash_leaf(x) = hash_leaf(y) => x = y
           /\ hash_node(l, r) = hash_node(l2, r2) => l = l2 /\ r = r2
           /\ hash_leaf(x) # hash_node(l, r)
           /\ hash_leaf(x) # b3_raw(<<>>)
           /\ hash_node(l, r) # b3_raw(<<>>)
<1>1. hash_leaf(x)[2][1] = 0 /\ hash_leaf(x)[2][2] = x /\ hash_leaf(y)[2][2] = y
  BY DEF hash_leaf, b3_raw
<1>2. hash_node(l, r)[2][1] = 1 /\ hash_node(l, r)[2][2] = l /\ hash_node(l, r)[2][3] = r
  BY DEF hash_node, b3_raw
<1>3. hash_node(l2, r2)[2][2] = l2 /\ hash_node(l2, r2)[2][3] = r2
  BY DEF hash_node, b3_raw
<1>4. Len(hash_leaf(x)[2]) = 2 /\ Len(hash_node(l, r)[2]) = 3 /\ Len(b3_raw(<<>>)[2]) = 0
  BY DEF hash_leaf, hash_node, b3_raw
<1>5. hash_leaf(x) = hash_leaf(y) => x = y
  BY <1>1
<1>6. hash_node(l, r) = hash_node(l2, r2) => l = l2 /\ r = r2
  BY <1>2, <1>3
<1>7. hash_leaf(x) # hash_node(l, r)
  BY <1>1, <1>2
<1>8. hash_leaf(x) # b3_raw(<<>>) /\ hash_node(l, r) # b3_raw(<<>>)
  BY <1>4
<1> QED BY <1>5, <1>6, <1>7, <1>8

\* The same digest, of the same pair.
LEMMA SamePair ==
    ASSUME NEW l, NEW r, NEW l2, NEW r2, hash_node(l, r) = hash_node(l2, r2)
    PROVE  l = l2 /\ r = r2
BY Digests

\* Lists of leaves with the same root are the same list.
LEMMA RootsDiffer ==
    \A s, t \in Seq(Leaf) : compute_root(s) = compute_root(t) => s = t
<1> DEFINE T == {n \in Nat : \A u, v \in Seq(Leaf) :
                    Len(u) = n /\ compute_root(u) = compute_root(v) => u = v}
<1>1. ASSUME NEW n \in Nat, \A m \in 0..(n - 1) : m \in T PROVE n \in T
  <2>1. SUFFICES ASSUME NEW s \in Seq(Leaf), NEW t \in Seq(Leaf), Len(s) = n,
                        compute_root(s) = compute_root(t)
                 PROVE  s = t
    OBVIOUS
  <2> HIDE DEF T
  <2> DEFINE k == SplitPoint(Len(s))
             s1 == SubSeq(s, 1, k)
             s2 == SubSeq(s, k + 1, Len(s))
             j == SplitPoint(Len(t))
             t1 == SubSeq(t, 1, j)
             t2 == SubSeq(t, j + 1, Len(t))
  <2>2. s = <<>> => compute_root(s) = b3_raw(<<>>)
    BY DEF compute_root
  <2>3. t = <<>> => compute_root(t) = b3_raw(<<>>)
    BY DEF compute_root
  <2>4. Len(s) = 1 => compute_root(s) = hash_leaf(s[1])
    BY RootOfOne
  <2>5. Len(t) = 1 => compute_root(t) = hash_leaf(t[1])
    BY RootOfOne
  <2>6. Len(s) >= 2 => compute_root(s) = hash_node(compute_root(s1), compute_root(s2))
    BY RootOfMany
  <2>7. Len(t) >= 2 => compute_root(t) = hash_node(compute_root(t1), compute_root(t2))
    BY RootOfMany
  <2>8. s = <<>> \/ Len(s) = 1 \/ Len(s) >= 2
    BY EmptyOrNot
  <2>9. t = <<>> \/ Len(t) = 1 \/ Len(t) >= 2
    BY EmptyOrNot
  <2> HIDE DEF k, j, s1, s2, t1, t2
  <2>10. CASE s = <<>>
    <3>1. ~(Len(t) = 1) /\ ~(Len(t) >= 2)
      BY <2>10, <2>1, <2>2, <2>5, <2>7, Digests
    <3> QED BY <2>10, <2>9, <3>1
  <2>11. CASE Len(s) = 1
    <3>1. t # <<>> /\ ~(Len(t) >= 2)
      BY <2>11, <2>1, <2>4, <2>3, <2>7, Digests
    <3>2. Len(t) = 1
      BY <2>9, <3>1
    <3>3. s[1] = t[1]
      BY <2>11, <2>1, <2>4, <2>5, <3>2, Digests
    <3>4. IsList(s, 1) /\ IsList(t, 1)
      BY <2>11, <3>2, SeqIsList
    <3> QED BY <3>3, <3>4, SameList
  <2>12. CASE Len(s) >= 2
    <3>1. t # <<>> /\ ~(Len(t) = 1)
      BY <2>12, <2>1, <2>6, <2>3, <2>5, Digests
    <3>2. Len(t) >= 2
      BY <2>9, <3>1
    <3>3. compute_root(s1) = compute_root(t1) /\ compute_root(s2) = compute_root(t2)
      <4>1. hash_node(compute_root(s1), compute_root(s2))
              = hash_node(compute_root(t1), compute_root(t2))
        BY <2>12, <2>1, <2>6, <2>7, <3>2
      <4> QED BY <4>1, SamePair
    <3>4. /\ s1 \in Seq(Leaf) /\ s2 \in Seq(Leaf) /\ k \in 1..(Len(s) - 1)
          /\ Len(s1) = k /\ Len(s2) = Len(s) - k
          /\ \A i \in 1..k : s1[i] = s[i]
          /\ \A i \in 1..(Len(s) - k) : s2[i] = s[k + i]
      BY <2>12, Parts DEF k, s1, s2
    <3>5. /\ t1 \in Seq(Leaf) /\ t2 \in Seq(Leaf) /\ j \in 1..(Len(t) - 1)
          /\ Len(t1) = j /\ Len(t2) = Len(t) - j
          /\ \A i \in 1..j : t1[i] = t[i]
          /\ \A i \in 1..(Len(t) - j) : t2[i] = t[j + i]
      BY <3>2, Parts DEF j, t1, t2
    <3>6. s1 = t1
      <4>1. Len(s1) \in 0..(n - 1)
        BY <3>4, <2>1
      <4>2. Len(s1) \in T
        BY <4>1, <1>1
      <4> QED BY <4>2, <3>3, <3>4, <3>5 DEF T
    <3>7. s2 = t2
      <4>1. Len(s2) \in 0..(n - 1)
        BY <3>4, <2>1
      <4>2. Len(s2) \in T
        BY <4>1, <1>1
      <4> QED BY <4>2, <3>3, <3>4, <3>5 DEF T
    <3>8. Len(s) \in Nat /\ Len(t) \in Nat
      OBVIOUS
    <3>9. k = j /\ Len(s) = Len(t)
      BY <3>4, <3>5, <3>6, <3>7, <3>8
    <3>10. ASSUME NEW i \in 1..Len(s) PROVE s[i] = t[i]
      <4>1. CASE i <= k
        <5>1. i \in 1..k
          BY <4>1, <3>4
        <5> QED BY <5>1, <3>4, <3>5, <3>6, <3>9
      <4>2. CASE ~(i <= k)
        <5>1. i - k \in 1..(Len(s) - k) /\ k + (i - k) = i
          BY <4>2, <3>4, <3>8
        <5>2. s2[i - k] = s[k + (i - k)] /\ t2[i - k] = t[k + (i - k)]
          BY <5>1, <3>4, <3>5, <3>9
        <5> QED BY <5>1, <5>2, <3>7
      <4> QED BY <4>1, <4>2
    <3>11. IsList(s, Len(s)) /\ IsList(t, Len(s))
      BY <3>9, SeqIsList
    <3> QED BY <3>10, <3>11, SameList
  <2> QED BY <2>8, <2>10, <2>11, <2>12
<1> HIDE DEF T
<1>2. \A n \in Nat : n \in T
  BY <1>1, CourseInduction
<1>3. SUFFICES ASSUME NEW s \in Seq(Leaf), NEW t \in Seq(Leaf),
                      compute_root(s) = compute_root(t)
               PROVE  s = t
  OBVIOUS
<1>4. Len(s) \in T
  BY <1>2
<1> QED BY <1>3, <1>4 DEF T

-----------------------------------------------------------------------------
(* The proof of a leaf *)

\* Folding depends on the steps that are folded.
LEMMA RefoldsAgree ==
    ASSUME NEW node, NEW n \in Nat, NEW s, NEW t, \A i \in 1..n : s[i] = t[i]
    PROVE  Refolds(node, s)[n] = Refolds(node, t)[n]
<1> DEFINE T == {m \in Nat : m <= n => Refolds(node, s)[m] = Refolds(node, t)[m]}
<1>1. 0 \in T
  BY RefoldsFrom
<1>2. ASSUME NEW m \in Nat, m \in T PROVE m + 1 \in T
  <2>1. SUFFICES ASSUME m + 1 <= n PROVE Refolds(node, s)[m + 1] = Refolds(node, t)[m + 1]
    OBVIOUS
  <2>2. m + 1 \in 1..n /\ Refolds(node, s)[m] = Refolds(node, t)[m]
    BY <1>2, <2>1
  <2>3. s[m + 1] = t[m + 1]
    BY <2>2
  <2>4. Refolds(node, s)[m + 1] = FoldStep(Refolds(node, s)[m], s[m + 1])
    BY RefoldsFrom
  <2>5. Refolds(node, t)[m + 1] = FoldStep(Refolds(node, t)[m], t[m + 1])
    BY RefoldsFrom
  <2> QED BY <2>2, <2>3, <2>4, <2>5
<1> HIDE DEF T
<1>3. n \in T
  BY <1>1, <1>2, StepInduction
<1> QED BY <1>3 DEF T

\* One step more.
LEMMA RefoldMore ==
    ASSUME NEW node, NEW n \in Nat, NEW s, IsList(s, n), NEW t, IsList(t, n + 1),
           \A i \in 1..n : t[i] = s[i]
    PROVE  Refold(node, t) = FoldStep(Refold(node, s), t[n + 1])
<1>1. Len(s) = n /\ Len(t) = n + 1
  BY ListIsSeq
<1>2. Refolds(node, t)[n + 1] = FoldStep(Refolds(node, t)[n], t[n + 1])
  BY RefoldsFrom
<1>3. Refolds(node, t)[n] = Refolds(node, s)[n]
  BY RefoldsAgree
<1> QED BY <1>1, <1>2, <1>3 DEF Refold

\* No step.
LEMMA RefoldNone ==
    ASSUME NEW node, NEW s, IsList(s, 0)
    PROVE  Refold(node, s) = node
<1>1. Len(s) = 0
  BY ListIsSeq
<1> QED BY <1>1, RefoldsFrom DEF Refold

\* A step hashes a pair with the node on the side the step leaves.
LEMMA FoldStepIs ==
    ASSUME NEW node, NEW step
    PROVE  /\ step.left => FoldStep(node, step) = hash_node(step.sibling, node)
           /\ ~step.left => FoldStep(node, step) = hash_node(node, step.sibling)
BY DEF FoldStep

\* The same step takes different nodes to different nodes.
LEMMA FoldStepOneToOne ==
    ASSUME NEW x, NEW y, NEW s, NEW t, s.left <=> t.left, FoldStep(x, s) = FoldStep(y, t)
    PROVE  x = y
<1>1. CASE s.left
  <2>1. FoldStep(x, s) = hash_node(s.sibling, x) /\ FoldStep(y, t) = hash_node(t.sibling, y)
    BY <1>1, FoldStepIs
  <2>2. hash_node(s.sibling, x) = hash_node(t.sibling, y)
    BY <2>1
  <2> QED BY <2>2, SamePair
<1>2. CASE ~s.left
  <2>1. FoldStep(x, s) = hash_node(x, s.sibling) /\ FoldStep(y, t) = hash_node(y, t.sibling)
    BY <1>2, FoldStepIs
  <2>2. hash_node(x, s.sibling) = hash_node(y, t.sibling)
    BY <2>1
  <2> QED BY <2>2, SamePair
<1> QED BY <1>1, <1>2

\* A proof takes different nodes to different nodes.
LEMMA RefoldOneToOne ==
    ASSUME NEW x, NEW y, NEW n \in Nat, NEW s, Refolds(x, s)[n] = Refolds(y, s)[n]
    PROVE  x = y
<1> DEFINE T == {m \in Nat : Refolds(x, s)[m] = Refolds(y, s)[m] => x = y}
<1>1. 0 \in T
  BY RefoldsFrom
<1>2. ASSUME NEW m \in Nat, m \in T PROVE m + 1 \in T
  <2>1. Refolds(x, s)[m + 1] = FoldStep(Refolds(x, s)[m], s[m + 1])
    BY RefoldsFrom
  <2>2. Refolds(y, s)[m + 1] = FoldStep(Refolds(y, s)[m], s[m + 1])
    BY RefoldsFrom
  <2>3. ASSUME Refolds(x, s)[m + 1] = Refolds(y, s)[m + 1]
        PROVE  Refolds(x, s)[m] = Refolds(y, s)[m]
    <3>1. FoldStep(Refolds(x, s)[m], s[m + 1]) = FoldStep(Refolds(y, s)[m], s[m + 1])
      BY <2>1, <2>2, <2>3
    <3> QED BY <3>1, FoldStepOneToOne
  <2> QED BY <1>2, <2>3
<1> HIDE DEF T
<1>3. n \in T
  BY <1>1, <1>2, StepInduction
<1> QED BY <1>3 DEF T

\* A node without a sibling is the last of its level and goes up unchanged.
Alone(level, i) == i % 2 = 0 /\ i = Len(level) - 1

\* One level up: the node's position, and the node above it.
LEMMA NodeAbove ==
    ASSUME NEW n \in Nat, n >= 2, NEW level, IsList(level, n), NEW i \in 0..(n - 1)
    PROVE  /\ i \div 2 \in 0..((n + 1) \div 2 - 1)
           /\ Alone(level, i) => /\ Sibling(level, i) = <<>>
                                 /\ NextLevel(level)[i \div 2 + 1] = level[i + 1]
           /\ ~Alone(level, i) =>
                 \E st : /\ Sibling(level, i) = <<st>>
                         /\ st = [sibling |-> st.sibling, left |-> i % 2 = 1]
                         /\ NextLevel(level)[i \div 2 + 1] = FoldStep(level[i + 1], st)
<1>1. Len(level) = n
  BY ListIsSeq
<1> DEFINE k == i \div 2 + 1
<1>2. k \in 1..((n + 1) \div 2) /\ i \div 2 \in 0..((n + 1) \div 2 - 1)
  OBVIOUS
<1>3. NextLevel(level)[k] = IF 2 * k <= n THEN hash_node(level[2 * k - 1], level[2 * k])
                            ELSE level[2 * k - 1]
  <2> HIDE DEF k
  <2> QED BY <1>2, LevelAbove
<1>4. CASE i % 2 = 1
  <2>1. 2 * k = i + 1 /\ 2 * k - 1 = i /\ 2 * k <= n
    BY <1>4
  <2> DEFINE st == [sibling |-> level[i], left |-> TRUE]
  <2>2. Sibling(level, i) = <<st>>
    BY <1>4 DEF Sibling
  <2>3. ~Alone(level, i)
    BY <1>4 DEF Alone
  <2>4. NextLevel(level)[k] = hash_node(level[i], level[i + 1])
    BY <1>3, <2>1
  <2>5. FoldStep(level[i + 1], st) = hash_node(level[i], level[i + 1])
    BY DEF FoldStep
  <2>6. st = [sibling |-> st.sibling, left |-> i % 2 = 1]
    <3>1. (i % 2 = 1) = TRUE
      BY <1>4
    <3> QED BY <3>1
  <2> HIDE DEF st
  <2> QED BY <1>2, <2>2, <2>4, <2>5, <2>6, <2>3
<1>5. CASE i % 2 = 0 /\ i # n - 1
  <2>1. 2 * k = i + 2 /\ 2 * k - 1 = i + 1 /\ 2 * k <= n /\ i + 2 <= Len(level)
    BY <1>5, <1>1
  <2> DEFINE st == [sibling |-> level[i + 2], left |-> FALSE]
  <2>2. Sibling(level, i) = <<st>>
    <3>1. ~(i % 2 = 1) /\ i + 2 <= Len(level)
      BY <1>5, <2>1
    <3> QED BY <3>1 DEF Sibling
  <2>3. ~Alone(level, i)
    BY <1>5, <1>1 DEF Alone
  <2>4. NextLevel(level)[k] = hash_node(level[i + 1], level[i + 2])
    BY <1>3, <2>1
  <2>5. FoldStep(level[i + 1], st) = hash_node(level[i + 1], level[i + 2])
    BY DEF FoldStep
  <2>6. st = [sibling |-> st.sibling, left |-> i % 2 = 1]
    <3>1. (i % 2 = 1) = FALSE
      BY <1>5
    <3> QED BY <3>1
  <2> HIDE DEF st
  <2> QED BY <1>2, <2>2, <2>4, <2>5, <2>6, <2>3
<1>6. CASE i % 2 = 0 /\ i = n - 1
  <2>1. 2 * k - 1 = i + 1 /\ ~(2 * k <= n) /\ ~(i + 2 <= Len(level))
    BY <1>6, <1>1
  <2>2. Sibling(level, i) = <<>> /\ Alone(level, i)
    BY <1>6, <1>1, <2>1 DEF Sibling, Alone
  <2>3. NextLevel(level)[k] = level[i + 1]
    BY <1>3, <2>1
  <2> QED BY <1>2, <2>2, <2>3
<1>7. i % 2 = 0 \/ i % 2 = 1
  OBVIOUS
<1> QED BY <1>4, <1>5, <1>6, <1>7

-----------------------------------------------------------------------------
(* The climb *)

ClimbInv ==
    /\ leaves \in Seq(Leaf) /\ Len(leaves) \in 1..MaxLeaves
    /\ index \in 0..(Len(leaves) - 1)
    /\ IsList(nodes, Len(nodes)) /\ Len(nodes) \in Nat \ {0}
    /\ idx \in 0..(Len(nodes) - 1)
    /\ IsList(proof, Len(proof))
    /\ Collapse(nodes) = compute_root(leaves)
    /\ nodes[idx + 1] = Refold(hash_leaf(leaves[index + 1]), proof)

\* The level of the leaves.
LEMMA FirstLevel ==
    ASSUME NEW s \in Seq(Leaf)
    PROVE  /\ IsList(LeafHashes(s), Len(s))
           /\ \A i \in 1..Len(s) : LeafHashes(s)[i] = hash_leaf(s[i])
BY DEF IsList, LeafHashes

\* The climb starts where its invariant holds.
LEMMA ClimbInit == Init => ClimbInv
<1> SUFFICES ASSUME Init PROVE ClimbInv
  OBVIOUS
<1>1. PICK n \in 1..MaxLeaves : leaves \in [1..n -> Leaf]
  BY DEF Init
<1>2. leaves \in Seq(Leaf) /\ Len(leaves) = n /\ n \in Nat \ {0}
  BY <1>1
<1>3. IsList(nodes, n) /\ \A i \in 1..n : nodes[i] = hash_leaf(leaves[i])
  BY <1>2, FirstLevel DEF Init
<1>4. Len(nodes) = n
  BY <1>3, ListIsSeq
<1>5. index \in 0..(n - 1) /\ idx = index /\ index + 1 \in 1..n
  BY <1>2 DEF Init
<1>6. Collapse(nodes) = compute_root(leaves)
  <2>1. leaves # <<>>
    BY <1>2
  <2> QED BY <2>1 DEF Init, compute_root
<1>7. IsList(proof, 0) /\ Len(proof) = 0
  <2>1. proof = <<>>
    BY DEF Init
  <2>2. proof \in Seq({})
    BY <2>1
  <2>3. Len(proof) = 0
    BY <2>1
  <2>4. IsList(proof, Len(proof))
    BY <2>2, SeqIsList
  <2> QED BY <2>3, <2>4
<1>8. nodes[idx + 1] = Refold(hash_leaf(leaves[index + 1]), proof)
  BY <1>3, <1>5, <1>7, RefoldNone
<1> QED BY <1>1, <1>2, <1>3, <1>4, <1>5, <1>6, <1>7, <1>8 DEF ClimbInv

\* Each level passes the invariant on.
LEMMA ClimbStep == ClimbInv /\ [Next]_vars => ClimbInv'
<1> SUFFICES ASSUME ClimbInv, [Next]_vars PROVE ClimbInv'
  OBVIOUS
<1>1. CASE UNCHANGED vars
  BY <1>1 DEF ClimbInv, vars
<1>2. CASE Climb
  <2> DEFINE n == Len(nodes)
             up == (n + 1) \div 2
  <2>1. n \in Nat /\ n >= 2 /\ up \in Nat \ {0} /\ idx \in 0..(n - 1) /\ IsList(nodes, n)
    BY <1>2 DEF ClimbInv, Climb
  <2>2. IsList(nodes', up) /\ Len(nodes)' = up
    <3>1. IsList(NextLevel(nodes), up)
      BY <2>1, LevelAbove
    <3>2. nodes' = NextLevel(nodes)
      BY <1>2 DEF Climb
    <3> QED BY <3>1, <3>2, ListIsSeq
  <2>3. idx' \in 0..(up - 1)
    BY <2>1, <1>2 DEF Climb
  <2>4. Collapse(nodes') = compute_root(leaves)
    <3>1. Collapse(nodes) = Collapse(NextLevel(nodes))
      BY <2>1, CollapseAbove
    <3> QED BY <3>1, <1>2 DEF ClimbInv, Climb
  <2>5. /\ IsList(proof', Len(proof'))
        /\ nodes'[idx' + 1] = Refold(hash_leaf(leaves[index + 1]), proof')
    <3> DEFINE x == hash_leaf(leaves[index + 1])
               m == Len(proof)
    <3>1. IsList(proof, m) /\ m \in Nat /\ nodes[idx + 1] = Refold(x, proof)
      BY DEF ClimbInv, IsList
    <3>2. /\ proof' = proof \o Sibling(nodes, idx)
          /\ nodes' = NextLevel(nodes) /\ idx' = idx \div 2
      BY <1>2 DEF Climb
    <3> HIDE DEF x, m, n
    <3>3. CASE Alone(nodes, idx)
      <4>1. Sibling(nodes, idx) = <<>> /\ NextLevel(nodes)[idx \div 2 + 1] = nodes[idx + 1]
        BY <2>1, <3>3, NodeAbove
      <4>2. PICK S : proof \in Seq(S)
        BY <3>1, ListIsSeq
      <4>3. proof' = proof
        BY <3>2, <4>1, <4>2, ConcatEmptySeq
      <4> QED BY <3>1, <3>2, <4>1, <4>3 DEF m, x
    <3>4. CASE ~Alone(nodes, idx)
      <4>1. PICK st : /\ Sibling(nodes, idx) = <<st>>
                      /\ NextLevel(nodes)[idx \div 2 + 1] = FoldStep(nodes[idx + 1], st)
        BY <2>1, <3>4, NodeAbove
      <4>2. /\ IsList(proof', m + 1)
            /\ \A i \in 1..m : proof'[i] = proof[i]
            /\ proof'[m + 1] = st
        <5>1. Adds(proof', proof, st)
          BY <3>2, <4>1 DEF Adds
        <5>2. IsList(proof', m + 1) /\ proof'[m + 1] = st
          BY <3>1, <5>1, ListAppend
        <5>3. \A i \in 1..m : proof'[i] = proof[i]
          BY <3>1, <5>1, ListKeeps
        <5> QED BY <5>2, <5>3
      <4>3. Len(proof') = m + 1
        BY <4>2, ListIsSeq
      <4>4. Refold(x, proof') = FoldStep(Refold(x, proof), st)
        BY <3>1, <4>2, RefoldMore
      <4> QED BY <3>1, <3>2, <4>1, <4>2, <4>3, <4>4 DEF x
    <3> QED BY <3>3, <3>4
  <2>6. leaves' = leaves /\ index' = index
    BY <1>2 DEF Climb
  <2> QED BY <2>2, <2>3, <2>4, <2>5, <2>6, <2>1 DEF ClimbInv
<1> QED BY <1>1, <1>2 DEF Next

\* The climb keeps its invariant.
THEOREM ClimbKeeps == Spec => []ClimbInv
BY ClimbInit, ClimbStep, PTL DEF Spec

\* At the single node the climb ends with, the root is that node.
LEMMA AtTheTop ==
    ASSUME ClimbInv, Len(nodes) = 1
    PROVE  idx = 0 /\ nodes[1] = compute_root(leaves)
<1>1. idx = 0 /\ IsList(nodes, 1)
  BY DEF ClimbInv
<1> QED BY <1>1, CollapseTop DEF ClimbInv

\* compute_root, and the loop of inclusion_proof at every level it passes
\* through, yield the tree hash of RFC 6962 for lists of any length: pairing
\* level by level with promoted odd nodes is the same tree as splitting at the
\* largest power of two.
THEOREM RootsAreTreeHashes == Spec => []RootIsTreeHash
<1>1. ClimbInv => RootIsTreeHash
  BY RootIsHash DEF ClimbInv, RootIsTreeHash
<1> QED BY <1>1, ClimbKeeps, PTL

\* The proof of a leaf that inclusion_proof returns verifies against the root
\* for that leaf's value, and verify_proof refuses it for any other.
THEOREM ProofsBindLeaves == Spec => []ProofBindsLeaf
<1>1. ClimbInv => ProofBindsLeaf
  <2> SUFFICES ASSUME ClimbInv, Len(nodes) = 1, NEW x \in Leaf
               PROVE  verify_proof(x, proof, compute_root(leaves)) <=> x = leaves[index + 1]
    BY DEF ProofBindsLeaf
  <2> DEFINE y == leaves[index + 1]
  <2>1. Refold(hash_leaf(y), proof) = compute_root(leaves)
    <3>1. idx = 0 /\ nodes[1] = compute_root(leaves)
      BY AtTheTop
    <3> QED BY <3>1 DEF ClimbInv
  <2>2. Len(proof) \in Nat
    BY DEF ClimbInv, IsList
  <2>3. ASSUME Refold(hash_leaf(x), proof) = Refold(hash_leaf(y), proof) PROVE x = y
    <3>1. hash_leaf(x) = hash_leaf(y)
      BY <2>2, <2>3, RefoldOneToOne DEF Refold
    <3> QED BY <3>1, Digests
  <2> QED BY <2>1, <2>3 DEF verify_proof
<1> QED BY <1>1, ClimbKeeps, PTL

\* Two ledgers with the same root have the same rows: no removal, repetition or
\* truncation of rows, of any number, keeps the root.
THEOREM RootsDetermineLeaves == Spec => []RootDeterminesLeaves
<1>1. ClimbInv => RootDeterminesLeaves
  <2> SUFFICES ASSUME ClimbInv, NEW n \in 0..MaxLeaves, NEW t \in [1..n -> Leaf],
                      compute_root(t) = compute_root(leaves)
               PROVE  t = leaves
    BY DEF RootDeterminesLeaves
  <2>1. t \in Seq(Leaf) /\ leaves \in Seq(Leaf)
    BY DEF ClimbInv
  <2> QED BY <2>1, RootsDiffer
<1> QED BY <1>1, ClimbKeeps, PTL

-----------------------------------------------------------------------------
(* The client's walk through the tree *)

\* Halving goes down to 0.
LEMMA HalvesShrink ==
    ASSUME NEW n \in Nat
    PROVE  \A e \in Nat : /\ Halves(n)[e] \in Nat
                          /\ Halves(n)[e] = 0 \/ Halves(n)[e] + e <= n
<1> DEFINE T == {e \in Nat : /\ Halves(n)[e] \in Nat
                             /\ Halves(n)[e] = 0 \/ Halves(n)[e] + e <= n}
<1>1. 0 \in T
  BY HalvesFrom
<1>2. ASSUME NEW e \in Nat, e \in T PROVE e + 1 \in T
  <2> DEFINE h == Halves(n)[e]
  <2>1. Halves(n)[e + 1] = h \div 2
    BY HalvesFrom
  <2>2. h \in Nat /\ (h = 0 \/ h + e <= n)
    BY <1>2
  <2> HIDE DEF h
  <2>3. h \div 2 \in Nat /\ (h \div 2 = 0 \/ h \div 2 + (e + 1) <= n)
    BY <2>2
  <2> QED BY <2>1, <2>3
<1> HIDE DEF T
<1>3. \A e \in Nat : e \in T
  BY <1>1, <1>2, StepInduction
<1> QED BY <1>3 DEF T

\* Halving even numbers only, 0 is reached from 0.
LEMMA HalvesOfZero ==
    ASSUME NEW n \in Nat, NEW d \in Nat, Halves(n)[d] = 0,
           \A c \in 0..(d - 1) : Halves(n)[c] % 2 = 0
    PROVE  n = 0
<1> DEFINE T == {e \in Nat : e <= d /\ Halves(n)[e] = 0 => n = 0}
<1>1. 0 \in T
  BY HalvesFrom
<1>2. ASSUME NEW e \in Nat, e \in T PROVE e + 1 \in T
  <2>1. SUFFICES ASSUME e + 1 <= d, Halves(n)[e + 1] = 0 PROVE n = 0
    OBVIOUS
  <2> DEFINE h == Halves(n)[e]
  <2>2. h \in Nat /\ h % 2 = 0 /\ h \div 2 = 0
    <3>1. e \in 0..(d - 1)
      BY <2>1
    <3>2. Halves(n)[e + 1] = h \div 2
      BY HalvesFrom
    <3>3. h \in Nat
      BY HalvesShrink
    <3> QED BY <2>1, <3>1, <3>2, <3>3
  <2> HIDE DEF h
  <2>3. h = 0
    BY <2>2
  <2>4. e <= d
    BY <2>1
  <2> QED BY <1>2, <2>3, <2>4 DEF h
<1> HIDE DEF T
<1>3. d \in T
  BY <1>1, <1>2, StepInduction
<1> QED BY <1>3 DEF T

\* The while loop stops at the first odd number.
LEMMA PromoteIs ==
    ASSUME NEW n \in Nat, NEW last \in Nat, NEW d \in Nat, Halves(n)[d] % 2 = 1,
           \A c \in 0..(d - 1) : Halves(n)[c] % 2 = 0
    PROVE  Promote(n, last) = <<Halves(n)[d], Halves(last)[d]>>
<1> DEFINE First(e) == /\ Halves(n)[e] % 2 = 1
                       /\ \A c \in 0..(e - 1) : Halves(n)[c] % 2 = 0
<1>1. Halves(n)[d] # 0 /\ d \in 0..n /\ n # 0
  <2>1. Halves(n)[d] \in Nat /\ (Halves(n)[d] = 0 \/ Halves(n)[d] + d <= n)
    BY HalvesShrink
  <2>2. Halves(n)[d] # 0
    <3>1. 0 % 2 # 1
      OBVIOUS
    <3> QED BY <3>1
  <2> QED BY <2>1, <2>2
<1>2. First(d)
  OBVIOUS
<1>3. ASSUME NEW e \in 0..n, First(e) PROVE e = d
  <2>1. ~(e < d)
    <3>1. SUFFICES ASSUME e < d PROVE FALSE
      OBVIOUS
    <3>2. e \in 0..(d - 1)
      BY <3>1
    <3>3. Halves(n)[e] % 2 = 0 /\ Halves(n)[e] % 2 = 1
      BY <1>3, <3>2
    <3> QED BY <3>3
  <2>2. ~(d < e)
    <3>1. SUFFICES ASSUME d < e PROVE FALSE
      OBVIOUS
    <3>2. d \in 0..(e - 1)
      BY <3>1
    <3>3. Halves(n)[d] % 2 = 0 /\ Halves(n)[d] % 2 = 1
      BY <1>3, <3>2
    <3> QED BY <3>3
  <2> QED BY <2>1, <2>2
<1>4. (CHOOSE e \in 0..n : First(e)) = d
  <2> HIDE DEF First
  <2> QED BY <1>1, <1>2, <1>3
<1> QED BY <1>1, <1>4 DEF Promote

\* The client's numbers for the node at i of a level whose last node is at top.
\* While the node goes up alone the client stays behind, with a number that is
\* still even.
Tracks(pos, i, top) ==
    \E n, last, d \in Nat :
        /\ pos = <<n, last>>
        /\ i = Halves(n)[d] /\ top = Halves(last)[d]
        /\ \A c \in 0..(d - 1) : Halves(n)[c] % 2 = 0
        /\ d = 0 \/ n = last

\* At the start.
LEMMA TracksStart ==
    ASSUME NEW i \in Nat, NEW top \in Nat
    PROVE  Tracks(<<i, top>>, i, top)
<1>1. i = Halves(i)[0] /\ top = Halves(top)[0]
  BY HalvesFrom
<1>2. \A c \in 0..(0 - 1) : Halves(i)[c] % 2 = 0
  OBVIOUS
<1> QED BY <1>1, <1>2 DEF Tracks

\* A node that is alone goes up and the client waits.
LEMMA TracksAlone ==
    ASSUME NEW pos, NEW i \in Nat, NEW top \in Nat, Tracks(pos, i, top), i % 2 = 0, i = top
    PROVE  Tracks(pos, i \div 2, top \div 2)
<1>1. PICK n \in Nat, last \in Nat, d \in Nat :
          /\ pos = <<n, last>>
          /\ i = Halves(n)[d] /\ top = Halves(last)[d]
          /\ \A c \in 0..(d - 1) : Halves(n)[c] % 2 = 0
          /\ d = 0 \/ n = last
  BY DEF Tracks
<1>2. n = last
  <2>1. Halves(n)[0] = n /\ Halves(last)[0] = last
    BY HalvesFrom
  <2> QED BY <1>1, <2>1
<1>3. Halves(n)[d + 1] = i \div 2 /\ Halves(last)[d + 1] = top \div 2
  <2>1. Halves(n)[d + 1] = Halves(n)[d] \div 2
    BY HalvesFrom
  <2>2. Halves(last)[d + 1] = Halves(last)[d] \div 2
    BY HalvesFrom
  <2> QED BY <1>1, <2>1, <2>2
<1>4. \A c \in 0..((d + 1) - 1) : Halves(n)[c] % 2 = 0
  <2>1. \A c \in 0..((d + 1) - 1) : c \in 0..(d - 1) \/ c = d
    OBVIOUS
  <2> QED BY <1>1, <2>1
<1>5. d + 1 \in Nat
  OBVIOUS
<1> QED BY <1>1, <1>2, <1>3, <1>4, <1>5 DEF Tracks

\* A node with a sibling: the client has its side right and catches up.
LEMMA TracksSibling ==
    ASSUME NEW pos, NEW top \in Nat, NEW i \in 0..top, Tracks(pos, i, top),
           ~(i % 2 = 0 /\ i = top)
    PROVE  /\ OnLeft(pos) <=> i % 2 = 1
           /\ Tracks(Advance(pos), i \div 2, top \div 2)
<1>1. PICK n \in Nat, last \in Nat, d \in Nat :
          /\ pos = <<n, last>>
          /\ i = Halves(n)[d] /\ top = Halves(last)[d]
          /\ \A c \in 0..(d - 1) : Halves(n)[c] % 2 = 0
          /\ d = 0 \/ n = last
  BY DEF Tracks
<1>2. i % 2 = 0 \/ i % 2 = 1
  OBVIOUS
<1>3. i \div 2 \in Nat /\ top \div 2 \in Nat
  OBVIOUS
<1>4. pos[1] = n /\ pos[2] = last
  BY <1>1
<1>5. CASE i % 2 = 1
  <2>1. OnLeft(pos)
    <3>1. CASE d = 0
      <4>1. i = n
        BY <1>1, <3>1, HalvesFrom
      <4> QED BY <1>4, <1>5, <4>1 DEF OnLeft
    <3>2. CASE n = last
      BY <1>4, <3>2 DEF OnLeft
    <3> QED BY <1>1, <3>1, <3>2
  <2>2. Promote(n, last) = <<i, top>>
    <3>1. Halves(n)[d] % 2 = 1
      BY <1>1, <1>5
    <3> QED BY <1>1, <3>1, PromoteIs
  <2>3. Advance(pos) = <<i \div 2, top \div 2>>
    BY <1>4, <2>1, <2>2 DEF Advance
  <2> QED BY <1>3, <1>5, <2>1, <2>3, TracksStart
<1>6. CASE i % 2 = 0
  <2>1. i # top
    BY <1>6
  <2>2. d = 0
    BY <1>1, <2>1
  <2>3. n = i /\ last = top
    BY <1>1, <2>2, HalvesFrom
  <2>4. ~OnLeft(pos) /\ ~(i % 2 = 1)
    BY <1>4, <1>6, <2>1, <2>3 DEF OnLeft
  <2>5. Advance(pos) = <<i \div 2, top \div 2>>
    BY <1>4, <2>3, <2>4 DEF Advance
  <2> QED BY <1>3, <2>4, <2>5, TracksStart
<1> QED BY <1>2, <1>5, <1>6

\* The client is at the root when the climb is, and not before.
LEMMA TracksTop ==
    ASSUME NEW pos, NEW i, NEW top \in Nat, Tracks(pos, i, top)
    PROVE  /\ top = 0 /\ i = 0 => pos[2] = 0
           /\ top # 0 => pos[2] # 0
<1>1. PICK n \in Nat, last \in Nat, d \in Nat :
          /\ pos = <<n, last>>
          /\ i = Halves(n)[d] /\ top = Halves(last)[d]
          /\ \A c \in 0..(d - 1) : Halves(n)[c] % 2 = 0
          /\ d = 0 \/ n = last
  BY DEF Tracks
<1>2. pos[2] = last
  BY <1>1
<1>3. ASSUME top = 0, i = 0 PROVE last = 0
  <2>1. CASE d = 0
    BY <1>1, <1>3, <2>1, HalvesFrom
  <2>2. CASE n = last
    <3>1. n = 0
      BY <1>1, <1>3, HalvesOfZero
    <3> QED BY <2>2, <3>1
  <2> QED BY <1>1, <2>1, <2>2
<1>4. ASSUME last = 0 PROVE top = 0
  <2>1. Halves(last)[d] \in Nat /\ (Halves(last)[d] = 0 \/ Halves(last)[d] + d <= 0)
    BY <1>4, HalvesShrink
  <2> QED BY <1>1, <2>1
<1> QED BY <1>2, <1>3, <1>4

-----------------------------------------------------------------------------
(* Receipts *)

\* The client's steps: one for every hash, on the side of its position.
SideOf(i, size, hash, j) ==
    [sibling |-> hash, left |-> OnLeft(Positions(i, size - 1)[j - 1])]

\* As a list.
LEMMA SidedIs ==
    ASSUME NEW i, NEW size, NEW hs, NEW p, IsList(hs, p)
    PROVE  IsList(Sided(i, size, hs), p)
<1>1. Len(hs) = p /\ p \in Nat
  BY ListIsSeq DEF IsList
<1> QED BY <1>1 DEF Sided, IsList

\* One by one.
LEMMA SidedOf ==
    ASSUME NEW i, NEW size, NEW hs, NEW p, IsList(hs, p)
    PROVE  \A j \in 1..p : Sided(i, size, hs)[j] = SideOf(i, size, hs[j], j)
<1>1. Len(hs) = p
  BY ListIsSeq
<1> QED BY <1>1 DEF Sided, SideOf

\* The list without its last element.
LEMMA ListFront ==
    ASSUME NEW s, NEW n \in Nat, IsList(s, n + 1)
    PROVE  \E t : IsList(t, n) /\ \A i \in 1..n : t[i] = s[i]
<1> DEFINE t == [i \in 1..n |-> s[i]]
<1>1. IsList(t, n) /\ \A i \in 1..n : t[i] = s[i]
  BY DEF IsList
<1> QED BY <1>1

\* Every list of steps that leads from a leaf hash to a node of this level starts
\* at the hash of a leaf.
FromLeaves(level) ==
    \A n \in Nat : \A k \in 1..Len(level) : \A x, s :
        IsList(s, n) /\ Refold(hash_leaf(x), s) = level[k]
            => \E i \in 1..Len(leaves) : leaves[i] = x

\* The position of the client p rounds after it starts at the leaf at i.
At(i, p) == Positions(i, Len(leaves) - 1)[p]

\* The client meets the climb from the leaf at i at position q of this level,
\* after p rounds, none of which starts at the root.
Meets(level, i, q, p) ==
    /\ q \in 0..(Len(level) - 1)
    /\ Tracks(At(i, p), q, Len(level) - 1)
    /\ \A j \in 0..(p - 1) : At(i, j)[2] # 0

\* From no value but the leaf's do p hashes lead the client to that node.
Binds(level, i, q, p) ==
    \A x, hs : IsList(hs, p) /\ Refold(hash_leaf(x), Sided(i, Len(leaves), hs)) = level[q + 1]
                   => x = leaves[i + 1]

\* The climbs from all leaves.
Covers(level) ==
    \A i \in 0..(Len(leaves) - 1) : \E q, p \in Nat : Meets(level, i, q, p) /\ Binds(level, i, q, p)

\* The proof has the sides the client gives it.
SidesAgree ==
    \A j \in 1..Len(proof) :
        proof[j] = [sibling |-> proof[j].sibling, left |-> OnLeft(At(index, j - 1))]

ReceiptInv ==
    /\ ClimbInv
    /\ FromLeaves(nodes)
    /\ Covers(nodes)
    /\ Meets(nodes, index, idx, Len(proof))
    /\ SidesAgree

\* One level up, folds still come from leaves.
LEMMA FromLeavesAbove ==
    ASSUME NEW level, NEW n \in Nat, n >= 2, IsList(level, n), FromLeaves(level)
    PROVE  FromLeaves(NextLevel(level))
<1> DEFINE up == (n + 1) \div 2
<1>1. Len(level) = n /\ IsList(NextLevel(level), up) /\ Len(NextLevel(level)) = up
  BY ListIsSeq, LevelAbove
<1>2. SUFFICES ASSUME NEW m \in Nat, NEW k \in 1..up, NEW x, NEW s, IsList(s, m),
                      Refold(hash_leaf(x), s) = NextLevel(level)[k]
               PROVE  \E i \in 1..Len(leaves) : leaves[i] = x
  BY <1>1 DEF FromLeaves
<1>3. NextLevel(level)[k] = IF 2 * k <= n THEN hash_node(level[2 * k - 1], level[2 * k])
                            ELSE level[2 * k - 1]
  BY LevelAbove
<1>4. 2 * k - 1 \in 1..n /\ (2 * k <= n => 2 * k \in 1..n)
  OBVIOUS
<1>5. CASE ~(2 * k <= n)
  <2>1. Refold(hash_leaf(x), s) = level[2 * k - 1]
    BY <1>2, <1>3, <1>5
  <2> QED BY <1>1, <1>2, <1>4, <2>1 DEF FromLeaves
<1>6. CASE 2 * k <= n
  <2> DEFINE l == level[2 * k - 1]
             r == level[2 * k]
  <2>1. Refold(hash_leaf(x), s) = hash_node(l, r)
    BY <1>2, <1>3, <1>6
  <2>2. m # 0
    <3>1. SUFFICES ASSUME m = 0 PROVE FALSE
      OBVIOUS
    <3>2. Refold(hash_leaf(x), s) = hash_leaf(x)
      BY <1>2, <3>1, RefoldNone
    <3>3. hash_leaf(x) # hash_node(l, r)
      BY Digests
    <3> QED BY <2>1, <3>2, <3>3
  <2>3. m - 1 \in Nat /\ (m - 1) + 1 = m
    BY <2>2
  <2>4. IsList(s, (m - 1) + 1)
    BY <1>2, <2>3
  <2>5. PICK t : IsList(t, m - 1) /\ \A i \in 1..(m - 1) : t[i] = s[i]
    BY <2>3, <2>4, ListFront
  <2> DEFINE st == s[(m - 1) + 1]
  <2>6. Refold(hash_leaf(x), s) = FoldStep(Refold(hash_leaf(x), t), st)
    BY <2>3, <2>4, <2>5, RefoldMore
  <2> HIDE DEF st
  <2> DEFINE c == Refold(hash_leaf(x), t)
  <2>7. c = l \/ c = r
    <3>1. CASE st.left
      <4>1. hash_node(st.sibling, c) = hash_node(l, r)
        BY <2>1, <2>6, <3>1, FoldStepIs
      <4> QED BY <4>1, SamePair
    <3>2. CASE ~st.left
      <4>1. hash_node(c, st.sibling) = hash_node(l, r)
        BY <2>1, <2>6, <3>2, FoldStepIs
      <4> QED BY <4>1, SamePair
    <3> QED BY <3>1, <3>2
  <2>8. CASE c = l
    BY <1>1, <1>4, <2>3, <2>5, <2>8 DEF FromLeaves
  <2>9. CASE c = r
    BY <1>1, <1>4, <1>6, <2>3, <2>5, <2>9 DEF FromLeaves
  <2> QED BY <2>7, <2>8, <2>9
<1> QED BY <1>5, <1>6

\* One level up, the client still meets the climb: a node that is alone takes no
\* round, any other takes one.
LEMMA MeetsAbove ==
    ASSUME NEW level, NEW n \in Nat, n >= 2, IsList(level, n),
           NEW i, NEW q \in Nat, NEW p \in Nat, Meets(level, i, q, p)
    PROVE  /\ Alone(level, q) => Meets(NextLevel(level), i, q \div 2, p)
           /\ ~Alone(level, q) => /\ OnLeft(At(i, p)) <=> q % 2 = 1
                                  /\ Meets(NextLevel(level), i, q \div 2, p + 1)
<1> DEFINE up == (n + 1) \div 2
           top == n - 1
<1>1. Len(level) = n /\ IsList(NextLevel(level), up) /\ Len(NextLevel(level)) = up
  BY ListIsSeq, LevelAbove
<1>2. q \in 0..top /\ Tracks(At(i, p), q, top)
  BY <1>1 DEF Meets
<1>3. top \in Nat /\ up - 1 = top \div 2 /\ q \div 2 \in 0..(up - 1) /\ top # 0
  BY <1>2
<1>4. \A j \in 0..(p - 1) : At(i, j)[2] # 0
  BY DEF Meets
<1>5. CASE Alone(level, q)
  <2>1. q % 2 = 0 /\ q = top
    BY <1>1, <1>5 DEF Alone
  <2>2. Tracks(At(i, p), q \div 2, top \div 2)
    <3> HIDE DEF top
    <3> QED BY <1>2, <1>3, <2>1, TracksAlone
  <2>3. Meets(NextLevel(level), i, q \div 2, p)
    BY <1>1, <1>3, <1>4, <2>2 DEF Meets
  <2> QED BY <1>5, <2>3
<1>6. CASE ~Alone(level, q)
  <2>1. ~(q % 2 = 0 /\ q = top)
    BY <1>1, <1>6 DEF Alone
  <2>2. /\ OnLeft(At(i, p)) <=> q % 2 = 1
        /\ Tracks(Advance(At(i, p)), q \div 2, top \div 2)
    <3> HIDE DEF top
    <3> QED BY <1>2, <1>3, <2>1, TracksSibling
  <2>3. At(i, p + 1) = Advance(At(i, p))
    BY PositionsFrom DEF At
  <2>4. At(i, p)[2] # 0
    <3> HIDE DEF top
    <3> QED BY <1>2, <1>3, TracksTop
  <2>5. \A j \in 0..((p + 1) - 1) : At(i, j)[2] # 0
    <3>1. \A j \in 0..((p + 1) - 1) : j \in 0..(p - 1) \/ j = p
      OBVIOUS
    <3> QED BY <1>4, <2>4, <3>1
  <2>6. Meets(NextLevel(level), i, q \div 2, p + 1)
    BY <1>1, <1>3, <2>2, <2>3, <2>5 DEF Meets
  <2> QED BY <1>6, <2>2, <2>6
<1> QED BY <1>5, <1>6

\* One level up, the hashes still bind the leaf.
LEMMA BindsAbove ==
    ASSUME NEW level, NEW n \in Nat, n >= 2, IsList(level, n),
           NEW i, NEW q \in Nat, NEW p \in Nat, Meets(level, i, q, p), Binds(level, i, q, p)
    PROVE  /\ Alone(level, q) => Binds(NextLevel(level), i, q \div 2, p)
           /\ ~Alone(level, q) => Binds(NextLevel(level), i, q \div 2, p + 1)
<1>1. Len(level) = n /\ q \in 0..(n - 1)
  BY ListIsSeq DEF Meets
<1>2. CASE Alone(level, q)
  <2>1. NextLevel(level)[q \div 2 + 1] = level[q + 1]
    BY <1>1, <1>2, NodeAbove
  <2> QED BY <1>2, <2>1 DEF Binds
<1>3. CASE ~Alone(level, q)
  <2>1. PICK st : /\ st = [sibling |-> st.sibling, left |-> q % 2 = 1]
                  /\ NextLevel(level)[q \div 2 + 1] = FoldStep(level[q + 1], st)
    <3>1. \E st : /\ Sibling(level, q) = <<st>>
                  /\ st = [sibling |-> st.sibling, left |-> q % 2 = 1]
                  /\ NextLevel(level)[q \div 2 + 1] = FoldStep(level[q + 1], st)
      BY <1>1, <1>3, NodeAbove, SMTT(30)
    <3> QED BY <3>1, Zenon
  <2>2. SUFFICES ASSUME NEW x, NEW hs, IsList(hs, p + 1),
                        Refold(hash_leaf(x), Sided(i, Len(leaves), hs))
                            = FoldStep(level[q + 1], st)
                 PROVE  x = leaves[i + 1]
    <3>1. Binds(NextLevel(level), i, q \div 2, p + 1)
      BY <2>1, <2>2 DEF Binds
    <3> QED BY <1>3, <3>1
  <2>3. PICK h : IsList(h, p) /\ \A j \in 1..p : h[j] = hs[j]
    BY <2>2, ListFront
  <2> DEFINE s == Sided(i, Len(leaves), h)
             t == Sided(i, Len(leaves), hs)
  <2>4. IsList(s, p) /\ IsList(t, p + 1) /\ p + 1 \in 1..(p + 1)
    BY <2>2, <2>3, SidedIs
  <2>5. \A j \in 1..p : s[j] = SideOf(i, Len(leaves), h[j], j)
    BY <2>3, SidedOf
  <2>6. \A j \in 1..(p + 1) : t[j] = SideOf(i, Len(leaves), hs[j], j)
    BY <2>2, SidedOf
  <2>7. \A j \in 1..p : t[j] = s[j]
    <3> HIDE DEF s, t
    <3>1. \A j \in 1..p : j \in 1..(p + 1) /\ h[j] = hs[j]
      BY <2>3
    <3> QED BY <2>5, <2>6, <3>1
  <2>8. t[p + 1].left <=> st.left
    <3>1. t[p + 1] = SideOf(i, Len(leaves), hs[p + 1], p + 1)
      BY <2>4, <2>6
    <3>2. (p + 1) - 1 = p
      OBVIOUS
    <3>3. t[p + 1].left = OnLeft(At(i, p))
      BY <3>1, <3>2 DEF At, SideOf
    <3>4. st.left = (q % 2 = 1)
      BY <2>1
    <3>5. OnLeft(At(i, p)) <=> q % 2 = 1
      BY <1>3, MeetsAbove
    <3> QED BY <3>3, <3>4, <3>5
  <2> HIDE DEF s, t
  <2>9. Refold(hash_leaf(x), t) = FoldStep(Refold(hash_leaf(x), s), t[p + 1])
    BY <2>4, <2>7, RefoldMore
  <2>10. Refold(hash_leaf(x), s) = level[q + 1]
    <3>1. FoldStep(Refold(hash_leaf(x), s), t[p + 1]) = FoldStep(level[q + 1], st)
      BY <2>2, <2>9 DEF t
    <3> QED BY <2>8, <3>1, FoldStepOneToOne
  <2> QED BY <2>3, <2>10 DEF Binds, s
<1> QED BY <1>2, <1>3

\* One level up, the client meets every climb again.
LEMMA CoversAbove ==
    ASSUME NEW level, NEW n \in Nat, n >= 2, IsList(level, n), Covers(level)
    PROVE  Covers(NextLevel(level))
<1>1. SUFFICES ASSUME NEW i \in 0..(Len(leaves) - 1)
               PROVE  \E q, p \in Nat : /\ Meets(NextLevel(level), i, q, p)
                                        /\ Binds(NextLevel(level), i, q, p)
  BY DEF Covers
<1>2. PICK q \in Nat, p \in Nat : Meets(level, i, q, p) /\ Binds(level, i, q, p)
  BY DEF Covers
<1>3. q \div 2 \in Nat /\ p + 1 \in Nat
  OBVIOUS
<1>4. CASE Alone(level, q)
  <2>1. Meets(NextLevel(level), i, q \div 2, p) /\ Binds(NextLevel(level), i, q \div 2, p)
    BY <1>2, <1>4, MeetsAbove, BindsAbove
  <2> QED BY <1>3, <2>1
<1>5. CASE ~Alone(level, q)
  <2>1. Meets(NextLevel(level), i, q \div 2, p + 1)
    BY <1>2, <1>5, MeetsAbove
  <2>2. Binds(NextLevel(level), i, q \div 2, p + 1)
    BY <1>2, <1>5, BindsAbove
  <2> QED BY <1>3, <2>1, <2>2
<1> QED BY <1>4, <1>5

\* At the leaves.
LEMMA ReceiptInit == Init => ReceiptInv
<1> SUFFICES ASSUME Init PROVE ReceiptInv
  OBVIOUS
<1> DEFINE n == Len(leaves)
<1>1. /\ ClimbInv /\ leaves \in Seq(Leaf) /\ n \in Nat \ {0}
      /\ index \in 0..(n - 1) /\ idx = index /\ proof = <<>>
  BY ClimbInit DEF Init, ClimbInv
<1>2. IsList(nodes, n) /\ (\A i \in 1..n : nodes[i] = hash_leaf(leaves[i])) /\ Len(nodes) = n
  <2>1. IsList(nodes, n) /\ \A i \in 1..n : nodes[i] = hash_leaf(leaves[i])
    BY <1>1, FirstLevel DEF Init
  <2> QED BY <2>1, ListIsSeq
<1> HIDE DEF n
<1>3. FromLeaves(nodes)
  <2>1. SUFFICES ASSUME NEW m \in Nat, NEW k \in 1..n, NEW x, NEW s, IsList(s, m),
                        Refold(hash_leaf(x), s) = nodes[k]
                 PROVE  \E i \in 1..n : leaves[i] = x
    BY <1>2 DEF FromLeaves, n
  <2>2. Refold(hash_leaf(x), s) = hash_leaf(leaves[k])
    BY <1>2, <2>1
  <2>3. CASE m = 0
    <3>1. hash_leaf(x) = hash_leaf(leaves[k])
      BY <2>1, <2>2, <2>3, RefoldNone
    <3>2. x = leaves[k]
      BY <3>1, Digests
    <3> QED BY <3>2
  <2>4. CASE m # 0
    <3>1. m - 1 \in Nat /\ IsList(s, (m - 1) + 1)
      BY <2>1, <2>4
    <3>2. PICK t : IsList(t, m - 1) /\ \A i \in 1..(m - 1) : t[i] = s[i]
      BY <3>1, ListFront
    <3> DEFINE st == s[(m - 1) + 1]
               c == Refold(hash_leaf(x), t)
    <3>3. Refold(hash_leaf(x), s) = FoldStep(c, st)
      BY <3>1, <3>2, RefoldMore
    <3> HIDE DEF st, c
    <3>4. hash_leaf(leaves[k]) # hash_node(st.sibling, c)
      BY Digests
    <3>5. hash_leaf(leaves[k]) # hash_node(c, st.sibling)
      BY Digests
    <3> QED BY <2>2, <3>3, <3>4, <3>5, FoldStepIs
  <2> QED BY <2>3, <2>4
<1>4. ASSUME NEW i \in 0..(n - 1) PROVE Meets(nodes, i, i, 0)
  <2>1. At(i, 0) = <<i, n - 1>>
    BY PositionsFrom DEF At, n
  <2>2. Tracks(<<i, n - 1>>, i, n - 1)
    BY <1>1, TracksStart
  <2> QED BY <1>2, <2>1, <2>2 DEF Meets
<1>5. ASSUME NEW i \in 0..(n - 1) PROVE Binds(nodes, i, i, 0)
  <2>1. SUFFICES ASSUME NEW x, NEW hs, IsList(hs, 0),
                        Refold(hash_leaf(x), Sided(i, n, hs)) = nodes[i + 1]
                 PROVE  x = leaves[i + 1]
    BY DEF Binds, n
  <2>2. Refold(hash_leaf(x), Sided(i, n, hs)) = hash_leaf(x)
    BY <2>1, SidedIs, RefoldNone
  <2>3. nodes[i + 1] = hash_leaf(leaves[i + 1])
    BY <1>1, <1>2
  <2>4. hash_leaf(x) = hash_leaf(leaves[i + 1])
    BY <2>1, <2>2, <2>3
  <2> QED BY <2>4, Digests
<1>6. Covers(nodes)
  <2>1. \A i \in 0..(n - 1) : i \in Nat
    BY <1>1
  <2> QED BY <1>4, <1>5, <2>1 DEF Covers, n
<1>7. Len(proof) = 0
  BY <1>1
<1>8. Meets(nodes, index, idx, Len(proof))
  BY <1>1, <1>4, <1>7
<1>9. SidesAgree
  BY <1>7 DEF SidesAgree
<1> QED BY <1>1, <1>3, <1>6, <1>8, <1>9 DEF ReceiptInv

\* What a climb does to the proof.
LEMMA ProofAbove ==
    ASSUME ClimbInv, Climb
    PROVE  /\ Alone(nodes, idx) => proof' = proof
           /\ ~Alone(nodes, idx) => \E st : /\ Adds(proof', proof, st)
                                            /\ st = [sibling |-> st.sibling, left |-> idx % 2 = 1]
<1>1. /\ Len(nodes) \in Nat /\ Len(nodes) >= 2 /\ idx \in 0..(Len(nodes) - 1)
      /\ IsList(nodes, Len(nodes)) /\ IsList(proof, Len(proof))
      /\ proof' = proof \o Sibling(nodes, idx)
  BY DEF ClimbInv, Climb
<1>2. ASSUME Alone(nodes, idx) PROVE proof' = proof
  <2>1. PICK S : proof \in Seq(S)
    BY <1>1, ListIsSeq
  <2>2. Sibling(nodes, idx) = <<>>
    BY <1>1, <1>2, NodeAbove
  <2> QED BY <1>1, <2>1, <2>2, ConcatEmptySeq
<1>3. ASSUME ~Alone(nodes, idx)
      PROVE  \E st : /\ Adds(proof', proof, st)
                     /\ st = [sibling |-> st.sibling, left |-> idx % 2 = 1]
  <2>1. PICK st : /\ Sibling(nodes, idx) = <<st>>
                  /\ st = [sibling |-> st.sibling, left |-> idx % 2 = 1]
    BY <1>1, <1>3, NodeAbove
  <2>2. Adds(proof', proof, st)
    BY <1>1, <2>1 DEF Adds
  <2> QED BY <2>1, <2>2
<1> QED BY <1>2, <1>3

\* Each level passes it on.
LEMMA ReceiptStep == ReceiptInv /\ [Next]_vars => ReceiptInv'
<1> SUFFICES ASSUME ReceiptInv, [Next]_vars PROVE ReceiptInv'
  OBVIOUS
<1>1. CASE UNCHANGED vars
  <2>1. leaves' = leaves /\ index' = index /\ nodes' = nodes /\ idx' = idx /\ proof' = proof
    BY <1>1 DEF vars
  <2>2. ClimbInv'
    BY <2>1 DEF ReceiptInv, ClimbInv
  <2>3. FromLeaves(nodes)'
    BY <2>1 DEF ReceiptInv, FromLeaves
  <2>4. \A i, q, p : Meets(nodes, i, q, p)' = Meets(nodes, i, q, p)
    BY <2>1 DEF Meets, At
  <2>5. \A i, q, p : Binds(nodes, i, q, p)' = Binds(nodes, i, q, p)
    BY <2>1 DEF Binds
  <2>6. Covers(nodes)'
    BY <2>1, <2>4, <2>5 DEF ReceiptInv, Covers
  <2>7. Meets(nodes, index, idx, Len(proof))'
    BY <2>1, <2>4 DEF ReceiptInv
  <2>8. SidesAgree'
    BY <2>1 DEF ReceiptInv, SidesAgree, At
  <2> QED BY <2>2, <2>3, <2>6, <2>7, <2>8 DEF ReceiptInv
<1>2. CASE Climb
  <2> DEFINE n == Len(nodes)
             m == Len(proof)
  <2>1. /\ n \in Nat /\ n >= 2 /\ IsList(nodes, n) /\ IsList(proof, m) /\ m \in Nat
        /\ idx \in Nat /\ ClimbInv
    BY <1>2 DEF ReceiptInv, ClimbInv, Climb, IsList
  <2>2. nodes' = NextLevel(nodes) /\ idx' = idx \div 2 /\ leaves' = leaves /\ index' = index
    BY <1>2 DEF Climb
  <2>3. ClimbInv'
    BY <2>1, ClimbStep
  <2>4. FromLeaves(nodes)'
    <3>1. FromLeaves(NextLevel(nodes))
      BY <2>1, FromLeavesAbove DEF ReceiptInv
    <3> QED BY <2>2, <3>1 DEF FromLeaves
  <2>5. Covers(nodes)'
    <3>1. Covers(NextLevel(nodes))
      BY <2>1, CoversAbove DEF ReceiptInv
    <3>2. \A i, p : At(i, p)' = At(i, p)
      BY <2>2 DEF At
    <3>3. \A i, q, p : Meets(NextLevel(nodes), i, q, p) => Meets(nodes, i, q, p)'
      BY <2>2, <3>2 DEF Meets
    <3>4. \A i, q, p : Binds(NextLevel(nodes), i, q, p) => Binds(nodes, i, q, p)'
      BY <2>2 DEF Binds
    <3> QED BY <2>2, <3>1, <3>3, <3>4 DEF Covers
  <2>6. Meets(nodes, index, idx, m) /\ SidesAgree
    BY DEF ReceiptInv
  <2>7. CASE Alone(nodes, idx)
    <3>1. proof' = proof
      BY <1>2, <2>1, <2>7, ProofAbove
    <3>2. Meets(NextLevel(nodes), index, idx \div 2, m)
      BY <2>1, <2>6, <2>7, MeetsAbove
    <3>3. Meets(nodes, index, idx, m)'
      BY <2>2, <3>1, <3>2 DEF Meets, At
    <3>4. SidesAgree'
      BY <2>2, <2>6, <3>1 DEF SidesAgree, At
    <3> QED BY <2>3, <2>4, <2>5, <3>3, <3>4 DEF ReceiptInv
  <2>8. CASE ~Alone(nodes, idx)
    <3> HIDE DEF n, m
    <3>1. PICK st : /\ Adds(proof', proof, st)
                    /\ st = [sibling |-> st.sibling, left |-> idx % 2 = 1]
      BY <1>2, <2>1, <2>8, ProofAbove
    <3>2. IsList(proof', m + 1) /\ proof'[m + 1] = st
      BY <2>1, <3>1, ListAppend
    <3>3. \A i \in 1..m : proof'[i] = proof[i]
      BY <2>1, <3>1, ListKeeps
    <3>4. Len(proof') = m + 1
      BY <3>2, ListIsSeq
    <3>5. /\ OnLeft(At(index, m)) <=> idx % 2 = 1
          /\ Meets(NextLevel(nodes), index, idx \div 2, m + 1)
      BY <2>1, <2>6, <2>8, MeetsAbove
    <3>6. Meets(nodes, index, idx, Len(proof))'
      BY <2>2, <3>4, <3>5 DEF Meets, At
    <3>7. SidesAgree'
      <4>1. st = [sibling |-> st.sibling, left |-> OnLeft(At(index, m))]
        <5>1. OnLeft(At(index, m)) = (idx % 2 = 1)
          BY <3>5 DEF OnLeft
        <5> QED BY <3>1, <5>1
      <4>2. ASSUME NEW j \in 1..(m + 1)
            PROVE  proof'[j] = [sibling |-> proof'[j].sibling, left |-> OnLeft(At(index, j - 1))]
        <5>1. CASE j = m + 1
          <6>1. j - 1 = m /\ proof'[j] = st
            BY <2>1, <3>2, <5>1
          <6> QED BY <4>1, <6>1
        <5>2. CASE j # m + 1
          <6>1. j \in 1..m
            BY <2>1, <5>2
          <6>2. proof'[j] = proof[j]
            BY <3>3, <6>1
          <6>3. proof[j] = [sibling |-> proof[j].sibling, left |-> OnLeft(At(index, j - 1))]
            BY <2>6, <6>1 DEF SidesAgree, m
          <6> QED BY <6>2, <6>3
        <5> QED BY <5>1, <5>2
      <4> QED BY <2>2, <3>4, <4>2 DEF SidesAgree, At
    <3> QED BY <2>3, <2>4, <2>5, <3>6, <3>7 DEF ReceiptInv
  <2> QED BY <2>7, <2>8
<1> QED BY <1>1, <1>2 DEF Next

\* The climb keeps it.
THEOREM ReceiptKeeps == Spec => []ReceiptInv
BY ReceiptInit, ReceiptStep, PTL DEF Spec

\* The root is a digest, and so neither of the notes that stand for none.
LEMMA RootIsDigest ==
    ASSUME ClimbInv, Len(nodes) = 1
    PROVE  nodes[1] # NoNote /\ nodes[1] # BadNote
<1>1. nodes[1] = compute_root(leaves) /\ leaves \in Seq(Leaf)
  BY AtTheTop DEF ClimbInv
<1>2. \E d : nodes[1] = b3_raw(d)
  <2>1. CASE leaves = <<>>
    BY <1>1, <2>1 DEF compute_root
  <2>2. CASE Len(leaves) = 1
    BY <1>1, <2>2, RootOfOne DEF hash_leaf
  <2>3. CASE Len(leaves) >= 2
    BY <1>1, <2>3, RootOfMany DEF hash_node
  <2> QED BY <1>1, <2>1, <2>2, <2>3, EmptyOrNot
<1>3. Len(nodes[1]) = 2
  BY <1>2 DEF b3_raw
<1>4. Len(NoNote) = 1 /\ Len(BadNote) = 1
  BY DEF NoNote, BadNote
<1> QED BY <1>3, <1>4

\* The two notes differ.
LEMMA NotesDiffer == BadNote # NoNote
<1>1. BadNote[1] = "bad note" /\ NoNote[1] = "no note"
  BY DEF NoNote, BadNote
<1> QED BY <1>1

\* verify_inclusion accepts the path of the climb.
LEMMA TruePath ==
    ASSUME ReceiptInv, Len(nodes) = 1
    PROVE  verify_inclusion(index, Len(leaves), hash_leaf(leaves[index + 1]), Hashes, nodes[1])
<1> DEFINE p == Len(proof)
           at == Positions(index, Len(leaves) - 1)
<1>1. /\ ClimbInv /\ IsList(proof, p) /\ p \in Nat
      /\ index \in 0..(Len(leaves) - 1) /\ Len(leaves) \in Nat
  BY DEF ReceiptInv, ClimbInv, IsList
<1>2. idx = 0 /\ nodes[1] = Refold(hash_leaf(leaves[index + 1]), proof)
  BY <1>1, AtTheTop DEF ClimbInv
<1>3. IsList(Hashes, p) /\ \A j \in 1..p : Hashes[j] = proof[j].sibling
  BY <1>1 DEF Hashes, IsList
<1>4. Len(Hashes) = p
  BY <1>3, ListIsSeq
<1>5. Tracks(at[p], 0, 0) /\ \A j \in 0..(p - 1) : at[j][2] # 0
  BY <1>2 DEF ReceiptInv, Meets, At
<1>6. at[p][2] = 0
  <2> HIDE DEF at, p
  <2> QED BY <1>5, TracksTop
<1>7. Sided(index, Len(leaves), Hashes) = proof
  <2> DEFINE s == Sided(index, Len(leaves), Hashes)
  <2>1. IsList(s, p)
    BY <1>3, SidedIs
  <2>2. \A j \in 1..p : s[j] = SideOf(index, Len(leaves), Hashes[j], j)
    BY <1>3, SidedOf
  <2> HIDE DEF s
  <2>3. \A j \in 1..p : s[j] = proof[j]
    BY <1>3, <2>2 DEF ReceiptInv, SidesAgree, SideOf, At
  <2>4. s = proof
    BY <1>1, <2>1, <2>3, SameList
  <2> QED BY <2>4 DEF s
<1> QED BY <1>1, <1>2, <1>4, <1>5, <1>6, <1>7 DEF verify_inclusion

\* The client accepts the receipt the log gives for the entry at any index of a
\* tree of any size: the sides it works out from the index and the size are the
\* sides of the path, past every level at which the last node is promoted.  It
\* refuses the same receipt with a note it cannot read.
THEOREM TrueReceiptsVerify == Spec => []TrueReceiptVerifies
<1>1. ReceiptInv => TrueReceiptVerifies
  <2> SUFFICES ASSUME ReceiptInv, Len(nodes) = 1
               PROVE  /\ verify_receipt(TrueReceipt)
                      /\ verify_receipt([TrueReceipt EXCEPT !.note = NoNote])
                      /\ ~verify_receipt([TrueReceipt EXCEPT !.note = BadNote])
    BY DEF TrueReceiptVerifies
  <2> DEFINE x == leaves[index + 1]
             R(note) == [ statement |-> x, body |-> x, index |-> index, size |-> Len(leaves),
                          hashes |-> Hashes, root |-> nodes[1], note |-> note ]
  <2>1. x \in Leaf /\ x # NoBody
    <3>1. index + 1 \in 1..Len(leaves) /\ leaves \in Seq(Leaf)
      BY DEF ReceiptInv, ClimbInv
    <3>2. x \in Leaf
      BY <3>1
    <3> QED BY <3>2, LogInclusionAssumption
  <2>2. verify_inclusion(index, Len(leaves), hash_leaf(x), Hashes, nodes[1])
    BY TruePath
  <2>3. /\ TrueReceipt = R(nodes[1])
        /\ [TrueReceipt EXCEPT !.note = NoNote] = R(NoNote)
        /\ [TrueReceipt EXCEPT !.note = BadNote] = R(BadNote)
    BY DEF TrueReceipt
  <2>4. ASSUME NEW note PROVE verify_receipt(R(note)) <=> CommitsTo(note, nodes[1])
    BY <2>1, <2>2 DEF verify_receipt
  <2>5. /\ CommitsTo(nodes[1], nodes[1]) /\ CommitsTo(NoNote, nodes[1])
        /\ ~CommitsTo(BadNote, nodes[1])
    BY RootIsDigest, NotesDiffer DEF CommitsTo, ReceiptInv
  <2> HIDE DEF R
  <2> QED BY <2>3, <2>4, <2>5
<1> QED BY <1>1, ReceiptKeeps, PTL

\* t is s with one item more, or s with one item replaced.
Appended(t, s, h) == t = Append(s, h)
Replaced(t, s, k, h) == t = [s EXCEPT ![k] = h]

\* The hashes of a receipt: those of the log's path, or what is left of it.
LEMMA PathCases ==
    ASSUME NEW t, t \in {Hashes} \cup OtherPaths
    PROVE  \/ t = Hashes
           \/ t = <<>>
           \/ t = SubSeq(Hashes, 2, Len(Hashes))
           \/ t = SubSeq(Hashes, 1, Len(Hashes) - 1)
           \/ \E h : Appended(t, Hashes, h)
           \/ \E k, h : Replaced(t, Hashes, k, h)
<1> DEFINE longer == {Append(Hashes, h) : h \in {hash_leaf(x) : x \in Leaf}}
           replaced == {[Hashes EXCEPT ![k] = hash_leaf(x)] : k \in DOMAIN Hashes, x \in Leaf}
           front == SubSeq(Hashes, 1, Len(Hashes) - 1)
           tail == SubSeq(Hashes, 2, Len(Hashes))
<1>1. CASE t \in longer
  <2>1. PICK h \in {hash_leaf(x) : x \in Leaf} : t = Append(Hashes, h)
    BY <1>1
  <2>2. Appended(t, Hashes, h)
    BY <2>1 DEF Appended
  <2> QED BY <2>2
<1>2. CASE t \in replaced
  <2>1. PICK k \in DOMAIN Hashes, x \in Leaf : t = [Hashes EXCEPT ![k] = hash_leaf(x)]
    BY <1>2
  <2>2. Replaced(t, Hashes, k, hash_leaf(x))
    BY <2>1 DEF Replaced
  <2> QED BY <2>2
<1>3. OtherPaths = {<<>>} \cup {tail} \cup {front} \cup longer \cup replaced
  BY DEF OtherPaths
<1> HIDE DEF longer, replaced
<1>4. t \in longer \/ t \in replaced \/ t = Hashes \/ t = <<>> \/ t = tail \/ t = front
  <2> HIDE DEF front, tail
  <2> QED BY <1>3, Zenon
<1> QED BY <1>1, <1>2, <1>4, Zenon

\* The hashes of a receipt are a list.
LEMMA ReceiptHashes ==
    ASSUME ReceiptInv, NEW r \in Receipts
    PROVE  \E p \in Nat : IsList(r.hashes, p)
<1> DEFINE p == Len(proof)
<1>1. p \in Nat /\ IsList(Hashes, p)
  BY DEF ReceiptInv, ClimbInv, IsList, Hashes
<1>2. PICK S : Hashes \in Seq(S)
  BY <1>1, ListIsSeq
<1>3. Len(Hashes) = p
  BY <1>1, ListIsSeq
<1>4. r.hashes \in {Hashes} \cup OtherPaths
  BY DEF Receipts
<1> HIDE DEF p
<1>5. ASSUME NEW S2, NEW s \in Seq(S2) PROVE \E n \in Nat : IsList(s, n)
  <2>1. Len(s) \in Nat
    OBVIOUS
  <2> QED BY <2>1, SeqIsList
<1>6. CASE r.hashes = <<>>
  <2>1. <<>> \in Seq(S)
    OBVIOUS
  <2> QED BY <1>5, <1>6, <2>1
<1>7. CASE r.hashes = SubSeq(Hashes, 2, Len(Hashes))
  <2>1. SubSeq(Hashes, 2, Len(Hashes)) \in Seq(S)
    BY <1>1, <1>2, <1>3
  <2> QED BY <1>5, <1>7, <2>1
<1>8. CASE r.hashes = SubSeq(Hashes, 1, Len(Hashes) - 1)
  <2>1. SubSeq(Hashes, 1, Len(Hashes) - 1) \in Seq(S)
    BY <1>1, <1>2, <1>3
  <2> QED BY <1>5, <1>8, <2>1
<1>9. ASSUME NEW h, Appended(r.hashes, Hashes, h) PROVE \E n \in Nat : IsList(r.hashes, n)
  <2> DEFINE S2 == S \cup {h}
  <2>1. Append(Hashes, h) \in Seq(S2)
    BY <1>2
  <2> HIDE DEF S2
  <2> QED BY <1>5, <1>9, <2>1 DEF Appended
<1>10. ASSUME NEW k, NEW h, Replaced(r.hashes, Hashes, k, h)
       PROVE  \E n \in Nat : IsList(r.hashes, n)
  <2>1. DOMAIN Hashes = 1..p
    BY <1>1 DEF IsList
  <2>2. IsList([Hashes EXCEPT ![k] = h], p)
    BY <1>1, <2>1 DEF IsList
  <2> QED BY <1>1, <1>10, <2>2 DEF Replaced
<1>11. CASE r.hashes = Hashes
  BY <1>1, <1>11
<1>12. \/ r.hashes = Hashes
       \/ r.hashes = <<>>
       \/ r.hashes = SubSeq(Hashes, 2, Len(Hashes))
       \/ r.hashes = SubSeq(Hashes, 1, Len(Hashes) - 1)
       \/ \E h : Appended(r.hashes, Hashes, h)
       \/ \E k, h : Replaced(r.hashes, Hashes, k, h)
  BY <1>4, PathCases, Zenon
<1> QED BY <1>6, <1>7, <1>8, <1>9, <1>10, <1>11, <1>12, Zenon

\* A receipt that verifies beside the log's own note, with a list of hashes of any
\* length.
LEMMA VerifiedIsIncluded ==
    ASSUME ReceiptInv, Len(nodes) = 1, NEW r, r.note = nodes[1], r.index \in Int,
           NEW p \in Nat, IsList(r.hashes, p), verify_receipt(r)
    PROVE  /\ \E i \in 1..Len(leaves) : leaves[i] = r.statement
           /\ r.size = Len(leaves) => leaves[r.index + 1] = r.statement
<1> DEFINE x == r.statement
           steps == Sided(r.index, r.size, r.hashes)
           at == Positions(r.index, r.size - 1)
<1>1. r.body = x /\ r.root = nodes[1]
  BY RootIsDigest DEF verify_receipt, CommitsTo, ReceiptInv
<1>2. /\ 0 <= r.index /\ r.index < r.size
      /\ at[p][2] = 0 /\ \A j \in 0..(p - 1) : at[j][2] # 0
      /\ Refold(hash_leaf(x), steps) = nodes[1]
  <2>1. Len(r.hashes) = p
    BY ListIsSeq
  <2>2. verify_inclusion(r.index, r.size, hash_leaf(x), r.hashes, nodes[1])
    BY <1>1 DEF verify_receipt
  <2> QED BY <2>1, <2>2 DEF verify_inclusion
<1>3. IsList(steps, p)
  BY SidedIs
<1>4. \E i \in 1..Len(leaves) : leaves[i] = x
  <2>1. 1 \in 1..Len(nodes)
    OBVIOUS
  <2> HIDE DEF steps, x
  <2> QED BY <1>2, <1>3, <2>1 DEF ReceiptInv, FromLeaves
<1>5. ASSUME r.size = Len(leaves) PROVE leaves[r.index + 1] = x
  <2> DEFINE i == r.index
  <2>1. i \in 0..(Len(leaves) - 1)
    <3>1. Len(leaves) \in Nat
      BY DEF ReceiptInv, ClimbInv
    <3> QED BY <1>2, <1>5, <3>1
  <2>2. PICK q \in Nat, m \in Nat : Meets(nodes, i, q, m) /\ Binds(nodes, i, q, m)
    BY <2>1 DEF ReceiptInv, Covers
  <2>3. q = 0 /\ Tracks(At(i, m), 0, 0) /\ \A j \in 0..(m - 1) : At(i, j)[2] # 0
    BY <2>2 DEF Meets
  <2>4. At(i, m)[2] = 0
    <3> HIDE DEF i
    <3> QED BY <2>3, TracksTop
  <2>5. At(i, p)[2] = 0 /\ \A j \in 0..(p - 1) : At(i, j)[2] # 0
    BY <1>2, <1>5 DEF At
  <2>6. p = m
    <3>1. ~(p < m)
      <4>1. p < m => p \in 0..(m - 1)
        OBVIOUS
      <4> QED BY <2>3, <2>5, <4>1
    <3>2. ~(m < p)
      <4>1. m < p => m \in 0..(p - 1)
        OBVIOUS
      <4> QED BY <2>4, <2>5, <4>1
    <3> QED BY <3>1, <3>2
  <2>7. Refold(hash_leaf(x), Sided(i, Len(leaves), r.hashes)) = nodes[q + 1]
    BY <1>2, <1>5, <2>3
  <2> HIDE DEF i, x
  <2> QED BY <2>2, <2>6, <2>7 DEF Binds, i
<1> QED BY <1>4, <1>5

\* A receipt with the log's path, or one edit of it, that verifies beside the
\* log's own note is for an entry the log holds, whatever body, index, tree size
\* and root it carries; with the log's tree size, it is for the entry at the index
\* it claims.
THEOREM VerifiedReceiptsAreIncluded == Spec => []VerifiedReceiptIsIncluded
<1>1. ReceiptInv => VerifiedReceiptIsIncluded
  <2> SUFFICES ASSUME ReceiptInv, Len(nodes) = 1, NEW r \in Receipts, verify_receipt(r)
               PROVE  /\ \E i \in 1..Len(leaves) : leaves[i] = r.statement
                      /\ r.size = Len(leaves) => leaves[r.index + 1] = r.statement
    BY DEF VerifiedReceiptIsIncluded
  <2>1. r.note = nodes[1] /\ r.index \in Int
    BY DEF Receipts
  <2>2. PICK p \in Nat : IsList(r.hashes, p)
    BY ReceiptHashes
  <2> QED BY <2>1, <2>2, VerifiedIsIncluded
<1> QED BY <1>1, ReceiptKeeps, PTL

\* The receipts of any fields from a set, with any list of hashes, beside the
\* log's own note.
ReceiptsOver(S) ==
    [ statement : S, body : S, index : Int, size : Int, hashes : Seq(S), root : S,
      note : {nodes[1]} ]

\* The same of every receipt: one that verifies beside the log's own note is for
\* an entry the log holds, whatever body, index, tree size, root and list of hashes
\* it carries; with the log's tree size, it is for the entry at its index.
THEOREM EveryVerifiedReceiptIsIncluded ==
    ASSUME NEW CONSTANT S
    PROVE  Spec => [](Len(nodes) = 1 =>
               \A r \in ReceiptsOver(S) : verify_receipt(r) =>
                   /\ \E i \in 1..Len(leaves) : leaves[i] = r.statement
                   /\ r.size = Len(leaves) => leaves[r.index + 1] = r.statement)
<1> DEFINE Included ==
        Len(nodes) = 1 =>
            \A r \in ReceiptsOver(S) : verify_receipt(r) =>
                /\ \E i \in 1..Len(leaves) : leaves[i] = r.statement
                /\ r.size = Len(leaves) => leaves[r.index + 1] = r.statement
<1>1. ReceiptInv => Included
  <2> SUFFICES ASSUME ReceiptInv, Len(nodes) = 1, NEW r \in ReceiptsOver(S), verify_receipt(r)
               PROVE  /\ \E i \in 1..Len(leaves) : leaves[i] = r.statement
                      /\ r.size = Len(leaves) => leaves[r.index + 1] = r.statement
    OBVIOUS
  <2>1. r.note = nodes[1] /\ r.index \in Int /\ r.hashes \in Seq(S)
    BY DEF ReceiptsOver
  <2>2. IsList(r.hashes, Len(r.hashes)) /\ Len(r.hashes) \in Nat
    BY <2>1, SeqIsList
  <2> QED BY <2>1, <2>2, VerifiedIsIncluded
<1> HIDE DEF Included
<1>2. Spec => []Included
  BY <1>1, ReceiptKeeps, PTL
<1> QED BY <1>2 DEF Included
=============================================================================
