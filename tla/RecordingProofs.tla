-------------------------- MODULE RecordingProofs --------------------------
(***************************************************************************)
(* Proofs about module Recording: the profile keeps one key, ids increase, *)
(* and the two detectors that remember flag what they are meant to.        *)
(***************************************************************************)
EXTENDS Recording, FiniteSetTheorems, SequenceTheorems, WellFoundedInduction, TLAPS

-----------------------------------------------------------------------------
(* Ids *)

\* A number written with a digit below its base is ordered by the rest first.
LEMMA Lexicographic ==
    ASSUME NEW B \in Nat \ {0}, NEW x \in Int, NEW y \in Int, x < y,
           NEW c \in 0..(B - 1), NEW d \in Nat
    PROVE  x * B + c < y * B + d
<1>1. (x + 1) * B = x * B + B
  OBVIOUS
<1>2. (y - (x + 1)) * B >= 0
  OBVIOUS
<1>3. (y - (x + 1)) * B = y * B - (x + 1) * B
  OBVIOUS
<1>4. x * B \in Int /\ y * B \in Int /\ (x + 1) * B \in Int
  OBVIOUS
<1> QED BY <1>1, <1>2, <1>3, <1>4

\* Division: the quotient and the remainder, and their ranges.
LEMMA Digits ==
    ASSUME NEW r \in Rand
    PROVE  /\ r \div RandB \in 0..(RandA - 1)
           /\ r % RandB \in 0..(RandB - 1)
           /\ r = RandB * (r \div RandB) + (r % RandB)
<1> USE RandAssumption
<1>1. r \in Nat /\ RandA * RandB \in Nat /\ r < RandA * RandB
  BY DEF Rand
<1>2. /\ r \div RandB \in Nat
      /\ r % RandB \in 0..(RandB - 1)
      /\ r = RandB * (r \div RandB) + (r % RandB)
  BY <1>1
<1>3. ~(r \div RandB >= RandA)
  <2> SUFFICES ASSUME r \div RandB >= RandA PROVE FALSE
    OBVIOUS
  <2>1. (r \div RandB - RandA) * RandB >= 0
    BY <1>2
  <2>2. (r \div RandB - RandA) * RandB = RandB * (r \div RandB) - RandA * RandB
    BY <1>2
  <2> QED BY <2>1, <2>2, <1>1, <1>2
<1> QED BY <1>2, <1>3

-----------------------------------------------------------------------------
(* The window of the rate detector *)

\* A set of naturals that is not empty has a least element.
LEMMA LeastElement ==
    ASSUME NEW T \in SUBSET Nat, T # {}
    PROVE  \E x \in T : \A y \in T : x <= y
<1>1. PICK x \in T : \A y \in T : ~ (<<y, x>> \in OpToRel(<, Nat))
  BY WFMin, NatLessThanWellFounded
<1>2. \A y \in T : ~ (y < x)
  BY <1>1 DEF OpToRel
<1>3. \A y \in T : x <= y
  BY <1>2
<1> QED BY <1>3

\* The places of a sequence of times that are inside the window.
Inside(w, now) == {i \in 1..Len(w) : now - w[i] <= WindowSeconds}

\* The tail of a sequence of times that begins at k.
LEMMA TailFrom ==
    ASSUME NEW v \in Seq(Int), NEW k \in 1..Len(v)
    PROVE  LET u == SubSeq(v, k, Len(v))
           IN  /\ Len(u) = Len(v) - k + 1
               /\ \A i \in 1..(Len(v) - k + 1) : k + i - 1 \in 1..Len(v) /\ u[i] = v[k + i - 1]
<1>1. Len(v) \in Nat /\ k \in Int /\ Len(v) \in Int /\ k <= Len(v)
  BY LenProperties
<1>2. \A i \in k..Len(v) : v[i] \in Int
  BY <1>1, ElementOfSeq
<1>3. /\ Len(SubSeq(v, k, Len(v))) = Len(v) - k + 1
      /\ \A i \in 1..(Len(v) - k + 1) : SubSeq(v, k, Len(v))[i] = v[k + i - 1]
  BY <1>1, <1>2, SubSeqProperties
<1>4. \A i \in 1..(Len(v) - k + 1) : k + i - 1 \in 1..Len(v)
  BY <1>1
<1> QED BY <1>3, <1>4

\* What the deque holds after a write: the tail that starts with the first
\* time inside the window, which exists because the write's own time is.
LEMMA SlideKeeps ==
    ASSUME NEW w \in Seq(Int), NEW now \in Int
    PROVE  LET v == Append(w, now)
           IN  \E k \in 1..(Len(w) + 1) :
                  /\ Slide(w, now) = SubSeq(v, k, Len(w) + 1)
                  /\ now - v[k] <= WindowSeconds
                  /\ \A j \in 1..(k - 1) : now - v[j] > WindowSeconds
<1> DEFINE v == Append(w, now)
           First(i) == /\ now - v[i] <= WindowSeconds
                       /\ \A j \in 1..(i - 1) : now - v[j] > WindowSeconds
<1>1. /\ v \in Seq(Int) /\ Len(w) \in Nat
      /\ Len(v) = Len(w) + 1 /\ v[Len(w) + 1] = now
  BY AppendProperties
<1>2. Len(v) \in Inside(v, now)
  BY <1>1, RateAssumption DEF Inside
<1>3. Inside(v, now) \in SUBSET Nat
  BY <1>1 DEF Inside
<1>4. PICK i \in Inside(v, now) : \A j \in Inside(v, now) : i <= j
  BY <1>2, <1>3, LeastElement
<1>5. i \in 1..Len(v) /\ First(i)
  <2>1. i \in 1..Len(v) /\ now - v[i] <= WindowSeconds
    BY DEF Inside
  <2>2. ASSUME NEW j \in 1..(i - 1) PROVE now - v[j] > WindowSeconds
    <3>1. j \in 1..Len(v) /\ j < i
      BY <2>1, <1>1
    <3>2. j \notin Inside(v, now)
      BY <3>1, <2>1, <1>4, <1>1
    <3>3. v[j] \in Int
      BY <3>1, <1>1, ElementOfSeq
    <3> QED BY <3>1, <3>2, <3>3, RateAssumption DEF Inside
  <2> QED BY <2>1, <2>2
<1> DEFINE keep == CHOOSE m \in 1..Len(v) : First(m)
<1>6. keep \in 1..Len(v) /\ First(keep)
  BY <1>5
<1>7. Slide(w, now) = SubSeq(v, keep, Len(v))
  BY DEF Slide
<1> HIDE DEF keep
<1> QED BY <1>1, <1>6, <1>7

-----------------------------------------------------------------------------
(* Type correctness *)

Attempt == [ns : Namespace, src : Source, text : Text, now : 0..MaxClock, row : Nat]

\* The window of one source stays a sequence of readings of the clock.
LEMMA SlideType ==
    ASSUME NEW w \in Seq(0..MaxClock), NEW now \in 0..MaxClock
    PROVE  Slide(w, now) \in Seq(0..MaxClock)
<1> DEFINE v == Append(w, now)
<1>1. /\ v \in Seq(0..MaxClock)
      /\ Len(w) \in Nat /\ Len(v) = Len(w) + 1
  BY AppendProperties
<1>2. w \in Seq(Int) /\ now \in Int
  BY BoundAssumption
<1>3. PICK k \in 1..(Len(w) + 1) : Slide(w, now) = SubSeq(v, k, Len(w) + 1)
  BY <1>2, SlideKeeps
<1> HIDE DEF v
<1>4. ASSUME NEW i \in k..(Len(w) + 1) PROVE v[i] \in 0..MaxClock
  <2>1. i \in 1..Len(v)
    BY <1>1
  <2> QED BY <1>1, <2>1, ElementOfSeq
<1>5. SubSeq(v, k, Len(w) + 1) \in Seq(0..MaxClock)
  BY <1>1, <1>4, SubSeqProperties
<1> QED BY <1>3, <1>5

\* uuid7 leaves a generator behind, the random field inside its width.
LEMMA GeneratorType ==
    ASSUME NEW g \in Generator, NEW now \in Nat
    PROVE  uuid7(g, now) \subseteq [ms : Nat, rand : Rand]
<1>1. ASSUME now > g.ms PROVE uuid7(g, now) \subseteq [ms : Nat, rand : Rand]
  BY <1>1 DEF uuid7, Fresh
<1>2. ASSUME ~(now > g.ms) PROVE uuid7(g, now) \subseteq [ms : Nat, rand : Rand]
  <2>1. g.ms \in Nat
    BY <1>2 DEF Generator
  <2> QED BY <1>2, <2>1 DEF uuid7, Fresh, Generator
<1> QED BY <1>1, <1>2

\* The files and processes of the profile keep their types under every step.
LEMMA ProfileTypes ==
    ASSUME ProfileTypeOK,
           \/ InitGenerates \/ InitCreates \/ InitWrites \/ InitStops \/ Open
    PROVE  ProfileTypeOK'
<1> USE KeyAssumption DEF ProfileTypeOK
<1>1. CASE InitGenerates
  BY <1>1 DEF InitGenerates, Generated
<1>2. CASE InitCreates
  BY <1>2 DEF InitCreates
<1>3. CASE InitWrites
  BY <1>3 DEF InitWrites
<1>4. CASE InitStops
  BY <1>4 DEF InitStops
<1>5. CASE Open
  BY <1>5 DEF Open, Loads
<1> QED BY <1>1, <1>2, <1>3, <1>4, <1>5

\* A write keeps the types.
LEMMA RecordWriteTypes ==
    ASSUME TypeOK,
           NEW ns \in Namespace, NEW src \in Source, NEW text \in Text,
           NEW appended \in BOOLEAN, RecordWrite(ns, src, text, appended)
    PROVE  TypeOK'
<1> DEFINE l == Len(ledger)
           a == [ns |-> ns, src |-> src, text |-> text, now |-> clock,
                 row |-> IF appended THEN l + 1 ELSE 0]
<1> USE BoundAssumption
<1>1. ProfileTypeOK' /\ engine' # Absent
  BY DEF TypeOK, ProfileTypeOK, RecordWrite
<1>2. clock' \in 0..MaxClock /\ steady' \in BOOLEAN
  BY DEF TypeOK, RecordWrite
<1>3. generator' \in Generator
  <2>1. uuid7(generator, clock) \subseteq [ms : Nat, rand : Rand]
    BY GeneratorType DEF TypeOK
  <2> QED BY <2>1 DEF RecordWrite, Generator
<1>4. window' \in [Namespace \X Source -> Seq(0..MaxClock)]
  <2>1. window[<<ns, src>>] \in Seq(0..MaxClock) /\ clock \in 0..MaxClock
    BY DEF TypeOK
  <2>2. Slide(window[<<ns, src>>], clock) \in Seq(0..MaxClock)
    BY <2>1, SlideType
  <2> QED BY <2>2 DEF TypeOK, RecordWrite
<1>5. trusted' \in [Namespace -> Seq(Nat \X Nat)]
  <2>1. trusted[ns] \in Seq(Nat \X Nat) /\ Embed[text] \in Nat \X Nat
    BY EmbedAssumption DEF TypeOK
  <2>2. Remember(trusted[ns], src, Embed[text]) \in Seq(Nat \X Nat)
    BY <2>1, AppendProperties DEF Remember
  <2> QED BY <2>2 DEF TypeOK, RecordWrite
<1>6. /\ attempts' \in Seq(Attempt) /\ Len(attempts') = Len(attempts) + 1
      /\ Len(attempts) \in Nat
      /\ \A i \in 1..Len(attempts) : attempts'[i] = attempts[i]
      /\ attempts'[Len(attempts) + 1].row = IF appended THEN l + 1 ELSE 0
  <2>0. l \in Nat
    BY DEF TypeOK
  <2>1. attempts \in Seq(Attempt) /\ a \in Attempt /\ a.row = IF appended THEN l + 1 ELSE 0
    BY <2>0 DEF TypeOK, Attempt
  <2>2. attempts' = Append(attempts, a)
    BY DEF RecordWrite
  <2> HIDE DEF a
  <2> QED BY <2>1, <2>2, AppendProperties
<1>7. findings' \subseteq Finding /\ \A f \in findings' : f[2] <= Len(attempts')
  <2>1. findings \subseteq Finding /\ \A f \in findings : f[2] <= Len(attempts)
    BY DEF TypeOK
  <2>2. \A f \in Inspect(ns, src, Embed[text], Len(attempts) + 1) :
            f \in Finding /\ f[2] = Len(attempts) + 1
    BY DEF Inspect
  <2>3. \A f \in Finding : f[2] \in Int
    BY DEF Finding
  <2>4. findings' = findings \cup Inspect(ns, src, Embed[text], Len(attempts) + 1)
    BY DEF RecordWrite
  <2>5. \A f \in findings : f[2] <= Len(attempts')
    BY <1>6, <2>1, <2>3
  <2>6. \A f \in Inspect(ns, src, Embed[text], Len(attempts) + 1) : f[2] <= Len(attempts')
    BY <1>6, <2>2
  <2> QED BY <2>1, <2>2, <2>4, <2>5, <2>6
<1>8. /\ ledger' \in Seq(Row) /\ l \in Nat
      /\ appended => Len(ledger') = l + 1
      /\ ~appended => Len(ledger') = l
  <2>1. ledger \in Seq(Row) /\ [src |-> src, text |-> text] \in Row
    BY DEF TypeOK, Row
  <2> QED BY <2>1, AppendProperties DEF RecordWrite
<1>9. \A i \in 1..Len(attempts') : attempts'[i].row <= Len(ledger')
  <2>1. \A i \in 1..Len(attempts) : attempts[i].row \in Nat /\ attempts[i].row <= l
    <3>1. attempts \in Seq(Attempt) /\ \A y \in Attempt : y.row \in Nat
      BY DEF TypeOK, Attempt
    <3> QED BY <3>1, ElementOfSeq DEF TypeOK
  <2> HIDE DEF l, a
  <2>2. ASSUME NEW i \in 1..Len(attempts) PROVE attempts'[i].row <= Len(ledger')
    BY <2>1, <2>2, <1>6, <1>8
  <2>3. attempts'[Len(attempts) + 1].row <= Len(ledger')
    BY <1>6, <1>8
  <2> QED BY <2>2, <2>3, <1>6
<1> QED BY <1>1, <1>2, <1>3, <1>4, <1>5, <1>6, <1>7, <1>8, <1>9 DEF TypeOK, Attempt

\* The other steps keep them too.
LEMMA TypesStep ==
    ASSUME TypeOK, [Next]_vars
    PROVE  TypeOK'
<1> USE BoundAssumption
<1>1. CASE ProfileStep
  <2>1. ProfileTypeOK'
    BY <1>1, ProfileTypes DEF ProfileStep, TypeOK
  <2>2. attempts' # <<>> => engine' # Absent
    BY <1>1, KeyAssumption DEF ProfileStep, processVars, TypeOK, ProfileTypeOK, Open, Loads,
        InitGenerates, InitCreates, InitWrites, InitStops
  <2> QED BY <1>1, <2>1, <2>2 DEF ProfileStep, processVars, TypeOK
<1>2. CASE Stop
  <2>1. NewGenerator \in Generator
    BY RandAssumption DEF NewGenerator, Generator, Rand
  <2>2. /\ NewWindow \in [Namespace \X Source -> Seq(0..MaxClock)]
        /\ NewTrusted \in [Namespace -> Seq(Nat \X Nat)]
    BY EmptySeq DEF NewWindow, NewTrusted
  <2> QED BY <1>2, <2>1, <2>2 DEF Stop, TypeOK, ProfileTypeOK
<1>3. CASE Tick
  BY <1>3 DEF Tick, TypeOK, ProfileTypeOK, profileVars, processVars
<1>4. CASE SetBack
  BY <1>4 DEF SetBack, TypeOK, ProfileTypeOK, profileVars
<1>5. CASE UNCHANGED vars
  BY <1>5 DEF vars, TypeOK, ProfileTypeOK, profileVars, processVars
<1>6. CASE OthersAppend
  <2>1. /\ ledger' \in Seq(Row) /\ Len(ledger) \in Nat /\ Len(ledger') = Len(ledger) + 1
    BY <1>6, AppendProperties DEF OthersAppend, TypeOK
  <2>2. \A i \in 1..Len(attempts) : attempts[i].row \in Nat /\ attempts[i].row <= Len(ledger)
    <3>1. attempts \in Seq(Attempt) /\ \A y \in Attempt : y.row \in Nat
      BY DEF TypeOK, Attempt
    <3> QED BY <3>1, ElementOfSeq DEF TypeOK
  <2>3. \A i \in 1..Len(attempts) : attempts[i].row <= Len(ledger')
    BY <2>1, <2>2
  <2>4. ProfileTypeOK'
    BY <1>6, KeyAssumption DEF OthersAppend, Loads, TypeOK, ProfileTypeOK
  <2> QED BY <1>6, <2>1, <2>3, <2>4 DEF OthersAppend, TypeOK, processVars
<1>7. CASE \E ns \in Namespace, src \in Source, text \in Text, appended \in BOOLEAN :
              RecordWrite(ns, src, text, appended)
  BY <1>7, RecordWriteTypes
<1> QED BY <1>1, <1>2, <1>3, <1>4, <1>5, <1>6, <1>7 DEF Next

\* Every reachable state is well typed; in particular no call of uuid7 bumps
\* the random field past its width, and every burst window holds its write.
THEOREM RecordingTypes == Spec => []TypeOK
<1>1. Init => TypeOK
  <2>1. NewGenerator \in Generator /\ 0 \in 0..MaxClock
    BY RandAssumption, BoundAssumption DEF NewGenerator, Generator, Rand
  <2>2. /\ NewWindow \in [Namespace \X Source -> Seq(0..MaxClock)]
        /\ NewTrusted \in [Namespace -> Seq(Nat \X Nat)]
    BY EmptySeq DEF NewWindow, NewTrusted
  <2> QED BY <2>1, <2>2 DEF Init, ProfileInit, TypeOK, ProfileTypeOK
<1>2. TypeOK /\ [Next]_vars => TypeOK'
  BY TypesStep
<1> QED BY <1>1, <1>2, PTL DEF Spec

-----------------------------------------------------------------------------
(* One key *)

\* The key file changes only before the first engine: until init has written
\* the key there is nothing to open, and after that init exits.
OneKey ==
    /\ initPc = "create" => keyFile = Absent
    /\ initPc = "write" => keyFile = Empty
    /\ keyFile \notin Key => engine = Absent /\ signers = {}
    /\ engine # Absent => engine = keyFile
    /\ signers \subseteq {keyFile}

\* No step of init or of a command breaks it.
LEMMA OneKeyProfile ==
    ASSUME ProfileTypeOK, OneKey,
           \/ InitGenerates \/ InitCreates \/ InitWrites \/ InitStops \/ Open
    PROVE  OneKey'
<1> USE KeyAssumption DEF ProfileTypeOK, OneKey
<1>1. CASE InitGenerates
  BY <1>1 DEF InitGenerates
<1>2. CASE InitCreates
  BY <1>2 DEF InitCreates
<1>3. CASE InitWrites
  BY <1>3 DEF InitWrites
<1>4. CASE InitStops
  BY <1>4 DEF InitStops
<1>5. CASE Open
  BY <1>5 DEF Open, Loads
<1> QED BY <1>1, <1>2, <1>3, <1>4, <1>5

\* However init is stopped and run again, every row of the ledger is signed with
\* the key that is in the key file.
THEOREM OneKeySigns == Spec => []KeySignsLedger
<1>1. Init => OneKey
  BY KeyAssumption DEF Init, ProfileInit, OneKey
<1>2. TypeOK /\ OneKey /\ [Next]_vars => OneKey'
  <2> SUFFICES ASSUME TypeOK, OneKey, [Next]_vars PROVE OneKey'
    OBVIOUS
  <2>1. CASE ProfileStep
    BY <2>1, OneKeyProfile DEF ProfileStep, TypeOK
  <2>2. CASE Stop
    BY <2>2, KeyAssumption DEF Stop, OneKey
  <2>3. CASE Tick
    BY <2>3 DEF Tick, profileVars, OneKey
  <2>4. CASE SetBack
    BY <2>4 DEF SetBack, profileVars, OneKey
  <2>5. CASE \E ns \in Namespace, src \in Source, text \in Text, appended \in BOOLEAN :
                RecordWrite(ns, src, text, appended)
    BY <2>5 DEF RecordWrite, OneKey
  <2>6. CASE OthersAppend
    BY <2>6 DEF OthersAppend, Loads, OneKey
  <2>7. CASE UNCHANGED vars
    BY <2>7 DEF vars, profileVars, OneKey
  <2> QED BY <2>1, <2>2, <2>3, <2>4, <2>5, <2>6, <2>7 DEF Next
<1>3. OneKey => KeySignsLedger
  BY DEF OneKey, KeySignsLedger
<1> QED BY <1>1, <1>2, <1>3, RecordingTypes, PTL DEF Spec

-----------------------------------------------------------------------------
(* Ids sort *)

\* Two generators, the second later or bumped, in the order of their ids.
LEMMA ComposeIncreases ==
    ASSUME NEW g \in Generator, NEW h \in [ms : Nat, rand : Rand],
           g.ms < h.ms \/ (g.ms = h.ms /\ g.rand < h.rand)
    PROVE  compose(g) < compose(h)
<1> DEFINE ga == g.rand \div RandB  gb == g.rand % RandB
           ha == h.rand \div RandB  hb == h.rand % RandB
           gHigh == g.ms * 16 + VERSION  hHigh == h.ms * 16 + VERSION
           gMid == gHigh * RandA + ga    hMid == hHigh * RandA + ha
           gLow == gMid * 4 + VARIANT    hLow == hMid * 4 + VARIANT
<1>0. RandA \in Nat \ {0} /\ RandB \in Nat \ {0}
  BY RandAssumption
<1>1. /\ g.rand \in Rand /\ h.rand \in Rand /\ g.ms \in Int /\ h.ms \in Int
      /\ Rand \subseteq Int
  BY DEF Generator, Rand
<1>2. /\ ga \in 0..(RandA - 1) /\ gb \in 0..(RandB - 1) /\ g.rand = RandB * ga + gb
      /\ ha \in 0..(RandA - 1) /\ hb \in 0..(RandB - 1) /\ h.rand = RandB * ha + hb
  BY <1>1, Digits
<1>3. compose(g) = gLow * RandB + gb /\ compose(h) = hLow * RandB + hb
  BY DEF compose
<1>4. gHigh \in Int /\ hHigh \in Int
  BY <1>1 DEF VERSION
<1> HIDE DEF ga, gb, ha, hb
<1>5. gMid \in Int /\ hMid \in Int
  <2>1. gHigh * RandA \in Int /\ hHigh * RandA \in Int
    BY <1>0, <1>4
  <2> HIDE DEF gHigh, hHigh
  <2> QED BY <2>1, <1>2, <1>0
<1>6. gLow \in Int /\ hLow \in Int
  BY <1>5 DEF VARIANT
<1>7. CASE g.ms < h.ms
  <2>1. gHigh < hHigh
    BY <1>1, <1>7 DEF VERSION
  <2> HIDE DEF gHigh, hHigh
  <2>2. gMid < hMid
    BY <2>1, <1>4, <1>2, <1>0, Lexicographic
  <2>3. gLow < hLow
    BY <2>2, <1>5 DEF VARIANT
  <2> HIDE DEF gLow, hLow
  <2>4. gLow * RandB + gb < hLow * RandB + hb
    BY <2>3, <1>6, <1>2, <1>0, Lexicographic
  <2> QED BY <2>4, <1>3
<1>8. CASE g.ms = h.ms /\ g.rand < h.rand
  <2>1. gHigh = hHigh
    BY <1>8
  <2>2. ga < ha \/ (ga = ha /\ gb < hb)
    <3>1. ASSUME ha < ga PROVE FALSE
      <4>1. ha * RandB + hb < ga * RandB + gb
        BY <3>1, <1>2, <1>0, Lexicographic
      <4>2. ha * RandB = RandB * ha /\ ga * RandB = RandB * ga
        BY <1>2, <1>0
      <4> QED BY <4>1, <4>2, <1>2, <1>8, <1>1, <1>0
    <3>2. ASSUME ha = ga, ~(gb < hb) PROVE FALSE
      <4>1. RandB * ga \in Int
        BY <1>2, <1>0
      <4> QED BY <3>2, <4>1, <1>2, <1>8, <1>0
    <3> QED BY <3>1, <3>2, <1>2, <1>0
  <2>3. CASE ga < ha
    <3>1. gHigh * RandA \in Int
      BY <1>4, <1>0
    <3> HIDE DEF gHigh, hHigh
    <3>2. gMid < hMid
      BY <2>1, <2>3, <3>1, <1>2, <1>0
    <3>3. gLow < hLow
      BY <3>2, <1>5 DEF VARIANT
    <3> HIDE DEF gLow, hLow
    <3>4. gLow * RandB + gb < hLow * RandB + hb
      BY <3>3, <1>6, <1>2, <1>0, Lexicographic
    <3> QED BY <3>4, <1>3
  <2>4. CASE ga = ha /\ gb < hb
    <3>1. gLow = hLow
      BY <2>1, <2>4
    <3> HIDE DEF gLow, hLow
    <3>2. gLow * RandB \in Int
      BY <1>6, <1>0
    <3> QED BY <3>1, <3>2, <2>4, <1>2, <1>3, <1>0
  <2> QED BY <2>2, <2>3, <2>4
<1> QED BY <1>7, <1>8

\* uuid7 moves on: to a later millisecond or a larger random field.
LEMMA GeneratorAdvances ==
    ASSUME NEW g \in Generator, NEW now \in Nat, NEW h \in uuid7(g, now)
    PROVE  g.ms < h.ms \/ (g.ms = h.ms /\ g.rand < h.rand)
<1>1. CASE now > g.ms
  BY <1>1 DEF uuid7, Fresh
<1>2. CASE ~(now > g.ms) /\ g.rand + 1 \in Rand
  BY <1>2 DEF uuid7, Generator, Rand
<1>3. CASE ~(now > g.ms) /\ g.rand + 1 \notin Rand
  BY <1>3 DEF uuid7, Fresh, Generator
<1> QED BY <1>1, <1>2, <1>3

\* Every write of a process has a larger id than the one before it, whatever the
\* clock does, for random fields of any width.
THEOREM IdsAlwaysIncrease == Spec => IdsIncrease
<1> DEFINE Increase == Len(attempts') > Len(attempts)
                           => compose(generator') > compose(generator)
<1>1. TypeOK /\ [Next]_vars => [Increase]_vars
  <2> SUFFICES ASSUME TypeOK, Next, ~Increase PROVE FALSE
    OBVIOUS
  <2>1. Len(attempts') > Len(attempts)
    OBVIOUS
  <2>2. attempts \in Seq(Attempt)
    BY DEF TypeOK, Attempt
  <2>3. attempts' # attempts /\ attempts' # <<>>
    <3>1. Len(attempts) \in Nat /\ Len(<<>>) = 0
      BY <2>2
    <3> QED BY <2>1, <3>1
  <2>4. PICK ns \in Namespace, src \in Source, text \in Text, appended \in BOOLEAN :
                RecordWrite(ns, src, text, appended)
    BY <2>3 DEF Next, ProfileStep, Stop, Tick, SetBack, OthersAppend, processVars
  <2>5. generator' \in uuid7(generator, clock) /\ clock \in Nat /\ generator \in Generator
    BY <2>4, BoundAssumption DEF RecordWrite, TypeOK
  <2>6. generator' \in [ms : Nat, rand : Rand]
    BY <2>5, GeneratorType
  <2>7. compose(generator) < compose(generator')
    BY <2>5, <2>6, GeneratorAdvances, ComposeIncreases
  <2> QED BY <2>7
<1>2. Spec => [][Increase]_vars
  BY <1>1, RecordingTypes, PTL DEF Spec
<1> QED BY <1>2 DEF IdsIncrease

-----------------------------------------------------------------------------
(* Bursts *)

\* The attempts of one source in one namespace.
Calls(a, k) == {j \in 1..Len(a) : a[j].ns = k[1] /\ a[j].src = k[2]}

\* Those of them that are inside the window.
Recent(a, C, now) == {j \in C : now - a[j].now <= WindowSeconds}

\* f names the attempt behind each entry of a window: it misses none that is
\* recent, and the entries are in the order of the clock.
Tracks(w, f, C, a, now) ==
    /\ f \in Injection(1..Len(w), C)
    /\ \A i \in 1..Len(w) : w[i] = a[f[i]].now
    /\ \A j \in C : now - a[j].now <= WindowSeconds => \E i \in 1..Len(w) : f[i] = j
    /\ \A i, j \in 1..Len(w) : i <= j => w[i] <= w[j]

\* The next write of the source: its window holds the recent attempts and itself,
\* as many as there are.
LEMMA SlideTracks ==
    ASSUME NEW w \in Seq(Int), NEW now \in Int, NEW C, NEW n, n \notin C, NEW f, NEW a,
           \A j \in C \cup {n} : a[j].now \in Int,
           a[n].now = now, \A j \in C : a[j].now <= now,
           Tracks(w, f, C, a, now)
    PROVE  /\ \E g : Tracks(Slide(w, now), g, C \cup {n}, a, now)
           /\ Cardinality(Recent(a, C \cup {n}, now)) = Len(Slide(w, now))
<1> DEFINE L == Len(w)
           v == Append(w, now)
           u == Slide(w, now)
           D == C \cup {n}
           recent == {j \in D : now - a[j].now <= WindowSeconds}
<1>1. L \in Nat /\ v \in Seq(Int) /\ Len(v) = L + 1 /\ v[L + 1] = now
      /\ \A i \in 1..L : v[i] = w[i]
  BY AppendProperties
<1>2. PICK k \in 1..(L + 1) :
          /\ u = SubSeq(v, k, L + 1)
          /\ now - v[k] <= WindowSeconds
          /\ \A j \in 1..(k - 1) : now - v[j] > WindowSeconds
  BY SlideKeeps
<1> DEFINE F == [i \in 1..(L + 1) |-> IF i = L + 1 THEN n ELSE f[i]]
           m == L + 2 - k
           g == [i \in 1..m |-> F[k + i - 1]]
<1> HIDE DEF u, v
<1>3. /\ m \in Nat /\ Len(u) = m
      /\ \A i \in 1..m : k + i - 1 \in 1..(L + 1) /\ u[i] = v[k + i - 1]
  <2>1. m \in Nat /\ m = Len(v) - k + 1 /\ Len(v) = L + 1
    BY <1>1
  <2> HIDE DEF F, g, m, L
  <2>2. u = SubSeq(v, k, Len(v)) /\ k \in 1..Len(v)
    BY <1>2, <2>1
  <2> QED BY <1>1, <2>1, <2>2, TailFrom
<1>4. /\ F \in [1..(L + 1) -> D]
      /\ \A i, j \in 1..(L + 1) : F[i] = F[j] => i = j
      /\ \A i \in 1..(L + 1) : v[i] = a[F[i]].now
      /\ \A j \in recent : \E i \in 1..(L + 1) : F[i] = j
  <2>1. /\ f \in [1..L -> C]
        /\ \A i, j \in 1..L : f[i] = f[j] => i = j
    BY DEF Tracks, Injection, IsInjective
  <2>2. F \in [1..(L + 1) -> D]
    BY <2>1, <1>1
  <2>3. ASSUME NEW i \in 1..(L + 1), NEW j \in 1..(L + 1), F[i] = F[j] PROVE i = j
    <3>1. ASSUME NEW p \in 1..L PROVE F[p] = f[p] /\ f[p] \in C
      <4>1. p \in 1..(L + 1) /\ p # L + 1
        BY <1>1
      <4>2. f[p] \in C
        BY <2>1
      <4> HIDE DEF L
      <4> QED BY <4>1, <4>2
    <3>2. F[L + 1] = n
      BY <1>1
    <3>3. i = L + 1 \/ i \in 1..L
      BY <1>1
    <3>4. j = L + 1 \/ j \in 1..L
      BY <1>1
    <3> HIDE DEF F, L
    <3> QED BY <2>1, <2>3, <3>1, <3>2, <3>3, <3>4
  <2>4. ASSUME NEW i \in 1..(L + 1) PROVE v[i] = a[F[i]].now
    <3>1. CASE i = L + 1
      BY <3>1, <1>1
    <3>2. CASE i \in 1..L
      <4>1. v[i] = w[i] /\ w[i] = a[f[i]].now /\ F[i] = f[i]
        BY <3>2, <1>1 DEF Tracks
      <4> QED BY <4>1
    <3> QED BY <3>1, <3>2, <1>1
  <2>5. ASSUME NEW j \in recent PROVE \E i \in 1..(L + 1) : F[i] = j
    <3>1. CASE j = n
      BY <3>1, <1>1
    <3>2. CASE j # n
      <4>1. PICK i \in 1..L : f[i] = j
        BY <3>2 DEF Tracks
      <4>2. i \in 1..(L + 1) /\ i # L + 1
        BY <1>1
      <4> QED BY <4>1, <4>2
    <3> QED BY <3>1, <3>2
  <2> QED BY <2>2, <2>3, <2>4, <2>5
<1>5. \A i, j \in 1..(L + 1) : i <= j => v[i] <= v[j]
  <2> SUFFICES ASSUME NEW i \in 1..(L + 1), NEW j \in 1..(L + 1), i <= j
               PROVE  v[i] <= v[j]
    OBVIOUS
  <2>1. v[i] \in Int
    BY <1>1, ElementOfSeq
  <2>2. CASE j \in 1..L
    <3>1. i \in 1..L
      BY <2>2
    <3>2. w[i] <= w[j]
      BY <2>2, <3>1 DEF Tracks
    <3> QED BY <2>2, <3>1, <3>2, <1>1
  <2>3. CASE j = L + 1 /\ i \in 1..L
    <3>1. f[i] \in C /\ w[i] = a[f[i]].now
      BY <2>3 DEF Tracks, Injection
    <3> QED BY <3>1, <2>3, <1>1
  <2>4. CASE i = L + 1
    BY <2>1, <2>4, <1>1
  <2> QED BY <2>2, <2>3, <2>4, <1>1
<1> HIDE DEF F
<1>6. g \in Bijection(1..m, recent)
  <2>1. ASSUME NEW i \in 1..m PROVE g[i] \in recent
    <3> DEFINE p == k + i - 1
    <3>1. p \in 1..(L + 1) /\ k <= p /\ g[i] = F[p]
      BY <1>3, <1>1
    <3>2. v[k] <= v[p] /\ v[k] \in Int /\ v[p] \in Int
      BY <3>1, <1>1, <1>5, ElementOfSeq
    <3>3. now - v[p] <= WindowSeconds
      <4>1. now - v[k] <= WindowSeconds /\ WindowSeconds \in Int
        BY <1>2, RateAssumption
      <4> HIDE DEF p
      <4> QED BY <3>2, <4>1
    <3>4. F[p] \in D /\ now - a[F[p]].now <= WindowSeconds
      BY <3>1, <3>3, <1>4
    <3> HIDE DEF p, g, D
    <3> QED BY <3>1, <3>4
  <2>2. ASSUME NEW i \in 1..m, NEW j \in 1..m, g[i] = g[j] PROVE i = j
    <3>1. k + i - 1 = k + j - 1
      BY <2>2, <1>3, <1>4
    <3> QED BY <3>1
  <2>3. ASSUME NEW j \in recent PROVE \E i \in 1..m : g[i] = j
    <3>1. PICK p \in 1..(L + 1) : F[p] = j
      BY <1>4
    <3>2. now - v[p] <= WindowSeconds
      BY <3>1, <1>4
    <3>3. ~(p < k)
      <4> SUFFICES ASSUME p < k PROVE FALSE
        OBVIOUS
      <4>1. p \in 1..(k - 1) /\ v[p] \in Int
        BY <1>1, ElementOfSeq
      <4> QED BY <4>1, <3>2, <1>2, RateAssumption
    <3>4. p - k + 1 \in 1..m /\ k + (p - k + 1) - 1 = p
      BY <3>3, <1>1
    <3> QED BY <3>1, <3>4
  <2>4. g \in [1..m -> recent]
    BY <2>1
  <2> HIDE DEF g, m, recent
  <2> QED BY <2>2, <2>3, <2>4 DEF Bijection, Injection, Surjection, IsInjective
<1>7. Cardinality(recent) = Len(u)
  <2>1. ExistsBijection(1..m, recent)
    BY <1>6 DEF ExistsBijection
  <2> HIDE DEF m, recent
  <2> QED BY <2>1, <1>3, FS_CountingElements
<1>8. Tracks(u, g, D, a, now)
  <2>1. g \in Injection(1..Len(u), D)
    <3>1. recent \subseteq D
      OBVIOUS
    <3> HIDE DEF g, m, recent, D
    <3> QED BY <1>3, <1>6, <3>1 DEF Bijection, Injection, IsInjective
  <2>2. \A i \in 1..Len(u) : u[i] = a[g[i]].now
    BY <1>3, <1>4
  <2>3. \A j \in D : now - a[j].now <= WindowSeconds => \E i \in 1..Len(u) : g[i] = j
    <3> HIDE DEF g, m
    <3> QED BY <1>3, <1>6 DEF Bijection, Surjection
  <2>4. ASSUME NEW i \in 1..Len(u), NEW j \in 1..Len(u), i <= j PROVE u[i] <= u[j]
    <3>1. /\ i \in 1..m /\ j \in 1..m
          /\ u[i] = v[k + i - 1] /\ u[j] = v[k + j - 1]
      BY <1>3
    <3>2. k + i - 1 \in 1..(L + 1) /\ k + j - 1 \in 1..(L + 1)
      BY <1>3, <3>1
    <3>3. k + i - 1 <= k + j - 1
      BY <2>4, <1>3
    <3> QED BY <3>1, <3>2, <3>3, <1>5
  <2> HIDE DEF g
  <2> QED BY <2>1, <2>2, <2>3, <2>4 DEF Tracks
<1> HIDE DEF g
<1> QED BY <1>7, <1>8 DEF u, Recent

\* The windows are what the attempts so far make of them.  A process starts with
\* empty ones and a clock that is its own to follow.
BurstInv ==
    /\ engine = Absent => steady
    /\ steady => \A j \in 1..Len(attempts) : attempts[j].now <= clock
    /\ steady => \A k \in Namespace \X Source :
                     \E f : Tracks(window[k], f, Calls(attempts, k), attempts, clock)
    /\ BurstsAreFlagged

\* Without an attempt there is nothing to track and nothing to flag.
LEMMA NoAttempts ==
    ASSUME NEW k, NEW f, NEW w, NEW now, NEW before,
           w = <<>> \/ Tracks(w, f, Calls(<<>>, k), <<>>, before)
    PROVE  \E g : Tracks(w, g, Calls(<<>>, k), <<>>, now)
<1>1. Calls(<<>>, k) = {}
  BY DEF Calls
<1>2. CASE w = <<>>
  <2>1. 1..Len(w) = {}
    BY <1>2
  <2>2. [i \in {} |-> i] \in Injection({}, {})
    BY DEF Injection, IsInjective
  <2> QED BY <2>1, <2>2, <1>1 DEF Tracks
<1>3. CASE Tracks(w, f, Calls(<<>>, k), <<>>, before)
  BY <1>1, <1>3 DEF Tracks
<1> QED BY <1>2, <1>3

\* When time passes, what was dropped stays outside the window.
LEMMA TracksLater ==
    ASSUME NEW w, NEW f, NEW C, NEW a, NEW now \in Int, NEW later \in Int, now <= later,
           \A j \in C : a[j].now \in Int,
           Tracks(w, f, C, a, now)
    PROVE  Tracks(w, f, C, a, later)
<1>1. \A j \in C : later - a[j].now <= WindowSeconds => now - a[j].now <= WindowSeconds
  BY RateAssumption
<1> QED BY <1>1 DEF Tracks

\* Two records of attempts that agree on the calls of a source track it alike.
LEMMA TracksAgree ==
    ASSUME NEW w, NEW f, NEW C, NEW a, NEW b, NEW now,
           \A j \in C : a[j] = b[j],
           Tracks(w, f, C, a, now)
    PROVE  Tracks(w, f, C, b, now)
<1>1. \A i \in 1..Len(w) : f[i] \in C
  BY DEF Tracks, Injection
<1> QED BY <1>1 DEF Tracks

\* A write adds itself to the calls of its own source and to no others.
LEMMA CallsAppend ==
    ASSUME NEW S, NEW a \in Seq(S), NEW e \in S, NEW k
    PROVE  /\ \A j \in 1..Len(a) : Append(a, e)[j] = a[j]
           /\ Calls(a, k) \subseteq 1..Len(a)
           /\ (k[1] = e.ns /\ k[2] = e.src)
                => Calls(Append(a, e), k) = Calls(a, k) \cup {Len(a) + 1}
           /\ ~(k[1] = e.ns /\ k[2] = e.src) => Calls(Append(a, e), k) = Calls(a, k)
<1>1. /\ Len(a) \in Nat /\ Len(Append(a, e)) = Len(a) + 1
      /\ \A j \in 1..Len(a) : Append(a, e)[j] = a[j]
      /\ Append(a, e)[Len(a) + 1] = e
  BY AppendProperties
<1>2. 1..(Len(a) + 1) = (1..Len(a)) \cup {Len(a) + 1}
  BY <1>1
<1>3. Calls(a, k) \subseteq 1..Len(a)
  BY DEF Calls
<1>4. \A j : j \in Calls(Append(a, e), k)
          <=> \/ j \in Calls(a, k)
              \/ j = Len(a) + 1 /\ e.ns = k[1] /\ e.src = k[2]
  BY <1>1, <1>2 DEF Calls
<1> QED BY <1>1, <1>3, <1>4

\* A write leaves every window as its source's attempts make it, and is flagged
\* by their number.
LEMMA RecordWriteBursts ==
    ASSUME TypeOK, TypeOK', BurstInv, steady,
           NEW ns \in Namespace, NEW src \in Source, NEW text \in Text,
           NEW appended \in BOOLEAN, RecordWrite(ns, src, text, appended)
    PROVE  BurstInv'
<1> DEFINE e == [ns |-> ns, src |-> src, text |-> text, now |-> clock,
                 row |-> IF appended THEN Len(ledger) + 1 ELSE 0]
           n == Len(attempts)
           k == <<ns, src>>
           w == window[k]
<1>1. /\ attempts \in Seq(Attempt) /\ e \in Attempt /\ attempts' = Append(attempts, e)
      /\ attempts' \in Seq(Attempt)
  BY DEF TypeOK, RecordWrite, Attempt
<1>2. e.ns = ns /\ e.src = src /\ e.now = clock
  OBVIOUS
<1>3. \A x \in Attempt : x.now \in Int
  BY BoundAssumption DEF Attempt
<1>4. k \in Namespace \X Source /\ k[1] = ns /\ k[2] = src
  OBVIOUS
<1> HIDE DEF e, k
<1>5. /\ n \in Nat /\ Len(attempts') = n + 1
      /\ \A j \in 1..n : attempts'[j] = attempts[j]
      /\ attempts'[n + 1] = e
  BY <1>1, AppendProperties
<1>6. \A j \in 1..(n + 1) : attempts'[j] \in Attempt /\ attempts'[j].now \in Int
  BY <1>1, <1>3, <1>5, ElementOfSeq
<1>7. clock' = clock /\ steady' = steady /\ engine' = engine /\ clock \in Int
      /\ engine' # Absent
  BY BoundAssumption DEF RecordWrite, TypeOK
<1>8. w \in Seq(Int)
  <2>1. w \in Seq(0..MaxClock)
    BY <1>4 DEF TypeOK
  <2> QED BY <2>1, BoundAssumption
<1>9. \A j \in 1..(n + 1) : attempts'[j].now <= clock
  BY <1>2, <1>5, <1>7 DEF BurstInv
<1>10. \A c : Calls(attempts, c) \subseteq 1..n
  BY <1>1, CallsAppend
<1> DEFINE C == Calls(attempts, k)
           recent == Recent(attempts', C \cup {n + 1}, clock)
<1>11. /\ Calls(attempts', k) = C \cup {n + 1}
       /\ \E g : Tracks(Slide(w, clock), g, C \cup {n + 1}, attempts', clock)
       /\ Cardinality(recent) = Len(Slide(w, clock))
  <2>1. Calls(attempts', k) = C \cup {n + 1}
    BY <1>1, <1>2, <1>4, CallsAppend
  <2>2. PICK f : Tracks(w, f, C, attempts, clock)
    BY <1>4 DEF BurstInv
  <2>3. \A j \in C : attempts[j] = attempts'[j]
    BY <1>5, <1>10
  <2>4. Tracks(w, f, C, attempts', clock)
    BY <2>2, <2>3, TracksAgree
  <2>5. n + 1 \notin C /\ C \cup {n + 1} \subseteq 1..(n + 1)
    BY <1>5, <1>10
  <2>6. /\ \A j \in C \cup {n + 1} : attempts'[j].now \in Int
        /\ \A j \in C : attempts'[j].now <= clock
        /\ attempts'[n + 1].now = clock
    BY <2>5, <1>2, <1>5, <1>6, <1>9
  <2> HIDE DEF C, n, w
  <2>7. /\ \E g : Tracks(Slide(w, clock), g, C \cup {n + 1}, attempts', clock)
        /\ Cardinality(Recent(attempts', C \cup {n + 1}, clock)) = Len(Slide(w, clock))
    BY <1>7, <1>8, <2>4, <2>5, <2>6, SlideTracks
  <2> QED BY <2>1, <2>7
<1>12. ASSUME NEW c \in Namespace \X Source
       PROVE  \E f : Tracks(window'[c], f, Calls(attempts', c), attempts', clock')
  <2>1. CASE c = k
    <3>1. window'[k] = Slide(w, clock)
      BY <1>4 DEF RecordWrite, TypeOK, k
    <3> QED BY <2>1, <3>1, <1>7, <1>11
  <2>2. CASE c # k
    <3>1. window'[c] = window[c]
      BY <2>2 DEF RecordWrite, TypeOK, k
    <3>2. ~(c[1] = e.ns /\ c[2] = e.src)
      BY <2>2, <1>2 DEF k
    <3>3. Calls(attempts', c) = Calls(attempts, c)
      BY <3>2, <1>1, CallsAppend
    <3>4. PICK f : Tracks(window[c], f, Calls(attempts, c), attempts, clock)
      BY DEF BurstInv
    <3>5. \A j \in Calls(attempts, c) : attempts[j] = attempts'[j]
      BY <1>5, <1>10
    <3>6. Tracks(window[c], f, Calls(attempts, c), attempts', clock)
      BY <3>4, <3>5, TracksAgree
    <3> QED BY <3>1, <3>3, <3>6, <1>7
  <2> QED BY <2>1, <2>2
<1>13. BurstsAreFlagged'
  <2> DEFINE Near(a, i) == {j \in 1..i : /\ a[j].ns = a[i].ns
                                        /\ a[j].src = a[i].src
                                        /\ a[i].now - a[j].now <= WindowSeconds}
  <2> SUFFICES ASSUME NEW i \in 1..(n + 1)
               PROVE  <<"write_rate", i>> \in findings'
                          <=> Cardinality(Near(attempts', i)) > MaxWrites
    BY <1>5 DEF BurstsAreFlagged
  <2>1. findings' = findings \cup Inspect(ns, src, Embed[text], n + 1)
    BY DEF RecordWrite
  <2>2. CASE i \in 1..n
    <3>1. i # n + 1 /\ 1..i \subseteq 1..n
      BY <2>2, <1>5
    <3>2. Near(attempts', i) = Near(attempts, i)
      BY <3>1, <2>2, <1>5
    <3>3. <<"write_rate", i>> \in findings
              <=> Cardinality(Near(attempts, i)) > MaxWrites
      BY <2>2 DEF BurstInv, BurstsAreFlagged
    <3>4. <<"write_rate", i>> \notin Inspect(ns, src, Embed[text], n + 1)
      BY <3>1 DEF Inspect
    <3> QED BY <2>1, <3>2, <3>3, <3>4
  <2>3. CASE i = n + 1
    <3>1. <<"write_rate", n + 1>> \notin findings
      <4>1. \A x \in findings : x[2] <= n
        BY DEF TypeOK
      <4> QED BY <4>1, <1>5
    <3>2. <<"write_rate", n + 1>> \in Finding
      <4>1. n + 1 \in 1..MaxAttempts
        BY <1>5, BoundAssumption DEF RecordWrite
      <4> QED BY <4>1 DEF Finding
    <3>3. <<"write_rate", n + 1>> \in Inspect(ns, src, Embed[text], n + 1)
              <=> Len(Slide(w, clock)) > MaxWrites
      BY <3>2 DEF Inspect, IsBurst, k
    <3>4. Near(attempts', n + 1) = recent
      <4>1. \A j : j \in C \cup {n + 1}
                <=> j \in 1..(n + 1) /\ attempts'[j].ns = ns /\ attempts'[j].src = src
        BY <1>4, <1>5, <1>11 DEF Calls
      <4>2. attempts'[n + 1].ns = ns /\ attempts'[n + 1].src = src
            /\ attempts'[n + 1].now = clock
        BY <1>2, <1>5
      <4> HIDE DEF C
      <4> QED BY <4>1, <4>2 DEF Recent
    <3> QED BY <2>1, <2>3, <3>1, <3>3, <3>4, <1>11
  <2> QED BY <2>2, <2>3, <1>5
<1> QED BY <1>5, <1>7, <1>9, <1>12, <1>13 DEF BurstInv

\* No other step disturbs the windows: a new process has none, and time that
\* passes takes nothing back.
LEMMA OtherStepBursts ==
    ASSUME TypeOK, TypeOK', BurstInv,
           ProfileStep \/ Stop \/ Tick \/ SetBack \/ OthersAppend \/ UNCHANGED vars
    PROVE  BurstInv'
<1>1. CASE attempts' = <<>>
  <2>1. BurstsAreFlagged' /\ \A j \in 1..Len(attempts') : attempts'[j].now <= clock'
    BY <1>1 DEF BurstsAreFlagged
  <2>2. engine' = Absent => steady'
    BY KeyAssumption DEF BurstInv, ProfileStep, Stop, Tick, SetBack, OthersAppend, vars, profileVars,
        processVars, Open, Loads, InitGenerates, InitCreates, InitWrites, InitStops
  <2>3. ASSUME NEW k \in Namespace \X Source, steady'
        PROVE  \E g : Tracks(window'[k], g, Calls(<<>>, k), <<>>, clock')
    <3>1. CASE Stop
      <4>1. window'[k] = <<>>
        BY <3>1 DEF Stop, NewWindow
      <4> QED BY <4>1, NoAttempts
    <3>2. CASE ~Stop
      <4>1. attempts = <<>> /\ window' = window
        BY <1>1, <3>2 DEF ProfileStep, Tick, SetBack, OthersAppend, vars, processVars
      <4>2. steady
        <5>1. CASE SetBack
          BY <5>1, <2>3 DEF SetBack, BurstInv
        <5>2. CASE ~SetBack
          BY <5>2, <3>2, <2>3 DEF ProfileStep, Tick, OthersAppend, vars, processVars
        <5> QED BY <5>1, <5>2
      <4>3. PICK f : Tracks(window[k], f, Calls(<<>>, k), <<>>, clock)
        BY <4>1, <4>2 DEF BurstInv
      <4> QED BY <4>1, <4>3, NoAttempts
    <3> QED BY <3>1, <3>2
  <2> QED BY <1>1, <2>1, <2>2, <2>3 DEF BurstInv
<1>2. CASE attempts' # <<>>
  <2>1. /\ attempts' = attempts /\ window' = window /\ findings' = findings
        /\ engine # Absent /\ engine' # Absent
    BY <1>2 DEF TypeOK, ProfileStep, Stop, Tick, SetBack, OthersAppend, vars, processVars
  <2>2. CASE ~steady'
    BY <2>1, <2>2 DEF BurstInv, BurstsAreFlagged
  <2>3. CASE steady'
    <3>1. steady /\ clock <= clock' /\ clock \in Int /\ clock' \in Int
      <4>1. ~SetBack
        BY <2>1, <2>3 DEF SetBack
      <4>2. clock \in Int /\ clock' \in Int
        BY BoundAssumption DEF TypeOK
      <4>3. CASE Tick
        BY <2>3, <4>2, <4>3 DEF Tick, processVars
      <4>4. CASE ProfileStep \/ OthersAppend \/ UNCHANGED vars
        <5>1. steady /\ clock' = clock
          BY <2>3, <4>4, Zenon DEF ProfileStep, OthersAppend, vars, processVars
        <5> QED BY <4>2, <5>1
      <4>5. ~Stop
        BY <1>2 DEF Stop
      <4> QED BY <4>1, <4>3, <4>4, <4>5
    <3>2. \A j \in 1..Len(attempts) : attempts[j].now \in Int /\ attempts[j].now <= clock
      <4>1. attempts \in Seq(Attempt)
        BY DEF TypeOK, Attempt
      <4>2. \A x \in Attempt : x.now \in Int
        BY BoundAssumption DEF Attempt
      <4>3. \A j \in 1..Len(attempts) : attempts[j].now \in Int
        BY <4>1, <4>2, ElementOfSeq
      <4> QED BY <4>3, <3>1 DEF BurstInv
    <3>3. \A j \in 1..Len(attempts') : attempts'[j].now <= clock'
      BY <2>1, <3>1, <3>2
    <3>4. ASSUME NEW k \in Namespace \X Source
          PROVE  \E f : Tracks(window'[k], f, Calls(attempts', k), attempts', clock')
      <4>1. PICK f : Tracks(window[k], f, Calls(attempts, k), attempts, clock)
        BY <3>1 DEF BurstInv
      <4>2. \A j \in Calls(attempts, k) : attempts[j].now \in Int
        BY <3>2 DEF Calls
      <4>3. Tracks(window[k], f, Calls(attempts, k), attempts, clock')
        BY <3>1, <4>1, <4>2, TracksLater
      <4> QED BY <2>1, <4>3
    <3>5. BurstsAreFlagged'
      BY <2>1, <2>3, <3>1 DEF BurstInv, BurstsAreFlagged
    <3> QED BY <2>1, <3>3, <3>4, <3>5 DEF BurstInv
  <2> QED BY <2>2, <2>3
<1> QED BY <1>1, <1>2

\* While the clock is not set back, a write is flagged exactly when its source
\* made more than MaxWrites attempts in its namespace within the window, for any
\* thresholds, sources and namespaces.
THEOREM BurstsAlwaysFlagged == Spec => []BurstsAreFlagged
<1>1. Init => BurstInv
  <2> SUFFICES ASSUME Init PROVE BurstInv
    OBVIOUS
  <2>1. attempts = <<>> /\ steady
    BY DEF Init
  <2>2. ASSUME NEW k \in Namespace \X Source
        PROVE  \E f : Tracks(window[k], f, Calls(<<>>, k), <<>>, clock)
    <3>1. window[k] = <<>>
      BY DEF Init, NewWindow
    <3> QED BY <3>1, NoAttempts
  <2> QED BY <2>1, <2>2 DEF BurstInv, BurstsAreFlagged
<1>2. TypeOK /\ TypeOK' /\ BurstInv /\ [Next]_vars => BurstInv'
  <2> SUFFICES ASSUME TypeOK, TypeOK', BurstInv, [Next]_vars PROVE BurstInv'
    OBVIOUS
  <2>1. CASE ProfileStep \/ Stop \/ Tick \/ SetBack \/ OthersAppend \/ UNCHANGED vars
    BY <2>1, OtherStepBursts
  <2>2. ASSUME NEW ns \in Namespace, NEW src \in Source, NEW text \in Text,
               NEW appended \in BOOLEAN, RecordWrite(ns, src, text, appended)
        PROVE  BurstInv'
    <3>1. CASE steady
      BY <2>2, <3>1, RecordWriteBursts
    <3>2. CASE ~steady
      BY <2>2, <3>2 DEF RecordWrite, BurstInv, BurstsAreFlagged
    <3> QED BY <3>1, <3>2
  <2> QED BY <2>1, <2>2 DEF Next
<1>3. BurstInv => BurstsAreFlagged
  BY DEF BurstInv
<1> QED BY <1>1, <1>2, <1>3, RecordingTypes, PTL DEF Spec

-----------------------------------------------------------------------------
(* Items at places *)

\* Induction over the naturals, from each number to the next.
LEMMA NextNumber ==
    ASSUME NEW T, 0 \in T, \A n \in Nat : n \in T => n + 1 \in T
    PROVE  \A n \in Nat : n \in T
<1> DEFINE Rest == {n \in Nat : n \notin T}
<1>1. SUFFICES ASSUME Rest # {} PROVE FALSE
  OBVIOUS
<1>2. PICK x \in Rest : \A y \in Rest : x <= y
  BY <1>1, LeastElement
<1>3. x # 0 /\ x - 1 \in Nat /\ x - 1 \notin Rest
  BY <1>2
<1>4. (x - 1) + 1 \in T
  BY <1>3
<1> QED BY <1>2, <1>3, <1>4

\* A set of places up to n is finite, and one more place adds one to it.
LEMMA OnePlaceMore ==
    ASSUME NEW n \in Nat, NEW I \in SUBSET (1..n)
    PROVE  /\ IsFiniteSet(I) /\ Cardinality(I) \in Nat
           /\ n + 1 \notin I
           /\ Cardinality(I \cup {n + 1}) = Cardinality(I) + 1
<1>1. IsFiniteSet(I)
  <2>1. IsFiniteSet(1..n)
    BY FS_Interval
  <2> QED BY <2>1, FS_Subset
<1>2. n + 1 \notin I
  OBVIOUS
<1> QED BY <1>1, <1>2, FS_CardinalityType, FS_AddElement

\* The place added comes last, and the ranks of the others stay.
LEMMA RankedWithOneMore ==
    ASSUME NEW n \in Nat, NEW I \in SUBSET (1..n)
    PROVE  /\ \A k \in 1..Cardinality(I) : Ranked(I \cup {n + 1}, k) = Ranked(I, k)
           /\ Ranked(I \cup {n + 1}, Cardinality(I) + 1) = {n + 1}
<1> DEFINE c == Cardinality(I)
           J == I \cup {n + 1}
           Rank(K, i) == Cardinality({j \in K : j <= i})
<1>1. /\ IsFiniteSet(I) /\ c \in Nat /\ n + 1 \notin I /\ Cardinality(J) = c + 1
  BY OnePlaceMore
<1>2. ASSUME NEW i \in I PROVE Rank(J, i) = Rank(I, i) /\ Rank(I, i) \in Nat /\ Rank(I, i) <= c
  <2>1. {j \in J : j <= i} = {j \in I : j <= i}
    OBVIOUS
  <2>2. {j \in I : j <= i} \subseteq I
    OBVIOUS
  <2> HIDE DEF J
  <2>3. Cardinality({j \in I : j <= i}) <= c
    BY <1>1, <2>2, FS_Subset
  <2>4. Cardinality({j \in I : j <= i}) \in Nat
    BY <1>1, <2>2, FS_Subset, FS_CardinalityType
  <2> QED BY <2>1, <2>3, <2>4
<1>3. Rank(J, n + 1) = c + 1
  <2>1. \A j \in J : j <= n + 1
    <3>1. \A j \in I : j <= n + 1
      OBVIOUS
    <3> QED BY <3>1
  <2> HIDE DEF J
  <2>2. {j \in J : j <= n + 1} = J
    BY <2>1
  <2> QED BY <1>1, <2>2
<1>4. \A k : Ranked(J, k) = {i \in J : Rank(J, i) = k} /\ Ranked(I, k) = {i \in I : Rank(I, i) = k}
  BY DEF Ranked
<1>5. J = I \cup {n + 1}
  OBVIOUS
<1> HIDE DEF c, J, Rank
<1>6. ASSUME NEW k \in 1..c PROVE Ranked(J, k) = Ranked(I, k)
  <2>1. k # c + 1
    BY <1>1
  <2>2. \A i : i \in J /\ Rank(J, i) = k <=> i \in I /\ Rank(I, i) = k
    BY <1>2, <1>3, <1>5, <2>1
  <2>3. {i \in J : Rank(J, i) = k} = {i \in I : Rank(I, i) = k}
    BY <2>2
  <2> QED BY <1>4, <2>3
<1>7. Ranked(J, c + 1) = {n + 1}
  <2>1. \A i \in I : Rank(J, i) # c + 1
    BY <1>1, <1>2
  <2> QED BY <1>3, <1>4, <1>5, <2>1
<1> QED BY <1>6, <1>7 DEF J, c

\* Every rank is some place's.
LEMMA RankedExists ==
    ASSUME NEW n \in Nat, NEW I \in SUBSET (1..n), NEW k \in 1..Cardinality(I)
    PROVE  Ranked(I, k) # {}
<1> DEFINE T == {m \in Nat : \A K \in SUBSET (1..m) : \A q \in 1..Cardinality(K) : Ranked(K, q) # {}}
<1>1. 0 \in T
  <2>1. \A K \in SUBSET (1..0) : K = {}
    OBVIOUS
  <2>2. Cardinality({}) = 0
    BY FS_EmptySet
  <2> QED BY <2>1, <2>2
<1>2. ASSUME NEW m \in Nat, m \in T PROVE m + 1 \in T
  <2> SUFFICES ASSUME NEW K \in SUBSET (1..(m + 1)), NEW q \in 1..Cardinality(K)
               PROVE  Ranked(K, q) # {}
    OBVIOUS
  <2>1. CASE m + 1 \notin K
    <3>1. K \in SUBSET (1..m)
      BY <2>1
    <3> QED BY <3>1, <1>2
  <2>2. CASE m + 1 \in K
    <3> DEFINE L == K \ {m + 1}
    <3>1. L \in SUBSET (1..m) /\ K = L \cup {m + 1}
      BY <2>2
    <3> HIDE DEF L
    <3>2. Cardinality(L) \in Nat /\ Cardinality(K) = Cardinality(L) + 1
      BY <3>1, OnePlaceMore
    <3>3. CASE q = Cardinality(L) + 1
      BY <3>1, <3>3, RankedWithOneMore
    <3>4. CASE q # Cardinality(L) + 1
      <4>1. q \in 1..Cardinality(L)
        BY <3>2, <3>4
      <4> QED BY <3>1, <4>1, <1>2, RankedWithOneMore
    <3> QED BY <3>3, <3>4
  <2> QED BY <2>1, <2>2
<1>3. n \in T
  <2> HIDE DEF T
  <2> QED BY <1>1, <1>2, NextNumber
<1> QED BY <1>3

\* The place of a rank.
PlaceOf(I, k) == CHOOSE i \in Ranked(I, k) : TRUE

\* It is one of the places.
LEMMA PlaceIsOne ==
    ASSUME NEW n \in Nat, NEW I \in SUBSET (1..n), NEW k \in 1..Cardinality(I)
    PROVE  PlaceOf(I, k) \in I
<1>1. PlaceOf(I, k) \in Ranked(I, k)
  BY RankedExists DEF PlaceOf
<1> QED BY <1>1 DEF Ranked

\* No places, no items.
LEMMA NoItems == ASSUME NEW s PROVE ItemsAt(s, {}) = <<>>
<1>1. Cardinality({}) = 0
  BY FS_EmptySet
<1> QED BY <1>1 DEF ItemsAt

\* Two sequences that agree at the places have the same items there.
LEMMA ItemsAgree ==
    ASSUME NEW n \in Nat, NEW I \in SUBSET (1..n), NEW s, NEW t, \A i \in I : s[i] = t[i]
    PROVE  ItemsAt(s, I) = ItemsAt(t, I)
<1>1. \A k \in 1..Cardinality(I) : s[PlaceOf(I, k)] = t[PlaceOf(I, k)]
  BY PlaceIsOne
<1> QED BY <1>1 DEF ItemsAt, PlaceOf

\* The items are as many as the places, and of the same kind.
LEMMA ItemsType ==
    ASSUME NEW n \in Nat, NEW I \in SUBSET (1..n), NEW s, NEW S, \A i \in I : s[i] \in S
    PROVE  ItemsAt(s, I) \in Seq(S) /\ Len(ItemsAt(s, I)) = Cardinality(I)
<1> DEFINE c == Cardinality(I)
           u == [k \in 1..c |-> s[PlaceOf(I, k)]]
<1>1. c \in Nat
  BY OnePlaceMore
<1>2. \A k \in 1..c : s[PlaceOf(I, k)] \in S
  BY PlaceIsOne
<1>3. ItemsAt(s, I) = u
  BY DEF ItemsAt, PlaceOf
<1> HIDE DEF c
<1>4. u \in Seq(S) /\ Len(u) = c
  BY <1>1, <1>2
<1> QED BY <1>3, <1>4 DEF c

\* One more place, after the others, adds its item at the end.
LEMMA ItemsWithOneMore ==
    ASSUME NEW n \in Nat, NEW I \in SUBSET (1..n), NEW s, NEW S,
           \A i \in I \cup {n + 1} : s[i] \in S
    PROVE  ItemsAt(s, I \cup {n + 1}) = Append(ItemsAt(s, I), s[n + 1])
<1> DEFINE c == Cardinality(I)
           J == I \cup {n + 1}
           u == ItemsAt(s, I)
           v == ItemsAt(s, J)
<1>1. c \in Nat /\ Cardinality(J) = c + 1
  BY OnePlaceMore
<1>2. u \in Seq(S) /\ Len(u) = c
  BY ItemsType
<1>3. v \in Seq(S) /\ Len(v) = c + 1
  <2>1. n + 1 \in Nat /\ J \in SUBSET (1..(n + 1)) /\ \A i \in J : s[i] \in S
    OBVIOUS
  <2> HIDE DEF J
  <2> QED BY <1>1, <2>1, ItemsType
<1>4. \A k \in 1..c : v[k] = s[PlaceOf(J, k)] /\ u[k] = s[PlaceOf(I, k)]
  BY <1>1 DEF ItemsAt, PlaceOf
<1>5. v[c + 1] = s[PlaceOf(J, c + 1)]
  BY <1>1 DEF ItemsAt, PlaceOf
<1>6. \A k \in 1..c : v[k] = u[k]
  <2>1. \A k \in 1..c : Ranked(J, k) = Ranked(I, k)
    BY RankedWithOneMore
  <2>2. \A k \in 1..c : PlaceOf(J, k) = PlaceOf(I, k)
    BY <2>1 DEF PlaceOf
  <2> HIDE DEF c, J, u, v
  <2> QED BY <1>4, <2>2
<1>7. v[c + 1] = s[n + 1]
  <2>1. Ranked(J, c + 1) = {n + 1}
    BY RankedWithOneMore
  <2>2. PlaceOf(J, c + 1) = n + 1
    BY <2>1 DEF PlaceOf
  <2> QED BY <1>5, <2>2
<1> DEFINE x == s[n + 1]
<1>8. x \in S
  OBVIOUS
<1> HIDE DEF c, u, v, x
<1>9. v = Append(u, x)
  <2>1. /\ Append(u, x) \in Seq(S) /\ Len(Append(u, x)) = c + 1
        /\ \A k \in 1..c : Append(u, x)[k] = u[k]
        /\ Append(u, x)[c + 1] = x
    BY <1>2, <1>8, AppendProperties
  <2>2. \A k \in 1..(c + 1) : v[k] = Append(u, x)[k]
    BY <1>1, <1>6, <1>7, <2>1 DEF x
  <2> QED BY <1>3, <2>1, <2>2, SeqEqual
<1> QED BY <1>9 DEF u, v, x

-----------------------------------------------------------------------------
(* Drift *)

Vector == Nat \X Nat

\* A vector remembered is a neighbour of those on its topic.
LEMMA NeighborsAppend ==
    ASSUME NEW w \in Seq(Vector), NEW x \in Vector, NEW v
    PROVE  /\ SameTopic(x, v) => Neighbors(Append(w, x), v) = Append(Neighbors(w, v), x)
           /\ ~SameTopic(x, v) => Neighbors(Append(w, x), v) = Neighbors(w, v)
<1> DEFINE n == Len(w)
           u == Append(w, x)
           I == {i \in 1..n : SameTopic(w[i], v)}
           J == {i \in 1..(n + 1) : SameTopic(u[i], v)}
<1>1. n \in Nat /\ n = Len(w)
  BY LenProperties
<1>2. (\A i \in 1..n : u[i] = w[i]) /\ u[n + 1] = x /\ Len(u) = n + 1 /\ u = Append(w, x)
  BY AppendProperties
<1> HIDE DEF n, u
<1>3. I \in SUBSET (1..n)
  OBVIOUS
<1>4. (SameTopic(x, v) => J = I \cup {n + 1}) /\ (~SameTopic(x, v) => J = I)
  <2>1. 1..(n + 1) = (1..n) \cup {n + 1}
    BY <1>1
  <2> QED BY <1>2, <2>1
<1>5. Neighbors(w, v) = ItemsAt(w, I) /\ Neighbors(u, v) = ItemsAt(u, J)
  BY <1>1, <1>2 DEF Neighbors
<1> HIDE DEF I, J
<1>6. \A i \in I : u[i] = w[i] /\ w[i] \in Vector /\ u[i] \in Vector
  <2>1. \A i \in 1..n : w[i] \in Vector
    BY <1>1, ElementOfSeq
  <2> QED BY <1>2, <1>3, <2>1
<1>7. ItemsAt(u, I) = ItemsAt(w, I)
  BY <1>1, <1>3, <1>6, ItemsAgree
<1>8. ItemsAt(u, I \cup {n + 1}) = Append(ItemsAt(u, I), u[n + 1])
  <2>1. \A i \in I \cup {n + 1} : u[i] \in Vector
    BY <1>2, <1>6
  <2> QED BY <1>1, <1>3, <2>1, ItemsWithOneMore
<1> QED BY <1>2, <1>4, <1>5, <1>7, <1>8 DEF u

\* A payload joins the consensus of the topics it is on if its source is trusted.
LEMMA TrustedVectorsAppend ==
    ASSUME NEW p \in Seq(Row), NEW e \in Row, NEW t \in Text
    PROVE  /\ e.src \in TrustedSource /\ SameTopic(Embed[t], Embed[e.text])
                => TrustedVectors(Append(p, e), t) = Append(TrustedVectors(p, t), Embed[e.text])
           /\ ~(e.src \in TrustedSource /\ SameTopic(Embed[t], Embed[e.text]))
                => TrustedVectors(Append(p, e), t) = TrustedVectors(p, t)
<1> DEFINE n == Len(p)
           q == Append(p, e)
           Joins(y) == SameTopic(Embed[t], Embed[y.text]) /\ y.src \in TrustedSource
           I == {i \in 1..n : Joins(p[i])}
           J == {i \in 1..(n + 1) : Joins(q[i])}
           before == [i \in 1..n |-> Embed[p[i].text]]
           after == [i \in 1..(n + 1) |-> Embed[q[i].text]]
<1>1. n \in Nat /\ n = Len(p) /\ n + 1 \in 1..(n + 1) /\ 1..(n + 1) = (1..n) \cup {n + 1}
  BY LenProperties
<1>2. /\ \A i \in 1..n : q[i] = p[i] /\ p[i] \in Row
      /\ q[n + 1] = e /\ Len(q) = n + 1
  BY AppendProperties, ElementOfSeq
<1>3. \A y \in Row : Embed[y.text] \in Vector
  BY EmbedAssumption DEF Row, Vector
<1> HIDE DEF n, q
<1>4. I \in SUBSET (1..n)
  OBVIOUS
<1>5. (Joins(e) => J = I \cup {n + 1}) /\ (~Joins(e) => J = I)
  <2> HIDE DEF Joins
  <2> QED BY <1>1, <1>2
<1>6. TrustedVectors(p, t) = ItemsAt(before, I) /\ TrustedVectors(q, t) = ItemsAt(after, J)
  <2>1. I = {i \in Cluster(p, t) : p[i].src \in TrustedSource}
    BY <1>1 DEF Cluster
  <2>2. J = {i \in Cluster(q, t) : q[i].src \in TrustedSource}
    BY <1>2 DEF Cluster
  <2> HIDE DEF I, J
  <2> QED BY <1>1, <1>2, <2>1, <2>2 DEF TrustedVectors
<1>7. \A i \in 1..n : after[i] = before[i] /\ after[i] \in Vector
  BY <1>1, <1>2, <1>3
<1>8. after[n + 1] = Embed[e.text] /\ after[n + 1] \in Vector
  BY <1>1, <1>2, <1>3
<1> HIDE DEF before, after, I, J
<1>9. ItemsAt(after, I) = ItemsAt(before, I)
  <2>1. \A i \in I : after[i] = before[i]
    BY <1>4, <1>7
  <2> QED BY <1>1, <1>4, <2>1, ItemsAgree
<1>10. ItemsAt(after, I \cup {n + 1}) = Append(ItemsAt(after, I), after[n + 1])
  <2>1. \A i \in I \cup {n + 1} : after[i] \in Vector
    BY <1>4, <1>7, <1>8
  <2> QED BY <1>1, <1>4, <2>1, ItemsWithOneMore
<1> QED BY <1>5, <1>6, <1>8, <1>9, <1>10 DEF q

\* Two vectors are on each other's topic.
LEMMA SameTopicSymmetric ==
    ASSUME NEW v \in Vector, NEW w \in Vector
    PROVE  SameTopic(v, w) <=> SameTopic(w, v)
<1>1. v[1] \in Nat /\ v[2] \in Nat /\ w[1] \in Nat /\ w[2] \in Nat
  BY DEF Vector
<1>2. Dot(v, w) = Dot(w, v)
  <2>1. v[1] * w[1] = w[1] * v[1] /\ v[2] * w[2] = w[2] * v[2]
    BY <1>1
  <2> QED BY <2>1 DEF Dot
<1> QED BY <1>2 DEF SameTopic

\* A content with a vector is on its own topic, and nothing is on that of one
\* without.
LEMMA OwnTopic ==
    ASSUME NEW t \in Text
    PROVE  \/ SameTopic(Embed[t], Embed[t])
           \/ \A w \in Vector : ~SameTopic(w, Embed[t])
<1> DEFINE v == Embed[t]
           N == Norm * Norm
<1>1. v \in Vector /\ Dot(v, v) \in {0, N} /\ Norm \in Nat /\ Norm >= 1
  BY EmbedAssumption DEF Vector
<1>2. N \in Nat /\ N >= 1
  <2>1. (Norm - 1) * (Norm - 1) >= 0 /\ (Norm - 1) * (Norm - 1) = N - 2 * Norm + 1 /\ N \in Nat
    BY <1>1
  <2> QED BY <1>1, <2>1
<1>3. v[1] \in Nat /\ v[2] \in Nat
  BY <1>1 DEF Vector
<1> HIDE DEF v, N
<1>4. CASE Dot(v, v) = N
  BY <1>2, <1>4 DEF SameTopic, N, v
<1>5. CASE Dot(v, v) = 0
  <2>1. v[1] * v[1] + v[2] * v[2] = 0
    BY <1>5 DEF Dot
  <2>2. v[1] = 0 /\ v[2] = 0
    <3>1. \A x \in Nat : x * x >= 0 /\ (x >= 1 => x * x >= 1)
      <4> SUFFICES ASSUME NEW x \in Nat PROVE x * x >= 0 /\ (x >= 1 => x * x >= 1)
        OBVIOUS
      <4>1. x >= 1 => (x - 1) * (x - 1) >= 0 /\ (x - 1) * (x - 1) = x * x - 2 * x + 1
        OBVIOUS
      <4> QED BY <4>1
    <3> DEFINE x == v[1]
               y == v[2]
    <3>2. x \in Nat /\ y \in Nat /\ x * x + y * y = 0
      BY <1>3, <2>1
    <3> HIDE DEF x, y
    <3>3. x * x \in Nat /\ y * y \in Nat
      BY <3>2
    <3>4. x * x < 1 /\ y * y < 1
      BY <3>2, <3>3
    <3>5. x = 0 /\ y = 0
      BY <3>1, <3>2, <3>4
    <3> QED BY <3>5 DEF x, y
  <2>3. ASSUME NEW w \in Vector PROVE ~SameTopic(w, v)
    <3>1. w[1] \in Nat /\ w[2] \in Nat
      BY DEF Vector
    <3>2. Dot(w, v) = 0
      BY <2>2, <3>1 DEF Dot
    <3> QED BY <1>2, <3>2 DEF SameTopic, N
  <2> QED BY <2>3 DEF v
<1> QED BY <1>1, <1>4, <1>5

\* The whole of a sequence, as a part of it.
LEMMA WholeSequence ==
    ASSUME NEW S, NEW s \in Seq(S)
    PROVE  SubSeq(s, 1, Len(s)) = s
<1> DEFINE n == Len(s)
           x == SubSeq(s, 1, n)
<1>1. n \in Nat /\ n = Len(s) /\ \A i \in 1..n : s[i] \in S
  BY ElementOfSeq
<1> HIDE DEF n
<1>2. /\ x \in Seq(S) /\ Len(x) = IF 1 <= n THEN n - 1 + 1 ELSE 0
      /\ \A i \in 1..(n - 1 + 1) : x[i] = s[1 + i - 1]
  BY <1>1, SubSeqProperties
<1>3. Len(x) = n /\ \A i \in 1..n : x[i] = s[i]
  BY <1>1, <1>2
<1> HIDE DEF x
<1>4. x = s
  BY <1>1, <1>2, <1>3, SeqEqual
<1> QED BY <1>4 DEF x, n

\* A write from a trusted source on a topic: one that joins its consensus.
Joins(y, t) == y.src \in TrustedSource /\ SameTopic(Embed[y.text], Embed[t])

\* The places of those among the first n attempts in a namespace, and of those
\* among the first n rows of a ledger.
Seen(a, n, ns, t) == {a[j].row : j \in {k \in 1..n : a[k].ns = ns /\ Joins(a[k], t)}}

Kept(l, n, t) == {k \in 1..n : Joins(l[k], t)}

\* What the property says of one attempt.
Agrees(a, l, f, i) ==
    a[i].row # 0 /\ Seen(a, i, a[i].ns, a[i].text) = Kept(l, a[i].row, a[i].text) =>
        (<<"drift", i>> \in f <=> a[i].row \in drift(SubSeq(l, 1, a[i].row), a[i].text))

\* The property says it of every attempt.
LEMMA DriftByAttempt ==
    DriftDiffersByMemory <=> \A i \in 1..Len(attempts) : Agrees(attempts, ledger, findings, i)
<1>1. ASSUME NEW i \in 1..Len(attempts)
      PROVE  /\ Remembered(i) = Seen(attempts, i, attempts[i].ns, attempts[i].text)
             /\ Recorded(i) = Kept(ledger, attempts[i].row, attempts[i].text)
  BY DEF Remembered, Recorded, Seen, Kept, Joins
<1> QED BY <1>1 DEF DriftDiffersByMemory, Agrees

\* One more row changes nothing below it, and joins the topics it is on.
LEMMA KeptAppend ==
    ASSUME NEW l \in Seq(Row), NEW e \in Row
    PROVE  /\ \A i \in 0..Len(l), t \in Text : Kept(Append(l, e), i, t) = Kept(l, i, t)
           /\ \A i \in 0..Len(l) : SubSeq(Append(l, e), 1, i) = SubSeq(l, 1, i)
           /\ \A t \in Text : Joins(e, t) => Kept(Append(l, e), Len(l) + 1, t)
                                                 = Kept(l, Len(l), t) \cup {Len(l) + 1}
           /\ \A t \in Text : ~Joins(e, t) => Kept(Append(l, e), Len(l) + 1, t)
                                                 = Kept(l, Len(l), t)
<1> DEFINE n == Len(l)
           u == Append(l, e)
<1>1. /\ n \in Nat /\ n = Len(l) /\ u \in Seq(Row) /\ Len(u) = n + 1
      /\ u[n + 1] = e /\ \A i \in 1..n : u[i] = l[i]
  BY AppendProperties
<1>2. \A i \in 1..n : l[i] \in Row /\ u[i] \in Row
  BY <1>1, ElementOfSeq
<1> HIDE DEF n, u
<1>3. ASSUME NEW i \in 0..n, NEW t \in Text PROVE Kept(u, i, t) = Kept(l, i, t)
  <2>1. \A j \in 1..i : u[j] = l[j]
    BY <1>1
  <2> QED BY <2>1 DEF Kept
<1>4. ASSUME NEW i \in 0..n PROVE SubSeq(u, 1, i) = SubSeq(l, 1, i)
  <2>1. \A j \in 1..i : l[j] \in Row /\ u[j] \in Row /\ u[j] = l[j]
    BY <1>1, <1>2
  <2>2. /\ SubSeq(u, 1, i) \in Seq(Row) /\ SubSeq(l, 1, i) \in Seq(Row)
        /\ Len(SubSeq(u, 1, i)) = i /\ Len(SubSeq(l, 1, i)) = i
        /\ \A j \in 1..i : SubSeq(u, 1, i)[j] = u[j] /\ SubSeq(l, 1, i)[j] = l[j]
    <3>1. /\ SubSeq(u, 1, i) \in Seq(Row)
          /\ Len(SubSeq(u, 1, i)) = IF 1 <= i THEN i - 1 + 1 ELSE 0
          /\ \A j \in 1..(i - 1 + 1) : SubSeq(u, 1, i)[j] = u[1 + j - 1]
      BY <2>1, SubSeqProperties
    <3>2. /\ SubSeq(l, 1, i) \in Seq(Row)
          /\ Len(SubSeq(l, 1, i)) = IF 1 <= i THEN i - 1 + 1 ELSE 0
          /\ \A j \in 1..(i - 1 + 1) : SubSeq(l, 1, i)[j] = l[1 + j - 1]
      BY <2>1, SubSeqProperties
    <3> QED BY <3>1, <3>2
  <2> DEFINE x == SubSeq(u, 1, i)
             y == SubSeq(l, 1, i)
  <2>3. \A j \in 1..i : x[j] = y[j]
    BY <2>1, <2>2
  <2> HIDE DEF x, y
  <2>4. x = y
    BY <2>2, <2>3, SeqEqual DEF x, y
  <2> QED BY <2>4 DEF x, y
<1>5. 1..(n + 1) = (1..n) \cup {n + 1}
  BY <1>1
<1>6. ASSUME NEW t \in Text
      PROVE  /\ Joins(e, t) => Kept(u, n + 1, t) = Kept(l, n, t) \cup {n + 1}
             /\ ~Joins(e, t) => Kept(u, n + 1, t) = Kept(l, n, t)
  BY <1>1, <1>5 DEF Kept
<1> QED BY <1>3, <1>4, <1>6 DEF n, u

\* One more attempt changes nothing below it, and joins the topics it is on in
\* its own namespace.
LEMMA SeenAppend ==
    ASSUME NEW a \in Seq(Attempt), NEW e \in Attempt
    PROVE  /\ \A i \in 0..Len(a), ns \in Namespace, t \in Text :
                  Seen(Append(a, e), i, ns, t) = Seen(a, i, ns, t)
           /\ \A ns \in Namespace, t \in Text :
                  e.ns = ns /\ Joins(e, t) => Seen(Append(a, e), Len(a) + 1, ns, t)
                                                  = Seen(a, Len(a), ns, t) \cup {e.row}
           /\ \A ns \in Namespace, t \in Text :
                  ~(e.ns = ns /\ Joins(e, t)) => Seen(Append(a, e), Len(a) + 1, ns, t)
                                                     = Seen(a, Len(a), ns, t)
<1> DEFINE n == Len(a)
           u == Append(a, e)
<1>1. /\ n \in Nat /\ n = Len(a) /\ u[n + 1] = e /\ \A i \in 1..n : u[i] = a[i]
  BY AppendProperties
<1> HIDE DEF n, u
<1>2. ASSUME NEW i \in 0..n, NEW ns \in Namespace, NEW t \in Text
      PROVE  Seen(u, i, ns, t) = Seen(a, i, ns, t)
  <2>1. \A j \in 1..i : u[j] = a[j]
    BY <1>1
  <2> QED BY <2>1 DEF Seen
<1>3. 1..(n + 1) = (1..n) \cup {n + 1}
  BY <1>1
<1>4. ASSUME NEW ns \in Namespace, NEW t \in Text
      PROVE  /\ e.ns = ns /\ Joins(e, t) => Seen(u, n + 1, ns, t) = Seen(a, n, ns, t) \cup {e.row}
             /\ ~(e.ns = ns /\ Joins(e, t)) => Seen(u, n + 1, ns, t) = Seen(a, n, ns, t)
  <2> DEFINE I == {k \in 1..n : a[k].ns = ns /\ Joins(a[k], t)}
             J == {k \in 1..(n + 1) : u[k].ns = ns /\ Joins(u[k], t)}
  <2>1. /\ e.ns = ns /\ Joins(e, t) => J = I \cup {n + 1}
        /\ ~(e.ns = ns /\ Joins(e, t)) => J = I
    BY <1>1, <1>3
  <2>2. \A k \in I : u[k] = a[k]
    BY <1>1
  <2>3. Seen(a, n, ns, t) = {a[k].row : k \in I} /\ Seen(u, n + 1, ns, t) = {u[k].row : k \in J}
    BY DEF Seen
  <2> HIDE DEF I, J
  <2> QED BY <1>1, <2>1, <2>2, <2>3
<1> QED BY <1>2, <1>4 DEF n, u

\* A process that remembers, on some topic and in some namespace, exactly what
\* the ledger holds compares with what the query compares with: the same vectors,
\* in the same order.
SameConsensus ==
    \A ns \in Namespace, t \in Text :
        Seen(attempts, Len(attempts), ns, t) = Kept(ledger, Len(ledger), t)
            => Neighbors(trusted[ns], Embed[t]) = TrustedVectors(ledger, t)

DriftInv == SameConsensus /\ DriftDiffersByMemory

\* The places remembered are places of the ledger, or 0.
LEMMA PlacesInLedger ==
    ASSUME TypeOK
    PROVE  /\ ledger \in Seq(Row) /\ attempts \in Seq(Attempt) /\ Len(ledger) \in Nat
           /\ \A i \in 1..Len(attempts) :
                  attempts[i] \in Attempt /\ attempts[i].row \in 0..Len(ledger)
           /\ \A ns \in Namespace, t \in Text :
                  Seen(attempts, Len(attempts), ns, t) \subseteq 0..Len(ledger)
           /\ \A t \in Text : Kept(ledger, Len(ledger), t) \subseteq 1..Len(ledger)
<1>1. ledger \in Seq(Row) /\ attempts \in Seq(Attempt) /\ Len(ledger) \in Nat
  BY DEF TypeOK, Attempt
<1>2. \A y \in Attempt : y.row \in Nat
  BY DEF Attempt
<1>3. ASSUME NEW i \in 1..Len(attempts)
      PROVE  attempts[i] \in Attempt /\ attempts[i].row \in 0..Len(ledger)
  <2>1. attempts[i] \in Attempt
    BY <1>1, ElementOfSeq
  <2>2. attempts[i].row <= Len(ledger)
    BY DEF TypeOK
  <2> QED BY <1>1, <1>2, <2>1, <2>2
<1>4. \A ns \in Namespace, t \in Text :
          Seen(attempts, Len(attempts), ns, t) \subseteq 0..Len(ledger)
  BY <1>3 DEF Seen
<1>5. \A t \in Text : Kept(ledger, Len(ledger), t) \subseteq 1..Len(ledger)
  BY DEF Kept
<1> QED BY <1>1, <1>3, <1>4, <1>5

\* A row of anybody joins the consensus of the query.
LEMMA ConsensusAppend ==
    ASSUME NEW l \in Seq(Row), NEW e \in Row, NEW t \in Text
    PROVE  /\ Joins(e, t) => TrustedVectors(Append(l, e), t)
                                 = Append(TrustedVectors(l, t), Embed[e.text])
           /\ ~Joins(e, t) => TrustedVectors(Append(l, e), t) = TrustedVectors(l, t)
<1>1. Embed[e.text] \in Vector /\ Embed[t] \in Vector
  BY EmbedAssumption DEF Row, Vector
<1>2. Joins(e, t) <=> e.src \in TrustedSource /\ SameTopic(Embed[t], Embed[e.text])
  BY <1>1, SameTopicSymmetric DEF Joins
<1> QED BY <1>2, TrustedVectorsAppend

\* What the process remembers stays the consensus when it writes.
LEMMA RecordWriteConsensus ==
    ASSUME TypeOK, SameConsensus,
           NEW ns \in Namespace, NEW src \in Source, NEW text \in Text,
           NEW appended \in BOOLEAN, RecordWrite(ns, src, text, appended)
    PROVE  SameConsensus'
<1> DEFINE n == Len(ledger)
           r == [src |-> src, text |-> text]
           e == [ns |-> ns, src |-> src, text |-> text, now |-> clock,
                 row |-> IF appended THEN n + 1 ELSE 0]
           x == Embed[text]
<1>1. /\ ledger \in Seq(Row) /\ attempts \in Seq(Attempt) /\ n \in Nat
      /\ \A m \in Namespace, t \in Text :
             Seen(attempts, Len(attempts), m, t) \subseteq 0..n
      /\ \A t \in Text : Kept(ledger, n, t) \subseteq 1..n
  BY PlacesInLedger
<1>2. e \in Attempt /\ attempts' = Append(attempts, e) /\ r \in Row
      /\ ledger' = IF appended THEN Append(ledger, r) ELSE ledger
  BY <1>1 DEF TypeOK, RecordWrite, Attempt, Row
<1>3. /\ e.ns = ns /\ e.row = IF appended THEN n + 1 ELSE 0
      /\ Embed[r.text] = x
      /\ \A t \in Text : (Joins(e, t) <=> Joins(r, t))
                         /\ (Joins(r, t) <=> src \in TrustedSource /\ SameTopic(x, Embed[t]))
  BY DEF Joins
<1>4. x \in Vector /\ \A m \in Namespace : trusted[m] \in Seq(Vector)
  BY EmbedAssumption DEF TypeOK, Vector
<1>5. /\ src \in TrustedSource => trusted'[ns] = Append(trusted[ns], x)
      /\ src \notin TrustedSource => trusted'[ns] = trusted[ns]
      /\ \A m \in Namespace : m # ns => trusted'[m] = trusted[m]
  BY DEF TypeOK, RecordWrite, Remember
<1>6. Len(attempts') = Len(attempts) + 1 /\ (appended => Len(ledger') = n + 1)
  <2> HIDE DEF e, r, n
  <2> QED BY <1>1, <1>2, AppendProperties DEF n
<1> HIDE DEF e, r, x, n
<1> SUFFICES ASSUME NEW m \in Namespace, NEW t \in Text,
                    Seen(attempts', Len(attempts'), m, t) = Kept(ledger', Len(ledger'), t)
             PROVE  Neighbors(trusted'[m], Embed[t]) = TrustedVectors(ledger', t)
  BY DEF SameConsensus
<1> DEFINE S == Seen(attempts, Len(attempts), m, t)
           K == Kept(ledger, n, t)
<1>7. S = K => Neighbors(trusted[m], Embed[t]) = TrustedVectors(ledger, t)
  BY DEF SameConsensus, n
<1>8. S \subseteq 0..n /\ K \subseteq 1..n
  BY <1>1
<1>9. /\ m = ns /\ Joins(r, t) => Seen(attempts', Len(attempts'), m, t) = S \cup {e.row}
      /\ ~(m = ns /\ Joins(r, t)) => Seen(attempts', Len(attempts'), m, t) = S
  BY <1>1, <1>2, <1>3, <1>6, SeenAppend
<1>10. /\ appended /\ Joins(r, t) => Kept(ledger', Len(ledger'), t) = K \cup {n + 1}
       /\ ~(appended /\ Joins(r, t)) => Kept(ledger', Len(ledger'), t) = K
  BY <1>1, <1>2, <1>6, KeptAppend DEF n
<1>11. /\ appended /\ Joins(r, t)
             => TrustedVectors(ledger', t) = Append(TrustedVectors(ledger, t), x)
       /\ ~(appended /\ Joins(r, t)) => TrustedVectors(ledger', t) = TrustedVectors(ledger, t)
  BY <1>1, <1>2, <1>3, ConsensusAppend
<1>12. /\ m = ns /\ Joins(r, t) => Neighbors(trusted'[m], Embed[t])
                                       = Append(Neighbors(trusted[m], Embed[t]), x)
       /\ ~(m = ns /\ Joins(r, t)) => Neighbors(trusted'[m], Embed[t])
                                          = Neighbors(trusted[m], Embed[t])
  <2>1. CASE m # ns
    BY <1>5, <2>1
  <2>2. CASE m = ns /\ src \notin TrustedSource
    BY <1>3, <1>5, <2>2
  <2>3. CASE m = ns /\ src \in TrustedSource
    <3>1. trusted'[m] = Append(trusted[m], x)
      BY <1>5, <2>3
    <3>2. Joins(r, t) <=> SameTopic(x, Embed[t])
      BY <1>3, <2>3
    <3>3. /\ SameTopic(x, Embed[t]) => Neighbors(Append(trusted[m], x), Embed[t])
                                           = Append(Neighbors(trusted[m], Embed[t]), x)
          /\ ~SameTopic(x, Embed[t]) => Neighbors(Append(trusted[m], x), Embed[t])
                                            = Neighbors(trusted[m], Embed[t])
      BY <1>4, NeighborsAppend
    <3> QED BY <2>3, <3>1, <3>2, <3>3, Zenon
  <2> QED BY <2>1, <2>2, <2>3
<1> HIDE DEF S, K
<1>13. CASE ~Joins(r, t)
  BY <1>7, <1>9, <1>10, <1>11, <1>12, <1>13
<1>14. CASE Joins(r, t) /\ m # ns
  <2>1. ~appended
    BY <1>1, <1>8, <1>9, <1>10, <1>14
  <2> QED BY <1>7, <1>9, <1>10, <1>11, <1>12, <1>14, <2>1
<1>15. CASE Joins(r, t) /\ m = ns
  <2>1. appended
    <3> SUFFICES ASSUME ~appended PROVE FALSE
      OBVIOUS
    <3>1. 0 \in K
      BY <1>3, <1>9, <1>10, <1>15
    <3> QED BY <1>1, <1>8, <3>1
  <2>2. S \cup {n + 1} = K \cup {n + 1}
    BY <1>3, <1>9, <1>10, <1>15, <2>1
  <2>3. n + 1 \notin S /\ n + 1 \notin K
    BY <1>1, <1>8
  <2>4. S = K
    BY <2>2, <2>3
  <2> QED BY <1>7, <1>11, <1>12, <1>15, <2>1, <2>4
<1> QED BY <1>13, <1>14, <1>15

\* The detector flags a write that is appended exactly when the query, asked
\* after it, reports it, if the two compare it with the same writes.
LEMMA FlagsAsQuery ==
    ASSUME TypeOK, SameConsensus,
           NEW ns \in Namespace, NEW src \in Source, NEW text \in Text,
           NEW r \in Row, r.src = src, r.text = text,
           NEW l, l = Append(ledger, r),
           src \notin TrustedSource
               => Seen(attempts, Len(attempts), ns, text) = Kept(ledger, Len(ledger), text)
    PROVE  FlagsDrift(trusted[ns], src, Embed[text]) <=> Len(l) \in drift(l, text)
<1> DEFINE v == Embed[text]
           c == TrustedVectors(l, text)
           N == Neighbors(trusted[ns], v)
<1>1. ledger \in Seq(Row)
  BY DEF TypeOK
<1>2. Len(l) \in 1..Len(l) /\ l[Len(l)] = r
  BY <1>1, AppendProperties
<1>3. Len(l) \in drift(l, text)
          <=> SameTopic(v, v) /\ src \notin TrustedSource /\ c # <<>> /\ Contradicts(v, c)
  BY <1>2 DEF drift, Cluster
<1>4. FlagsDrift(trusted[ns], src, v)
          <=> src \notin TrustedSource /\ N # <<>> /\ Contradicts(v, N)
  BY DEF FlagsDrift
<1>5. src \notin TrustedSource => c = N
  <2>1. src \notin TrustedSource
            => TrustedVectors(Append(ledger, r), text) = TrustedVectors(ledger, text)
    BY <1>1, TrustedVectorsAppend
  <2> QED BY <2>1 DEF SameConsensus
<1>6. SameTopic(v, v) \/ N = <<>>
  <2>1. CASE SameTopic(v, v)
    BY <2>1
  <2>2. CASE ~SameTopic(v, v)
    <3> DEFINE w == trusted[ns]
               I == {i \in 1..Len(w) : SameTopic(w[i], v)}
    <3>1. \A y \in Vector : ~SameTopic(y, v)
      BY <2>2, OwnTopic
    <3>2. w \in Seq(Vector)
      BY DEF TypeOK, Vector
    <3> HIDE DEF w, v
    <3>3. I = {}
      BY <3>1, <3>2, ElementOfSeq
    <3>4. N = ItemsAt(w, {})
      BY <3>3 DEF Neighbors, w
    <3> QED BY <3>4, NoItems
  <2> QED BY <2>1, <2>2
<1> HIDE DEF v, c, N
<1> QED BY <1>3, <1>4, <1>5, <1>6 DEF v

\* What holds of an attempt stays when rows are added to the ledger.
LEMMA AgreesLater ==
    ASSUME TypeOK, NEW i \in 1..Len(attempts), NEW r \in Row, NEW l,
           l = ledger \/ l = Append(ledger, r),
           Agrees(attempts, ledger, findings, i)
    PROVE  Agrees(attempts, l, findings, i)
<1>1. /\ ledger \in Seq(Row)
      /\ attempts[i] \in Attempt /\ attempts[i].row \in 0..Len(ledger)
  BY PlacesInLedger
<1>2. attempts[i].text \in Text
  BY <1>1 DEF Attempt
<1>3. \A j \in 0..Len(ledger), t \in Text :
          SubSeq(l, 1, j) = SubSeq(ledger, 1, j) /\ Kept(l, j, t) = Kept(ledger, j, t)
  <2>1. CASE l = ledger
    BY <2>1
  <2>2. CASE l = Append(ledger, r)
    BY <1>1, <2>2, KeptAppend
  <2> QED BY <2>1, <2>2
<1>4. /\ SubSeq(l, 1, attempts[i].row) = SubSeq(ledger, 1, attempts[i].row)
      /\ Kept(l, attempts[i].row, attempts[i].text)
             = Kept(ledger, attempts[i].row, attempts[i].text)
  BY <1>1, <1>2, <1>3
<1> QED BY <1>4 DEF Agrees

\* A write that is appended is flagged as the query would report it, and the
\* writes before it stay as they are.
LEMMA RecordWriteDrift ==
    ASSUME TypeOK, TypeOK', DriftInv,
           NEW ns \in Namespace, NEW src \in Source, NEW text \in Text,
           NEW appended \in BOOLEAN, RecordWrite(ns, src, text, appended)
    PROVE  DriftInv'
<1> DEFINE k == Len(ledger)
           r == [src |-> src, text |-> text]
           e == [ns |-> ns, src |-> src, text |-> text, now |-> clock,
                 row |-> IF appended THEN k + 1 ELSE 0]
           n == Len(attempts)
<1>1. SameConsensus'
  BY RecordWriteConsensus DEF DriftInv
<1>2. /\ attempts \in Seq(Attempt) /\ ledger \in Seq(Row) /\ k \in Nat
      /\ e \in Attempt /\ attempts' = Append(attempts, e) /\ r \in Row
      /\ ledger' = IF appended THEN Append(ledger, r) ELSE ledger
  BY PlacesInLedger DEF TypeOK, RecordWrite, Attempt, Row
<1>3. /\ e.ns = ns /\ e.src = src /\ e.text = text /\ r.src = src /\ r.text = text
      /\ e.row = IF appended THEN k + 1 ELSE 0
      /\ \A t \in Text : Joins(e, t) <=> Joins(r, t)
  BY DEF Joins
<1> HIDE DEF e, r, k
<1>4. /\ n \in Nat /\ Len(attempts') = n + 1
      /\ \A j \in 1..n : attempts'[j] = attempts[j]
      /\ attempts'[n + 1] = e
  BY <1>2, AppendProperties
<1>5. findings' = findings \cup Inspect(ns, src, Embed[text], n + 1)
  BY DEF RecordWrite
<1>6. ASSUME NEW i \in 1..n PROVE Agrees(attempts', ledger', findings', i)
  <2>1. i # n + 1
    BY <1>4
  <2>2. <<"drift", i>> \notin Inspect(ns, src, Embed[text], n + 1)
    BY <2>1 DEF Inspect
  <2>3. Agrees(attempts, ledger, findings, i)
    BY DriftByAttempt DEF DriftInv
  <2>4. Agrees(attempts, ledger', findings, i)
    BY <1>2, <2>3, AgreesLater
  <2>5. /\ attempts'[i] = attempts[i]
        /\ attempts[i].ns \in Namespace /\ attempts[i].text \in Text
    BY <1>4, PlacesInLedger DEF Attempt
  <2>6. Seen(attempts', i, attempts[i].ns, attempts[i].text)
            = Seen(attempts, i, attempts[i].ns, attempts[i].text)
    <3>1. i \in 0..Len(attempts)
      BY <1>4
    <3> QED BY <1>2, <2>5, <3>1, SeenAppend
  <2> HIDE DEF n
  <2> QED BY <1>5, <2>2, <2>4, <2>5, <2>6 DEF Agrees
<1>7. Agrees(attempts', ledger', findings', n + 1)
  <2> SUFFICES ASSUME e.row # 0,
                      Seen(attempts', n + 1, ns, text) = Kept(ledger', e.row, text)
               PROVE  <<"drift", n + 1>> \in findings'
                          <=> e.row \in drift(SubSeq(ledger', 1, e.row), text)
    BY <1>3, <1>4 DEF Agrees
  <2>1. appended /\ e.row = k + 1 /\ ledger' = Append(ledger, r)
    BY <1>2, <1>3
  <2>2. ledger' \in Seq(Row) /\ Len(ledger') = k + 1
    BY <1>2, <2>1, AppendProperties DEF k
  <2>3. SubSeq(ledger', 1, e.row) = ledger'
    BY <2>1, <2>2, WholeSequence
  <2>4. <<"drift", n + 1>> \notin findings
    <3>1. \A y \in findings : y[2] <= n
      BY DEF TypeOK
    <3> QED BY <3>1, <1>4
  <2>5. <<"drift", n + 1>> \in Finding
    <3>1. n + 1 \in 1..MaxAttempts
      BY <1>4, BoundAssumption DEF RecordWrite
    <3> QED BY <3>1 DEF Finding
  <2>6. <<"drift", n + 1>> \in Inspect(ns, src, Embed[text], n + 1)
            <=> FlagsDrift(trusted[ns], src, Embed[text])
    BY <2>5 DEF Inspect
  <2>7. src \notin TrustedSource
            => Seen(attempts, n, ns, text) = Kept(ledger, k, text)
    <3> SUFFICES ASSUME src \notin TrustedSource
                 PROVE  Seen(attempts, n, ns, text) = Kept(ledger, k, text)
      OBVIOUS
    <3>1. ~Joins(r, text) /\ ~Joins(e, text)
      BY <1>3 DEF Joins
    <3>2. Seen(attempts', n + 1, ns, text) = Seen(attempts, n, ns, text)
      BY <1>2, <3>1, SeenAppend
    <3>3. Kept(ledger', k + 1, text) = Kept(ledger, k, text)
      BY <1>2, <2>1, <3>1, KeptAppend DEF k
    <3> QED BY <2>1, <3>2, <3>3
  <2>8. FlagsDrift(trusted[ns], src, Embed[text]) <=> Len(ledger') \in drift(ledger', text)
    BY <1>2, <1>3, <2>1, <2>7, FlagsAsQuery DEF DriftInv, k
  <2> HIDE DEF n
  <2> QED BY <1>5, <2>1, <2>2, <2>3, <2>4, <2>6, <2>8
<1>8. \A i \in 1..(n + 1) : i \in 1..n \/ i = n + 1
  BY <1>4
<1>9. \A i \in 1..Len(attempts') : Agrees(attempts', ledger', findings', i)
  <2> HIDE DEF n
  <2> QED BY <1>4, <1>6, <1>7, <1>8
<1>10. (DriftDiffersByMemory <=> \A i \in 1..Len(attempts) : Agrees(attempts, ledger, findings, i))'
  BY DriftByAttempt, PTL
<1>11. DriftDiffersByMemory'
  BY <1>9, <1>10
<1> QED BY <1>1, <1>11 DEF DriftInv

\* A row of another process is unknown to this one's detector, and takes nothing
\* back of what it flagged.
LEMMA OthersAppendDrift ==
    ASSUME TypeOK, DriftInv, OthersAppend
    PROVE  DriftInv'
<1> DEFINE k == Len(ledger)
<1>1. PICK r \in Row : ledger' = Append(ledger, r)
  BY DEF OthersAppend
<1>2. attempts' = attempts /\ trusted' = trusted /\ findings' = findings
  BY DEF OthersAppend, processVars
<1>3. /\ ledger \in Seq(Row) /\ k \in Nat /\ Len(ledger') = k + 1
      /\ \A ns \in Namespace, t \in Text :
             Seen(attempts, Len(attempts), ns, t) \subseteq 0..k
  BY <1>1, PlacesInLedger, AppendProperties
<1>4. SameConsensus'
  <2> SUFFICES ASSUME NEW ns \in Namespace, NEW t \in Text,
                      Seen(attempts, Len(attempts), ns, t) = Kept(ledger', k + 1, t)
               PROVE  Neighbors(trusted[ns], Embed[t]) = TrustedVectors(ledger', t)
    BY <1>2, <1>3 DEF SameConsensus
  <2>1. ~Joins(r, t)
    <3> SUFFICES ASSUME Joins(r, t) PROVE FALSE
      OBVIOUS
    <3>1. Kept(ledger', k + 1, t) = Kept(ledger, k, t) \cup {k + 1}
      BY <1>1, <1>3, KeptAppend
    <3>2. k + 1 \notin 0..k
      BY <1>3
    <3> QED BY <1>3, <3>1, <3>2
  <2>2. Kept(ledger', k + 1, t) = Kept(ledger, k, t)
    BY <1>1, <1>3, <2>1, KeptAppend
  <2>3. TrustedVectors(ledger', t) = TrustedVectors(ledger, t)
    BY <1>1, <1>3, <2>1, ConsensusAppend
  <2> QED BY <2>2, <2>3 DEF DriftInv, SameConsensus
<1>5. \A i \in 1..Len(attempts) : Agrees(attempts, ledger', findings, i)
  <2>1. \A i \in 1..Len(attempts) : Agrees(attempts, ledger, findings, i)
    BY DriftByAttempt DEF DriftInv
  <2> QED BY <1>1, <2>1, AgreesLater
<1>6. (DriftDiffersByMemory <=> \A i \in 1..Len(attempts) : Agrees(attempts, ledger, findings, i))'
  BY DriftByAttempt, PTL
<1> QED BY <1>2, <1>4, <1>5, <1>6 DEF DriftInv

\* A process that has written nothing knows all there is to a topic only if
\* nothing joined it.
LEMMA NothingWritten ==
    ASSUME ledger \in Seq(Row), attempts = <<>>, trusted = NewTrusted
    PROVE  DriftInv
<1>1. DriftDiffersByMemory
  BY DEF DriftDiffersByMemory
<1>2. ASSUME NEW ns \in Namespace, NEW t \in Text,
             Seen(attempts, Len(attempts), ns, t) = Kept(ledger, Len(ledger), t)
      PROVE  Neighbors(trusted[ns], Embed[t]) = TrustedVectors(ledger, t)
  <2>1. trusted[ns] = <<>>
    BY DEF NewTrusted
  <2>2. 1..Len(<<>>) = {}
    OBVIOUS
  <2>3. Neighbors(<<>>, Embed[t]) = <<>>
    BY <2>2, NoItems DEF Neighbors
  <2>4. Kept(ledger, Len(ledger), t) = {}
    <3>1. Seen(<<>>, Len(<<>>), ns, t) = {}
      BY <2>2 DEF Seen
    <3> QED BY <1>2, <3>1
  <2>5. {i \in Cluster(ledger, t) : ledger[i].src \in TrustedSource} = {}
    <3>1. \A i \in 1..Len(ledger) : ~Joins(ledger[i], t) /\ ledger[i] \in Row
      BY <2>4, ElementOfSeq DEF Kept
    <3>2. \A i \in 1..Len(ledger) : Embed[ledger[i].text] \in Vector /\ Embed[t] \in Vector
      BY <3>1, EmbedAssumption DEF Row, Vector
    <3>3. \A i \in 1..Len(ledger) :
              SameTopic(Embed[t], Embed[ledger[i].text])
                  => ledger[i].src \notin TrustedSource
      BY <3>1, <3>2, SameTopicSymmetric DEF Joins
    <3> QED BY <3>3 DEF Cluster
  <2>6. TrustedVectors(ledger, t) = <<>>
    BY <2>5, NoItems DEF TrustedVectors
  <2> QED BY <2>1, <2>3, <2>6
<1> QED BY <1>1, <1>2 DEF DriftInv, SameConsensus

\* The detector and the query over the whole ledger disagree about a write only
\* if the trusted writes on its topic that the process remembers are not those
\* in the ledger: for any sources, contents, namespaces, restarts, writes of
\* other processes and appends that raise, and for any embedding of the contents
\* in vectors with two components, natural numbers, of length Norm or zero.
THEOREM DriftAlwaysDiffersByMemory == Spec => []DriftDiffersByMemory
<1>1. Init => DriftInv
  <2>1. Init => ledger \in Seq(Row)
    BY EmptySeq DEF Init
  <2> QED BY <2>1, NothingWritten DEF Init
<1>2. TypeOK /\ TypeOK' /\ DriftInv /\ [Next]_vars => DriftInv'
  <2> SUFFICES ASSUME TypeOK, TypeOK', DriftInv, [Next]_vars PROVE DriftInv'
    OBVIOUS
  <2>1. CASE ProfileStep \/ Tick \/ SetBack \/ UNCHANGED vars
    <3>1. /\ attempts' = attempts /\ trusted' = trusted /\ findings' = findings
          /\ ledger' = ledger
      BY <2>1 DEF ProfileStep, Tick, SetBack, vars, processVars
    <3> QED BY <3>1 DEF DriftInv, SameConsensus, DriftDiffersByMemory, Remembered, Recorded
  <2>2. CASE Stop
    <3>1. attempts' = <<>> /\ trusted' = NewTrusted /\ (ledger \in Seq(Row))'
      BY <2>2 DEF Stop, TypeOK
    <3>2. (ledger \in Seq(Row) /\ attempts = <<>> /\ trusted = NewTrusted => DriftInv)'
      BY NothingWritten, PTL
    <3> QED BY <3>1, <3>2 DEF NewTrusted
  <2>3. CASE OthersAppend
    BY <2>3, OthersAppendDrift
  <2>4. ASSUME NEW ns \in Namespace, NEW src \in Source, NEW text \in Text,
               NEW appended \in BOOLEAN, RecordWrite(ns, src, text, appended)
        PROVE  DriftInv'
    BY <2>4, RecordWriteDrift
  <2> QED BY <2>1, <2>2, <2>3, <2>4 DEF Next
<1>3. DriftInv => DriftDiffersByMemory
  BY DEF DriftInv
<1> QED BY <1>1, <1>2, <1>3, RecordingTypes, PTL DEF Spec
=============================================================================
