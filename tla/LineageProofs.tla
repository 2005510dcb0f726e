---------------------------- MODULE LineageProofs ----------------------------
(***************************************************************************)
(* Theorems about what the edges and the rollbacks say, for every set of   *)
(* namespaces and sources and every bound: the edges are those the         *)
(* payloads declare but for what an interruption gave up; a rollback never *)
(* goes beyond the influence of what it was asked for, and alone it        *)
(* quarantines exactly that.                                               *)
(***************************************************************************)
EXTENDS ProvenanceProofs, Functions

\* What every edge of the first n records of rs asks for, unknown ids included.
AskedBy(rs, n) == UNION {Elements(EdgesOf(rs[j], j)) : j \in 1..n}

\* Declared, of a ledger given as a value.
DeclaredBy(rs, n) == {e \in AskedBy(rs, n) : e.src \in 1..Len(rs)}

\* Every record refers to records before it.
RefersBack(rs) == \A j \in 1..Len(rs) : rs[j].refs \in Seq(RefTo(j - 1))

\* The inductive invariant: an edge a payload declares is in the graph, in
\* hand or given up, and nothing else is in the graph or in hand.
Lineage ==
    /\ RefersBack(records)
    /\ edges \subseteq DeclaredBy(records, Len(records))
    /\ Elements(todo) \cup Elements(left) \subseteq AskedBy(records, Len(records))
    /\ DeclaredBy(records, Len(records)) \subseteq
           edges \cup lost \cup Elements(todo) \cup Elements(left)
    /\ query # NoQuery => left = <<>>

-----------------------------------------------------------------------------
(* The helpers *)

\* A list's elements are its head and its tail's elements.
LEMMA HeadAndTail ==
    ASSUME NEW S, NEW s \in Seq(S), s # <<>>
    PROVE  Elements(s) = {Head(s)} \cup Elements(Tail(s))
<1>1. Len(s) \in Nat /\ Len(s) >= 1 /\ Head(s) = s[1]
  BY EmptySeq
<1>2. /\ Len(Tail(s)) = Len(s) - 1
      /\ \A i \in 1..Len(Tail(s)) : Tail(s)[i] = s[i + 1]
  BY HeadTailProperties
<1>3. ASSUME NEW i \in 1..Len(s)
      PROVE  s[i] \in {Head(s)} \cup Elements(Tail(s))
  <2>1. CASE i = 1
    BY <1>1, <2>1
  <2>2. CASE i # 1
    <3>1. i - 1 \in 1..Len(Tail(s)) /\ (i - 1) + 1 = i
      BY <1>1, <1>2, <2>2
    <3> QED BY <1>2, <3>1 DEF Elements
  <2> QED BY <2>1, <2>2
<1>4. ASSUME NEW i \in 1..Len(Tail(s))
      PROVE  Tail(s)[i] \in Elements(s)
  <2>1. i + 1 \in 1..Len(s)
    BY <1>1, <1>2
  <2> QED BY <1>2, <2>1 DEF Elements
<1>5. Head(s) \in Elements(s)
  BY <1>1 DEF Elements
<1> QED BY <1>3, <1>4, <1>5 DEF Elements

\* The edges of a record come from the ids of its lists and lead to it.
LEMMA EdgesOfSources ==
    ASSUME NEW n \in Nat, NEW record, record.refs \in Seq(RefTo(n)), NEW id,
           NEW e \in Elements(EdgesOf(record, id))
    PROVE  e.src \in 0..n
<1>1. Len(record.refs) \in Nat
  OBVIOUS
<1>2. Len(EdgesOf(record, id)) = Len(record.refs)
  BY <1>1 DEF EdgesOf
<1>3. PICK i \in 1..Len(record.refs) : e = EdgesOf(record, id)[i]
  BY <1>2 DEF Elements
<1>4. e.src = record.refs[i].src
  BY <1>3 DEF EdgesOf
<1>5. record.refs[i] \in RefTo(n)
  BY <1>3, ElementOfSeq
<1> QED BY <1>4, <1>5 DEF RefTo

\* Another record leaves what the ones before it declare as it was, and adds
\* no more than its own edges.
LEMMA DeclaredGrows ==
    ASSUME NEW rs \in Seq(Record), RefersBack(rs), NEW r \in Record,
           r.refs \in Seq(RefTo(Len(rs)))
    PROVE  /\ \A n \in 0..Len(rs) : DeclaredBy(Append(rs, r), n) = DeclaredBy(rs, n)
           /\ DeclaredBy(rs, Len(rs)) \subseteq DeclaredBy(Append(rs, r), Len(rs) + 1)
           /\ DeclaredBy(Append(rs, r), Len(rs) + 1) \subseteq
                  DeclaredBy(rs, Len(rs)) \cup Elements(EdgesOf(r, Len(rs) + 1))
           /\ AskedBy(Append(rs, r), Len(rs) + 1) =
                  AskedBy(rs, Len(rs)) \cup Elements(EdgesOf(r, Len(rs) + 1))
           /\ RefersBack(Append(rs, r))
<1> DEFINE n == Len(rs)
           rt == Append(rs, r)
<1>1. n \in Nat /\ Len(rt) = n + 1 /\ rt[n + 1] = r
  BY AppendProperties
<1>2. \A j \in 1..n : rt[j] = rs[j]
  BY AppendProperties
<1> HIDE DEF rt
<1>3. ASSUME NEW m \in 0..n
      PROVE  AskedBy(rt, m) = AskedBy(rs, m)
  <2>1. \A j \in 1..m : rt[j] = rs[j]
    BY <1>1, <1>2
  <2> QED BY <2>1 DEF AskedBy
<1>4. ASSUME NEW m \in 0..n, NEW e \in AskedBy(rs, m)
      PROVE  e.src \in 0..(n - 1)
  <2>1. PICK j \in 1..m : e \in Elements(EdgesOf(rs[j], j))
    BY DEF AskedBy
  <2>2. j \in 1..n /\ j - 1 \in Nat
    BY <1>1, <2>1
  <2>3. e.src \in 0..(j - 1)
    BY <2>1, <2>2, EdgesOfSources DEF RefersBack
  <2> QED BY <1>1, <2>2, <2>3
<1>5. ASSUME NEW m \in 0..n
      PROVE  DeclaredBy(rt, m) = DeclaredBy(rs, m)
  <2>1. \A e \in AskedBy(rs, m) : e.src \in 1..Len(rt) <=> e.src \in 1..n
    BY <1>1, <1>4
  <2> QED BY <1>3, <2>1 DEF DeclaredBy
<1>6. AskedBy(rt, n + 1) = AskedBy(rs, n) \cup Elements(EdgesOf(r, n + 1))
  <2>1. 1..(n + 1) = (1..n) \cup {n + 1}
    BY <1>1
  <2>2. AskedBy(rt, n + 1) = AskedBy(rt, n) \cup Elements(EdgesOf(rt[n + 1], n + 1))
    BY <2>1 DEF AskedBy
  <2> QED BY <1>1, <1>3, <2>2
<1>7. DeclaredBy(rs, n) \subseteq DeclaredBy(rt, n + 1)
  BY <1>1, <1>6 DEF DeclaredBy
<1>8. DeclaredBy(rt, n + 1) \subseteq DeclaredBy(rs, n) \cup Elements(EdgesOf(r, n + 1))
  <2>1. ASSUME NEW e \in AskedBy(rs, n), e.src \in 1..(n + 1)
        PROVE  e.src \in 1..n
    BY <1>1, <1>4, <2>1
  <2> QED BY <1>1, <1>6, <2>1 DEF DeclaredBy
<1>9. RefersBack(rt)
  <2> SUFFICES ASSUME NEW j \in 1..(n + 1)
               PROVE  rt[j].refs \in Seq(RefTo(j - 1))
    BY <1>1 DEF RefersBack
  <2>1. CASE j \in 1..n
    BY <1>2, <2>1 DEF RefersBack
  <2>2. CASE j = n + 1
    BY <1>1, <2>2
  <2> QED BY <1>1, <2>1, <2>2
<1> QED BY <1>5, <1>6, <1>7, <1>8, <1>9 DEF rt

-----------------------------------------------------------------------------
(* The appends *)

\* One record more, that refers to those before it.
Extends(record) ==
    /\ record \in Record
    /\ record.refs \in Seq(RefTo(Len(records)))
    /\ records' = Append(records, record)

\* Each operation of the engine is such an append, with its edges in hand.
LEMMA EngineAppends ==
    ASSUME Forward, NEW ns \in Namespace,
           \/ \E source \in Source, d, c \in Lists : record_write(ns, source, d, c)
           \/ \E r \in Lists : record_retrieval(ns, r) \/ record_action(ns, r)
    PROVE  /\ \E record : /\ Extends(record)
                          /\ record.kind # "rollback"
                          /\ todo' = EdgesOf(record, Len(records) + 1)
           /\ todo = <<>> /\ (Concurrent \/ NoCommand)
           /\ UNCHANGED <<edges, query, visited, queue, before, left, lost>>
<1> DEFINE n == Len(records)
<1>1. n \in Nat /\ TypeOK
  BY DEF Forward, TypeOK
<1>2. ASSUME NEW ids \in Lists, NEW type \in EdgeType
      PROVE  References(ids, type) \in Seq(RefTo(n))
  <2>1. PICK m \in 0..MaxRefs : ids \in [1..m -> 0..n]
    BY DEF Lists
  <2>2. m \in Nat
    BY <2>1, BoundAssumption
  <2> QED BY <2>1, <2>2, <1>1, ReferencesType
<1>3. RefTo(n) \subseteq Reference
  BY <1>1, BoundAssumption DEF RefTo, Reference, TypeOK
<1>4. ASSUME NEW kind \in {"write", "retrieval", "action"}, NEW source \in Source \cup {None},
             NEW refs \in Seq(RefTo(n)), AppendRecord(Payload(kind, ns, source, refs))
      PROVE  /\ \E record : /\ Extends(record)
                            /\ record.kind # "rollback"
                            /\ todo' = EdgesOf(record, Len(records) + 1)
             /\ todo = <<>> /\ (Concurrent \/ NoCommand)
             /\ UNCHANGED <<edges, query, visited, queue, before, left, lost>>
  <2> DEFINE record == Payload(kind, ns, source, refs)
  <2>1. refs \in Seq(Reference)
    BY <1>3, SeqWider
  <2>2. record \in Record /\ record.refs = refs /\ record.kind = kind
    BY <2>1 DEF Payload, Record
  <2>3. /\ records' = Append(records, record)
        /\ todo' = EdgesOf(record, n + 1)
        /\ todo = <<>> /\ (Concurrent \/ NoCommand)
        /\ UNCHANGED <<edges, query, visited, queue, before, left, lost>>
    BY <1>4 DEF AppendRecord, walk
  <2> HIDE DEF record
  <2> QED BY <2>2, <2>3 DEF Extends
<1>5. ASSUME NEW source \in Source, NEW d \in Lists, NEW c \in Lists,
             record_write(ns, source, d, c)
      PROVE  \E refs \in Seq(RefTo(n)) : AppendRecord(Payload("write", ns, source, refs))
  <2>1. References(d, "DERIVED_FROM") \o References(c, "CONTEXTUALIZED") \in Seq(RefTo(n))
    <3>1. /\ References(d, "DERIVED_FROM") \in Seq(RefTo(n))
          /\ References(c, "CONTEXTUALIZED") \in Seq(RefTo(n))
      BY <1>2 DEF EdgeType
    <3> QED BY <3>1, ConcatProperties
  <2> QED BY <1>5, <2>1 DEF record_write
<1>6. ASSUME NEW r \in Lists, record_retrieval(ns, r) \/ record_action(ns, r)
      PROVE  \E kind \in {"retrieval", "action"}, refs \in Seq(RefTo(n)) :
                 AppendRecord(Payload(kind, ns, None, refs))
  <2>1. /\ References(r, "RETRIEVED") \in Seq(RefTo(n))
        /\ References(r, "CONTRIBUTED_TO") \in Seq(RefTo(n))
    BY <1>2 DEF EdgeType
  <2> QED BY <1>6, <2>1 DEF record_retrieval, record_action
<1> QED BY <1>4, <1>5, <1>6

\* So is a rollback's event, with a reference to each record in its list.
LEMMA EventAppends ==
    ASSUME Forward, AppendEvent
    PROVE  LET ids == {i \in visited : InScope(i, query.scope)}
           IN  /\ \E affected \in [1..Cardinality(ids) -> ids] :
                     /\ Ordered(affected)
                     /\ Extends(RollbackEvent(affected))
                     /\ left' = EdgesOf(RollbackEvent(affected), Len(records) + 1)
               /\ IsFiniteSet(ids) /\ ids \subseteq 0..Len(records)
               /\ WalkDone /\ query.kind = "rollback"
               /\ Reset /\ UNCHANGED <<edges, todo, lost>>
<1> DEFINE n == Len(records)
           ids == {i \in visited : InScope(i, query.scope)}
<1>1. TypeOK /\ n \in Nat /\ visited \subseteq 1..n
  BY DEF Forward, TypeOK
<1>2. IsFiniteSet(ids) /\ Cardinality(ids) \in Nat /\ ids \subseteq 0..n
  <2>1. IsFiniteSet(1..n)
    BY <1>1, FS_Interval
  <2>2. ids \subseteq 1..n
    BY <1>1
  <2>3. IsFiniteSet(ids)
    BY <2>1, <2>2, FS_Subset
  <2>4. 1..n \subseteq 0..n
    BY <1>1
  <2> HIDE DEF ids
  <2> QED BY <2>2, <2>3, <2>4, FS_CardinalityType
<1>3. PICK affected \in [1..Cardinality(ids) -> ids] :
          /\ Ordered(affected)
          /\ records' = Append(records, RollbackEvent(affected))
          /\ left' = EdgesOf(RollbackEvent(affected), n + 1)
  BY DEF AppendEvent
<1>4. WalkDone /\ query.kind = "rollback" /\ Reset /\ UNCHANGED <<edges, todo, lost>>
  BY DEF AppendEvent
<1> HIDE DEF ids
<1>5. References(affected, "ROLLED_BACK_BY") \in Seq(RefTo(n))
  <2>1. affected \in [1..Cardinality(ids) -> 0..n]
    BY <1>2
  <2> QED BY <1>1, <1>2, <2>1, ReferencesType DEF EdgeType
<1>6. RefTo(n) \subseteq Reference
  BY <1>1, BoundAssumption DEF RefTo, Reference, TypeOK
<1>7. RollbackEvent(affected).refs \in Seq(RefTo(n))
  BY <1>5 DEF RollbackEvent
<1>8. RollbackEvent(affected) \in Record
  <2>1. References(affected, "ROLLED_BACK_BY") \in Seq(Reference)
    BY <1>5, <1>6, SeqWider
  <2> QED BY <1>1, <2>1, NamespaceAssumption DEF RollbackEvent, Record, TypeOK
<1>9. Extends(RollbackEvent(affected))
  BY <1>3, <1>7, <1>8 DEF Extends
<1> QED BY <1>2, <1>3, <1>4, <1>9 DEF ids

-----------------------------------------------------------------------------
(* The actions preserve Lineage *)

\* A record more, with its edges in one hand and the other hand as it was.
LEMMA ExtendsLineage ==
    ASSUME Forward, Lineage, NEW record, Extends(record),
           edges' = edges, lost' = lost,
           Elements(todo') \cup Elements(left') =
               Elements(todo) \cup Elements(left) \cup Elements(EdgesOf(record, Len(records) + 1)),
           (query # NoQuery => left = <<>>)'
    PROVE  Lineage'
<1> DEFINE n == Len(records)
           new == Elements(EdgesOf(record, n + 1))
<1>1. records \in Seq(Record) /\ n \in Nat
  BY DEF Forward, TypeOK
<1>2. records' = Append(records, record) /\ Len(records') = n + 1
  BY <1>1, AppendProperties DEF Extends
<1>3. /\ DeclaredBy(records, n) \subseteq DeclaredBy(records', n + 1)
      /\ DeclaredBy(records', n + 1) \subseteq DeclaredBy(records, n) \cup new
      /\ AskedBy(records', n + 1) = AskedBy(records, n) \cup new
      /\ RefersBack(records')
  BY <1>1, <1>2, DeclaredGrows DEF Extends, Lineage
<1>4. /\ edges \subseteq DeclaredBy(records, n)
      /\ Elements(todo) \cup Elements(left) \subseteq AskedBy(records, n)
      /\ DeclaredBy(records, n) \subseteq edges \cup lost \cup Elements(todo) \cup Elements(left)
  BY DEF Lineage
<1> HIDE DEF new
<1>5. Elements(todo') \cup Elements(left') = Elements(todo) \cup Elements(left) \cup new
  BY DEF new
<1> QED BY <1>2, <1>3, <1>4, <1>5 DEF Lineage

\* Adding an edge moves it from the hand to the graph; an edge that is not
\* added is none that a payload declares between records.
LEMMA AddedLineage ==
    ASSUME Forward, Lineage, NEW s \in Seq(Wanted), s # <<>>, Pending(s),
           Elements(s) \subseteq AskedBy(records, Len(records))
    PROVE  /\ Added(Head(s)) \subseteq DeclaredBy(records, Len(records))
           /\ edges \subseteq Added(Head(s))
           /\ Head(s) \in DeclaredBy(records, Len(records)) => Head(s) \in Added(Head(s))
           /\ Elements(s) = {Head(s)} \cup Elements(Tail(s))
<1>1. Elements(s) = {Head(s)} \cup Elements(Tail(s))
  BY HeadAndTail
<1>2. Head(s) \in AskedBy(records, Len(records))
  BY <1>1
<1>3. Head(s) \in Wanted /\ Head(s).src < Head(s).dst /\ Head(s).dst <= Len(records)
  <2>1. s[1] = Head(s) /\ 1 \in 1..Len(s)
    BY EmptySeq
  <2> QED BY <2>1, ElementOfSeq DEF Pending
<1>4. Tracked(Head(s).dst)
  BY <1>3, BoundAssumption DEF Tracked, Wanted, Id, Forward, TypeOK
<1>5. edges \subseteq DeclaredBy(records, Len(records))
  BY DEF Lineage
<1> QED BY <1>1, <1>2, <1>4, <1>5 DEF Added, DeclaredBy, Tracked

\* AddEdge and AddRolledBackBy keep Lineage.
LEMMA AddEdgeLineage ==
    ASSUME Forward, Lineage, AddEdge \/ AddRolledBackBy
    PROVE  Lineage'
<1> DEFINE D == DeclaredBy(records, Len(records))
           A == AskedBy(records, Len(records))
<1>1. todo \in Seq(Wanted) /\ left \in Seq(Wanted) /\ Pending(todo) /\ Pending(left)
  BY DEF Forward, TypeOK
<1>2. /\ RefersBack(records) /\ edges \subseteq D
      /\ Elements(todo) \subseteq A /\ Elements(left) \subseteq A
      /\ D \subseteq edges \cup lost \cup Elements(todo) \cup Elements(left)
  BY DEF Lineage
<1>3. CASE AddEdge
  <2>1. todo # <<>> /\ todo' = Tail(todo) /\ edges' = Added(Head(todo))
        /\ UNCHANGED <<records, query, left, lost>>
    BY <1>3 DEF AddEdge, walk
  <2>2. /\ edges' \subseteq D /\ edges \subseteq edges'
        /\ Head(todo) \in D => Head(todo) \in edges'
        /\ Elements(todo) = {Head(todo)} \cup Elements(todo')
    BY <1>1, <1>2, <2>1, AddedLineage
  <2> HIDE DEF D, A
  <2>3. /\ Elements(todo') \cup Elements(left) \subseteq A
        /\ D \subseteq edges' \cup lost \cup Elements(todo') \cup Elements(left)
    BY <1>2, <2>2
  <2>4. query # NoQuery => left = <<>>
    BY DEF Lineage
  <2> QED BY <1>2, <2>1, <2>2, <2>3, <2>4 DEF Lineage, A, D
<1>4. CASE AddRolledBackBy
  <2>1. left # <<>> /\ left' = Tail(left) /\ edges' = Added(Head(left))
        /\ UNCHANGED <<records, query, todo, lost>>
    BY <1>4 DEF AddRolledBackBy, walk
  <2>2. /\ edges' \subseteq D /\ edges \subseteq edges'
        /\ Head(left) \in D => Head(left) \in edges'
        /\ Elements(left) = {Head(left)} \cup Elements(left')
    BY <1>1, <1>2, <2>1, AddedLineage
  <2> HIDE DEF D, A
  <2>3. /\ Elements(todo) \cup Elements(left') \subseteq A
        /\ D \subseteq edges' \cup lost \cup Elements(todo) \cup Elements(left')
    BY <1>2, <2>2
  <2>4. query = NoQuery
    BY <2>1 DEF Lineage
  <2> QED BY <1>2, <2>1, <2>2, <2>3, <2>4 DEF Lineage, A, D
<1> QED BY <1>3, <1>4

\* Giving up moves what was in hand to what is lost; the walk's own steps
\* touch neither.
LEMMA OtherLineage ==
    ASSUME Forward, Lineage,
           \/ EngineStops \/ CommandStops \/ Expand \/ Answer \/ UNCHANGED vars
           \/ \E kind, to, scope : Start(kind, to, scope)
    PROVE  Lineage'
<1> DEFINE D == DeclaredBy(records, Len(records))
           A == AskedBy(records, Len(records))
<1>1. Elements(<<>>) = {}
  BY DEF Elements
<1>2. /\ records' = records /\ edges' = edges
      /\ \/ todo' = todo /\ left' = left /\ lost' = lost
         \/ todo' = <<>> /\ left' = left /\ lost' = lost \cup Elements(todo)
         \/ todo' = todo /\ left' = <<>> /\ lost' = lost \cup Elements(left)
  BY DEF EngineStops, CommandStops, Expand, Answer, vars, Start
<1>3. query' # NoQuery => left' = <<>>
  BY DEF Lineage, EngineStops, CommandStops, Reset, Expand, Answer, vars, walk, Start, NoCommand
<1>4. /\ RefersBack(records) /\ edges \subseteq D
      /\ Elements(todo) \cup Elements(left) \subseteq A
      /\ D \subseteq edges \cup lost \cup Elements(todo) \cup Elements(left)
  BY DEF Lineage
<1> HIDE DEF A, D
<1>5. /\ Elements(todo') \cup Elements(left') \subseteq A
      /\ D \subseteq edges \cup lost' \cup Elements(todo') \cup Elements(left')
  <2>1. CASE todo' = todo /\ left' = left /\ lost' = lost
    BY <1>4, <2>1
  <2>2. CASE todo' = <<>> /\ left' = left /\ lost' = lost \cup Elements(todo)
    BY <1>1, <1>4, <2>2
  <2>3. CASE todo' = todo /\ left' = <<>> /\ lost' = lost \cup Elements(left)
    BY <1>1, <1>4, <2>3
  <2> QED BY <1>2, <2>1, <2>2, <2>3
<1> QED BY <1>2, <1>3, <1>4, <1>5 DEF Lineage, A, D

\* Every step keeps Lineage.
LEMMA LineageStep ==
    ASSUME Forward, Lineage, [Next]_vars
    PROVE  Lineage'
<1>1. Elements(<<>>) = {}
  BY DEF Elements
<1>2. ASSUME NEW ns \in Namespace,
             \/ \E source \in Source, d, c \in Lists : record_write(ns, source, d, c)
             \/ \E r \in Lists : record_retrieval(ns, r) \/ record_action(ns, r)
      PROVE  Lineage'
  <2>1. /\ \E record : /\ Extends(record)
                       /\ record.kind # "rollback"
                       /\ todo' = EdgesOf(record, Len(records) + 1)
        /\ todo = <<>>
        /\ UNCHANGED <<edges, query, visited, queue, before, left, lost>>
    BY <1>2, EngineAppends
  <2>2. PICK record : Extends(record) /\ todo' = EdgesOf(record, Len(records) + 1)
    BY <2>1
  <2>3. Elements(todo') \cup Elements(left') =
            Elements(todo) \cup Elements(left) \cup Elements(EdgesOf(record, Len(records) + 1))
    BY <1>1, <2>1, <2>2
  <2>4. (query # NoQuery => left = <<>>)'
    BY <2>1 DEF Lineage
  <2> QED BY <2>1, <2>2, <2>3, <2>4, ExtendsLineage
<1>3. CASE AppendEvent
  <2> DEFINE ids == {i \in visited : InScope(i, query.scope)}
  <2>1. PICK affected \in [1..Cardinality(ids) -> ids] :
            /\ Extends(RollbackEvent(affected))
            /\ left' = EdgesOf(RollbackEvent(affected), Len(records) + 1)
    BY <1>3, EventAppends
  <2>2. WalkDone /\ Reset /\ UNCHANGED <<edges, todo, lost>>
    BY <1>3, EventAppends
  <2>3. left = <<>>
    BY <2>2 DEF Lineage, WalkDone
  <2>4. (query # NoQuery => left = <<>>)'
    BY <2>2 DEF Reset
  <2>5. Elements(todo') \cup Elements(left') =
            Elements(todo) \cup Elements(left)
                \cup Elements(EdgesOf(RollbackEvent(affected), Len(records) + 1))
    BY <1>1, <2>1, <2>2, <2>3
  <2> QED BY <2>1, <2>2, <2>4, <2>5, ExtendsLineage
<1> QED BY <1>2, <1>3, AddEdgeLineage, OtherLineage DEF Next

\* Lineage holds at first.
LEMMA LineageInit ==
    ASSUME Init
    PROVE  Lineage
<1>1. Len(<<>>) = 0 /\ 1..0 = {}
  OBVIOUS
<1> QED BY <1>1 DEF Init, Lineage, RefersBack, DeclaredBy, AskedBy, Elements

\* DeclaredBy is Declared.
LEMMA DeclaredIs ==
    ASSUME NEW n
    PROVE  Declared(n) = DeclaredBy(records, n)
BY DEF Declared, DeclaredBy, AskedBy, Tracked

-----------------------------------------------------------------------------
(* The rollbacks of a ledger given as a value *)

Named(rs, to) ==
    {i \in 1..Len(rs) : i = to \/ (rs[i].kind = "write" /\ rs[i].source = to)}

SeedsIn(rs, e) ==
    {i \in 1..(e - 1) : \/ i = rs[e].to
                        \/ rs[i].kind = "write" /\ rs[i].source = rs[e].to}

InfluenceIn(rs, e) == Reach(DeclaredBy(rs, e - 1), "rollback", SeedsIn(rs, e))

AffectedIn(rs, e) == {ref.src : ref \in Elements(rs[e].refs)}

Passes(rs, i, scope) == scope = None \/ rs[i].ns = scope

RollbacksIn(rs) == {e \in 1..Len(rs) : rs[e].kind = "rollback"}

BoundedIn(rs) == \A e \in RollbacksIn(rs) : AffectedIn(rs, e) \subseteq InfluenceIn(rs, e)

ExactIn(rs) ==
    \A e \in RollbacksIn(rs) :
        AffectedIn(rs, e) = {i \in InfluenceIn(rs, e) : Passes(rs, i, rs[e].scope)}

\* A command's seeds are records that its selector names.
Bounded ==
    /\ BoundedIn(records)
    /\ query.kind = "rollback" => query.seeds \subseteq Named(records, query.to)

\* Of a command that nobody disturbs, all of them, and the graph it walks is
\* the one it began with.
Exact ==
    /\ ExactIn(records)
    /\ lost = {}
    /\ query # NoQuery => todo = <<>> /\ before = edges
    /\ query.kind = "rollback" => query.seeds = Named(records, query.to)

\* Another record changes neither the rollbacks there are nor what they reach.
LEMMA OldRollbacks ==
    ASSUME NEW rs \in Seq(Record), RefersBack(rs), NEW r \in Record,
           r.refs \in Seq(RefTo(Len(rs))), NEW e \in 1..Len(rs)
    PROVE  /\ Append(rs, r)[e] = rs[e]
           /\ AffectedIn(Append(rs, r), e) = AffectedIn(rs, e)
           /\ InfluenceIn(Append(rs, r), e) = InfluenceIn(rs, e)
<1> DEFINE rt == Append(rs, r)
<1>1. Len(rs) \in Nat /\ e - 1 \in 0..Len(rs) /\ \A i \in 1..(e - 1) : i \in 1..Len(rs)
  OBVIOUS
<1>2. \A i \in 1..Len(rs) : rt[i] = rs[i]
  BY AppendProperties
<1>3. DeclaredBy(rt, e - 1) = DeclaredBy(rs, e - 1)
  BY <1>1, DeclaredGrows
<1> HIDE DEF rt
<1>4. SeedsIn(rt, e) = SeedsIn(rs, e)
  BY <1>1, <1>2 DEF SeedsIn
<1> QED BY <1>2, <1>3, <1>4 DEF AffectedIn, InfluenceIn, rt

\* What a rollback reaches are records.
LEMMA InfluenceIsTracked ==
    ASSUME Forward, Lineage, NEW e \in 1..Len(records)
    PROVE  InfluenceIn(records, e) \subseteq 1..Len(records)
<1> DEFINE n == Len(records)
<1>1. records \in Seq(Record) /\ n \in Nat /\ n <= MaxRecords /\ MaxRecords \in Nat
  BY BoundAssumption DEF Forward, TypeOK
<1>2. 1..n \in SUBSET Id
  BY <1>1 DEF Id
<1>3. ASSUME NEW d \in DeclaredBy(records, e - 1)
      PROVE  d.dst \in 1..n
  <2>1. PICK j \in 1..(e - 1) : d \in Elements(EdgesOf(records[j], j))
    BY DEF DeclaredBy, AskedBy
  <2>2. j \in 1..n
    BY <1>1, <2>1
  <2>3. Len(records[j].refs) \in Nat
    BY <1>1, <2>2 DEF Record
  <2>4. Len(EdgesOf(records[j], j)) = Len(records[j].refs)
    BY <2>3 DEF EdgesOf
  <2>5. PICK i \in 1..Len(records[j].refs) : d = EdgesOf(records[j], j)[i]
    BY <2>1, <2>4 DEF Elements
  <2>6. d.dst = j
    BY <2>5 DEF EdgesOf
  <2> QED BY <2>2, <2>6
<1>4. Closed(1..n, DeclaredBy(records, e - 1), "rollback")
  BY <1>3 DEF Closed
<1>5. SeedsIn(records, e) \subseteq 1..n
  BY <1>1 DEF SeedsIn
<1> QED BY <1>2, <1>4, <1>5 DEF InfluenceIn, Reach

\* What the last record of a longer ledger is the rollback of.
LEMMA LastRollback ==
    ASSUME NEW rs \in Seq(Record), RefersBack(rs), NEW r \in Record,
           r.refs \in Seq(RefTo(Len(rs)))
    PROVE  LET n == Len(rs)
               rt == Append(rs, r)
           IN  /\ AffectedIn(rt, n + 1) = {ref.src : ref \in Elements(r.refs)}
               /\ InfluenceIn(rt, n + 1) = Reach(DeclaredBy(rs, n), "rollback", Named(rs, r.to))
               /\ rt[n + 1] = r
<1> DEFINE n == Len(rs)
           rt == Append(rs, r)
<1>1. n \in Nat /\ n \in 0..n /\ (n + 1) - 1 = n
  OBVIOUS
<1>2. (\A i \in 1..n : rt[i] = rs[i]) /\ rt[n + 1] = r
  BY AppendProperties
<1>3. DeclaredBy(rt, n) = DeclaredBy(rs, n)
  BY <1>1, DeclaredGrows
<1> HIDE DEF rt
<1>4. SeedsIn(rt, n + 1) = Named(rs, r.to)
  BY <1>1, <1>2 DEF SeedsIn, Named
<1> QED BY <1>1, <1>2, <1>3, <1>4 DEF AffectedIn, InfluenceIn, rt

\* The list of a rollback is what the walk visited in the scope.
LEMMA AffectedList ==
    ASSUME NEW ids, IsFiniteSet(ids), NEW n \in Nat, ids \subseteq 0..n,
           NEW affected \in [1..Cardinality(ids) -> ids], Ordered(affected)
    PROVE  {ref.src : ref \in Elements(RollbackEvent(affected).refs)} = ids
<1>1. Cardinality(ids) \in Nat
  BY FS_CardinalityType
<1> DEFINE k == Cardinality(ids)
<1>2. Len(affected) = k
  <2>1. affected \in Seq(ids)
    BY <1>1, SeqDef
  <2> QED BY <1>1, <2>1, LenProperties
<1>3. ASSUME NEW i \in 1..k, NEW j \in 1..k, affected[i] = affected[j]
      PROVE  i = j
  <2>1. affected[i] \in 0..n /\ affected[j] \in 0..n
    OBVIOUS
  <2>2. ~(i < j) /\ ~(j < i)
    BY <1>2, <1>3, <2>1 DEF Ordered
  <2> QED BY <1>1, <2>2
<1>4. affected \in Surjection(1..k, ids)
  <2>1. affected \in Injection(1..k, ids)
    BY <1>3 DEF Injection, IsInjective
  <2>2. Cardinality(1..k) = k
    BY <1>1, FS_Interval
  <2> HIDE DEF k
  <2> QED BY <2>1, <2>2, FS_Injection DEF k
<1>5. \A x \in ids : \E i \in 1..k : affected[i] = x
  BY <1>4 DEF Surjection
<1>6. RollbackEvent(affected).refs =
          [i \in 1..k |-> [src |-> affected[i], type |-> "ROLLED_BACK_BY"]]
  BY <1>2 DEF RollbackEvent, References
<1>7. Len(RollbackEvent(affected).refs) = k
  BY <1>1, <1>6
<1>8. \A i \in 1..k : RollbackEvent(affected).refs[i].src = affected[i]
  BY <1>6
<1>9. \A i \in 1..k : affected[i] \in ids
  OBVIOUS
<1> HIDE DEF k
<1>10. Elements(RollbackEvent(affected).refs) =
           {RollbackEvent(affected).refs[i] : i \in 1..k}
  BY <1>7 DEF Elements
<1>11. {ref.src : ref \in Elements(RollbackEvent(affected).refs)} = {affected[i] : i \in 1..k}
  BY <1>8, <1>10
<1> QED BY <1>5, <1>9, <1>11

-----------------------------------------------------------------------------
(* The actions preserve Bounded and Exact *)

\* An append of the engine adds no rollback, and names none it had not.
LEMMA EngineRollbacks ==
    ASSUME Forward, Lineage, NEW record, Extends(record), record.kind # "rollback"
    PROVE  /\ BoundedIn(records) => BoundedIn(records')
           /\ ExactIn(records) => ExactIn(records')
           /\ \A to : Named(records, to) \subseteq Named(records', to)
<1> DEFINE n == Len(records)
<1>1. records \in Seq(Record) /\ n \in Nat /\ RefersBack(records)
  BY DEF Forward, TypeOK, Lineage
<1>2. records' = Append(records, record) /\ Len(records') = n + 1 /\ records'[n + 1] = record
  BY <1>1, AppendProperties DEF Extends
<1>3. \A e \in 1..n : /\ records'[e] = records[e]
                      /\ AffectedIn(records', e) = AffectedIn(records, e)
                      /\ InfluenceIn(records', e) = InfluenceIn(records, e)
  BY <1>1, <1>2, OldRollbacks DEF Extends
<1>4. RollbacksIn(records') = RollbacksIn(records) /\ RollbacksIn(records) \subseteq 1..n
  <2>1. 1..(n + 1) = (1..n) \cup {n + 1}
    BY <1>1
  <2> QED BY <1>2, <1>3, <2>1 DEF RollbacksIn
<1>5. BoundedIn(records) => BoundedIn(records')
  BY <1>3, <1>4 DEF BoundedIn
<1>6. ASSUME ExactIn(records)
      PROVE  ExactIn(records')
  <2> SUFFICES ASSUME NEW e \in RollbacksIn(records)
               PROVE  AffectedIn(records', e) =
                          {i \in InfluenceIn(records', e) : Passes(records', i, records'[e].scope)}
    BY <1>4 DEF ExactIn
  <2>1. e \in 1..n
    BY <1>4
  <2>2. InfluenceIn(records, e) \subseteq 1..n
    BY <1>1, <2>1, InfluenceIsTracked
  <2>3. \A scope : \A i \in 1..n : Passes(records', i, scope) <=> Passes(records, i, scope)
    BY <1>3 DEF Passes
  <2>4. AffectedIn(records, e) =
            {i \in InfluenceIn(records, e) : Passes(records, i, records[e].scope)}
    BY <1>6 DEF ExactIn
  <2> QED BY <1>3, <2>1, <2>2, <2>3, <2>4
<1>7. \A to : Named(records, to) \subseteq Named(records', to)
  BY <1>1, <1>2, <1>3 DEF Named
<1> QED BY <1>5, <1>6, <1>7

\* A command's seeds are the records that its selector names, when it starts.
LEMMA SeedsAreNamed ==
    ASSUME NEW kind, NEW to
    PROVE  kind = "rollback" => Seeds(kind, to) = Named(records, to)
BY DEF Seeds, SeedsFor, Named

\* A rollback's event keeps BoundedIn: its list is what the walk visited.
LEMMA EventBounded ==
    ASSUME Forward, Lineage, Walking, Bounded, AppendEvent
    PROVE  BoundedIn(records')
<1> DEFINE n == Len(records)
           ids == {i \in visited : InScope(i, query.scope)}
<1>1. records \in Seq(Record) /\ n \in Nat /\ RefersBack(records) /\ visited \in SUBSET Id
  BY DEF Forward, TypeOK, Lineage
<1>2. /\ IsFiniteSet(ids) /\ ids \subseteq 0..n
      /\ WalkDone /\ query.kind = "rollback"
  BY EventAppends
<1>3. PICK affected \in [1..Cardinality(ids) -> ids] :
          Ordered(affected) /\ Extends(RollbackEvent(affected))
  BY EventAppends
<1> DEFINE r == RollbackEvent(affected)
<1>4. ids \subseteq visited
  OBVIOUS
<1> HIDE DEF ids
<1>5. {ref.src : ref \in Elements(r.refs)} = ids
  BY <1>1, <1>2, <1>3, AffectedList
<1>6. r.to = query.to
  BY DEF RollbackEvent
<1>7. Extends(r)
  BY <1>3
<1> HIDE DEF r
<1>8. records' = Append(records, r) /\ Len(records') = n + 1
  BY <1>1, <1>7, AppendProperties DEF Extends
<1>9. /\ AffectedIn(records', n + 1) = ids
      /\ InfluenceIn(records', n + 1) =
             Reach(DeclaredBy(records, n), "rollback", Named(records, query.to))
  BY <1>1, <1>5, <1>6, <1>7, <1>8, LastRollback DEF Extends
<1>10. visited \subseteq Reach(DeclaredBy(records, n), "rollback", Named(records, query.to))
  <2> SUFFICES ASSUME NEW closed \in SUBSET Id, Named(records, query.to) \subseteq closed,
                      Closed(closed, DeclaredBy(records, n), "rollback")
               PROVE  visited \subseteq closed
    BY <1>1 DEF Reach
  <2>1. query.seeds \subseteq closed
    BY <1>2 DEF Bounded
  <2>2. Closed(closed, edges, query.kind)
    BY <1>2 DEF Lineage, Closed
  <2> QED BY <2>1, <2>2 DEF Walking, Enclosed
<1>11. ASSUME NEW e \in RollbacksIn(records')
       PROVE  AffectedIn(records', e) \subseteq InfluenceIn(records', e)
  <2>1. CASE e \in 1..n
    <3>1. /\ records'[e] = records[e]
          /\ AffectedIn(records', e) = AffectedIn(records, e)
          /\ InfluenceIn(records', e) = InfluenceIn(records, e)
      BY <1>1, <1>7, <1>8, <2>1, OldRollbacks DEF Extends
    <3>2. e \in RollbacksIn(records)
      BY <2>1, <3>1, <1>11 DEF RollbacksIn
    <3> QED BY <3>1, <3>2 DEF Bounded, BoundedIn
  <2>2. CASE e = n + 1
    BY <1>4, <1>9, <1>10, <2>2
  <2>3. e \in 1..(n + 1)
    BY <1>8 DEF RollbacksIn
  <2> QED BY <1>1, <2>1, <2>2, <2>3
<1> QED BY <1>11 DEF BoundedIn

\* Every step keeps Bounded.
LEMMA BoundedStep ==
    ASSUME Forward, Lineage, Walking, Bounded, [Next]_vars
    PROVE  Bounded'
<1>1. ASSUME records' = records, query' = query \/ query' = NoQuery
      PROVE  Bounded'
  BY <1>1 DEF Bounded, NoQuery
<1>2. ASSUME NEW ns \in Namespace,
             \/ \E source \in Source, d, c \in Lists : record_write(ns, source, d, c)
             \/ \E r \in Lists : record_retrieval(ns, r) \/ record_action(ns, r)
      PROVE  Bounded'
  <2>1. PICK record : Extends(record) /\ record.kind # "rollback"
    BY <1>2, EngineAppends
  <2>2. query' = query
    BY <1>2, EngineAppends
  <2>3. /\ BoundedIn(records) => BoundedIn(records')
        /\ \A to : Named(records, to) \subseteq Named(records', to)
    BY <2>1, EngineRollbacks
  <2> QED BY <2>2, <2>3 DEF Bounded
<1>3. ASSUME NEW kind, NEW to, NEW scope, Start(kind, to, scope)
      PROVE  Bounded'
  <2>1. /\ query' = [kind |-> kind, to |-> to, scope |-> scope, seeds |-> Seeds(kind, to)]
        /\ records' = records
    BY <1>3 DEF Start
  <2>2. query'.kind = kind /\ query'.to = to /\ query'.seeds = Seeds(kind, to)
    BY <2>1
  <2> QED BY <2>1, <2>2, SeedsAreNamed DEF Bounded
<1>4. CASE AppendEvent
  <2>1. query' = NoQuery
    BY <1>4 DEF AppendEvent, Reset
  <2> QED BY <1>4, <2>1, EventBounded DEF Bounded, NoQuery
<1>5. CASE \/ AddEdge \/ EngineStops \/ Expand \/ Answer \/ AddRolledBackBy \/ CommandStops
           \/ UNCHANGED vars
  BY <1>1, <1>5 DEF AddEdge, EngineStops, Expand, Answer, AddRolledBackBy, CommandStops,
                    Reset, vars, walk
<1> QED BY <1>2, <1>3, <1>4, <1>5 DEF Next

\* A command that nobody disturbs finds the whole graph, walks all of it and
\* lists all it visited in the scope.
LEMMA EventExact ==
    ASSUME Forward, Lineage, Walking, Exact, AppendEvent
    PROVE  ExactIn(records')
<1> DEFINE n == Len(records)
           ids == {i \in visited : InScope(i, query.scope)}
<1>1. records \in Seq(Record) /\ n \in Nat /\ RefersBack(records) /\ visited \subseteq 1..n
  BY DEF Forward, TypeOK, Lineage
<1>2. /\ IsFiniteSet(ids) /\ ids \subseteq 0..n
      /\ WalkDone /\ query.kind = "rollback"
  BY EventAppends
<1>3. PICK affected \in [1..Cardinality(ids) -> ids] :
          Ordered(affected) /\ Extends(RollbackEvent(affected))
  BY EventAppends
<1> DEFINE r == RollbackEvent(affected)
<1>4. ids = {i \in visited : Passes(records, i, query.scope)}
  BY DEF InScope, Passes
<1> HIDE DEF ids
<1>5. {ref.src : ref \in Elements(r.refs)} = ids
  BY <1>1, <1>2, <1>3, AffectedList
<1>6. r.to = query.to /\ r.scope = query.scope
  BY DEF RollbackEvent
<1>7. Extends(r)
  BY <1>3
<1> HIDE DEF r
<1>8. /\ records' = Append(records, r) /\ Len(records') = n + 1 /\ records'[n + 1] = r
      /\ \A i \in 1..n : records'[i] = records[i]
  BY <1>1, <1>7, AppendProperties DEF Extends
<1>9. /\ AffectedIn(records', n + 1) = ids
      /\ InfluenceIn(records', n + 1) =
             Reach(DeclaredBy(records, n), "rollback", Named(records, query.to))
  <2>1. r \in Record /\ r.refs \in Seq(RefTo(Len(records)))
    BY <1>7 DEF Extends
  <2>2. /\ AffectedIn(records', Len(records) + 1) = {ref.src : ref \in Elements(r.refs)}
        /\ InfluenceIn(records', Len(records) + 1)
               = Reach(DeclaredBy(records, Len(records)), "rollback", Named(records, r.to))
    BY <1>1, <1>8, <2>1, LastRollback
  <2> QED BY <1>5, <1>6, <2>2
<1>10. edges = DeclaredBy(records, n) /\ before = edges
  <2>1. Elements(<<>>) = {}
    BY DEF Elements
  <2>2. todo = <<>> /\ left = <<>> /\ lost = {} /\ before = edges
    BY <1>2 DEF Exact, Lineage, WalkDone
  <2> QED BY <2>1, <2>2 DEF Lineage
<1>11. visited = Reach(DeclaredBy(records, n), "rollback", Named(records, query.to))
  BY <1>2, <1>10, WalkingBrackets DEF WalkIsBracketed, WalkDone, Exact
<1>12. \A scope : \A i \in 1..n : Passes(records', i, scope) <=> Passes(records, i, scope)
  BY <1>8 DEF Passes
<1>13. ASSUME NEW e \in RollbacksIn(records')
       PROVE  AffectedIn(records', e) =
                  {i \in InfluenceIn(records', e) : Passes(records', i, records'[e].scope)}
  <2>1. CASE e \in 1..n
    <3>1. /\ records'[e] = records[e]
          /\ AffectedIn(records', e) = AffectedIn(records, e)
          /\ InfluenceIn(records', e) = InfluenceIn(records, e)
      BY <1>1, <1>7, <1>8, <2>1, OldRollbacks DEF Extends
    <3>2. e \in RollbacksIn(records)
      BY <2>1, <3>1, <1>13 DEF RollbacksIn
    <3>3. InfluenceIn(records, e) \subseteq 1..n
      BY <2>1, InfluenceIsTracked
    <3>4. AffectedIn(records, e) =
              {i \in InfluenceIn(records, e) : Passes(records, i, records[e].scope)}
      BY <3>2 DEF Exact, ExactIn
    <3> QED BY <1>12, <3>1, <3>3, <3>4
  <2>2. CASE e = n + 1
    BY <1>1, <1>4, <1>6, <1>8, <1>9, <1>11, <1>12, <2>2
  <2>3. e \in 1..(n + 1)
    BY <1>8 DEF RollbacksIn
  <2> QED BY <1>1, <2>1, <2>2, <2>3
<1> QED BY <1>13 DEF ExactIn

\* Every step of a system where a command runs alone and nothing is cut short
\* keeps Exact.
LEMMA ExactStep ==
    ASSUME ~Concurrent, ~Interrupts, Forward, Lineage, Walking, Exact, [Next]_vars
    PROVE  Exact'
<1>1. ASSUME records' = records, edges' = edges, todo' = todo, lost' = lost,
             (query' = query /\ before' = before) \/ query' = NoQuery
      PROVE  Exact'
  BY <1>1 DEF Exact, NoQuery
<1>2. ASSUME NEW ns \in Namespace,
             \/ \E source \in Source, d, c \in Lists : record_write(ns, source, d, c)
             \/ \E r \in Lists : record_retrieval(ns, r) \/ record_action(ns, r)
      PROVE  Exact'
  <2>1. PICK record : Extends(record) /\ record.kind # "rollback"
    BY <1>2, EngineAppends
  <2>2. query' = query /\ lost' = lost /\ NoCommand
    BY <1>2, EngineAppends
  <2>3. ExactIn(records) => ExactIn(records')
    BY <2>1, EngineRollbacks
  <2> QED BY <2>2, <2>3 DEF Exact, NoCommand, NoQuery
<1>3. ASSUME NEW kind, NEW to, NEW scope, Start(kind, to, scope)
      PROVE  Exact'
  <2>1. /\ query' = [kind |-> kind, to |-> to, scope |-> scope, seeds |-> Seeds(kind, to)]
        /\ records' = records /\ lost' = lost /\ todo' = todo /\ todo = <<>>
        /\ edges' = edges /\ before' = edges
    BY <1>3 DEF Start
  <2>2. query'.kind = kind /\ query'.to = to /\ query'.seeds = Seeds(kind, to)
    BY <2>1
  <2> QED BY <2>1, <2>2, SeedsAreNamed DEF Exact
<1>4. CASE AppendEvent
  <2>1. query' = NoQuery /\ lost' = lost
    BY <1>4 DEF AppendEvent, Reset
  <2> QED BY <1>4, <2>1, EventExact DEF Exact, NoQuery
<1>5. CASE AddEdge \/ AddRolledBackBy
  <2>1. query = NoQuery
    BY <1>5 DEF AddEdge, AddRolledBackBy, Exact, Lineage
  <2>2. query' = query /\ records' = records /\ lost' = lost
    BY <1>5 DEF AddEdge, AddRolledBackBy, walk
  <2> QED BY <2>1, <2>2 DEF Exact, NoQuery
<1>6. CASE CommandStops \/ EngineStops
  BY <1>6 DEF CommandStops, EngineStops
<1>7. CASE Expand \/ Answer \/ UNCHANGED vars
  BY <1>1, <1>7 DEF Expand, Answer, Reset, vars, walk
<1> QED BY <1>2, <1>3, <1>4, <1>5, <1>6, <1>7 DEF Next

\* Both hold at first.
LEMMA RollbacksInit ==
    ASSUME Init
    PROVE  Bounded /\ Exact
<1>1. RollbacksIn(<<>>) = {}
  BY DEF RollbacksIn
<1> QED BY <1>1 DEF Init, Bounded, BoundedIn, Exact, ExactIn, NoQuery

-----------------------------------------------------------------------------
(* The theorems *)

\* The edges table never holds an edge that no payload declares, wherever the
\* engine or a rollback is stopped (capture/engine.py, query/rollback.py).
THEOREM EdgesAreDeclared == Spec => []LineageSound
<1>1. Init => Forward /\ Lineage
  BY ForwardInit, LineageInit
<1>2. Forward /\ Lineage /\ [Next]_vars => Forward' /\ Lineage'
  BY ForwardStep, LineageStep
<1>3. Forward /\ Lineage => LineageSound
  BY DeclaredIs DEF Lineage, LineageSound
<1> QED BY <1>1, <1>2, <1>3, PTL DEF Spec

\* With no edge in hand, every edge that the payloads declare between records
\* is in the table, but for those an interruption gave up: an unknown id costs
\* its own edge only.
THEOREM DeclaredIsRecorded == Spec => []LineageComplete
<1>1. Init => Forward /\ Lineage
  BY ForwardInit, LineageInit
<1>2. Forward /\ Lineage /\ [Next]_vars => Forward' /\ Lineage'
  BY ForwardStep, LineageStep
<1>3. ASSUME Forward, Lineage
      PROVE  LineageComplete
  <2>1. Elements(<<>>) = {}
    BY DEF Elements
  <2> QED BY <1>3, <2>1, DeclaredIs DEF Lineage, LineageComplete
<1> QED BY <1>1, <1>2, <1>3, PTL DEF Spec

\* A rollback quarantines nothing beyond the influence of what it was asked
\* for, whoever records or stops meanwhile (query/rollback.py).
THEOREM RollbacksStayInside == Spec => []RollbackNeverOverreaches
<1>1. Init => Forward /\ Lineage /\ Walking /\ Bounded
  BY ForwardInit, LineageInit, WalkingInit, RollbacksInit
<1>2. Forward /\ Lineage /\ Walking /\ Bounded /\ [Next]_vars
          => Forward' /\ Lineage' /\ Walking' /\ Bounded'
  BY ForwardStep, LineageStep, WalkingStep, BoundedStep
<1>3. Forward /\ Lineage /\ Walking /\ Bounded => RollbackNeverOverreaches
  BY DeclaredIs DEF Bounded, BoundedIn, RollbackNeverOverreaches, Rollbacks, RollbacksIn,
                    Affected, AffectedIn, Influence, InfluenceIn, SeedsAt, SeedsIn
<1> QED BY <1>1, <1>2, <1>3, PTL DEF Spec

\* A rollback that runs alone, with nothing cut short before it, quarantines
\* exactly that influence within its scope, however long the ledger is.
THEOREM RollbacksAreExact ==
    ASSUME ~Concurrent, ~Interrupts
    PROVE  Spec => []RollbackIsScopedInfluence
<1>1. Init => Forward /\ Lineage /\ Walking /\ Exact
  BY ForwardInit, LineageInit, WalkingInit, RollbacksInit
<1>2. Forward /\ Lineage /\ Walking /\ Exact /\ [Next]_vars
          => Forward' /\ Lineage' /\ Walking' /\ Exact'
  BY ForwardStep, LineageStep, WalkingStep, ExactStep
<1>3. Forward /\ Lineage /\ Walking /\ Exact => RollbackIsScopedInfluence
  BY DeclaredIs DEF Exact, ExactIn, RollbackIsScopedInfluence, Rollbacks, RollbacksIn,
                    Affected, AffectedIn, Influence, InfluenceIn, SeedsAt, SeedsIn,
                    InScope, Passes
<1> QED BY <1>1, <1>2, <1>3, PTL DEF Spec
=============================================================================
