-------------------------- MODULE ProvenanceProofs --------------------------
(***************************************************************************)
(* Theorems about the provenance DAG, for every set of namespaces and      *)
(* sources and every bound: the graph is acyclic, and a walk beside a      *)
(* recording engine is bracketed by the graphs it began and ended with.    *)
(***************************************************************************)
EXTENDS Provenance, FiniteSetTheorems, SequenceTheorems, TLAPS

\* The edges in s lead to records that are there, from earlier ones.
Pending(s) == \A i \in 1..Len(s) : s[i].src < s[i].dst /\ s[i].dst <= Len(records)

\* Nothing is visited that the seeds do not reach.
Enclosed ==
    \A ids \in SUBSET Id :
        query.seeds \subseteq ids /\ Closed(ids, edges, query.kind) => visited \subseteq ids

\* What the walk is done with has its first neighbours visited.
Explored ==
    \A e \in before :
        IF query.kind = "trace" THEN e.dst \in visited \ queue => e.src \in visited
                                ELSE e.src \in visited \ queue => e.dst \in visited

\* The inductive invariant.
Forward ==
    /\ TypeOK
    /\ EdgesGoForward
    /\ Pending(todo) /\ Pending(left)
    /\ visited \subseteq 1..Len(records)

Walking ==
    /\ before \subseteq edges
    /\ query.seeds \subseteq visited
    /\ Enclosed
    /\ Explored

-----------------------------------------------------------------------------
(* The helpers *)

\* References to the first n ids.
RefTo(n) == [src : 0..n, type : EdgeType]

\* Edges into record n + 1 from the first n.
EdgeInto(n) == [src : 0..n, dst : {n + 1}, type : EdgeType]

\* A list of tracked or unknown ids becomes references to them.
LEMMA ReferencesType ==
    ASSUME NEW n \in Nat, NEW m \in Nat, NEW ids \in [1..m -> 0..n], NEW type \in EdgeType
    PROVE  References(ids, type) \in Seq(RefTo(n))
<1>1. ids \in Seq(0..n) /\ Len(ids) = m
  BY SeqDef, LenProperties
<1>2. References(ids, type) \in [1..m -> RefTo(n)]
  BY <1>1 DEF References, RefTo
<1> QED BY <1>2, SeqDef

\* References to the first n ids, in record n + 1, are edges into it.
LEMMA EdgesOfType ==
    ASSUME NEW n \in Nat, NEW record, record.refs \in Seq(RefTo(n))
    PROVE  EdgesOf(record, n + 1) \in Seq(EdgeInto(n))
<1>1. Len(record.refs) \in Nat
  OBVIOUS
<1>2. \A i \in 1..Len(record.refs) : record.refs[i] \in RefTo(n)
  BY ElementOfSeq
<1>3. EdgesOf(record, n + 1) \in [1..Len(record.refs) -> EdgeInto(n)]
  BY <1>2 DEF EdgesOf, RefTo, EdgeInto
<1> QED BY <1>1, <1>3, SeqDef

\* A larger set of elements makes a larger set of sequences.
LEMMA SeqWider ==
    ASSUME NEW S, NEW T, S \subseteq T, NEW s \in Seq(S)
    PROVE  s \in Seq(T)
<1>1. Len(s) \in Nat /\ s \in [1..Len(s) -> T]
  BY LenProperties
<1> QED BY <1>1, SeqDef

\* Appending a record that refers to the ones before it, and asking for the
\* edges it declares, keeps everything pending well formed.
LEMMA AppendPending ==
    ASSUME TypeOK, NEW record \in [kind : {"write", "retrieval", "action", "rollback"},
               ns : Namespace, source : Source \cup {None},
               to : Source \cup Id \cup {None}, scope : Namespace \cup {None},
               refs : Seq(RefTo(Len(records)))],
           Len(records) < MaxRecords, records' = Append(records, record),
           NEW s, s = EdgesOf(record, Len(records) + 1)
    PROVE  /\ records' \in Seq(Record) /\ Len(records') = Len(records) + 1
           /\ Len(records') <= MaxRecords
           /\ s \in Seq(Wanted)
           /\ \A i \in 1..Len(s) : s[i].src < s[i].dst /\ s[i].dst <= Len(records')
<1> DEFINE n == Len(records)
<1>1. records \in Seq(Record) /\ n \in Nat /\ MaxRecords \in Nat
  BY BoundAssumption DEF TypeOK
<1>2. RefTo(n) \subseteq Reference
  BY <1>1 DEF RefTo, Reference
<1>3. record.refs \in Seq(Reference)
  BY <1>2, SeqWider
<1>4. record \in Record
  BY <1>3 DEF Record
<1>5. records' \in Seq(Record) /\ Len(records') = n + 1
  BY <1>1, <1>4, AppendProperties
<1>6. s \in Seq(EdgeInto(n))
  BY <1>1, EdgesOfType
<1>7. EdgeInto(n) \subseteq Wanted
  BY <1>1 DEF EdgeInto, Wanted, Id
<1>8. s \in Seq(Wanted)
  BY <1>6, <1>7, SeqWider
<1>9. ASSUME NEW i \in 1..Len(s)
      PROVE  s[i].src < s[i].dst /\ s[i].dst <= n + 1
  <2>1. s[i] \in EdgeInto(n)
    BY <1>6, ElementOfSeq
  <2> QED BY <2>1, <1>1 DEF EdgeInto
<1> QED BY <1>1, <1>5, <1>8, <1>9

\* Records are only added, so what was pending or forward still is.
LEMMA StillForward ==
    ASSUME Forward, Len(records') \in Nat, Len(records) \in Nat,
           Len(records') >= Len(records)
    PROVE  /\ \A e \in edges : e.src < e.dst /\ e.dst <= Len(records')
           /\ \A i \in 1..Len(todo) : todo[i].src < todo[i].dst /\ todo[i].dst <= Len(records')
           /\ \A i \in 1..Len(left) : left[i].src < left[i].dst /\ left[i].dst <= Len(records')
           /\ visited \subseteq 1..Len(records')
<1>1. edges \subseteq Edge /\ todo \in Seq(Wanted) /\ left \in Seq(Wanted)
  BY DEF Forward, TypeOK
<1>2. \A e \in edges : e.dst \in Nat
  BY <1>1, BoundAssumption DEF Edge, Id
<1>w. \A w \in Wanted : w.dst \in Nat
  BY BoundAssumption DEF Wanted, Id
<1>3. \A i \in 1..Len(todo) : todo[i].dst \in Nat
  <2>1. \A i \in 1..Len(todo) : todo[i] \in Wanted
    BY <1>1, ElementOfSeq
  <2> QED BY <2>1, <1>w
<1>4. \A i \in 1..Len(left) : left[i].dst \in Nat
  <2>1. \A i \in 1..Len(left) : left[i] \in Wanted
    BY <1>1, ElementOfSeq
  <2> QED BY <2>1, <1>w
<1>5. \A e \in edges : e.src < e.dst /\ e.dst <= Len(records)
  BY DEF Forward, EdgesGoForward
<1>6. /\ \A i \in 1..Len(todo) : todo[i].src < todo[i].dst /\ todo[i].dst <= Len(records)
      /\ \A i \in 1..Len(left) : left[i].src < left[i].dst /\ left[i].dst <= Len(records)
  BY DEF Forward, Pending
<1>7. visited \subseteq 1..Len(records)
  BY DEF Forward
<1> QED BY <1>2, <1>3, <1>4, <1>5, <1>6, <1>7

-----------------------------------------------------------------------------
(* The actions preserve Forward *)

\* The engine's three operations append a record that refers to earlier ones.
LEMMA AppendRecordForward ==
    ASSUME Forward, NEW kind \in {"write", "retrieval", "action"}, NEW ns \in Namespace,
           NEW source \in Source \cup {None}, NEW refs \in Seq(RefTo(Len(records))),
           AppendRecord(Payload(kind, ns, source, refs))
    PROVE  Forward'
<1> DEFINE record == Payload(kind, ns, source, refs)
<1>1. TypeOK /\ Len(records) \in Nat /\ MaxRecords \in Nat
  BY BoundAssumption DEF Forward, TypeOK
<1>2. record \in [kind : {"write", "retrieval", "action", "rollback"},
                  ns : Namespace, source : Source \cup {None},
                  to : Source \cup Id \cup {None}, scope : Namespace \cup {None},
                  refs : Seq(RefTo(Len(records)))]
  BY DEF Payload
<1>3. /\ Len(records) < MaxRecords
      /\ records' = Append(records, record)
      /\ todo' = EdgesOf(record, Len(records) + 1)
      /\ UNCHANGED <<edges, walk, left, lost>>
  BY DEF AppendRecord
<1> HIDE DEF record
<1>4. /\ records' \in Seq(Record) /\ Len(records') = Len(records) + 1
      /\ Len(records') <= MaxRecords
      /\ todo' \in Seq(Wanted)
      /\ \A i \in 1..Len(todo') : todo'[i].src < todo'[i].dst /\ todo'[i].dst <= Len(records')
  BY <1>1, <1>2, <1>3, AppendPending
<1>5. TypeOK'
  BY <1>1, <1>3, <1>4 DEF TypeOK, walk
<1>6. Len(records') \in Nat /\ Len(records') >= Len(records)
  BY <1>1, <1>4
<1>7. /\ \A e \in edges : e.src < e.dst /\ e.dst <= Len(records')
      /\ \A i \in 1..Len(left) : left[i].src < left[i].dst /\ left[i].dst <= Len(records')
      /\ visited \subseteq 1..Len(records')
  BY <1>1, <1>6, StillForward
<1>8. edges' = edges /\ left' = left /\ visited' = visited
  BY <1>3 DEF walk
<1> QED BY <1>4, <1>5, <1>7, <1>8 DEF Forward, EdgesGoForward, Pending

\* record_write, record_retrieval and record_action are such appends.
LEMMA EngineForward ==
    ASSUME Forward, NEW ns \in Namespace,
           \/ \E source \in Source, d, c \in Lists : record_write(ns, source, d, c)
           \/ \E r \in Lists : record_retrieval(ns, r) \/ record_action(ns, r)
    PROVE  Forward'
<1> DEFINE n == Len(records)
<1>1. n \in Nat
  BY DEF Forward, TypeOK
<1>2. ASSUME NEW ids \in Lists, NEW type \in EdgeType
      PROVE  References(ids, type) \in Seq(RefTo(n))
  <2>1. PICK m \in 0..MaxRefs : ids \in [1..m -> 0..n]
    BY DEF Lists
  <2>2. m \in Nat
    BY <2>1, BoundAssumption
  <2> QED BY <2>1, <2>2, <1>1, ReferencesType
<1>3. ASSUME NEW source \in Source, NEW d \in Lists, NEW c \in Lists,
             record_write(ns, source, d, c)
      PROVE  Forward'
  <2>1. /\ References(d, "DERIVED_FROM") \in Seq(RefTo(n))
        /\ References(c, "CONTEXTUALIZED") \in Seq(RefTo(n))
    BY <1>2 DEF EdgeType
  <2>2. References(d, "DERIVED_FROM") \o References(c, "CONTEXTUALIZED") \in Seq(RefTo(n))
    BY <2>1, ConcatProperties
  <2> QED BY <1>3, <2>2, AppendRecordForward DEF record_write
<1>4. ASSUME NEW r \in Lists, record_retrieval(ns, r)
      PROVE  Forward'
  <2>1. References(r, "RETRIEVED") \in Seq(RefTo(n))
    BY <1>2 DEF EdgeType
  <2> QED BY <1>4, <2>1, AppendRecordForward DEF record_retrieval
<1>5. ASSUME NEW r \in Lists, record_action(ns, r)
      PROVE  Forward'
  <2>1. References(r, "CONTRIBUTED_TO") \in Seq(RefTo(n))
    BY <1>2 DEF EdgeType
  <2> QED BY <1>5, <2>1, AppendRecordForward DEF record_action
<1> QED BY <1>3, <1>4, <1>5

\* An edge that is added was pending, and both its ends are records.
LEMMA AddedForward ==
    ASSUME Forward, NEW s \in Seq(Wanted), Pending(s), s # <<>>
    PROVE  /\ Added(Head(s)) \subseteq Edge /\ edges \subseteq Added(Head(s))
           /\ \A e \in Added(Head(s)) : e.src < e.dst /\ e.dst <= Len(records)
           /\ Tail(s) \in Seq(Wanted) /\ Pending(Tail(s))
<1>1. s[1] = Head(s) /\ 1 \in 1..Len(s) /\ Len(s) \in Nat
  BY EmptySeq
<1>2. Head(s) \in Wanted /\ Head(s).src < Head(s).dst /\ Head(s).dst <= Len(records)
  BY <1>1, ElementOfSeq DEF Pending
<1>3. Len(records) \in Nat /\ Len(records) <= MaxRecords /\ edges \subseteq Edge
  BY DEF Forward, TypeOK
<1>4. Tracked(Head(s).src) => Head(s) \in Edge
  BY <1>2, <1>3, BoundAssumption DEF Tracked, Wanted, Edge, Id
<1>5. Tail(s) \in Seq(Wanted) /\ \A i \in 1..Len(Tail(s)) : i + 1 \in 1..Len(s) /\ Tail(s)[i] = s[i + 1]
  BY <1>1, HeadTailProperties
<1>6. Pending(Tail(s))
  BY <1>5 DEF Pending
<1>7. \A e \in edges : e.src < e.dst /\ e.dst <= Len(records)
  BY DEF Forward, EdgesGoForward
<1> QED BY <1>2, <1>3, <1>4, <1>5, <1>6, <1>7 DEF Added

\* Adding an edge, or giving up on it, keeps Forward.
LEMMA AddEdgeForward ==
    ASSUME Forward, AddEdge \/ AddRolledBackBy
    PROVE  Forward' /\ edges \subseteq edges'
<1>1. todo \in Seq(Wanted) /\ left \in Seq(Wanted) /\ Pending(todo) /\ Pending(left)
  BY DEF Forward, TypeOK
<1>2. CASE AddEdge
  <2>1. todo # <<>> /\ todo' = Tail(todo) /\ edges' = Added(Head(todo))
        /\ UNCHANGED <<records, query, visited, queue, before, left, lost>>
    BY <1>2 DEF AddEdge, walk
  <2>2. /\ edges' \subseteq Edge /\ edges \subseteq edges' /\ todo' \in Seq(Wanted)
        /\ \A e \in edges' : e.src < e.dst /\ e.dst <= Len(records)
        /\ Pending(todo')
    BY <1>1, <2>1, AddedForward
  <2> QED BY <2>1, <2>2 DEF Forward, TypeOK, EdgesGoForward, Pending
<1>3. CASE AddRolledBackBy
  <2>1. left # <<>> /\ left' = Tail(left) /\ edges' = Added(Head(left))
        /\ UNCHANGED <<records, query, visited, queue, before, todo, lost>>
    BY <1>3 DEF AddRolledBackBy, walk
  <2>2. /\ edges' \subseteq Edge /\ edges \subseteq edges' /\ left' \in Seq(Wanted)
        /\ \A e \in edges' : e.src < e.dst /\ e.dst <= Len(records)
        /\ Pending(left')
    BY <1>1, <2>1, AddedForward
  <2> QED BY <2>1, <2>2 DEF Forward, TypeOK, EdgesGoForward, Pending
<1> QED BY <1>2, <1>3

\* The event of a rollback refers to records the walk visited, all earlier.
LEMMA AppendEventForward ==
    ASSUME Forward, AppendEvent
    PROVE  Forward'
<1> DEFINE n == Len(records)
           ids == {i \in visited : InScope(i, query.scope)}
<1>1. TypeOK /\ n \in Nat /\ visited \subseteq 1..n
  BY DEF Forward, TypeOK
<1>2. PICK affected \in [1..Cardinality(ids) -> ids] :
          /\ records' = Append(records, RollbackEvent(affected))
          /\ left' = EdgesOf(RollbackEvent(affected), n + 1)
  BY DEF AppendEvent
<1>3. n < MaxRecords /\ query.kind = "rollback" /\ UNCHANGED <<edges, todo, lost>>
      /\ query' = NoQuery /\ visited' = {} /\ queue' = {} /\ before' = {}
  BY DEF AppendEvent, Reset
<1>4. Cardinality(ids) \in Nat
  <2>1. IsFiniteSet(1..n)
    BY <1>1, FS_Interval
  <2>2. IsFiniteSet(ids)
    BY <1>1, <2>1, FS_Subset
  <2> QED BY <2>2, FS_CardinalityType
<1>5. affected \in [1..Cardinality(ids) -> 0..n]
  <2>1. ids \subseteq visited
    OBVIOUS
  <2>2. 1..n \subseteq 0..n
    BY <1>1
  <2>3. ids \subseteq 0..n
    BY <1>1, <2>1, <2>2
  <2> HIDE DEF ids
  <2> QED BY <2>3
<1>6. References(affected, "ROLLED_BACK_BY") \in Seq(RefTo(n))
  BY <1>1, <1>4, <1>5, ReferencesType DEF EdgeType
<1>7. RollbackEvent(affected) \in
          [kind : {"write", "retrieval", "action", "rollback"},
           ns : Namespace, source : Source \cup {None},
           to : Source \cup Id \cup {None}, scope : Namespace \cup {None},
           refs : Seq(RefTo(n))]
  BY <1>1, <1>6, NamespaceAssumption DEF RollbackEvent, TypeOK
<1>8. /\ records' \in Seq(Record) /\ Len(records') = n + 1
      /\ Len(records') <= MaxRecords
      /\ left' \in Seq(Wanted)
      /\ \A i \in 1..Len(left') : left'[i].src < left'[i].dst /\ left'[i].dst <= Len(records')
  BY <1>1, <1>2, <1>3, <1>7, AppendPending
<1>9. TypeOK'
  BY <1>1, <1>3, <1>8 DEF TypeOK, NoQuery
<1>10. Len(records') \in Nat /\ Len(records') >= Len(records)
  BY <1>1, <1>8
<1>11. /\ \A e \in edges : e.src < e.dst /\ e.dst <= Len(records')
       /\ \A i \in 1..Len(todo) : todo[i].src < todo[i].dst /\ todo[i].dst <= Len(records')
  BY <1>1, <1>10, StillForward
<1> QED BY <1>3, <1>8, <1>9, <1>11 DEF Forward, EdgesGoForward, Pending

\* The seeds of every command are records.
LEMMA StartForward ==
    ASSUME Forward, NEW kind \in {"trace", "blast_radius", "rollback"},
           NEW to \in Source \cup 1..Len(records), NEW scope \in Namespace \cup {None},
           kind = "trace" => to \notin Source,
           Start(kind, to, scope)
    PROVE  Forward'
<1>1. TypeOK /\ Len(records) \in Nat /\ Len(records) <= MaxRecords /\ MaxRecords \in Nat
  BY BoundAssumption DEF Forward, TypeOK
<1>2. Seeds(kind, to) \subseteq 1..Len(records)
  BY DEF Seeds, SeedsFor
<1>3. 1..Len(records) \subseteq Id /\ to \in Source \cup Id
  BY <1>1 DEF Id
<1>4. /\ query' = [kind |-> kind, to |-> to, scope |-> scope, seeds |-> Seeds(kind, to)]
      /\ visited' = Seeds(kind, to) /\ queue' = Seeds(kind, to) /\ before' = edges
      /\ UNCHANGED <<records, edges, todo, left, lost>>
  BY DEF Start
<1>5. TypeOK'
  BY <1>1, <1>2, <1>3, <1>4 DEF TypeOK
<1> QED BY <1>2, <1>4, <1>5 DEF Forward, EdgesGoForward, Pending

\* Neighbours are records.
LEMMA NeighborsForward ==
    ASSUME Forward, NEW kind, NEW node
    PROVE  Neighbors(edges, kind, node) \subseteq 1..Len(records)
<1>1. \A e \in edges : e.src \in Id /\ e.dst \in Id /\ e.src < e.dst /\ e.dst <= Len(records)
  BY DEF Forward, TypeOK, Edge, EdgesGoForward
<1>2. \A e \in edges : e.src \in 1..Len(records) /\ e.dst \in 1..Len(records)
  BY <1>1, BoundAssumption DEF Id, Forward, TypeOK
<1> QED BY <1>2 DEF Neighbors

\* A round of the walk keeps Forward.
LEMMA ExpandForward ==
    ASSUME Forward, Expand
    PROVE  Forward'
<1>1. PICK current \in queue :
          LET new == Neighbors(edges, query.kind, current) \ visited
          IN  /\ visited' = visited \cup new
              /\ queue' = (queue \ {current}) \cup new
              /\ UNCHANGED <<records, edges, todo, query, before, left, lost>>
  BY DEF Expand
<1>2. Neighbors(edges, query.kind, current) \subseteq 1..Len(records)
  BY NeighborsForward
<1>3. Len(records) \in Nat /\ Len(records) <= MaxRecords /\ TypeOK
  BY DEF Forward, TypeOK
<1>4. 1..Len(records) \subseteq Id
  BY <1>3, BoundAssumption DEF Id
<1>5. TypeOK'
  BY <1>1, <1>2, <1>3, <1>4 DEF TypeOK
<1> QED BY <1>1, <1>2, <1>5 DEF Forward, EdgesGoForward, Pending

\* What is given up was asked for.
LEMMA GivenUp ==
    ASSUME NEW s \in Seq(Wanted), lost \subseteq Wanted
    PROVE  lost \cup Elements(s) \subseteq Wanted
<1>1. \A i \in 1..Len(s) : s[i] \in Wanted
  BY ElementOfSeq
<1> QED BY <1>1 DEF Elements

\* Answering and stopping only forget.
LEMMA ForgetForward ==
    ASSUME Forward, EngineStops \/ Answer \/ CommandStops
    PROVE  Forward'
<1>1. CASE EngineStops
  <2>1. todo' = <<>> /\ UNCHANGED <<records, edges, query, visited, queue, before, left>>
    BY <1>1 DEF EngineStops, walk
  <2>2. lost' \subseteq Wanted
    BY <1>1, GivenUp DEF EngineStops, Forward, TypeOK
  <2>3. TypeOK'
    BY <2>1, <2>2, EmptySeq DEF Forward, TypeOK
  <2> QED BY <2>1, <2>3 DEF Forward, EdgesGoForward, Pending
<1>2. CASE Answer \/ CommandStops
  <2>1. /\ UNCHANGED <<records, edges, todo>>
        /\ query' = NoQuery /\ visited' = {} /\ queue' = {} /\ before' = {}
        /\ left' = left \/ left' = <<>>
        /\ lost' = lost \/ lost' = lost \cup Elements(left)
    BY <1>2 DEF Answer, CommandStops, Reset
  <2>e. lost' \subseteq Wanted
    BY <2>1, GivenUp DEF Forward, TypeOK
  <2>2. CASE left' = left
    <3>1. TypeOK'
      BY <2>1, <2>2, <2>e DEF Forward, TypeOK, NoQuery
    <3> QED BY <2>1, <2>2, <3>1 DEF Forward, EdgesGoForward, Pending
  <2>3. CASE left' = <<>>
    <3>1. TypeOK'
      BY <2>1, <2>3, <2>e DEF Forward, TypeOK, NoQuery
    <3> QED BY <2>1, <2>3, <3>1 DEF Forward, EdgesGoForward, Pending
  <2> QED BY <2>1, <2>2, <2>3
<1> QED BY <1>1, <1>2

\* Every step keeps Forward.
LEMMA ForwardStep ==
    ASSUME Forward, [Next]_vars
    PROVE  Forward'
<1>1. CASE UNCHANGED vars
  BY <1>1 DEF vars, walk, Forward, TypeOK, EdgesGoForward, Pending
<1>2. CASE Next
  BY <1>2, EngineForward, AddEdgeForward, AppendEventForward, StartForward,
     ExpandForward, ForgetForward DEF Next
<1> QED BY <1>1, <1>2

\* Forward holds at first.
LEMMA ForwardInit ==
    ASSUME Init
    PROVE  Forward
<1>1. TypeOK
  BY BoundAssumption, EmptySeq DEF Init, TypeOK, NoQuery
<1> QED BY <1>1 DEF Init, Forward, EdgesGoForward, Pending

-----------------------------------------------------------------------------
(* The walk *)

\* Walking holds at first.
LEMMA WalkingInit ==
    ASSUME Init
    PROVE  Walking
BY DEF Init, Walking, Enclosed, Explored, NoQuery

\* Every step keeps Walking.
LEMMA WalkingStep ==
    ASSUME Forward, Walking, [Next]_vars
    PROVE  Walking'
<1>1. ASSUME edges \subseteq edges', UNCHANGED walk
      PROVE  Walking'
  <2>1. ASSUME NEW ids \in SUBSET Id, Closed(ids, edges', query.kind)
        PROVE  Closed(ids, edges, query.kind)
    BY <1>1, <2>1 DEF Closed
  <2>2. Enclosed'
    BY <1>1, <2>1 DEF Walking, Enclosed, walk
  <2> QED BY <1>1, <2>2 DEF Walking, Explored, walk
<1>2. ASSUME Reset, edges' = edges
      PROVE  Walking'
  BY <1>2 DEF Reset, Walking, Enclosed, Explored, NoQuery
<1>3. ASSUME NEW kind, NEW to, NEW scope, Start(kind, to, scope)
      PROVE  Walking'
  BY <1>3 DEF Start, Walking, Enclosed, Explored
<1>4. CASE Expand
  <2>1. PICK current \in queue :
            LET new == Neighbors(edges, query.kind, current) \ visited
            IN  /\ visited' = visited \cup new
                /\ queue' = (queue \ {current}) \cup new
                /\ UNCHANGED <<records, edges, todo, query, before, left, lost>>
    BY <1>4 DEF Expand
  <2>2. current \in visited
    BY DEF Forward, TypeOK
  <2>3. Enclosed'
    <3> SUFFICES ASSUME NEW ids \in SUBSET Id, query.seeds \subseteq ids,
                        Closed(ids, edges, query.kind)
                 PROVE  visited' \subseteq ids
      BY <2>1 DEF Enclosed
    <3>1. visited \subseteq ids
      BY DEF Walking, Enclosed
    <3>2. Neighbors(edges, query.kind, current) \subseteq ids
      BY <2>2, <3>1 DEF Neighbors, Closed
    <3> QED BY <2>1, <3>1, <3>2
  <2>4. Explored'
    <3> SUFFICES ASSUME NEW e \in before
                 PROVE  IF query.kind = "trace"
                        THEN e.dst \in visited' \ queue' => e.src \in visited'
                        ELSE e.src \in visited' \ queue' => e.dst \in visited'
      BY <2>1 DEF Explored
    <3>1. e \in edges
      BY DEF Walking
    <3>2. visited' \ queue' \subseteq (visited \ queue) \cup {current}
      BY <2>1
    <3>3. CASE query.kind = "trace"
      <4>1. e.dst = current => e.src \in visited'
        BY <2>1, <3>1, <3>3 DEF Neighbors
      <4> QED BY <2>1, <3>2, <3>3, <4>1 DEF Walking, Explored
    <3>4. CASE query.kind # "trace"
      <4>1. e.src = current => e.dst \in visited'
        BY <2>1, <3>1, <3>4 DEF Neighbors
      <4> QED BY <2>1, <3>2, <3>4, <4>1 DEF Walking, Explored
    <3> QED BY <3>3, <3>4
  <2> QED BY <2>1, <2>3, <2>4 DEF Walking
<1>5. ASSUME NEW record, AppendRecord(record)
      PROVE  Walking'
  BY <1>1, <1>5 DEF AppendRecord
<1>6. CASE AddEdge \/ AddRolledBackBy
  BY <1>1, <1>6, AddEdgeForward DEF AddEdge, AddRolledBackBy
<1>7. CASE EngineStops
  BY <1>1, <1>7 DEF EngineStops
<1>8. CASE Answer \/ AppendEvent \/ CommandStops
  BY <1>2, <1>8 DEF Answer, AppendEvent, CommandStops
<1>9. CASE UNCHANGED vars
  BY <1>1, <1>9 DEF vars
<1> QED BY <1>3, <1>4, <1>5, <1>6, <1>7, <1>8, <1>9
        DEF Next, record_write, record_retrieval, record_action

\* What the walk's invariant says once the queue is empty.
LEMMA WalkingBrackets ==
    ASSUME Forward, Walking
    PROVE  WalkIsBracketed
<1>1. visited \in SUBSET Id
  BY DEF Forward, TypeOK
<1>2. visited \subseteq Reach(edges, query.kind, query.seeds)
  BY <1>1 DEF Walking, Enclosed, Reach
<1>3. ASSUME queue = {}
      PROVE  Reach(before, query.kind, query.seeds) \subseteq visited
  <2>1. Closed(visited, before, query.kind)
    BY <1>3 DEF Walking, Explored, Closed
  <2>2. query.seeds \subseteq visited
    BY DEF Walking
  <2> QED BY <1>1, <2>1, <2>2 DEF Reach
<1> QED BY <1>2, <1>3 DEF WalkIsBracketed

-----------------------------------------------------------------------------
(* The theorems *)

\* Whatever the engine records and wherever it or a command is stopped, every
\* value keeps its type.
THEOREM ProvenanceTypes == Spec => []TypeOK
<1>1. Init => Forward
  BY ForwardInit
<1>2. Forward /\ [Next]_vars => Forward'
  BY ForwardStep
<1>3. Forward => TypeOK
  BY DEF Forward
<1> QED BY <1>1, <1>2, <1>3, PTL DEF Spec

\* Every edge goes from an earlier record to a later one (capture/engine.py,
\* query/rollback.py): the DAG is one, and no walk of it runs in a circle.
THEOREM DagIsAcyclic == Spec => []EdgesGoForward
<1>1. Init => Forward
  BY ForwardInit
<1>2. Forward /\ [Next]_vars => Forward'
  BY ForwardStep
<1>3. Forward => EdgesGoForward
  BY DEF Forward
<1> QED BY <1>1, <1>2, <1>3, PTL DEF Spec

\* backward and forward_closure, run while records and edges are being added,
\* return a set between the closure of the graph they began with and that of
\* the graph they ended with (dag/traverse.py).
THEOREM WalkAlwaysBracketed == Spec => []WalkIsBracketed
<1>1. Init => Forward /\ Walking
  BY ForwardInit, WalkingInit
<1>2. Forward /\ Walking /\ [Next]_vars => Forward' /\ Walking'
  BY ForwardStep, WalkingStep
<1>3. Forward /\ Walking => WalkIsBracketed
  BY WalkingBrackets
<1> QED BY <1>1, <1>2, <1>3, PTL DEF Spec
=============================================================================
