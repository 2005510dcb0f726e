----------------------------- MODULE Provenance -----------------------------
(***************************************************************************)
(* The provenance DAG: the engine that records writes, retrievals and      *)
(* actions and links them (capture/engine.py, dag/store.py), and the       *)
(* commands that walk the links: trace, blast-radius and rollback          *)
(* (dag/traverse.py, query/).                                              *)
(*                                                                         *)
(* A record is appended in one transaction and each of its edges in        *)
(* another.  A walk asks for the neighbours of one node at a time, outside *)
(* any transaction.  The command may be a second process, so its steps     *)
(* interleave with the engine's.  Only ids are kept of the ledger: a       *)
(* record's id is its position, 0 an id the ledger does not track, refs    *)
(* the edges its payload declares.                                         *)
(***************************************************************************)
EXTENDS Integers, Sequences, FiniteSets

CONSTANTS
    Namespace, Default,   \* the namespaces; the one events without a scope get
    Source,               \* the sources writes come from
    None,                 \* no scope, no source
    Operations,           \* what is done: "write", "retrieval", "action" by the
                          \* agent; "trace", "blast_radius", "rollback" by commands
    Concurrent,           \* a command may run while the engine records
    Interrupts,           \* the engine or a command may stop between commits
    MaxRecords,           \* bound: records in the ledger
    MaxRefs               \* bound: ids in one list of a record

ASSUME NamespaceAssumption == Default \in Namespace /\ None \notin Namespace \cup Source
ASSUME BoundAssumption == MaxRecords \in Nat /\ MaxRefs \in Nat

VARIABLES
    records,          \* the ledger's payloads
    edges,            \* the edges table
    todo,             \* the engine: edges of the record in hand, not added yet
    query,            \* the command being run
    visited, queue,   \* its walk
    left,             \* rollback: ROLLED_BACK_BY edges not added yet
    before,           \* history: the edges there were when the walk began
    lost              \* history: the edges that were given up before their turn

walk == <<query, visited, queue, before>>
vars == <<records, edges, todo, walk, left, lost>>

Id == 1..MaxRecords

EdgeType == {"DERIVED_FROM", "RETRIEVED", "CONTEXTUALIZED", "CONTRIBUTED_TO",
             "ROLLED_BACK_BY"}

Edge == [src : Id, dst : Id, type : EdgeType]

\* An edge somebody asks for, and one as a payload keeps it.
Wanted == [src : 0..MaxRecords, dst : Id, type : EdgeType]

Reference == [src : 0..MaxRecords, type : EdgeType]

Record == [kind : {"write", "retrieval", "action", "rollback"}, ns : Namespace,
           source : Source \cup {None}, to : Source \cup Id \cup {None},
           scope : Namespace \cup {None}, refs : Seq(Reference)]

NoQuery == [kind |-> "none", to |-> None, scope |-> None, seeds |-> {}]

Init ==
    /\ records = <<>> /\ edges = {}
    /\ todo = <<>> /\ left = <<>>
    /\ query = NoQuery /\ visited = {} /\ queue = {} /\ before = {} /\ lost = {}

Tracked(id) == id \in 1..Len(records)

Elements(s) == {s[i] : i \in 1..Len(s)}

NoCommand == query = NoQuery /\ left = <<>>

-----------------------------------------------------------------------------
(* The engine *)

Lists == UNION {[1..n -> 0..Len(records)] : n \in 0..MaxRefs}

References(ids, type) == [i \in 1..Len(ids) |-> [src |-> ids[i], type |-> type]]

\* The edges that a record stored at id asks for, in the order of its lists.
EdgesOf(record, id) ==
    [i \in 1..Len(record.refs) |->
        [src |-> record.refs[i].src, dst |-> id, type |-> record.refs[i].type]]

\* LedgerStore.append: once it returns, the row is committed and no edge is.
AppendRecord(record) ==
    /\ todo = <<>>
    /\ Concurrent \/ NoCommand
    /\ Len(records) < MaxRecords
    /\ records' = Append(records, record)
    /\ todo' = EdgesOf(record, Len(records) + 1)
    /\ UNCHANGED <<edges, walk, left, lost>>

Payload(kind, ns, source, refs) ==
    [kind |-> kind, ns |-> ns, source |-> source, to |-> None, scope |-> None,
     refs |-> refs]

record_write(ns, source, derived_from, caused_by_retrieval) ==
    /\ "write" \in Operations
    /\ AppendRecord(Payload("write", ns, source,
                            References(derived_from, "DERIVED_FROM")
                            \o References(caused_by_retrieval, "CONTEXTUALIZED")))

record_retrieval(ns, returned) ==
    /\ "retrieval" \in Operations
    /\ AppendRecord(Payload("retrieval", ns, None, References(returned, "RETRIEVED")))

record_action(ns, context_retrievals) ==
    /\ "action" \in Operations
    /\ AppendRecord(Payload("action", ns, None,
                            References(context_retrievals, "CONTRIBUTED_TO")))

\* Mutant: nobody looks for the ends of an edge.
AddedUnchecked(edge) == edges \cup {edge}

\* add_edge, and the engine's own look at both ends: an edge with an unknown
\* end is skipped, one that is already there stays as it is.
Added(edge) ==
    IF Tracked(edge.src) /\ Tracked(edge.dst) THEN edges \cup {edge} ELSE edges

\* Mutants: the record's other edges are given up at an id it does not know;
\* the endpoints the wrong way round.
AddEdgeUntilUnknown ==
    /\ todo # <<>>
    /\ IF Tracked(Head(todo).src)
       THEN todo' = Tail(todo) /\ edges' = edges \cup {Head(todo)}
       ELSE todo' = <<>> /\ UNCHANGED edges
    /\ UNCHANGED <<records, walk, left, lost>>

AddEdgeReversed ==
    /\ todo # <<>>
    /\ todo' = Tail(todo)
    /\ edges' = IF Tracked(Head(todo).src)
                THEN edges \cup {[Head(todo) EXCEPT !.src = Head(todo).dst,
                                                    !.dst = Head(todo).src]}
                ELSE edges
    /\ UNCHANGED <<records, walk, left, lost>>

\* One edge, committed on its own.
AddEdge ==
    /\ todo # <<>>
    /\ todo' = Tail(todo)
    /\ edges' = Added(Head(todo))
    /\ UNCHANGED <<records, walk, left, lost>>

\* The process dies, or an edge's commit raises: the row stays without them.
EngineStops ==
    /\ Interrupts
    /\ todo # <<>>
    /\ todo' = <<>>
    /\ lost' = lost \cup Elements(todo)
    /\ UNCHANGED <<records, edges, walk, left>>

-----------------------------------------------------------------------------
(* The commands *)

\* seeds_for: the writes whose id or source the selector names.
SeedsFor(to) ==
    {i \in 1..Len(records) : records[i].kind = "write" /\ to \in {i, records[i].source}}

Seeds(kind, to) ==
    CASE kind = "trace" -> {to}
      [] kind = "blast_radius" -> SeedsFor(to)
      [] kind = "rollback" -> SeedsFor(to) \cup ({to} \cap 1..Len(records))

Start(kind, to, scope) ==
    /\ kind \in Operations
    /\ NoCommand
    /\ kind = "rollback" => Len(records) < MaxRecords
    /\ Concurrent \/ todo = <<>>
    /\ query' = [kind |-> kind, to |-> to, scope |-> scope, seeds |-> Seeds(kind, to)]
    /\ visited' = Seeds(kind, to)
    /\ queue' = Seeds(kind, to)
    /\ before' = edges
    /\ UNCHANGED <<records, edges, todo, left, lost>>

\* Mutant: the edges followed both ways.
NeighborsBothWays(es, kind, node) ==
    {e.dst : e \in {d \in es : d.src = node}}
        \cup {e.src : e \in {d \in es : d.dst = node}}

\* The neighbours of a node: in_neighbors for a trace, else out_neighbors.
Neighbors(es, kind, node) ==
    IF kind = "trace" THEN {e.src : e \in {d \in es : d.dst = node}}
    ELSE {e.dst : e \in {d \in es : d.src = node}}

\* Mutant: only the seeds are expanded.
ExpandOnce ==
    \E current \in queue :
        /\ visited' = visited \cup Neighbors(edges, query.kind, current)
        /\ queue' = queue \ {current}
        /\ UNCHANGED <<records, edges, todo, query, before, left, lost>>

\* One round of the loop in backward and forward_closure.
Expand ==
    \E current \in queue :
        LET new == Neighbors(edges, query.kind, current) \ visited
        IN  /\ visited' = visited \cup new
            /\ queue' = (queue \ {current}) \cup new
            /\ UNCHANGED <<records, edges, todo, query, before, left, lost>>

WalkDone == query # NoQuery /\ queue = {}

Reset ==
    /\ query' = NoQuery /\ visited' = {} /\ queue' = {} /\ before' = {}

\* trace, blast-radius and a dry run print what they found.
Answer ==
    /\ WalkDone
    /\ Reset
    /\ UNCHANGED <<records, edges, todo, left, lost>>

\* Mutant: a record of another namespace passes if it is what was asked for.
InScopeOrSeed(id, scope) ==
    scope = None \/ records[id].ns = scope \/ id \in query.seeds

InScope(id, scope) == scope = None \/ records[id].ns = scope

\* Ids sort by time.
Ordered(s) == \A i, j \in 1..Len(s) : i < j => s[i] < s[j]

RollbackEvent(affected) ==
    [kind |-> "rollback", ns |-> IF query.scope = None THEN Default ELSE query.scope,
     source |-> None, to |-> query.to, scope |-> query.scope,
     refs |-> References(affected, "ROLLED_BACK_BY")]

\* rollback --apply: the event lists the walk's records in scope, and then gets
\* an edge from each, committed one by one.
AppendEvent ==
    /\ WalkDone
    /\ query.kind = "rollback"
    /\ Len(records) < MaxRecords
    /\ LET ids == {i \in visited : InScope(i, query.scope)}
       IN  \E affected \in [1..Cardinality(ids) -> ids] :
              /\ Ordered(affected)
              /\ records' = Append(records, RollbackEvent(affected))
              /\ left' = EdgesOf(RollbackEvent(affected), Len(records) + 1)
    /\ Reset
    /\ UNCHANGED <<edges, todo, lost>>

AddRolledBackBy ==
    /\ left # <<>>
    /\ left' = Tail(left)
    /\ edges' = Added(Head(left))
    /\ UNCHANGED <<records, todo, walk, lost>>

CommandStops ==
    /\ Interrupts
    /\ ~NoCommand
    /\ Reset
    /\ left' = <<>>
    /\ lost' = lost \cup Elements(left)
    /\ UNCHANGED <<records, edges, todo>>

Next ==
    \/ \E ns \in Namespace :
          \/ \E source \in Source, d, c \in Lists : record_write(ns, source, d, c)
          \/ \E r \in Lists : record_retrieval(ns, r) \/ record_action(ns, r)
    \/ AddEdge \/ EngineStops
    \/ \E kind \in {"trace", "blast_radius"}, to \in Source \cup 1..Len(records) :
          (kind = "trace" => to \notin Source) /\ Start(kind, to, None)
    \/ \E to \in Source \cup 1..Len(records), scope \in Namespace \cup {None} :
          Start("rollback", to, scope)
    \/ Expand \/ Answer \/ AppendEvent \/ AddRolledBackBy \/ CommandStops

Spec == Init /\ [][Next]_vars

-----------------------------------------------------------------------------
(* What the lineage is, from the payloads alone *)

\* The edges the first n records declare between records.
Declared(n) ==
    {e \in UNION {Elements(EdgesOf(records[j], j)) : j \in 1..n} : Tracked(e.src)}

\* The smallest set with the seeds that every edge stays in.
Closed(ids, es, kind) ==
    \A e \in es : IF kind = "trace" THEN e.dst \in ids => e.src \in ids
                                    ELSE e.src \in ids => e.dst \in ids

Reach(es, kind, seeds) ==
    {v \in Id : \A ids \in SUBSET Id :
        seeds \subseteq ids /\ Closed(ids, es, kind) => v \in ids}

\* The seeds that rollback number e had when it was asked for, at the latest.
SeedsAt(e) ==
    {i \in 1..(e - 1) :
        \/ i = records[e].to
        \/ records[i].kind = "write" /\ records[i].source = records[e].to}

Influence(e) == Reach(Declared(e - 1), "rollback", SeedsAt(e))

Affected(e) == {ref.src : ref \in Elements(records[e].refs)}

Rollbacks == {e \in 1..Len(records) : records[e].kind = "rollback"}

-----------------------------------------------------------------------------
(* Properties *)

TypeOK ==
    /\ records \in Seq(Record) /\ Len(records) <= MaxRecords
    /\ edges \subseteq Edge /\ before \subseteq Edge
    /\ todo \in Seq(Wanted) /\ left \in Seq(Wanted)
    /\ lost \subseteq Wanted
    /\ query \in [kind : {"none", "trace", "blast_radius", "rollback"},
                  to : Source \cup Id \cup {None}, scope : Namespace \cup {None},
                  seeds : SUBSET Id]
    /\ visited \subseteq Id /\ queue \subseteq visited

\* Every edge goes from an earlier record to a later one, whatever stops half
\* way and whoever writes: the DAG is acyclic and has no dangling end.
EdgesGoForward ==
    \A e \in edges : e.src < e.dst /\ e.dst <= Len(records)

\* With nothing in hand, the edges are what the payloads declare but for those
\* an interruption gave up: an unknown id among a record's parents costs only
\* its own edge, and no command makes the engine skip one.
LineageComplete ==
    todo = <<>> /\ left = <<>> => Declared(Len(records)) \ lost \subseteq edges

\* An interruption loses edges; it never leaves one no payload declares.
LineageSound == edges \subseteq Declared(Len(records))

\* A walk beside a recording engine answers for some graph between the one it
\* began with and the one it ends with: it misses nothing that was there and
\* invents nothing.
WalkIsBracketed ==
    query # NoQuery =>
        /\ visited \subseteq Reach(edges, query.kind, query.seeds)
        /\ queue = {} => Reach(before, query.kind, query.seeds) \subseteq visited

\* A rollback that runs alone quarantines exactly the influence of what it was
\* asked for, within its scope; the walk itself leaves the scope.
RollbackIsScopedInfluence ==
    \A e \in Rollbacks :
        Affected(e) = {i \in Influence(e) : InScope(i, records[e].scope)}

\* Whoever else runs and stops, a rollback quarantines nothing beyond it.
RollbackNeverOverreaches ==
    \A e \in Rollbacks : Affected(e) \subseteq Influence(e)
=============================================================================
