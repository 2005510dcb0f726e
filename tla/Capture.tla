------------------------------ MODULE Capture ------------------------------
(***************************************************************************)
(* The front ends that feed the engine from a memory backend, and the      *)
(* reconciliation of the two (capture/wrapper.py, gateway.py, sidecar.py,  *)
(* adapters/).                                                             *)
(*                                                                         *)
(* A wrapped client and the gateway forward a call and then record it; the *)
(* sidecar records an upsert, tags it with the record's id and then        *)
(* forwards it.  Each front end is a process with one call at a time; they *)
(* share a backend and a ledger, and others change the backend behind      *)
(* their backs.  A record's id is its position in the ledger, a memory's   *)
(* id is the backend's, and the two are never equal.  A read map hands     *)
(* over the backend's ids, as every one in the repository does, or the     *)
(* tags that the sidecar put there.                                        *)
(***************************************************************************)
EXTENDS Integers, Sequences, FiniteSets

CONSTANTS
    Client, Sidecar,   \* the front ends: wrapped clients and gateways; sidecars
    TagReader,         \* those whose read map hands over the tags
    Memory,            \* the backend's ids
    None,              \* no id, no call
    MaxRecords,        \* bound: records in the ledger
    MaxBatch           \* bound: memories in one call

ASSUME FrontAssumption == Client \cap Sidecar = {} /\ TagReader \subseteq Sidecar
ASSUME BoundAssumption == MaxRecords \in Nat /\ MaxBatch \in Nat
ASSUME NoneAssumption == None \notin Memory \cup {"forwarded", "recorded", "read"}

Front == Client \cup Sidecar

VARIABLES
    store,      \* the memories the backend holds
    tag,        \* per memory, the record id in its metadata; 0 for none
    ledger,     \* the records
    edges,      \* the RETRIEVED edges
    call,       \* per front end, the call it is in and what it has in hand
    came,       \* history: how each memory was ever written
    acked       \* history: the records whose call returned

backend == <<store, tag, came>>
vars == <<backend, ledger, edges, call, acked>>

\* No two memories of one call are the same.
Batch ==
    {b \in UNION {[1..n -> Memory] : n \in 0..MaxBatch} :
        \A i, j \in DOMAIN b : b[i] = b[j] => i = j}

Elements(s) == {s[i] : i \in DOMAIN s}

Id == 1..MaxRecords

Write == [kind : {"write"}, by : Front, memory_id : Memory \cup {None}, content : Batch]

Retrieval == [kind : {"retrieval"}, by : Front, returned : SUBSET (Memory \cup 0..MaxRecords),
              surfaced : SUBSET Memory]

NoCall == [op |-> None]

Calls ==
    {NoCall}
    \cup [op : {"forwarded"}, batch : Batch]          \* written, not recorded
    \cup [op : {"recorded"}, batch : Batch, id : Id]  \* recorded, not written
    \cup [op : {"read"}, returned : SUBSET (Memory \cup 0..MaxRecords), surfaced : SUBSET Memory]

TypeOK ==
    /\ store \subseteq Memory
    /\ tag \in [Memory -> 0..MaxRecords]
    /\ \A m \in Memory \ store : tag[m] = 0
    /\ ledger \in Seq(Write \cup Retrieval) /\ Len(ledger) <= MaxRecords
    /\ edges \subseteq Id \X Id
    /\ call \in [Front -> Calls]
    /\ came \in [Memory -> SUBSET {"front", "behind"}]
    /\ \A f \in Front : call[f].op = "recorded" => call[f].id <= Len(ledger)
    /\ acked \subseteq 1..Len(ledger)

Init ==
    /\ store = {} /\ tag = [m \in Memory |-> 0] /\ came = [m \in Memory |-> {}]
    /\ ledger = <<>> /\ edges = {}
    /\ call = [f \in Front |-> NoCall]
    /\ acked = {}

-----------------------------------------------------------------------------
(* The backend *)

Apply(ms, id, how) ==
    /\ store' = store \cup ms
    /\ tag' = [m \in Memory |-> IF m \in ms THEN id ELSE tag[m]]
    /\ came' = [m \in Memory |-> IF m \in ms THEN came[m] \cup {how} ELSE came[m]]

\* A call that raises may have been carried out.
Forward(ms, id) == Apply(ms, id, "front")

ForwardRaises(ms, id) == Forward(ms, id) \/ UNCHANGED backend

Bypass(m) ==
    /\ Apply({m}, 0, "behind")
    /\ UNCHANGED <<ledger, edges, call, acked>>

Delete(m) ==
    /\ m \in store
    /\ store' = store \ {m} /\ tag' = [tag EXCEPT ![m] = 0]
    /\ UNCHANGED <<came, ledger, edges, call, acked>>

-----------------------------------------------------------------------------
(* The engine *)

NextId == Len(ledger) + 1

AppendRow(record) ==
    /\ Len(ledger) < MaxRecords
    /\ ledger' = Append(ledger, record)

\* record_write or record_retrieval raises, or the process dies in it: the row
\* is stored or not.
Unanswered(record) == AppendRow(record) \/ UNCHANGED ledger

Idle(f) == call[f] = NoCall

Busy(f, c) == call' = [call EXCEPT ![f] = c]

-----------------------------------------------------------------------------
(* Writes through a wrapped client or the gateway *)

\* Mutant: the last of them.
LastId(batch) == IF batch = <<>> THEN None ELSE batch[Len(batch)]

\* The memory_id of the adapters' write maps: the first of the ids.
FirstId(batch) == IF batch = <<>> THEN None ELSE batch[1]

WriteRow(f, batch) ==
    [kind |-> "write", by |-> f, content |-> batch,
     memory_id |-> IF f \in Client THEN FirstId(batch) ELSE None]

\* Mutant: recorded first, then forwarded.
ClientRecordsFirst(f, batch) ==
    /\ f \in Client /\ Idle(f)
    /\ AppendRow(WriteRow(f, batch))
    /\ Busy(f, [op |-> "forwarded", batch |-> batch])
    /\ UNCHANGED <<backend, edges, acked>>

ClientForward(f, batch) ==
    /\ f \in Client /\ Idle(f)
    /\ Forward(Elements(batch), 0)
    /\ Busy(f, [op |-> "forwarded", batch |-> batch])
    /\ UNCHANGED <<ledger, edges, acked>>

ClientForwardRaises(f, batch) ==
    /\ f \in Client /\ Idle(f)
    /\ ForwardRaises(Elements(batch), 0)
    /\ UNCHANGED <<ledger, edges, call, acked>>

ClientRecord(f) ==
    /\ call[f].op = "forwarded"
    /\ AppendRow(WriteRow(f, call[f].batch))
    /\ acked' = acked \cup {NextId}
    /\ Busy(f, NoCall)
    /\ UNCHANGED <<backend, edges>>

\* The caller never sees the result of a write that took place.
ClientRecordUnanswered(f) ==
    /\ call[f].op = "forwarded"
    /\ Unanswered(WriteRow(f, call[f].batch))
    /\ Busy(f, NoCall)
    /\ UNCHANGED <<backend, edges, acked>>

(* Upserts through the sidecar *)

\* Mutant: the upsert goes on when its record could not be stored.
SidecarRecordSwallows(f, batch) ==
    /\ f \in Sidecar /\ Idle(f)
    /\ Len(ledger) < MaxRecords
    /\ Unanswered(WriteRow(f, batch))
    /\ Busy(f, [op |-> "recorded", batch |-> batch, id |-> NextId])
    /\ UNCHANGED <<backend, edges, acked>>

SidecarRecord(f, batch) ==
    /\ f \in Sidecar /\ Idle(f)
    /\ AppendRow(WriteRow(f, batch))
    /\ Busy(f, [op |-> "recorded", batch |-> batch, id |-> NextId])
    /\ UNCHANGED <<backend, edges, acked>>

SidecarRecordUnanswered(f, batch) ==
    /\ f \in Sidecar /\ Idle(f)
    /\ Unanswered(WriteRow(f, batch))
    /\ UNCHANGED <<backend, edges, call, acked>>

\* Mutant: the tag is looked up when the upsert is forwarded.
SidecarForwardLatest(f) ==
    /\ call[f].op = "recorded"
    /\ Forward(Elements(call[f].batch), Len(ledger))
    /\ acked' = acked \cup {call[f].id}
    /\ Busy(f, NoCall)
    /\ UNCHANGED <<ledger, edges>>

SidecarForward(f) ==
    /\ call[f].op = "recorded"
    /\ Forward(Elements(call[f].batch), call[f].id)
    /\ acked' = acked \cup {call[f].id}
    /\ Busy(f, NoCall)
    /\ UNCHANGED <<ledger, edges>>

SidecarForwardRaises(f) ==
    /\ call[f].op = "recorded"
    /\ ForwardRaises(Elements(call[f].batch), call[f].id)
    /\ Busy(f, NoCall)
    /\ UNCHANGED <<ledger, edges, acked>>

(* Reads, the same in all front ends: forwarded, then recorded *)

Returned(f, ms) == IF f \in TagReader THEN {tag[m] : m \in ms} ELSE ms

ReadForward(f, ms) ==
    /\ Idle(f)
    /\ ms \subseteq store
    /\ Busy(f, [op |-> "read", returned |-> Returned(f, ms), surfaced |-> ms])
    /\ UNCHANGED <<backend, ledger, edges, acked>>

ReadRow(f) ==
    [kind |-> "retrieval", by |-> f, returned |-> call[f].returned,
     surfaced |-> call[f].surfaced]

\* Mutant: nothing is linked when some id is not a record's.
LinksAllOrNone(ids) ==
    IF ids \subseteq 1..Len(ledger) THEN {<<i, NextId>> : i \in ids} ELSE {}

\* _add_edge for each id returned: it is skipped when the id is not a record's.
Links(ids) == {<<i, NextId>> : i \in ids \cap 1..Len(ledger)}

ReadRecord(f) ==
    /\ call[f].op = "read"
    /\ AppendRow(ReadRow(f))
    /\ edges' = edges \cup Links(call[f].returned)
    /\ acked' = acked \cup {NextId}
    /\ Busy(f, NoCall)
    /\ UNCHANGED backend

\* Some of its edges may be there.
ReadRecordUnanswered(f) ==
    /\ call[f].op = "read"
    /\ \/ /\ AppendRow(ReadRow(f))
          /\ \E some \in SUBSET Links(call[f].returned) : edges' = edges \cup some
       \/ UNCHANGED <<ledger, edges>>
    /\ Busy(f, NoCall)
    /\ UNCHANGED <<backend, acked>>

Next ==
    \/ \E m \in Memory : Bypass(m) \/ Delete(m)
    \/ \E f \in Front :
          \/ \E b \in Batch :
                \/ ClientForward(f, b) \/ ClientForwardRaises(f, b)
                \/ SidecarRecord(f, b) \/ SidecarRecordUnanswered(f, b)
          \/ ClientRecord(f) \/ ClientRecordUnanswered(f)
          \/ SidecarForward(f) \/ SidecarForwardRaises(f)
          \/ \E ms \in SUBSET Memory : ReadForward(f, ms)
          \/ ReadRecord(f) \/ ReadRecordUnanswered(f)

Spec == Init /\ [][Next]_vars

-----------------------------------------------------------------------------
(* reconcile *)

\* Mutant: the ids in any record, what a retrieval returned included.
AnyRecordsIds ==
    Memory \cap UNION {IF r.kind = "write" THEN {r.memory_id} ELSE r.returned
                         : r \in Elements(ledger)}

ledger_memory_ids ==
    {r.memory_id : r \in {w \in Elements(ledger) : w.kind = "write"}} \ {None}

reconcile(ids) == ids \ ledger_memory_ids

-----------------------------------------------------------------------------
(* Properties *)

\* reconcile reports every memory that only ever came in behind the front
\* ends, whatever was read through them since.
BypassIsReported ==
    \A m \in Memory : came[m] = {"behind"} => m \in reconcile({m})

\* It never reports the first memory of a write whose call returned through a
\* client, whoever else writes and whatever list of ids it is given.
AckedIsKnown ==
    \A i \in acked :
        LET r == ledger[i]
        IN  r.kind = "write" /\ r.by \in Client /\ r.content # <<>>
              => r.content[1] \notin reconcile(Memory)

\* A memory id in the ledger was in the backend: no record of a write that was
\* refused.
RecordedWasStored == \A m \in ledger_memory_ids : "front" \in came[m]

\* A tag leads to the record of the very upsert that put the memory there,
\* however upserts of several sidecars interleave and wherever one stops.
TagNamesItsWrite ==
    \A m \in store : tag[m] # 0 =>
        /\ tag[m] <= Len(ledger)
        /\ ledger[tag[m]].kind = "write"
        /\ m \in Elements(ledger[tag[m]].content)

\* A retrieval that handed over tags is linked to each record they name, even
\* when others of the memories it surfaced have none.
TaggedReadsAreLinked ==
    \A i \in acked :
        LET r == ledger[i]
        IN  r.kind = "retrieval" /\ r.by \in TagReader
              => \A t \in r.returned \ {0} : <<t, i>> \in edges

(* What the documentation says and the code does not do *)

\* A retrieval that surfaced a stored memory has an edge from its write.
ReadsAreLinked ==
    \A i \in acked :
        LET r == ledger[i]
        IN  r.kind = "retrieval" =>
              \A m \in r.surfaced :
                 (\E w \in 1..(i - 1) : ledger[w].kind = "write" /\ ledger[w].memory_id = m)
                 => \E w \in 1..(i - 1) :
                       /\ ledger[w].kind = "write" /\ m \in Elements(ledger[w].content)
                       /\ <<w, i>> \in edges
=============================================================================
