---------------------------- MODULE CaptureProofs ----------------------------
(***************************************************************************)
(* Theorems about the front ends and the reconciliation, for any number of *)
(* clients, gateways and sidecars on one backend, any memories and calls   *)
(* of any size: what the ledger knows of the backend, what the tags lead   *)
(* to, and what the retrievals that hand over tags are linked to.          *)
(***************************************************************************)
EXTENDS Capture, SequenceTheorems, TLAPS

\* A client's write names the first of its memories, all of which it put into
\* the backend before.
Rows ==
    \A i \in 1..Len(ledger) : ledger[i].kind = "write" =>
        /\ ledger[i].memory_id =
               IF ledger[i].by \in Client THEN FirstId(ledger[i].content) ELSE None
        /\ ledger[i].by \in Client =>
               \A m \in Elements(ledger[i].content) : "front" \in came[m]

\* What a front end has in hand is what the backend and the ledger say.
Hands ==
    \A f \in Front :
        /\ call[f].op = "forwarded" =>
               f \in Client /\ \A m \in Elements(call[f].batch) : "front" \in came[m]
        /\ call[f].op = "recorded" =>
               /\ ledger[call[f].id].kind = "write"
               /\ ledger[call[f].id].content = call[f].batch
        /\ call[f].op = "read" /\ f \in TagReader => call[f].returned \subseteq 0..Len(ledger)

\* The inductive invariant.
CaptureInv ==
    /\ TypeOK
    /\ Rows /\ Hands
    /\ TagNamesItsWrite
    /\ TaggedReadsAreLinked

-----------------------------------------------------------------------------
(* The parts of a step *)

\* A batch is a sequence of memories.
LEMMA BatchType ==
    ASSUME NEW b \in Batch
    PROVE  /\ b \in Seq(Memory) /\ Elements(b) \subseteq Memory
           /\ b # <<>> => b[1] \in Elements(b)
<1>1. PICK n \in 0..MaxBatch : b \in [1..n -> Memory]
  BY DEF Batch
<1>2. n \in Nat
  BY <1>1, BoundAssumption
<1>3. b \in Seq(Memory)
  BY <1>1, <1>2, SeqDef
<1>4. DOMAIN b = 1..Len(b) /\ Len(b) \in Nat
  BY <1>3, LenProperties
<1>5. Elements(b) \subseteq Memory
  BY <1>1 DEF Elements
<1>6. b # <<>> => 1 \in DOMAIN b
  BY <1>3, <1>4, EmptySeq
<1> QED BY <1>3, <1>5, <1>6 DEF Elements

\* What a call in progress carries.
LEMMA CallType ==
    ASSUME TypeOK, NEW f \in Front
    PROVE  /\ call[f].op = "forwarded" => call[f].batch \in Batch
           /\ call[f].op = "recorded" => call[f].batch \in Batch /\ call[f].id \in Id
                                         /\ call[f].id <= Len(ledger)
           /\ call[f].op = "read" => /\ call[f].returned \subseteq Memory \cup 0..MaxRecords
                                     /\ call[f].surfaced \subseteq Memory
<1>1. call[f] \in Calls
  BY DEF TypeOK
<1>2. NoCall.op \notin {"forwarded", "recorded", "read"}
  BY NoneAssumption DEF NoCall
<1>3. call[f].op = "recorded" => call[f].id <= Len(ledger)
  BY DEF TypeOK
<1> QED BY <1>1, <1>2, <1>3 DEF Calls

\* Writing to the backend adds memories with the tag, and forgets nothing of
\* how any memory came.
LEMMA ApplyType ==
    ASSUME TypeOK, NEW ms \in SUBSET Memory, NEW id \in 0..MaxRecords,
           NEW how \in {"front", "behind"}, Apply(ms, id, how)
    PROVE  /\ store' \subseteq Memory
           /\ tag' \in [Memory -> 0..MaxRecords]
           /\ \A m \in Memory \ store' : tag'[m] = 0
           /\ came' \in [Memory -> SUBSET {"front", "behind"}]
           /\ \A m \in Memory : came[m] \subseteq came'[m]
           /\ \A m \in ms : how \in came'[m]
           /\ \A m \in ms : tag'[m] = id
           /\ \A m \in store' \ ms : m \in store /\ tag'[m] = tag[m]
BY DEF Apply, TypeOK

\* A row more leaves the ones there are.
LEMMA AppendRowType ==
    ASSUME TypeOK, NEW record \in Write \cup Retrieval, AppendRow(record)
    PROVE  /\ ledger' \in Seq(Write \cup Retrieval) /\ Len(ledger') <= MaxRecords
           /\ Len(ledger') = Len(ledger) + 1 /\ Len(ledger) \in Nat
           /\ NextId = Len(ledger') /\ NextId \in Id /\ NextId \notin 1..Len(ledger)
           /\ ledger'[NextId] = record
           /\ \A i \in 1..Len(ledger) : ledger'[i] = ledger[i]
<1>1. ledger \in Seq(Write \cup Retrieval) /\ Len(ledger) \in Nat /\ MaxRecords \in Nat
  BY BoundAssumption DEF TypeOK
<1>2. Len(ledger) < MaxRecords /\ ledger' = Append(ledger, record)
  BY DEF AppendRow
<1>3. /\ ledger' \in Seq(Write \cup Retrieval) /\ Len(ledger') = Len(ledger) + 1
      /\ ledger'[Len(ledger) + 1] = record
      /\ \A i \in 1..Len(ledger) : ledger'[i] = ledger[i]
  BY <1>1, <1>2, AppendProperties
<1> QED BY <1>1, <1>2, <1>3 DEF NextId, Id

\* The row of a write.
LEMMA WriteRowType ==
    ASSUME NEW f \in Front, NEW b \in Batch
    PROVE  WriteRow(f, b) \in Write
<1>1. FirstId(b) \in Memory \cup {None}
  BY BatchType DEF FirstId
<1> QED BY <1>1 DEF WriteRow, Write

\* The row of a retrieval.
LEMMA ReadRowType ==
    ASSUME TypeOK, NEW f \in Front, call[f].op = "read"
    PROVE  ReadRow(f) \in Retrieval
BY CallType DEF ReadRow, Retrieval

-----------------------------------------------------------------------------
(* Steps that change one thing *)

\* The backend changes and the ledger does not; what a front end then has in
\* hand, if it has anything, is what it wrote.
LEMMA BackendStep ==
    ASSUME CaptureInv,
           store' \subseteq Memory,
           tag' \in [Memory -> 0..MaxRecords],
           \A m \in Memory \ store' : tag'[m] = 0,
           came' \in [Memory -> SUBSET {"front", "behind"}],
           \A m \in Memory : came[m] \subseteq came'[m],
           TagNamesItsWrite',
           UNCHANGED <<ledger, edges>>,
           call' \in [Front -> Calls],
           \A f \in Front :
              \/ call'[f] = call[f]
              \/ call'[f] = NoCall
              \/ /\ f \in Client
                 /\ \E b \in Batch : /\ call'[f] = [op |-> "forwarded", batch |-> b]
                                     /\ \A m \in Elements(b) : "front" \in came'[m]
              \/ \E r, s : /\ call'[f] = [op |-> "read", returned |-> r, surfaced |-> s]
                           /\ f \in TagReader => r \subseteq 0..Len(ledger),
           acked' \subseteq 1..Len(ledger),
           \A i \in acked' \ acked : ledger[i].kind = "write"
    PROVE  CaptureInv'
<1>1. NoCall.op \notin {"forwarded", "recorded", "read"}
  BY NoneAssumption DEF NoCall
<1>2. TypeOK'
  <2>1. \A f \in Front : call'[f].op = "recorded" => call'[f] = call[f]
    BY <1>1
  <2> QED BY <2>1 DEF CaptureInv, TypeOK
<1>3. Rows'
  <2> SUFFICES ASSUME NEW i \in 1..Len(ledger), ledger[i].kind = "write"
               PROVE  /\ ledger[i].memory_id = IF ledger[i].by \in Client
                                               THEN FirstId(ledger[i].content) ELSE None
                      /\ ledger[i].by \in Client =>
                             \A m \in Elements(ledger[i].content) : "front" \in came'[m]
    BY DEF Rows
  <2>1. ledger[i] \in Write
    <3>1. ledger[i] \in Write \cup Retrieval
      BY ElementOfSeq DEF CaptureInv, TypeOK
    <3> QED BY <3>1 DEF Retrieval
  <2>2. Elements(ledger[i].content) \subseteq Memory
    BY <2>1, BatchType DEF Write
  <2> QED BY <2>2 DEF CaptureInv, Rows
<1>4. Hands'
  <2> SUFFICES ASSUME NEW f \in Front
               PROVE  /\ call'[f].op = "forwarded" =>
                             f \in Client /\ \A m \in Elements(call'[f].batch) : "front" \in came'[m]
                      /\ call'[f].op = "recorded" =>
                             /\ ledger[call'[f].id].kind = "write"
                             /\ ledger[call'[f].id].content = call'[f].batch
                      /\ call'[f].op = "read" /\ f \in TagReader =>
                             call'[f].returned \subseteq 0..Len(ledger)
    BY DEF Hands
  <2>1. CASE call'[f] = call[f]
    <3>1. call[f].op = "forwarded" => Elements(call[f].batch) \subseteq Memory
      BY CallType, BatchType DEF CaptureInv
    <3> QED BY <2>1, <3>1 DEF CaptureInv, Hands
  <2>2. CASE call'[f] # call[f]
    BY <1>1, <2>2
  <2> QED BY <2>1, <2>2
<1>5. TaggedReadsAreLinked'
  BY DEF CaptureInv, TaggedReadsAreLinked
<1> QED BY <1>2, <1>3, <1>4, <1>5 DEF CaptureInv

\* A row is stored and the backend does not change; a call is ended, or an
\* upsert is in hand; what is acknowledged has its edges.
LEMMA RowStep ==
    ASSUME CaptureInv, NEW record \in Write \cup Retrieval, AppendRow(record),
           record.kind = "write" =>
               /\ record.memory_id = IF record.by \in Client THEN FirstId(record.content) ELSE None
               /\ record.by \in Client => \A m \in Elements(record.content) : "front" \in came[m],
           UNCHANGED backend,
           NEW f \in Front,
           \/ call' = call
           \/ call' = [call EXCEPT ![f] = NoCall]
           \/ \E b \in Batch :
                 /\ call' = [call EXCEPT ![f] = [op |-> "recorded", batch |-> b, id |-> NextId]]
                 /\ record.kind = "write" /\ record.content = b,
           edges \subseteq edges', edges' \subseteq Id \X Id,
           acked' \in {acked, acked \cup {NextId}},
           acked' # acked /\ record.kind = "retrieval" /\ record.by \in TagReader =>
               \A t \in record.returned \ {0} : <<t, NextId>> \in edges'
    PROVE  CaptureInv'
<1>1. /\ ledger' \in Seq(Write \cup Retrieval) /\ Len(ledger') <= MaxRecords
      /\ Len(ledger') = Len(ledger) + 1 /\ Len(ledger) \in Nat
      /\ NextId = Len(ledger') /\ NextId \in Id /\ NextId \notin 1..Len(ledger)
      /\ ledger'[NextId] = record
      /\ \A i \in 1..Len(ledger) : ledger'[i] = ledger[i]
  BY AppendRowType DEF CaptureInv
<1>2. NoCall.op \notin {"forwarded", "recorded", "read"}
  BY NoneAssumption DEF NoCall
<1>3. call \in [Front -> Calls] /\ acked \subseteq 1..Len(ledger)
  BY DEF CaptureInv, TypeOK
<1>4. \A g \in Front :
         \/ call'[g] = call[g]
         \/ call'[g] = NoCall
         \/ \E b \in Batch : /\ call'[g] = [op |-> "recorded", batch |-> b, id |-> NextId]
                             /\ record.kind = "write" /\ record.content = b
  BY <1>3
<1>5. call' \in [Front -> Calls]
  <2>1. \A g \in Front : call'[g] \in Calls
    BY <1>1, <1>3, <1>4 DEF Calls
  <2>2. call' = [g \in Front |-> call'[g]]
    BY <1>3
  <2> QED BY <2>1, <2>2
<1>6. TypeOK'
  <2>1. acked' \subseteq 1..Len(ledger')
    BY <1>1, <1>3
  <2>2. \A g \in Front : call'[g].op = "recorded" => call'[g].id <= Len(ledger')
    <3> TAKE g \in Front
    <3>1. call[g].op = "recorded" => call[g].id \in Id /\ call[g].id <= Len(ledger)
      BY CallType DEF CaptureInv
    <3>2. call'[g] = call[g] \/ call'[g].op # "recorded" \/ call'[g].id = NextId
      <4>1. ASSUME NEW b, call'[g] = [op |-> "recorded", batch |-> b, id |-> NextId]
            PROVE  call'[g].id = NextId
        BY <4>1
      <4> QED BY <1>2, <1>4, <4>1
    <3>3. \A i \in Id : i <= Len(ledger) => i <= Len(ledger')
      BY <1>1, BoundAssumption DEF Id
    <3>4. NextId <= Len(ledger')
      BY <1>1
    <3> QED BY <3>1, <3>2, <3>3, <3>4
  <2> QED BY <1>1, <1>5, <2>1, <2>2 DEF CaptureInv, TypeOK, backend
<1>7. Rows'
  <2> SUFFICES ASSUME NEW i \in 1..Len(ledger'), ledger'[i].kind = "write"
               PROVE  /\ ledger'[i].memory_id = IF ledger'[i].by \in Client
                                                THEN FirstId(ledger'[i].content) ELSE None
                      /\ ledger'[i].by \in Client =>
                             \A m \in Elements(ledger'[i].content) : "front" \in came[m]
    BY DEF Rows, backend
  <2>1. i \in 1..Len(ledger) \/ i = NextId
    BY <1>1
  <2> QED BY <1>1, <2>1 DEF CaptureInv, Rows
<1>8. Hands'
  <2> SUFFICES ASSUME NEW g \in Front
               PROVE  /\ call'[g].op = "forwarded" =>
                             g \in Client /\ \A m \in Elements(call'[g].batch) : "front" \in came[m]
                      /\ call'[g].op = "recorded" =>
                             /\ ledger'[call'[g].id].kind = "write"
                             /\ ledger'[call'[g].id].content = call'[g].batch
                      /\ call'[g].op = "read" /\ g \in TagReader =>
                             call'[g].returned \subseteq 0..Len(ledger')
    BY DEF Hands, backend
  <2>1. CASE call'[g] = call[g]
    <3>1. call[g].op = "recorded" => call[g].id \in 1..Len(ledger)
      BY <1>1, CallType DEF CaptureInv, Id
    <3>2. 0..Len(ledger) \subseteq 0..Len(ledger')
      BY <1>1
    <3> QED BY <1>1, <2>1, <3>1, <3>2 DEF CaptureInv, Hands
  <2>2. CASE call'[g] = NoCall
    BY <1>2, <2>2
  <2>3. CASE \E b \in Batch :
                /\ call'[g] = [op |-> "recorded", batch |-> b, id |-> NextId]
                /\ record.kind = "write" /\ record.content = b
    <3>1. PICK b : /\ call'[g] = [op |-> "recorded", batch |-> b, id |-> NextId]
                   /\ record.kind = "write" /\ record.content = b
      BY <2>3
    <3>2. call'[g].op = "recorded" /\ call'[g].id = NextId /\ call'[g].batch = b
      BY <3>1
    <3> QED BY <1>1, <3>1, <3>2
  <2> QED BY <1>4, <2>1, <2>2, <2>3
<1>9. TagNamesItsWrite'
  <2> SUFFICES ASSUME NEW m \in store, tag[m] # 0
               PROVE  /\ tag[m] <= Len(ledger')
                      /\ ledger'[tag[m]].kind = "write"
                      /\ m \in Elements(ledger'[tag[m]].content)
    BY DEF TagNamesItsWrite, backend
  <2>1. /\ tag[m] <= Len(ledger) /\ ledger[tag[m]].kind = "write"
        /\ m \in Elements(ledger[tag[m]].content)
    BY DEF CaptureInv, TagNamesItsWrite
  <2>2. tag[m] \in 0..MaxRecords
    BY DEF CaptureInv, TypeOK
  <2>3. tag[m] \in 1..Len(ledger)
    BY <1>1, <2>1, <2>2, BoundAssumption
  <2> QED BY <1>1, <2>1, <2>3
<1>10. TaggedReadsAreLinked'
  <2> SUFFICES ASSUME NEW i \in acked', ledger'[i].kind = "retrieval", ledger'[i].by \in TagReader,
                      NEW t \in ledger'[i].returned \ {0}
               PROVE  <<t, i>> \in edges'
    BY DEF TaggedReadsAreLinked
  <2>1. CASE i \in acked
    BY <1>1, <1>3, <2>1 DEF CaptureInv, TaggedReadsAreLinked
  <2>2. CASE i \notin acked
    BY <1>1, <2>2
  <2> QED BY <2>1, <2>2
<1> QED BY <1>6, <1>7, <1>8, <1>9, <1>10 DEF CaptureInv

\* Nothing but a call or the acknowledgements of writes changes.
LEMMA QuietStep ==
    ASSUME CaptureInv, UNCHANGED <<backend, ledger, edges, acked>>,
           call' \in [Front -> Calls],
           \A f \in Front :
              \/ call'[f] = call[f] \/ call'[f] = NoCall
              \/ \E r, s : /\ call'[f] = [op |-> "read", returned |-> r, surfaced |-> s]
                           /\ f \in TagReader => r \subseteq 0..Len(ledger)
    PROVE  CaptureInv'
<1>1. TagNamesItsWrite'
  BY DEF CaptureInv, TagNamesItsWrite, backend
<1>2. /\ store' \subseteq Memory /\ tag' \in [Memory -> 0..MaxRecords]
      /\ \A m \in Memory \ store' : tag'[m] = 0
      /\ came' \in [Memory -> SUBSET {"front", "behind"}]
      /\ \A m \in Memory : came[m] \subseteq came'[m]
      /\ acked' \subseteq 1..Len(ledger)
      /\ \A i \in acked' \ acked : ledger[i].kind = "write"
      /\ UNCHANGED <<ledger, edges>>
  BY DEF CaptureInv, TypeOK, backend
<1> QED BY <1>1, <1>2, BackendStep

-----------------------------------------------------------------------------
(* The actions *)

\* A call that has ended, or begun to read, leaves every front end in a call
\* or in none.
LEMMA BusyType ==
    ASSUME TypeOK, NEW f \in Front, NEW c \in Calls, Busy(f, c)
    PROVE  /\ call' \in [Front -> Calls]
           /\ call'[f] = c
           /\ \A g \in Front : g # f => call'[g] = call[g]
BY DEF Busy, TypeOK

\* Tags lead where they led after the backend changed behind the front ends'
\* backs, or through them with another right tag.
LEMMA ApplyTags ==
    ASSUME CaptureInv, NEW ms \in SUBSET Memory, NEW id \in 0..MaxRecords,
           NEW how \in {"front", "behind"}, Apply(ms, id, how),
           id # 0 => /\ id <= Len(ledger) /\ ledger[id].kind = "write"
                     /\ ms \subseteq Elements(ledger[id].content),
           ledger' = ledger
    PROVE  TagNamesItsWrite'
<1>1. TypeOK /\ TagNamesItsWrite
  BY DEF CaptureInv
<1>2. /\ \A m \in ms : tag'[m] = id
      /\ \A m \in store' \ ms : m \in store /\ tag'[m] = tag[m]
  BY <1>1 DEF Apply, TypeOK
<1> QED BY <1>1, <1>2 DEF TagNamesItsWrite

\* Bypass, Delete and the ends of writes that raise.
LEMMA BackendChanges ==
    ASSUME CaptureInv, NEW ms \in SUBSET Memory, NEW id \in 0..MaxRecords,
           NEW how \in {"front", "behind"},
           Apply(ms, id, how) \/ UNCHANGED backend,
           id # 0 => /\ id <= Len(ledger) /\ ledger[id].kind = "write"
                     /\ ms \subseteq Elements(ledger[id].content),
           UNCHANGED <<ledger, edges>>,
           call' \in [Front -> Calls],
           \A f \in Front :
              \/ call'[f] = call[f]
              \/ call'[f] = NoCall
              \/ /\ f \in Client
                 /\ \E b \in Batch : /\ call'[f] = [op |-> "forwarded", batch |-> b]
                                     /\ \A m \in Elements(b) : "front" \in came'[m],
           acked' \subseteq 1..Len(ledger),
           \A i \in acked' \ acked : ledger[i].kind = "write"
    PROVE  CaptureInv'
<1>1. CASE Apply(ms, id, how)
  <2>1. /\ store' \subseteq Memory
        /\ tag' \in [Memory -> 0..MaxRecords]
        /\ \A m \in Memory \ store' : tag'[m] = 0
        /\ came' \in [Memory -> SUBSET {"front", "behind"}]
        /\ \A m \in Memory : came[m] \subseteq came'[m]
    BY <1>1, ApplyType DEF CaptureInv
  <2>2. TagNamesItsWrite'
    BY <1>1, ApplyTags
  <2> QED BY <2>1, <2>2, BackendStep
<1>2. CASE UNCHANGED backend
  <2>1. /\ store' \subseteq Memory
        /\ tag' \in [Memory -> 0..MaxRecords]
        /\ \A m \in Memory \ store' : tag'[m] = 0
        /\ came' \in [Memory -> SUBSET {"front", "behind"}]
        /\ \A m \in Memory : came[m] \subseteq came'[m]
    BY <1>2 DEF CaptureInv, TypeOK, backend
  <2>2. TagNamesItsWrite'
    BY <1>2 DEF CaptureInv, TagNamesItsWrite, backend
  <2> QED BY <2>1, <2>2, BackendStep
<1> QED BY <1>1, <1>2

\* Others change the backend.
LEMMA OthersStep ==
    ASSUME CaptureInv, NEW m \in Memory, Bypass(m) \/ Delete(m)
    PROVE  CaptureInv'
<1>1. CASE Bypass(m)
  <2>1. Apply({m}, 0, "behind") /\ UNCHANGED <<ledger, edges, call, acked>>
    BY <1>1 DEF Bypass
  <2>2. 0 \in 0..MaxRecords
    BY BoundAssumption
  <2>3. call' \in [Front -> Calls] /\ acked' \subseteq 1..Len(ledger)
    BY <2>1 DEF CaptureInv, TypeOK
  <2> QED BY <2>1, <2>2, <2>3, BackendChanges
<1>2. CASE Delete(m)
  <2>1. /\ store' = store \ {m} /\ tag' = [tag EXCEPT ![m] = 0]
        /\ UNCHANGED <<came, ledger, edges, call, acked>>
    BY <1>2 DEF Delete
  <2>2. TypeOK /\ TagNamesItsWrite
    BY DEF CaptureInv
  <2>3. /\ store' \subseteq Memory /\ tag' \in [Memory -> 0..MaxRecords]
        /\ \A x \in Memory \ store' : tag'[x] = 0
        /\ came' \in [Memory -> SUBSET {"front", "behind"}]
        /\ \A x \in Memory : came[x] \subseteq came'[x]
        /\ call' \in [Front -> Calls] /\ acked' \subseteq 1..Len(ledger)
    BY <2>1, <2>2, BoundAssumption DEF TypeOK
  <2>4. TagNamesItsWrite'
    BY <2>1, <2>2 DEF TypeOK, TagNamesItsWrite
  <2> QED BY <2>1, <2>3, <2>4, BackendStep
<1> QED BY <1>1, <1>2

\* A client's call reaches the backend.
LEMMA ClientForwardStep ==
    ASSUME CaptureInv, NEW f \in Front, NEW b \in Batch,
           ClientForward(f, b) \/ ClientForwardRaises(f, b)
    PROVE  CaptureInv'
<1>1. Elements(b) \in SUBSET Memory /\ 0 \in 0..MaxRecords
  BY BatchType, BoundAssumption
<1>2. TypeOK
  BY DEF CaptureInv
<1>3. CASE ClientForward(f, b)
  <2>1. /\ f \in Client /\ Apply(Elements(b), 0, "front")
        /\ Busy(f, [op |-> "forwarded", batch |-> b]) /\ UNCHANGED <<ledger, edges, acked>>
    BY <1>3 DEF ClientForward, Forward
  <2>2. [op |-> "forwarded", batch |-> b] \in Calls
    BY DEF Calls
  <2>3. /\ call' \in [Front -> Calls] /\ call'[f] = [op |-> "forwarded", batch |-> b]
        /\ \A g \in Front : g # f => call'[g] = call[g]
    BY <1>2, <2>1, <2>2, BusyType
  <2>4. \A m \in Elements(b) : "front" \in came'[m]
    BY <1>1, <1>2, <2>1, ApplyType
  <2>5. \A g \in Front :
           \/ call'[g] = call[g]
           \/ call'[g] = NoCall
           \/ /\ g \in Client
              /\ \E c \in Batch : /\ call'[g] = [op |-> "forwarded", batch |-> c]
                                  /\ \A m \in Elements(c) : "front" \in came'[m]
    BY <2>1, <2>3, <2>4
  <2>6. acked' \subseteq 1..Len(ledger) /\ acked' \ acked = {}
    BY <1>2, <2>1 DEF TypeOK
  <2> QED BY <1>1, <2>1, <2>3, <2>5, <2>6, BackendChanges
<1>4. CASE ClientForwardRaises(f, b)
  <2>1. /\ Apply(Elements(b), 0, "front") \/ UNCHANGED backend
        /\ UNCHANGED <<ledger, edges, call, acked>>
    BY <1>4 DEF ClientForwardRaises, ForwardRaises, Forward
  <2>2. call' \in [Front -> Calls] /\ acked' \subseteq 1..Len(ledger)
    BY <1>2, <2>1 DEF TypeOK
  <2> QED BY <1>1, <2>1, <2>2, BackendChanges
<1> QED BY <1>3, <1>4

\* An upsert that is recorded is forwarded with the id of its record.
LEMMA SidecarForwardStep ==
    ASSUME CaptureInv, NEW f \in Front, SidecarForward(f) \/ SidecarForwardRaises(f)
    PROVE  CaptureInv'
<1>1. TypeOK /\ call[f].op = "recorded"
  BY DEF CaptureInv, SidecarForward, SidecarForwardRaises
<1>2. call[f].batch \in Batch /\ call[f].id \in Id /\ call[f].id <= Len(ledger)
  BY <1>1, CallType
<1>3. /\ Elements(call[f].batch) \in SUBSET Memory
      /\ call[f].id \in 0..MaxRecords /\ call[f].id \in 1..Len(ledger)
  BY <1>1, <1>2, BatchType, BoundAssumption DEF Id, TypeOK
<1>4. ledger[call[f].id].kind = "write" /\ ledger[call[f].id].content = call[f].batch
  BY <1>1 DEF CaptureInv, Hands
<1>5. /\ Apply(Elements(call[f].batch), call[f].id, "front") \/ UNCHANGED backend
      /\ acked' = acked \/ acked' = acked \cup {call[f].id}
      /\ Busy(f, NoCall) /\ UNCHANGED <<ledger, edges>>
  BY DEF SidecarForward, SidecarForwardRaises, ForwardRaises, Forward
<1>6. /\ call' \in [Front -> Calls] /\ call'[f] = NoCall
      /\ \A g \in Front : g # f => call'[g] = call[g]
  BY <1>1, <1>5, BusyType DEF Calls
<1>7. /\ acked' \subseteq 1..Len(ledger)
      /\ \A i \in acked' \ acked : ledger[i].kind = "write"
  BY <1>1, <1>3, <1>4, <1>5 DEF TypeOK
<1>8. \A g \in Front : call'[g] = call[g] \/ call'[g] = NoCall
  BY <1>6
<1>9. Elements(call[f].batch) \subseteq Elements(ledger[call[f].id].content)
  BY <1>4
<1> QED BY <1>2, <1>3, <1>4, <1>5, <1>6, <1>7, <1>8, <1>9, BackendChanges

\* A front end stores the row of a write.
LEMMA WriteRowStep ==
    ASSUME CaptureInv, NEW f \in Front, NEW b \in Batch, AppendRow(WriteRow(f, b)),
           f \in Client => \A m \in Elements(b) : "front" \in came[m],
           \/ call' = call \/ Busy(f, NoCall)
           \/ Busy(f, [op |-> "recorded", batch |-> b, id |-> NextId]),
           acked' \in {acked, acked \cup {NextId}},
           UNCHANGED <<backend, edges>>
    PROVE  CaptureInv'
<1> DEFINE row == WriteRow(f, b)
<1>1. /\ row \in Write /\ row.kind = "write" /\ row.content = b /\ row.by = f
      /\ row.memory_id = IF f \in Client THEN FirstId(b) ELSE None
  BY WriteRowType DEF WriteRow
<1>2. AppendRow(row)
  OBVIOUS
<1>3. edges \subseteq edges' /\ edges' \subseteq Id \X Id
  BY DEF CaptureInv, TypeOK
<1>4. \/ call' = call
      \/ call' = [call EXCEPT ![f] = NoCall]
      \/ call' = [call EXCEPT ![f] = [op |-> "recorded", batch |-> b, id |-> NextId]]
  BY DEF Busy
<1> HIDE DEF row
<1> QED BY <1>1, <1>2, <1>3, <1>4, RowStep

\* The rows of writes, answered or not.
LEMMA WriteStep ==
    ASSUME CaptureInv, NEW f \in Front,
           \/ ClientRecord(f) \/ ClientRecordUnanswered(f)
           \/ \E b \in Batch : SidecarRecord(f, b) \/ SidecarRecordUnanswered(f, b)
    PROVE  CaptureInv'
<1>1. TypeOK
  BY DEF CaptureInv
<1>2. ASSUME UNCHANGED <<backend, ledger, edges, acked>>, Busy(f, NoCall) \/ call' = call
      PROVE  CaptureInv'
  <2>1. call' \in [Front -> Calls] /\ \A g \in Front : call'[g] = call[g] \/ call'[g] = NoCall
    BY <1>1, <1>2, BusyType DEF Calls, TypeOK
  <2> QED BY <1>2, <2>1, QuietStep
<1>3. CASE ClientRecord(f) \/ ClientRecordUnanswered(f)
  <2>1. call[f].op = "forwarded"
    BY <1>3 DEF ClientRecord, ClientRecordUnanswered
  <2>2. call[f].batch \in Batch /\ \A m \in Elements(call[f].batch) : "front" \in came[m]
    BY <1>1, <2>1, CallType DEF CaptureInv, Hands
  <2>3. /\ AppendRow(WriteRow(f, call[f].batch)) \/ UNCHANGED <<ledger, acked>>
        /\ acked' \in {acked, acked \cup {NextId}}
        /\ Busy(f, NoCall) /\ UNCHANGED <<backend, edges>>
    BY <1>3 DEF ClientRecord, ClientRecordUnanswered, Unanswered
  <2> QED BY <1>2, <2>2, <2>3, WriteRowStep
<1>4. ASSUME NEW b \in Batch, SidecarRecord(f, b) \/ SidecarRecordUnanswered(f, b)
      PROVE  CaptureInv'
  <2>1. f \notin Client
    BY <1>4, FrontAssumption DEF SidecarRecord, SidecarRecordUnanswered
  <2>2. /\ AppendRow(WriteRow(f, b)) \/ UNCHANGED <<ledger, call>>
        /\ call' = call \/ Busy(f, [op |-> "recorded", batch |-> b, id |-> NextId])
        /\ UNCHANGED <<backend, edges, acked>>
    BY <1>4 DEF SidecarRecord, SidecarRecordUnanswered, Unanswered
  <2> QED BY <1>2, <2>1, <2>2, WriteRowStep
<1> QED BY <1>3, <1>4

\* Tags handed over are ids of records there are.
LEMMA ReadForwardStep ==
    ASSUME CaptureInv, NEW f \in Front, NEW ms \in SUBSET Memory, ReadForward(f, ms)
    PROVE  CaptureInv'
<1> DEFINE c == [op |-> "read", returned |-> Returned(f, ms), surfaced |-> ms]
<1>1. TypeOK /\ ms \subseteq store /\ Busy(f, c) /\ UNCHANGED <<backend, ledger, edges, acked>>
  BY DEF CaptureInv, ReadForward
<1>2. \A m \in ms : tag[m] \in 0..Len(ledger) /\ tag[m] \in 0..MaxRecords
  <2> TAKE m \in ms
  <2>1. tag[m] \in 0..MaxRecords /\ Len(ledger) \in Nat
    BY <1>1 DEF TypeOK
  <2>2. tag[m] # 0 => tag[m] <= Len(ledger)
    BY <1>1 DEF CaptureInv, TagNamesItsWrite
  <2> QED BY <2>1, <2>2, BoundAssumption
<1>3. Returned(f, ms) \subseteq Memory \cup 0..MaxRecords
  BY <1>2 DEF Returned
<1>4. f \in TagReader => Returned(f, ms) \subseteq 0..Len(ledger)
  BY <1>2 DEF Returned
<1>5. c \in Calls
  BY <1>3 DEF Calls
<1>6. /\ call' \in [Front -> Calls] /\ call'[f] = c
      /\ \A g \in Front : g # f => call'[g] = call[g]
  BY <1>1, <1>5, BusyType
<1>7. \A g \in Front :
         \/ call'[g] = call[g] \/ call'[g] = NoCall
         \/ \E r, s : /\ call'[g] = [op |-> "read", returned |-> r, surfaced |-> s]
                      /\ g \in TagReader => r \subseteq 0..Len(ledger)
  BY <1>4, <1>6
<1> QED BY <1>1, <1>6, <1>7, QuietStep

\* A retrieval is stored with the links it can have.
LEMMA ReadRecordStep ==
    ASSUME CaptureInv, NEW f \in Front, ReadRecord(f) \/ ReadRecordUnanswered(f)
    PROVE  CaptureInv'
<1>1. TypeOK /\ call[f].op = "read" /\ Busy(f, NoCall) /\ UNCHANGED backend
  BY DEF CaptureInv, ReadRecord, ReadRecordUnanswered
<1>2. CASE UNCHANGED <<ledger, edges, acked>>
  <2>1. call' \in [Front -> Calls] /\ \A g \in Front : call'[g] = call[g] \/ call'[g] = NoCall
    BY <1>1, BusyType DEF Calls
  <2> QED BY <1>1, <1>2, <2>1, QuietStep
<1>3. CASE /\ AppendRow(ReadRow(f))
           /\ \/ /\ edges' = edges \cup Links(call[f].returned)
                 /\ acked' = acked \cup {NextId}
              \/ /\ \E some \in SUBSET Links(call[f].returned) : edges' = edges \cup some
                 /\ acked' = acked
  <2> DEFINE row == ReadRow(f)
             new == Links(call[f].returned)
  <2>1. row \in Retrieval /\ row.kind = "retrieval" /\ row.by = f
        /\ row.returned = call[f].returned
    BY <1>1, ReadRowType DEF ReadRow
  <2>2. NextId \in Id /\ Len(ledger) \in Nat /\ Len(ledger) <= MaxRecords
    BY <1>1, <1>3, <2>1, AppendRowType DEF TypeOK
  <2>3. new \subseteq Id \X Id
    BY <2>2, BoundAssumption DEF Links, Id
  <2>4. \/ edges' = edges \cup new /\ acked' = acked \cup {NextId}
        \/ (\E some \in SUBSET new : edges' = edges \cup some) /\ acked' = acked
    BY <1>3
  <2>5. edges \subseteq edges' /\ edges' \subseteq Id \X Id
    BY <1>1, <2>3, <2>4 DEF TypeOK
  <2>6. ASSUME acked' # acked, f \in TagReader
        PROVE  \A t \in row.returned \ {0} : <<t, NextId>> \in edges'
    <3>1. call[f].returned \subseteq 0..Len(ledger)
      BY <1>1, <2>6 DEF CaptureInv, Hands
    <3>2. \A t \in call[f].returned \ {0} : t \in 1..Len(ledger)
      BY <2>2, <3>1
    <3>3. edges' = edges \cup new
      BY <2>4, <2>6
    <3> QED BY <2>1, <3>2, <3>3 DEF Links
  <2>7. acked' \in {acked, acked \cup {NextId}}
    BY <2>4
  <2>8. AppendRow(row) /\ call' = [call EXCEPT ![f] = NoCall]
    BY <1>1, <1>3 DEF Busy
  <2> HIDE DEF row
  <2> QED BY <1>1, <2>1, <2>5, <2>6, <2>7, <2>8, RowStep
<1> QED BY <1>2, <1>3 DEF ReadRecord, ReadRecordUnanswered

\* Every step keeps the invariant.
LEMMA CaptureStep ==
    ASSUME CaptureInv, [Next]_vars
    PROVE  CaptureInv'
<1>1. CASE UNCHANGED vars
  BY <1>1 DEF vars, backend, CaptureInv, TypeOK, Rows, Hands, TagNamesItsWrite,
              TaggedReadsAreLinked
<1>2. CASE Next
  BY <1>2, OthersStep, ClientForwardStep, SidecarForwardStep, WriteStep, ReadForwardStep,
     ReadRecordStep DEF Next
<1> QED BY <1>1, <1>2

\* It holds at first.
LEMMA CaptureInit ==
    ASSUME Init
    PROVE  CaptureInv
<1>1. NoCall.op \notin {"forwarded", "recorded", "read"} /\ NoCall \in Calls
  BY NoneAssumption DEF NoCall, Calls
<1>2. <<>> \in Seq(Write \cup Retrieval) /\ Len(<<>>) = 0 /\ 0 \in 0..MaxRecords
  BY BoundAssumption, EmptySeq
<1>3. TypeOK
  BY <1>1, <1>2, BoundAssumption DEF Init, TypeOK
<1> QED BY <1>1, <1>2, <1>3 DEF Init, CaptureInv, Rows, Hands, TagNamesItsWrite,
                               TaggedReadsAreLinked

-----------------------------------------------------------------------------
(* The theorems *)

\* Every value keeps its type, whatever call is cut short: an upsert in hand
\* is in the ledger, a memory that is gone has no tag.
THEOREM CaptureTypes == Spec => []TypeOK
<1>1. Init => CaptureInv
  BY CaptureInit
<1>2. CaptureInv /\ [Next]_vars => CaptureInv'
  BY CaptureStep
<1>3. CaptureInv => TypeOK
  BY DEF CaptureInv
<1> QED BY <1>1, <1>2, <1>3, PTL DEF Spec

\* The memory ids that the ledger knows, from its rows (adapters/_common.py).
LEMMA KnownIds ==
    ASSUME CaptureInv, NEW m \in ledger_memory_ids
    PROVE  m \in Memory /\ "front" \in came[m]
<1>1. ledger \in Seq(Write \cup Retrieval)
  BY DEF CaptureInv, TypeOK
<1>2. DOMAIN ledger = 1..Len(ledger)
  BY <1>1, LenProperties
<1>3. PICK i \in 1..Len(ledger) :
          ledger[i].kind = "write" /\ ledger[i].memory_id = m /\ m # None
  BY <1>2 DEF ledger_memory_ids, Elements
<1>4. ledger[i] \in Write
  <2>1. ledger[i] \in Write \cup Retrieval
    BY <1>1, ElementOfSeq
  <2> QED BY <1>3, <2>1 DEF Retrieval
<1>5. ledger[i].content \in Batch /\ ledger[i].memory_id \in Memory \cup {None}
  BY <1>4 DEF Write
<1>6. /\ ledger[i].by \in Client /\ m = FirstId(ledger[i].content)
      /\ \A x \in Elements(ledger[i].content) : "front" \in came[x]
  BY <1>3 DEF CaptureInv, Rows
<1>7. m \in Elements(ledger[i].content)
  BY <1>3, <1>5, <1>6, BatchType DEF FirstId
<1> QED BY <1>3, <1>5, <1>6, <1>7

\* A memory id in the ledger was put into the backend by a front end: the
\* clients record after they forward (capture/wrapper.py, gateway.py).
THEOREM KnownIdsWereStored == Spec => []RecordedWasStored
<1>1. Init => CaptureInv
  BY CaptureInit
<1>2. CaptureInv /\ [Next]_vars => CaptureInv'
  BY CaptureStep
<1>3. CaptureInv => RecordedWasStored
  BY KnownIds DEF RecordedWasStored
<1> QED BY <1>1, <1>2, <1>3, PTL DEF Spec

\* reconcile reports every memory that only ever came in behind the front ends
\* (adapters/_common.py).
THEOREM BypassesAreReported == Spec => []BypassIsReported
<1>1. Init => CaptureInv
  BY CaptureInit
<1>2. CaptureInv /\ [Next]_vars => CaptureInv'
  BY CaptureStep
<1>3. CaptureInv => BypassIsReported
  BY KnownIds DEF BypassIsReported, reconcile
<1> QED BY <1>1, <1>2, <1>3, PTL DEF Spec

\* reconcile never reports the first memory of a write that a client's call
\* returned from.
THEOREM AcknowledgedIsKnown == Spec => []AckedIsKnown
<1>1. Init => CaptureInv
  BY CaptureInit
<1>2. CaptureInv /\ [Next]_vars => CaptureInv'
  BY CaptureStep
<1>3. ASSUME CaptureInv
      PROVE  AckedIsKnown
  <2> SUFFICES ASSUME NEW i \in acked, ledger[i].kind = "write", ledger[i].by \in Client,
                      ledger[i].content # <<>>
               PROVE  ledger[i].content[1] \in ledger_memory_ids
    BY DEF AckedIsKnown, reconcile
  <2>1. ledger \in Seq(Write \cup Retrieval) /\ i \in 1..Len(ledger)
    BY <1>3 DEF CaptureInv, TypeOK
  <2>2. DOMAIN ledger = 1..Len(ledger)
    BY <2>1, LenProperties
  <2>3. ledger[i].memory_id = ledger[i].content[1]
    BY <1>3, <2>1 DEF CaptureInv, Rows, FirstId
  <2>4. ledger[i].content[1] # None
    <3>1. ledger[i] \in Write \cup Retrieval
      BY <2>1, ElementOfSeq
    <3>2. ledger[i].content \in Batch
      BY <3>1 DEF Write, Retrieval
    <3> QED BY <3>2, BatchType, NoneAssumption
  <2> QED BY <2>1, <2>2, <2>3, <2>4 DEF ledger_memory_ids, Elements
<1> QED BY <1>1, <1>2, <1>3, PTL DEF Spec

\* A tag leads to the record of the upsert that put the memory there, however
\* many sidecars upsert at once (capture/sidecar.py).
THEOREM TagsNameTheirWrite == Spec => []TagNamesItsWrite
<1>1. Init => CaptureInv
  BY CaptureInit
<1>2. CaptureInv /\ [Next]_vars => CaptureInv'
  BY CaptureStep
<1>3. CaptureInv => TagNamesItsWrite
  BY DEF CaptureInv
<1> QED BY <1>1, <1>2, <1>3, PTL DEF Spec

\* A retrieval that handed over tags is linked to every record they name, even
\* when other memories it surfaced have none (capture/engine.py).
THEOREM TaggedReadsLink == Spec => []TaggedReadsAreLinked
<1>1. Init => CaptureInv
  BY CaptureInit
<1>2. CaptureInv /\ [Next]_vars => CaptureInv'
  BY CaptureStep
<1>3. CaptureInv => TaggedReadsAreLinked
  BY DEF CaptureInv
<1> QED BY <1>1, <1>2, <1>3, PTL DEF Spec
=============================================================================
