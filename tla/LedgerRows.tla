----------------------------- MODULE LedgerRows -----------------------------
(***************************************************************************)
(* The rows and checkpoints of the ledger file and the two verifiers that  *)
(* read them (ledger/chain.py, merkle/tree.py).                            *)
(*                                                                         *)
(* BLAKE3 is collision-free here: the hash of payload || prev_hash is the  *)
(* sequence of the payloads it commits to, so equal hashes mean equal      *)
(* histories.  A Merkle root is the sequence of its leaves; module         *)
(* MerkleTree shows that this is all compute_root keeps.  A signature is  *)
(* its key and the message it signs.                                       *)
(***************************************************************************)
EXTENDS Integers, Sequences

\* The SQL NULL in the genesis row's prev_hash: concatenated as no bytes.
NULL == <<>>

Link(payload, prev) == Append(prev, payload)

Sign(kid, msg) == [kid |-> kid, msg |-> msg]

SignatureVerifies(sig, msg, kid) == sig = Sign(kid, msg)

\* Mutant: the signature covers the payload and not the link.
NewRowSignsPayload(payload, prev, kid) ==
    [ rec  |-> payload,
      prev |-> prev,
      hash |-> Link(payload, prev),
      sig  |-> Sign(kid, <<"row", Link(payload, NULL)>>) ]

NewRow(payload, prev, kid) ==
    [ rec  |-> payload,
      prev |-> prev,
      hash |-> Link(payload, prev),
      sig  |-> Sign(kid, <<"row", Link(payload, prev)>>) ]

\* Mutant: the leaf count names the row after the last one.
NewCheckpointOneMore(leaves, kid) ==
    [ count |-> Len(leaves) + 1,
      root  |-> leaves,
      sig   |-> Sign(kid, <<"root", leaves>>) ]

NewCheckpoint(leaves, kid) ==
    [ count |-> Len(leaves),
      root  |-> leaves,
      sig   |-> Sign(kid, <<"root", leaves>>) ]

Hashes(rows) == [i \in 1..Len(rows) |-> rows[i].hash]

\* Mutant: the rows sorted the wrong way.
FirstEntryHash(rows) == IF rows = <<>> THEN NULL ELSE rows[1].hash

LastEntryHash(rows) == IF rows = <<>> THEN NULL ELSE rows[Len(rows)].hash

Recorded(rows) == {rows[i].rec : i \in 1..Len(rows)}

-----------------------------------------------------------------------------
(* verify_chain *)

\* The hash the walk carries when it reaches row i.
WalkHash(rows, i) == IF i = 1 THEN NULL ELSE rows[i - 1].hash

RowVerdict(rows, i, kid) ==
    IF rows[i].hash # Link(rows[i].rec, rows[i].prev) THEN "edit"
    ELSE IF rows[i].prev # WalkHash(rows, i) THEN "gap"
    ELSE IF ~SignatureVerifies(rows[i].sig, <<"row", rows[i].hash>>, kid)
         THEN "forgery"
    ELSE "ok"

ChainOK(rows, kid) == \A i \in 1..Len(rows) : RowVerdict(rows, i, kid) = "ok"

\* The report: the first row that fails, and the rows passed before it.
VerifyChain(rows, kid) ==
    IF ChainOK(rows, kid)
    THEN [ok |-> TRUE, checked |-> Len(rows), kind |-> "none"]
    ELSE LET i == CHOOSE i \in 1..Len(rows) :
                    /\ RowVerdict(rows, i, kid) # "ok"
                    /\ \A j \in 1..(i - 1) : RowVerdict(rows, j, kid) = "ok"
         IN  [ok |-> FALSE, checked |-> i - 1, kind |-> RowVerdict(rows, i, kid)]

(* verify_merkle *)

\* A signed checkpoint against the first count rows.
CheckpointVerdict(cp, rows, kid) ==
    IF ~SignatureVerifies(cp.sig, <<"root", cp.root>>, kid) THEN "signature"
    ELSE IF Len(rows) < cp.count THEN "truncated"
    ELSE IF SubSeq(Hashes(rows), 1, cp.count) # cp.root THEN "root"
    ELSE "ok"

VerifyMerkle(rows, cps, kid) ==
    IF cps # <<>> THEN CheckpointVerdict(cps[Len(cps)], rows, kid)
    ELSE IF rows = <<>> THEN "ok" ELSE "no_checkpoint"
=============================================================================
