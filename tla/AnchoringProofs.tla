--------------------------- MODULE AnchoringProofs ---------------------------
(***************************************************************************)
(* Theorems about external anchoring, for any records, backends, cadences  *)
(* and faults and every bound: what verify_anchors is sure to find, and    *)
(* what it never takes for tampering.                                      *)
(***************************************************************************)
EXTENDS Anchoring, SequenceTheorems, TLAPS

Row == [rec : Rec, prev : Seq(Rec), hash : Seq(Rec),
        sig : [kid : {Kid}, msg : {"row"} \X Seq(Rec)]]

RootSig == [kid : {Kid}, msg : {"root"} \X Seq(Seq(Rec))]

TimedCheckpoint == [cp : [count : Nat, root : Seq(Seq(Rec)), sig : RootSig],
                    at : 1..MaxCheckpoints]

\* s is how t begins.
Begins(s, t) == Len(s) <= Len(t) /\ \A i \in 1..Len(s) : s[i] = t[i]

\* A checkpoint of some first rows of the ledger.
Covers(c, rs) ==
    /\ Begins(c.cp.root, Hashes(rs))
    /\ c.cp.count = Len(c.cp.root)
    /\ c.cp.sig = Sign(Kid, <<"root", c.cp.root>>)

\* What the ledger file holds, now or in the copy.
LedgerOK(rs, cs, rc) ==
    /\ rs \in Seq(Row) /\ cs \in Seq(TimedCheckpoint) /\ rc \in Seq(StatementType)
    /\ \A i \in 1..Len(cs) : Covers(cs[i], rs)

\* A statement that anchor_now made, of a checkpoint of a ledger with rows; the
\* checkpoint may be older than the rows.
Genuine(w) ==
    /\ w \in StatementType
    /\ w.count = Len(w.root)
    /\ w.sig = Sign(Kid, <<"root", w.root>>)
    /\ w.root # <<>> => w.ledger = [genesis |-> w.root[1], kid |-> Kid]

Publishing == pc \in {"publish", "record"}

\* What the call in progress has: rows that are still there, and, from its
\* checkpoint on, something newer that covers them.
InHand ==
    /\ pc \in {"idle", "opened", "checkpointed", "identify", "publish", "record"}
    /\ leaves \in Seq(Seq(Rec))
    /\ pc # "idle" => Begins(leaves, Hashes(rows))
    /\ pc = "checkpointed" => cps # <<>> /\ Begins(leaves, cps[Len(cps)].cp.root)
    /\ pc = "identify" => /\ \E i \in 1..Len(cps) : checkpoint = cps[i]
                          /\ Begins(leaves, checkpoint.cp.root)
    /\ ~Publishing => statement = NONE
    /\ Publishing => Genuine(statement) /\ Begins(leaves, statement.root)
    /\ pc = "record" => statement \in Elements(log) \/ corrupt = TRUE

\* What the calls that returned had is covered by what they published, which is
\* there unless the witness file cannot be read.
Past ==
    /\ covered \subseteq [rows : Seq(Seq(Rec)), statement : StatementType]
    /\ \A c \in covered : /\ Genuine(c.statement) /\ Begins(c.rows, c.statement.root)
                          /\ c.statement \in Elements(log) \/ corrupt = TRUE

\* What there is: the ledger agrees with its own checkpoints, the log holds
\* only what was published.
World ==
    /\ profile \in [backend : Backends, checkpoint_every : Cadences]
    /\ LedgerOK(rows, cps, receipts)
    /\ LedgerOK(backup.rows, backup.cps, backup.receipts)
    /\ clock \in 0..MaxCheckpoints /\ restores \in 0..MaxRestores
    /\ log \in Seq(StatementType) /\ \A w \in Elements(log) : Genuine(w)
    /\ tail \in {"newline", "unterminated", "cut"} /\ corrupt \in BOOLEAN
    /\ profile.backend = "rekor" => tail = "newline" /\ corrupt = FALSE
    /\ vpc \in {"idle", "local"}

\* The inductive invariant.
Sound == World /\ InHand /\ Past

\* Of a ledger nobody put an older copy of in place, and a file that can be
\* read: whatever was published is of a checkpoint that the ledger has.
Kept(w) == rows # <<>> /\ \E i \in 1..Len(cps) : w = Build(cps[i], ledger_id)

Untouched ==
    restores = 0 /\ corrupt = FALSE =>
        /\ \A w \in Elements(log) : Kept(w)
        /\ Publishing => Kept(statement)
        /\ Elements(receipts) \subseteq Elements(log)
        /\ verdict \subseteq {"error", "no_witness", "rollback", "orphaned_witness"}

-----------------------------------------------------------------------------
(* Sequences *)

\* A beginning is a prefix.
LEMMA BeginsIsPrefix ==
    ASSUME NEW S, NEW s \in Seq(S), NEW t \in Seq(S)
    PROVE  /\ Begins(s, t) <=> Len(s) <= Len(t) /\ SubSeq(t, 1, Len(s)) = s
           /\ Begins(s, t) <=> IsPrefix(s, t)
<1>1. Len(s) \in Nat /\ Len(t) \in Nat /\ (\A i \in 1..Len(t) : t[i] \in S)
  BY ElementOfSeq
<1>2. SubSeq(s, 1, Len(s)) = s
  BY SubSeqFull
<1>3. ASSUME Len(s) <= Len(t)
      PROVE  /\ SubSeq(t, 1, Len(s)) \in Seq(S)
             /\ Len(SubSeq(t, 1, Len(s))) = Len(s)
             /\ \A i \in 1..Len(s) : SubSeq(t, 1, Len(s))[i] = t[i]
  <2>1. \A i \in 1..Len(s) : t[i] \in S
    BY <1>1, <1>3
  <2>2. /\ SubSeq(t, 1, Len(s)) \in Seq(S)
        /\ Len(SubSeq(t, 1, Len(s))) = IF 1 <= Len(s) THEN Len(s) - 1 + 1 ELSE 0
        /\ \A i \in 1..(Len(s) - 1 + 1) : SubSeq(t, 1, Len(s))[i] = t[1 + i - 1]
    BY <1>1, <2>1, SubSeqProperties
  <2> QED BY <1>1, <2>2
<1>4. ASSUME Len(s) <= Len(t), \A i \in 1..Len(s) : s[i] = t[i]
      PROVE  SubSeq(t, 1, Len(s)) = s
  BY <1>3, <1>4, SeqEqual
<1> QED BY <1>2, <1>3, <1>4 DEF Begins, IsPrefix

\* The hashes of the rows.
LEMMA HashesType ==
    ASSUME NEW rs \in Seq(Row)
    PROVE  /\ Hashes(rs) \in Seq(Seq(Rec)) /\ Len(Hashes(rs)) = Len(rs) /\ Len(rs) \in Nat
           /\ \A i \in 1..Len(rs) : Hashes(rs)[i] = rs[i].hash /\ rs[i].hash \in Seq(Rec)
<1>1. Len(rs) \in Nat /\ \A i \in 1..Len(rs) : rs[i] \in Row
  BY ElementOfSeq
<1>2. Hashes(rs) \in [1..Len(rs) -> Seq(Rec)]
  BY <1>1 DEF Hashes, Row
<1>3. Hashes(rs) \in Seq(Seq(Rec)) /\ Len(Hashes(rs)) = Len(rs)
  BY <1>1, <1>2, SeqDef, LenProperties
<1> QED BY <1>1, <1>3 DEF Hashes, Row

\* Another row leaves the hashes of those before it.
LEMMA HashesGrow ==
    ASSUME NEW rs \in Seq(Row), NEW row \in Row
    PROVE  /\ Append(rs, row) \in Seq(Row) /\ Len(Append(rs, row)) = Len(rs) + 1
           /\ Append(rs, row) # <<>>
           /\ Begins(Hashes(rs), Hashes(Append(rs, row)))
<1>1. /\ Append(rs, row) \in Seq(Row) /\ Len(Append(rs, row)) = Len(rs) + 1
      /\ Append(rs, row) # <<>>
      /\ \A i \in 1..Len(rs) : Append(rs, row)[i] = rs[i]
  BY AppendProperties
<1>2. /\ Len(Hashes(rs)) = Len(rs) /\ Len(rs) \in Nat
      /\ Len(Hashes(Append(rs, row))) = Len(rs) + 1
      /\ \A i \in 1..Len(rs) : Hashes(rs)[i] = rs[i].hash
      /\ \A i \in 1..(Len(rs) + 1) : Hashes(Append(rs, row))[i] = Append(rs, row)[i].hash
  BY <1>1, HashesType
<1>3. \A i \in 1..Len(rs) : i \in 1..(Len(rs) + 1)
  BY <1>2
<1> QED BY <1>1, <1>2, <1>3 DEF Begins

\* Beginnings of beginnings.
LEMMA BeginsTransitive ==
    ASSUME NEW S, NEW r \in Seq(S), NEW s \in Seq(S), NEW t \in Seq(S),
           Begins(r, s), Begins(s, t)
    PROVE  Begins(r, t)
<1>1. Len(r) \in Nat /\ Len(s) \in Nat /\ Len(t) \in Nat
  OBVIOUS
<1>2. \A i \in 1..Len(r) : i \in 1..Len(s)
  BY <1>1 DEF Begins
<1> QED BY <1>1, <1>2 DEF Begins

\* The elements of a sequence that grows.
LEMMA ElementsOf ==
    ASSUME NEW S, NEW s \in Seq(S), NEW x \in S
    PROVE  /\ Append(s, x) \in Seq(S)
           /\ Elements(Append(s, x)) = Elements(s) \cup {x}
           /\ Elements(s) \subseteq S
<1>1. Len(s) \in Nat /\ \A i \in 1..Len(s) : s[i] \in S
  BY ElementOfSeq
<1>2. /\ Append(s, x) \in Seq(S) /\ Len(Append(s, x)) = Len(s) + 1
      /\ Append(s, x)[Len(s) + 1] = x /\ \A i \in 1..Len(s) : Append(s, x)[i] = s[i]
  BY AppendProperties
<1>3. 1..(Len(s) + 1) = (1..Len(s)) \cup {Len(s) + 1}
  BY <1>1
<1> QED BY <1>1, <1>2, <1>3 DEF Elements

\* A sequence without its last element has no other elements.
LEMMA ElementsCut ==
    ASSUME NEW S, NEW s \in Seq(S)
    PROVE  /\ SubSeq(s, 1, Len(s) - 1) \in Seq(S)
           /\ Elements(SubSeq(s, 1, Len(s) - 1)) \subseteq Elements(s)
<1>1. Len(s) \in Nat /\ \A i \in 1..Len(s) : s[i] \in S
  BY ElementOfSeq
<1>2. \A i \in 1..(Len(s) - 1) : s[i] \in S /\ i \in 1..Len(s)
  BY <1>1
<1>3. /\ SubSeq(s, 1, Len(s) - 1) \in Seq(S)
      /\ Len(SubSeq(s, 1, Len(s) - 1)) = IF 1 <= Len(s) - 1 THEN (Len(s) - 1) - 1 + 1 ELSE 0
      /\ \A i \in 1..((Len(s) - 1) - 1 + 1) : SubSeq(s, 1, Len(s) - 1)[i] = s[1 + i - 1]
  BY <1>1, <1>2, SubSeqProperties
<1>4. \A i \in 1..Len(SubSeq(s, 1, Len(s) - 1)) :
          i \in 1..(Len(s) - 1) /\ SubSeq(s, 1, Len(s) - 1)[i] = s[i]
  BY <1>1, <1>3
<1> QED BY <1>2, <1>3, <1>4 DEF Elements

-----------------------------------------------------------------------------
(* The ledger *)

\* A new row is one, and no checkpoint stops covering the rows it covered.
LEMMA RowGrows ==
    ASSUME NEW rs, NEW cs, NEW rc, LedgerOK(rs, cs, rc), NEW row \in Row
    PROVE  LedgerOK(Append(rs, row), cs, rc)
<1>1. /\ rs \in Seq(Row) /\ cs \in Seq(TimedCheckpoint) /\ rc \in Seq(StatementType)
      /\ \A i \in 1..Len(cs) : Covers(cs[i], rs)
  BY DEF LedgerOK
<1>2. Append(rs, row) \in Seq(Row) /\ Begins(Hashes(rs), Hashes(Append(rs, row)))
  BY <1>1, HashesGrow
<1>3. Hashes(rs) \in Seq(Seq(Rec)) /\ Hashes(Append(rs, row)) \in Seq(Seq(Rec))
  BY <1>1, <1>2, HashesType
<1>4. ASSUME NEW i \in 1..Len(cs)
      PROVE  Covers(cs[i], Append(rs, row))
  <2>1. Covers(cs[i], rs) /\ cs[i] \in TimedCheckpoint
    BY <1>1, ElementOfSeq
  <2>2. cs[i].cp.root \in Seq(Seq(Rec))
    BY <2>1 DEF TimedCheckpoint
  <2>3. Begins(cs[i].cp.root, Hashes(Append(rs, row)))
    BY <1>2, <1>3, <2>1, <2>2, BeginsTransitive DEF Covers
  <2> QED BY <2>1, <2>3 DEF Covers
<1> QED BY <1>1, <1>2, <1>4 DEF LedgerOK

\* A row that a ledger gets.
LEMMA RowType ==
    ASSUME NEW rs \in Seq(Row), NEW r \in Rec
    PROVE  NewRow(r, LastEntryHash(rs), Kid) \in Row
<1>1. LastEntryHash(rs) \in Seq(Rec)
  <2>1. CASE rs = <<>>
    BY <2>1, EmptySeq DEF LastEntryHash, NULL
  <2>2. CASE rs # <<>>
    <3>1. Len(rs) \in 1..Len(rs)
      BY <2>2, EmptySeq
    <3> QED BY <2>2, <3>1, HashesType DEF LastEntryHash
  <2> QED BY <2>1, <2>2
<1>2. Append(LastEntryHash(rs), r) \in Seq(Rec)
  BY <1>1, AppendProperties
<1> QED BY <1>1, <1>2 DEF NewRow, Row, Link, Sign

\* A checkpoint of rows there are.
LEMMA CheckpointGrows ==
    ASSUME NEW rs, NEW cs, NEW rc, LedgerOK(rs, cs, rc), NEW t \in 1..MaxCheckpoints,
           NEW hs \in Seq(Seq(Rec)), Begins(hs, Hashes(rs)),
           NEW c, c = [cp |-> NewCheckpoint(hs, Kid), at |-> t]
    PROVE  /\ c \in TimedCheckpoint /\ c.cp.root = hs
           /\ LedgerOK(rs, Append(cs, c), rc)
           /\ Append(cs, c)[Len(Append(cs, c))] = c /\ Append(cs, c) # <<>>
<1>1. /\ rs \in Seq(Row) /\ cs \in Seq(TimedCheckpoint) /\ rc \in Seq(StatementType)
      /\ \A i \in 1..Len(cs) : Covers(cs[i], rs)
  BY DEF LedgerOK
<1>2. Len(hs) \in Nat
  OBVIOUS
<1>3. c \in TimedCheckpoint
  BY <1>2 DEF TimedCheckpoint, NewCheckpoint, RootSig, Sign
<1>4. Covers(c, rs) /\ c.cp.root = hs
  <2>1. c.cp.root = hs /\ c.cp.count = Len(hs) /\ c.cp.sig = Sign(Kid, <<"root", hs>>)
    BY DEF NewCheckpoint
  <2> QED BY <2>1 DEF Covers
<1>5. /\ Append(cs, c) \in Seq(TimedCheckpoint) /\ Len(Append(cs, c)) = Len(cs) + 1
      /\ Append(cs, c)[Len(cs) + 1] = c /\ Append(cs, c) # <<>>
      /\ \A i \in 1..Len(cs) : Append(cs, c)[i] = cs[i]
  BY <1>1, <1>3, AppendProperties
<1>6. \A i \in 1..Len(Append(cs, c)) : Covers(Append(cs, c)[i], rs)
  <2> TAKE i \in 1..Len(Append(cs, c))
  <2>1. Len(cs) \in Nat
    BY <1>1
  <2>2. i \in 1..(Len(cs) + 1)
    BY <1>5
  <2>3. i \in 1..Len(cs) \/ i = Len(cs) + 1
    BY <2>1, <2>2
  <2> QED BY <1>1, <1>4, <1>5, <2>3
<1>7. LedgerOK(rs, Append(cs, c), rc)
  BY <1>1, <1>5, <1>6 DEF LedgerOK
<1> QED BY <1>3, <1>4, <1>5, <1>7

\* What is published of one.
LEMMA BuildIsGenuine ==
    ASSUME NEW rs \in Seq(Row), rs # <<>>, NEW c \in TimedCheckpoint, Covers(c, rs),
           NEW id, id = [genesis |-> rs[1].hash, kid |-> Kid]
    PROVE  Genuine(Build(c, id)) /\ Build(c, id).root = c.cp.root
<1>1. /\ Hashes(rs) \in Seq(Seq(Rec)) /\ Len(Hashes(rs)) = Len(rs) /\ Len(rs) \in Nat
      /\ \A i \in 1..Len(rs) : Hashes(rs)[i] = rs[i].hash /\ rs[i].hash \in Seq(Rec)
  BY HashesType
<1>2. 1 \in 1..Len(rs)
  BY <1>1, EmptySeq
<1>3. Hashes(rs)[1] = rs[1].hash /\ rs[1].hash \in Seq(Rec)
  BY <1>1, <1>2
<1>4. /\ c.cp.count \in Nat /\ c.cp.root \in Seq(Seq(Rec)) /\ c.cp.sig \in RootSig
      /\ c.at \in 1..MaxCheckpoints
  BY DEF TimedCheckpoint
<1>5. Build(c, id) \in StatementType
  BY <1>3, <1>4 DEF Build, StatementType, RootSig
<1>6. c.cp.root # <<>> => c.cp.root[1] = rs[1].hash
  <2>1. c.cp.root # <<>> => 1 \in 1..Len(c.cp.root)
    BY <1>4, EmptySeq
  <2> QED BY <1>3, <2>1 DEF Covers, Begins
<1> QED BY <1>5, <1>6 DEF Genuine, Build, Covers

-----------------------------------------------------------------------------
(* The actions preserve Sound *)

\* A row, and with cadence 1 a checkpoint of it, whatever anchor_now is doing.
LEMMA AppendRowSound ==
    ASSUME Sound, NEW r \in Rec, AppendRow(r)
    PROVE  Sound'
<1> DEFINE row == NewRow(r, LastEntryHash(rows), Kid)
<1>1. LedgerOK(rows, cps, receipts) /\ rows \in Seq(Row) /\ leaves \in Seq(Seq(Rec))
  BY DEF Sound, World, InHand, LedgerOK
<1>2. row \in Row
  BY <1>1, RowType
<1>3. rows' = Append(rows, row) /\ UNCHANGED <<profile, receipts, outside, anchoring, verifying, copy>>
  BY DEF AppendRow
<1> HIDE DEF row
<1>4. LedgerOK(rows', cps, receipts)
  BY <1>1, <1>2, <1>3, RowGrows
<1>5. /\ Begins(Hashes(rows), Hashes(rows')) /\ Hashes(rows) \in Seq(Seq(Rec))
      /\ Hashes(rows') \in Seq(Seq(Rec)) /\ Begins(Hashes(rows'), Hashes(rows'))
  <2>1. rows' \in Seq(Row) /\ Begins(Hashes(rows), Hashes(rows'))
    BY <1>1, <1>2, <1>3, HashesGrow
  <2>2. Hashes(rows) \in Seq(Seq(Rec)) /\ Hashes(rows') \in Seq(Seq(Rec))
    BY <1>1, <2>1, HashesType
  <2> QED BY <2>1, <2>2 DEF Begins
<1>6. pc # "idle" => Begins(leaves, Hashes(rows'))
  BY <1>1, <1>5, BeginsTransitive DEF Sound, InHand
<1>7. /\ LedgerOK(rows', cps', receipts) /\ clock' \in 0..MaxCheckpoints
      /\ pc = "checkpointed" => cps' # <<>> /\ Begins(leaves, cps'[Len(cps')].cp.root)
      /\ \A i \in 1..Len(cps) : i \in 1..Len(cps') /\ cps'[i] = cps[i]
  <2>1. CASE UNCHANGED <<cps, clock>>
    BY <1>4, <2>1 DEF Sound, World, InHand
  <2>2. CASE /\ clock < MaxCheckpoints /\ clock' = clock + 1
             /\ cps' = Append(cps, Timed(Hashes(rows')))
    <3>1. clock + 1 \in 1..MaxCheckpoints
      BY <2>2, BoundAssumption DEF Sound, World
    <3> DEFINE c == Timed(Hashes(rows'))
    <3>2. c = [cp |-> NewCheckpoint(Hashes(rows'), Kid), at |-> clock + 1]
      BY DEF Timed
    <3> HIDE DEF c
    <3>3. /\ c.cp.root = Hashes(rows') /\ LedgerOK(rows', Append(cps, c), receipts)
          /\ Append(cps, c)[Len(Append(cps, c))] = c /\ Append(cps, c) # <<>>
      BY <1>4, <1>5, <3>1, <3>2, CheckpointGrows
    <3>4. cps' = Append(cps, c)
      BY <2>2 DEF c
    <3>5. /\ LedgerOK(rows', cps', receipts) /\ cps' # <<>>
          /\ cps'[Len(cps')].cp.root = Hashes(rows')
      BY <3>3, <3>4
    <3>6. \A i \in 1..Len(cps) : i \in 1..Len(cps') /\ cps'[i] = cps[i]
      <4>1. cps \in Seq(TimedCheckpoint) /\ cps' \in Seq(TimedCheckpoint)
        BY <1>1, <3>5 DEF LedgerOK
      <4>2. Len(cps') = Len(cps) + 1 /\ Len(cps) \in Nat
        BY <3>4, <4>1
      <4>3. \A i \in 1..Len(cps) : cps'[i] = cps[i]
        BY <3>4, <4>1
      <4> QED BY <4>2, <4>3
    <3> QED BY <1>6, <2>2, <3>1, <3>5, <3>6, BoundAssumption
  <2>3. \/ UNCHANGED <<cps, clock>>
        \/ /\ clock < MaxCheckpoints /\ clock' = clock + 1
           /\ cps' = Append(cps, Timed(Hashes(rows')))
    BY DEF AppendRow
  <2> QED BY <2>1, <2>2, <2>3
<1>8. World'
  BY <1>3, <1>7 DEF Sound, World, outside, verifying, copy
<1>9. InHand'
  <2>1. UNCHANGED <<pc, leaves, checkpoint, statement, log, corrupt>>
    BY <1>3 DEF anchoring, call, outside
  <2>2. pc = "identify" => \E i \in 1..Len(cps') : checkpoint = cps'[i]
    BY <1>7 DEF Sound, InHand
  <2> QED BY <1>6, <1>7, <2>1, <2>2 DEF Sound, InHand, Publishing, Elements
<1>10. Past'
  BY <1>3 DEF Sound, Past, anchoring, outside, Elements
<1> QED BY <1>8, <1>9, <1>10 DEF Sound

\* The ledger file is copied, or the copy is put back.
LEMMA CopySound ==
    ASSUME Sound, Backup \/ Restore
    PROVE  Sound'
<1>1. CASE Backup
  <2>1. /\ backup' = [rows |-> rows, cps |-> cps, receipts |-> receipts]
        /\ UNCHANGED <<profile, ledger, given, outside, anchoring, verifying, restores>>
    BY <1>1 DEF Backup
  <2> QED BY <2>1 DEF Sound, World, InHand, Past, Publishing, Elements, ledger, given, outside,
                      anchoring, call, verifying
<1>2. CASE Restore
  <2>1. /\ rows' = backup.rows /\ cps' = backup.cps /\ receipts' = backup.receipts
        /\ pc = "idle" /\ restores < MaxRestores /\ restores' = restores + 1
        /\ UNCHANGED <<profile, given, outside, anchoring, verifying, backup>>
    BY <1>2 DEF Restore, Quiet
  <2>2. restores' \in 0..MaxRestores
    BY <2>1, BoundAssumption DEF Sound, World
  <2>3. World'
    BY <2>1, <2>2 DEF Sound, World, given, outside, verifying
  <2>4. InHand'
    BY <2>1 DEF Sound, InHand, Publishing, anchoring, call
  <2>5. Past'
    BY <2>1 DEF Sound, Past, Elements, anchoring, outside
  <2> QED BY <2>3, <2>4, <2>5 DEF Sound
<1> QED BY <1>1, <1>2

\* The cache of the moment is the rows of the moment.
LEMMA OpenSound ==
    ASSUME Sound, Open
    PROVE  Sound'
<1>1. /\ pc = "idle" /\ pc' = "opened" /\ leaves' = Hashes(rows)
      /\ UNCHANGED <<profile, ledger, given, outside, checkpoint, statement, covered, verifying, copy>>
  BY DEF Open
<1>2. World' /\ Past'
  BY <1>1 DEF Sound, World, Past, Elements, ledger, given, outside, verifying, copy
<1>3. Hashes(rows) \in Seq(Seq(Rec))
  BY HashesType DEF Sound, World, LedgerOK
<1>4. Begins(Hashes(rows), Hashes(rows))
  BY <1>3 DEF Begins
<1>5. InHand'
  BY <1>1, <1>3, <1>4 DEF Sound, InHand, Publishing, ledger
<1> QED BY <1>2, <1>5 DEF Sound

\* The checkpoint covers the cache.
LEMMA AnchorSound ==
    ASSUME Sound, AnchorCheckpoint
    PROVE  Sound'
<1> DEFINE c == Timed(leaves)
<1>1. /\ LedgerOK(rows, cps, receipts) /\ clock \in 0..MaxCheckpoints
      /\ leaves \in Seq(Seq(Rec))
  BY DEF Sound, World, InHand
<1>2. /\ pc = "opened" /\ clock < MaxCheckpoints /\ cps' = Append(cps, c) /\ clock' = clock + 1
      /\ pc' = "checkpointed"
      /\ UNCHANGED <<profile, rows, receipts, outside, call, covered, verifying, copy>>
  BY DEF AnchorCheckpoint
<1>3. clock + 1 \in 1..MaxCheckpoints /\ clock' \in 0..MaxCheckpoints
  BY <1>1, <1>2, BoundAssumption
<1>4. c = [cp |-> NewCheckpoint(leaves, Kid), at |-> clock + 1]
  BY DEF Timed
<1> HIDE DEF c
<1>5. Begins(leaves, Hashes(rows)) /\ Begins(leaves, leaves)
  BY <1>1, <1>2 DEF Sound, InHand, Begins
<1>6. /\ c.cp.root = leaves /\ LedgerOK(rows, cps', receipts)
      /\ cps'[Len(cps')] = c /\ cps' # <<>>
  BY <1>1, <1>2, <1>3, <1>4, <1>5, CheckpointGrows
<1>7. World' /\ Past'
  BY <1>2, <1>3, <1>6 DEF Sound, World, Past, Elements, outside, verifying, copy
<1>8. InHand'
  BY <1>2, <1>5, <1>6 DEF Sound, InHand, Publishing, call
<1> QED BY <1>7, <1>8 DEF Sound

\* The newest checkpoint covers what the one just made did.
LEMMA ReadCheckpointSound ==
    ASSUME Sound, ReadCheckpoint
    PROVE  Sound'
<1>1. /\ pc = "checkpointed" /\ pc' = "identify" /\ checkpoint' = cps[Len(cps)]
      /\ UNCHANGED <<profile, ledger, given, outside, leaves, statement, covered, verifying, copy>>
  BY DEF ReadCheckpoint
<1>2. World' /\ Past'
  BY <1>1 DEF Sound, World, Past, Elements, ledger, given, outside, verifying, copy
<1>3. cps # <<>> /\ Begins(leaves, cps[Len(cps)].cp.root) /\ cps \in Seq(TimedCheckpoint)
  BY <1>1 DEF Sound, World, InHand, LedgerOK
<1>4. Len(cps) \in 1..Len(cps)
  BY <1>3, EmptySeq
<1>5. InHand'
  BY <1>1, <1>3, <1>4 DEF Sound, InHand, Publishing, ledger
<1> QED BY <1>2, <1>5 DEF Sound

\* Its statement is genuine, also when the ledger got its first row meanwhile.
LEMMA ReadIdentitySound ==
    ASSUME Sound, ReadIdentity
    PROVE  Sound'
<1>1. /\ pc = "identify"
      /\ IF rows = <<>> THEN Return
         ELSE /\ pc' = "publish" /\ statement' = Build(checkpoint, ledger_id)
              /\ UNCHANGED <<leaves, checkpoint>>
      /\ UNCHANGED <<profile, ledger, given, outside, covered, verifying, copy>>
  BY DEF ReadIdentity
<1>2. World' /\ Past'
  BY <1>1 DEF Sound, World, Past, Elements, ledger, given, outside, verifying, copy
<1>3. CASE rows = <<>>
  <2>1. InHand'
    BY <1>1, <1>3, EmptySeq DEF Return, InHand, Publishing
  <2> QED BY <1>2, <2>1 DEF Sound
<1>4. CASE rows # <<>>
  <2>1. /\ pc' = "publish" /\ statement' = Build(checkpoint, ledger_id) /\ leaves' = leaves
        /\ rows' = rows
    BY <1>1, <1>4 DEF ledger
  <2>2. PICK i \in 1..Len(cps) : checkpoint = cps[i]
    BY <1>1 DEF Sound, InHand
  <2>3. /\ rows \in Seq(Row) /\ checkpoint \in TimedCheckpoint /\ Covers(checkpoint, rows)
    BY <2>2, ElementOfSeq DEF Sound, World, LedgerOK
  <2>4. ledger_id = [genesis |-> rows[1].hash, kid |-> Kid]
    BY <1>4 DEF ledger_id
  <2>5. Genuine(statement') /\ statement'.root = checkpoint.cp.root
    BY <1>4, <2>1, <2>3, <2>4, BuildIsGenuine
  <2>6. leaves \in Seq(Seq(Rec)) /\ Begins(leaves, Hashes(rows)) /\ Begins(leaves, checkpoint.cp.root)
    BY <1>1 DEF Sound, InHand
  <2>7. InHand'
    BY <2>1, <2>5, <2>6 DEF InHand, Publishing
  <2> QED BY <1>2, <2>7 DEF Sound
<1> QED BY <1>3, <1>4

\* The call is over, one way or the other.
LEMMA ReturnInHand ==
    ASSUME Return
    PROVE  InHand'
BY EmptySeq DEF Return, InHand, Publishing

\* What the log holds after a publication, come through or not.
LEMMA LogGrows ==
    ASSUME Sound, NEW w, Genuine(w)
    PROVE  /\ Append(log, w) \in Seq(StatementType)
           /\ Elements(Append(log, w)) = Elements(log) \cup {w}
           /\ SubSeq(log, 1, Len(log) - 1) \in Seq(StatementType)
           /\ Elements(SubSeq(log, 1, Len(log) - 1)) \subseteq Elements(log)
BY ElementsOf, ElementsCut DEF Sound, World, Genuine

\* The log gets the statement, whole or not, and nothing else; as long as the
\* file can be read it loses nothing.
LEMMA PublishEffect ==
    ASSUME Sound, Publish \/ PublishFails
    PROVE  /\ log' \in Seq(StatementType) /\ Elements(log') \subseteq Elements(log) \cup {statement}
           /\ corrupt' = FALSE => corrupt = FALSE /\ Elements(log) \subseteq Elements(log')
           /\ pc' = "record" /\ corrupt' = FALSE => statement \in Elements(log')
           /\ tail' \in {"newline", "unterminated", "cut"} /\ corrupt' \in BOOLEAN
           /\ profile.backend = "rekor" => tail' = "newline" /\ corrupt' = FALSE
           /\ pc = "publish" /\ Genuine(statement)
           /\ (pc' = "record" /\ UNCHANGED call) \/ Return
           /\ UNCHANGED <<profile, ledger, given, covered, verifying, copy>>
<1>1. /\ pc = "publish" /\ Genuine(statement)
      /\ UNCHANGED <<profile, ledger, given, covered, verifying, copy>>
  BY DEF Sound, InHand, Publishing, Publish, PublishFails
<1>2. /\ Append(log, statement) \in Seq(StatementType)
      /\ Elements(Append(log, statement)) = Elements(log) \cup {statement}
      /\ SubSeq(log, 1, Len(log) - 1) \in Seq(StatementType)
      /\ Elements(SubSeq(log, 1, Len(log) - 1)) \subseteq Elements(log)
  BY <1>1, LogGrows
<1>3. \/ /\ log' = Append(log, statement)
         /\ tail' \in {tail, "unterminated"} /\ corrupt' = corrupt
         /\ tail' # tail => profile.backend = "file-witness"
      \/ /\ log' = log /\ tail' = tail /\ corrupt' = corrupt /\ pc' = "idle"
      \/ /\ log' \in {log, SubSeq(log, 1, Len(log) - 1)}
         /\ tail' \in {"newline", "cut"} /\ corrupt' = TRUE
         /\ profile.backend = "file-witness" \/ tail # "newline"
  BY DEF Publish, PublishFails, WriteLine, WriteShort, Return
<1>4. (pc' = "record" /\ UNCHANGED call) \/ Return
  BY DEF Publish, PublishFails
<1>5. /\ log' \in Seq(StatementType) /\ Elements(log') \subseteq Elements(log) \cup {statement}
      /\ corrupt' = FALSE => corrupt = FALSE /\ Elements(log) \subseteq Elements(log')
      /\ pc' = "record" /\ corrupt' = FALSE => statement \in Elements(log')
      /\ tail' \in {"newline", "unterminated", "cut"} /\ corrupt' \in BOOLEAN
      /\ profile.backend = "rekor" => tail' = "newline" /\ corrupt' = FALSE
  BY <1>1, <1>2, <1>3 DEF Sound, World
<1> QED BY <1>1, <1>4, <1>5

\* Publishing keeps Sound.
LEMMA PublishSound ==
    ASSUME Sound, Publish \/ PublishFails
    PROVE  Sound'
<1>1. /\ log' \in Seq(StatementType) /\ Elements(log') \subseteq Elements(log) \cup {statement}
      /\ corrupt' = FALSE => corrupt = FALSE /\ Elements(log) \subseteq Elements(log')
      /\ pc' = "record" /\ corrupt' = FALSE => statement \in Elements(log')
      /\ tail' \in {"newline", "unterminated", "cut"} /\ corrupt' \in BOOLEAN
      /\ profile.backend = "rekor" => tail' = "newline" /\ corrupt' = FALSE
      /\ pc = "publish" /\ Genuine(statement)
      /\ (pc' = "record" /\ UNCHANGED call) \/ Return
      /\ UNCHANGED <<profile, ledger, given, covered, verifying, copy>>
  BY PublishEffect
<1>2. \A w \in Elements(log') : Genuine(w)
  BY <1>1 DEF Sound, World
<1>3. Elements(log)' = Elements(log')
  BY DEF Elements
<1>4. World'
  BY <1>1, <1>2, <1>3 DEF Sound, World, ledger, given, verifying, copy
<1>5. InHand'
  <2>1. CASE pc' = "record" /\ UNCHANGED call
    <3>1. UNCHANGED <<rows, cps, leaves, checkpoint, statement>>
      BY <1>1, <2>1 DEF call, ledger
    <3>2. statement \in Elements(log') \/ corrupt' = TRUE
      BY <1>1, <2>1
    <3>3. leaves \in Seq(Seq(Rec)) /\ Begins(leaves, Hashes(rows)) /\ Begins(leaves, statement.root)
      BY <1>1 DEF Sound, InHand, Publishing
    <3> QED BY <1>1, <1>3, <2>1, <3>1, <3>2, <3>3 DEF InHand, Publishing
  <2>2. CASE Return
    BY <2>2, ReturnInHand
  <2> QED BY <1>1, <2>1, <2>2
<1>6. Past'
  <2>1. covered' = covered
    BY <1>1
  <2>2. \A c \in covered : c.statement \in Elements(log') \/ corrupt' = TRUE
    BY <1>1 DEF Sound, Past
  <2> QED BY <1>3, <2>1, <2>2 DEF Sound, Past
<1> QED BY <1>4, <1>5, <1>6 DEF Sound

\* The receipt is stored, and from then on what it covers is anchored.
LEMMA RecordSound ==
    ASSUME Sound, Record
    PROVE  Sound'
<1>1. /\ pc = "record" /\ Return
      /\ receipts' = IF statement \in Elements(receipts) THEN receipts
                     ELSE Append(receipts, statement)
      /\ covered' = covered \cup {[rows |-> leaves, statement |-> statement]}
      /\ UNCHANGED <<profile, rows, cps, given, outside, verifying, copy>>
  BY DEF Record
<1>2. /\ Genuine(statement) /\ leaves \in Seq(Seq(Rec)) /\ Begins(leaves, statement.root)
      /\ statement \in Elements(log) \/ corrupt = TRUE
      /\ LedgerOK(rows, cps, receipts)
  BY <1>1 DEF Sound, World, InHand, Publishing
<1>3. receipts' \in Seq(StatementType)
  BY <1>1, <1>2, ElementsOf DEF LedgerOK, Genuine
<1>4. LedgerOK(rows, cps, receipts')
  BY <1>2, <1>3 DEF LedgerOK
<1>5. World'
  BY <1>1, <1>4 DEF Sound, World, Elements, given, outside, verifying, copy
<1>6. InHand'
  BY <1>1, ReturnInHand
<1>7. Past'
  <2> DEFINE c == [rows |-> leaves, statement |-> statement]
  <2>1. c.rows = leaves /\ c.statement = statement
    OBVIOUS
  <2>2. c \in [rows : Seq(Seq(Rec)), statement : StatementType]
    BY <1>2 DEF Genuine
  <2>3. covered' = covered \cup {c}
    BY <1>1
  <2> HIDE DEF c
  <2>4. Elements(log)' = Elements(log) /\ corrupt' = corrupt
    BY <1>1 DEF Elements, outside
  <2> QED BY <1>2, <2>1, <2>2, <2>3, <2>4 DEF Sound, Past
<1> QED BY <1>5, <1>6, <1>7 DEF Sound

\* Every step keeps Sound.
LEMMA SoundStep ==
    ASSUME Sound, [Next]_vars
    PROVE  Sound'
<1>1. CASE Crash
  <2>1. Return /\ UNCHANGED <<profile, ledger, given, covered, outside, verifying, copy>>
    BY <1>1 DEF Crash
  <2>2. World' /\ Past'
    BY <2>1 DEF Sound, World, Past, Elements, ledger, given, outside, verifying, copy
  <2> QED BY <2>1, <2>2, ReturnInHand DEF Sound
<1>2. CASE VerifyLocal \/ VerifyRemote
  <2>1. /\ UNCHANGED <<profile, ledger, given, outside, anchoring, copy>>
        /\ vpc' \in {"idle", "local"}
    BY <1>2 DEF VerifyLocal, VerifyRemote
  <2> QED BY <2>1 DEF Sound, World, InHand, Past, Publishing, Elements, ledger, given, outside,
                      anchoring, call, copy
<1>3. CASE UNCHANGED vars
  BY <1>3 DEF vars, Sound, World, InHand, Past, Publishing, Elements, ledger, given, outside,
              anchoring, call, verifying, copy
<1> QED BY <1>1, <1>2, <1>3, AppendRowSound, CopySound, OpenSound, AnchorSound,
           ReadCheckpointSound, ReadIdentitySound, PublishSound, RecordSound DEF Next

\* It holds at first.
LEMMA SoundInit ==
    ASSUME Init
    PROVE  Sound
<1>1. \A S : <<>> \in Seq(S)
  OBVIOUS
<1>2. Len(<<>>) = 0 /\ Elements(<<>>) = {}
  BY DEF Elements
<1>3. LedgerOK(<<>>, <<>>, <<>>)
  BY <1>1, <1>2 DEF LedgerOK
<1>4. LedgerOK(rows, cps, receipts) /\ LedgerOK(backup.rows, backup.cps, backup.receipts)
  BY <1>3 DEF Init
<1>5. clock \in 0..MaxCheckpoints /\ restores \in 0..MaxRestores
  BY BoundAssumption DEF Init
<1>6. log \in Seq(StatementType) /\ \A w \in Elements(log) : Genuine(w)
  BY <1>1, <1>2 DEF Init
<1> QED BY <1>1, <1>4, <1>5, <1>6 DEF Init, Sound, World, InHand, Past, Publishing

-----------------------------------------------------------------------------
(* What the verifier says *)

\* A published checkpoint that the ledger has is one of its first rows.
LEMMA KeptExtends ==
    ASSUME Sound, NEW w, Kept(w)
    PROVE  /\ w.count <= Len(rows) /\ SubSeq(Hashes(rows), 1, w.count) = w.root
           /\ w.ledger = ledger_id /\ Len(Hashes(rows)) = Len(rows)
           /\ ~(Len(Hashes(rows)) < w.count) /\ ~(w.count > Len(rows))
<1>1. PICK i \in 1..Len(cps) : w = Build(cps[i], ledger_id)
  BY DEF Kept
<1>2. rows \in Seq(Row) /\ cps[i] \in TimedCheckpoint /\ Covers(cps[i], rows)
  BY ElementOfSeq DEF Sound, World, LedgerOK
<1>3. w.root = cps[i].cp.root /\ w.count = cps[i].cp.count /\ w.ledger = ledger_id
  BY <1>1 DEF Build
<1>4. /\ w.root \in Seq(Seq(Rec)) /\ w.count = Len(w.root) /\ w.count \in Nat
      /\ Begins(w.root, Hashes(rows))
  BY <1>2, <1>3 DEF TimedCheckpoint, Covers
<1>5. Hashes(rows) \in Seq(Seq(Rec)) /\ Len(Hashes(rows)) = Len(rows) /\ Len(rows) \in Nat
  BY <1>2, HashesType
<1>6. Len(w.root) <= Len(Hashes(rows)) /\ SubSeq(Hashes(rows), 1, Len(w.root)) = w.root
  BY <1>4, <1>5, BeginsIsPrefix
<1> QED BY <1>3, <1>4, <1>5, <1>6

\* What the log hands over of an untouched ledger is all kept and signed.
LEMMA FetchedIsKept ==
    ASSUME Sound, Untouched, restores = 0, corrupt = FALSE, NEW held \in Fetched
    PROVE  /\ held \subseteq Elements(log)
           /\ profile.backend # "rekor" => held = Elements(log)
           /\ \A w \in held : Kept(w) /\ SignatureVerifies(w.sig, <<"root", w.root>>, Kid)
           /\ Elements(receipts) \subseteq Elements(log)
<1>1. held \subseteq Elements(log) /\ (profile.backend # "rekor" => held = Elements(log))
  BY DEF Fetched
<1>2. /\ \A w \in Elements(log) : Kept(w) /\ Genuine(w)
      /\ Elements(receipts) \subseteq Elements(log)
  BY DEF Untouched, Sound, World
<1> QED BY <1>1, <1>2 DEF Genuine, SignatureVerifies

\* It has no statement that is unsigned or off the ledger's rows, whatever the
\* count that was read before, and no receipt that the log does not have.
LEMMA NothingForked ==
    ASSUME Sound, Untouched, restores = 0, corrupt = FALSE, NEW held \in Fetched,
           NEW witnesses \in SUBSET held, NEW count
    PROVE  /\ StatementsOff(witnesses, Hashes(rows), count) \subseteq {"rollback"}
           /\ (\A w \in witnesses : ~(w.count > count)) =>
                  StatementsOff(witnesses, Hashes(rows), count) = {}
           /\ BadReceipts(Elements(receipts), held) = {}
<1>1. /\ profile.backend # "rekor" => held = Elements(log)
      /\ \A w \in held : Kept(w) /\ SignatureVerifies(w.sig, <<"root", w.root>>, Kid)
      /\ Elements(receipts) \subseteq Elements(log)
  BY FetchedIsKept
<1>2. \A w \in witnesses : /\ ~(Len(Hashes(rows)) < w.count)
                           /\ SubSeq(Hashes(rows), 1, w.count) = w.root
  BY <1>1, KeptExtends
<1> DEFINE signed == {w \in witnesses : SignatureVerifies(w.sig, <<"root", w.root>>, Kid)}
<1>3. signed = witnesses
  BY <1>1
<1> HIDE DEF signed
<1>4. {"unsigned_witness" : w \in witnesses \ signed} = {}
  BY <1>3
<1>5. {"fork" : w \in {v \in signed : /\ v.count <= count
                                      /\ \/ Len(Hashes(rows)) < v.count
                                         \/ SubSeq(Hashes(rows), 1, v.count) # v.root}} = {}
  BY <1>2, <1>3
<1>6. {"rollback" : w \in {v \in signed : v.count > count}} \subseteq {"rollback"}
  OBVIOUS
<1>7. (\A w \in witnesses : ~(w.count > count)) =>
          {"rollback" : w \in {v \in signed : v.count > count}} = {}
  BY <1>3
<1>8. StatementsOff(witnesses, Hashes(rows), count) =
          IF ~HasPayload THEN {}
          ELSE {"unsigned_witness" : w \in witnesses \ signed}
               \cup {"rollback" : w \in {v \in signed : v.count > count}}
               \cup {"fork" : w \in {v \in signed :
                        /\ v.count <= count
                        /\ \/ Len(Hashes(rows)) < v.count
                           \/ SubSeq(Hashes(rows), 1, v.count) # v.root}}
  BY DEF StatementsOff, signed
<1>9. BadReceipts(Elements(receipts), held) = {}
  BY <1>1 DEF BadReceipts, HasPayload
<1> QED BY <1>4, <1>5, <1>6, <1>7, <1>8, <1>9

\* A verification with an old view of the ledger only reports that it lags.
LEMMA LaggingVerdict ==
    ASSUME Sound, Untouched, restores = 0, corrupt = FALSE, NEW held \in Fetched, NEW first
    PROVE  Verify(first, held, Hashes(rows), Elements(receipts))
               \subseteq {"error", "no_witness", "rollback", "orphaned_witness"}
<1> DEFINE witnesses == Witnesses(first.id, held)
<1>1. witnesses \subseteq held
  BY DEF Witnesses
<1> HIDE DEF witnesses
<1>2. /\ StatementsOff(witnesses, Hashes(rows), first.count) \subseteq {"rollback"}
      /\ BadReceipts(Elements(receipts), held) = {}
  BY <1>1, NothingForked
<1>3. Orphans(witnesses, first.cps, first.id) \subseteq {"orphaned_witness"}
  BY DEF Orphans
<1>4. Verify(first, held, Hashes(rows), Elements(receipts)) =
          IF first.id = NONE THEN {}
          ELSE IF Unreadable THEN {"error"}
          ELSE IF witnesses = {} THEN {"no_witness"}
          ELSE StatementsOff(witnesses, Hashes(rows), first.count)
               \cup Orphans(witnesses, first.cps, first.id)
               \cup BadReceipts(Elements(receipts), held)
  BY DEF Verify, witnesses
<1> QED BY <1>2, <1>3, <1>4

\* One with the view of now passes, unless nothing at all or too much is handed
\* over.
LEMMA CurrentVerdict ==
    ASSUME Sound, Untouched, restores = 0, corrupt = FALSE, NEW held \in Fetched
    PROVE  VerifyNow(held) = IF rows = <<>> THEN {}
                             ELSE IF Unreadable THEN {"error"}
                             ELSE IF held = {} THEN {"no_witness"} ELSE {}
<1> DEFINE answer == VerifyNow(held)
<1>1. Now.id = ledger_id /\ Now.count = Len(rows) /\ Now.cps = cps
  BY DEF Now
<1>2. CASE rows = <<>>
  <2>1. Now.id = NONE
    BY <1>1, <1>2 DEF ledger_id
  <2> QED BY <1>2, <2>1 DEF Verify, VerifyNow
<1>3. CASE rows # <<>>
  <2>1. ledger_id # NONE
    <3>1. ledger_id = [genesis |-> rows[1].hash, kid |-> Kid]
      BY <1>3 DEF ledger_id
    <3>2. DOMAIN ledger_id = {"genesis", "kid"} /\ DOMAIN NONE = {"none"}
      BY <3>1 DEF NONE
    <3> QED BY <3>2
  <2>2. /\ \A w \in held : Kept(w) /\ w.ledger = ledger_id /\ ~(w.count > Len(rows))
    BY FetchedIsKept, KeptExtends
  <2>3. Witnesses(ledger_id, held) = held
    BY <2>2 DEF Witnesses
  <2>4. /\ StatementsOff(held, Hashes(rows), Len(rows)) = {}
        /\ BadReceipts(Elements(receipts), held) = {}
    BY <2>2, NothingForked
  <2>5. Orphans(held, cps, ledger_id) = {}
    <3>1. \A w \in held : w \in {Build(cps[i], ledger_id) : i \in 1..Len(cps)}
      BY <2>2 DEF Kept
    <3> QED BY <3>1 DEF Orphans
  <2>6. answer = IF Now.id = NONE THEN {}
                 ELSE IF Unreadable THEN {"error"}
                 ELSE IF Witnesses(Now.id, held) = {} THEN {"no_witness"}
                 ELSE StatementsOff(Witnesses(Now.id, held), Hashes(rows), Now.count)
                      \cup Orphans(Witnesses(Now.id, held), Now.cps, Now.id)
                      \cup BadReceipts(Elements(receipts), held)
    BY DEF Verify, VerifyNow
  <2>7. answer = IF Unreadable THEN {"error"}
                 ELSE IF held = {} THEN {"no_witness"}
                 ELSE StatementsOff(held, Hashes(rows), Len(rows))
                      \cup Orphans(held, cps, ledger_id)
                      \cup BadReceipts(Elements(receipts), held)
    BY <1>1, <2>1, <2>3, <2>6
  <2> HIDE DEF answer
  <2>8. answer = IF Unreadable THEN {"error"}
                 ELSE IF held = {} THEN {"no_witness"} ELSE {}
    BY <2>4, <2>5, <2>7
  <2> QED BY <1>3, <2>8 DEF answer
<1> QED BY <1>2, <1>3

-----------------------------------------------------------------------------
(* The actions preserve Untouched *)

\* What the ledger has it keeps, as rows and checkpoints are added.
LEMMA StillKept ==
    ASSUME Sound, NEW w, Kept(w),
           rows' = rows \/ \E row \in Row : rows' = Append(rows, row),
           cps' = cps \/ \E c \in TimedCheckpoint : cps' = Append(cps, c)
    PROVE  Kept(w)'
<1>1. rows \in Seq(Row) /\ cps \in Seq(TimedCheckpoint)
  BY DEF Sound, World, LedgerOK
<1>2. rows # <<>> /\ rows' # <<>> /\ rows'[1] = rows[1]
  <2>1. rows # <<>> /\ 1 \in 1..Len(rows)
    BY <1>1, EmptySeq DEF Kept
  <2> QED BY <1>1, <2>1, AppendProperties
<1>3. ledger_id' = ledger_id
  BY <1>2 DEF ledger_id
<1>4. PICK i \in 1..Len(cps) : w = Build(cps[i], ledger_id)
  BY DEF Kept
<1>5. i \in 1..Len(cps') /\ cps'[i] = cps[i]
  <2>1. CASE cps' = cps
    BY <2>1
  <2>2. ASSUME NEW c \in TimedCheckpoint, cps' = Append(cps, c)
        PROVE  i \in 1..Len(cps') /\ cps'[i] = cps[i]
    <3>1. Len(cps') = Len(cps) + 1 /\ cps'[i] = cps[i] /\ Len(cps) \in Nat
      BY <1>1, <2>2, AppendProperties
    <3> QED BY <3>1
  <2> QED BY <2>1, <2>2
<1>6. w = Build(cps'[i], ledger_id')
  BY <1>3, <1>4, <1>5
<1> QED BY <1>2, <1>5, <1>6 DEF Kept

\* The ledger grows and the log does not.
LEMMA LedgerGrowsUntouched ==
    ASSUME Sound, Untouched,
           rows' = rows \/ \E row \in Row : rows' = Append(rows, row),
           cps' = cps \/ \E c \in TimedCheckpoint : cps' = Append(cps, c),
           UNCHANGED <<receipts, log, corrupt, verdict, restores>>,
           Publishing' => Kept(statement)' \/ (Publishing /\ statement' = statement)
    PROVE  Untouched'
<1> SUFFICES ASSUME restores = 0, corrupt = FALSE
             PROVE  /\ \A w \in Elements(log) : Kept(w)'
                    /\ Publishing' => Kept(statement)'
                    /\ Elements(receipts) \subseteq Elements(log)
                    /\ verdict \subseteq {"error", "no_witness", "rollback", "orphaned_witness"}
  BY DEF Untouched, Elements
<1>1. /\ \A w \in Elements(log) : Kept(w)
      /\ Publishing => Kept(statement)
      /\ Elements(receipts) \subseteq Elements(log)
      /\ verdict \subseteq {"error", "no_witness", "rollback", "orphaned_witness"}
  BY DEF Untouched
<1>2. \A w : Kept(w) => Kept(w)'
  BY StillKept
<1>3. Publishing' => Kept(statement)'
  <2>1. CASE Publishing /\ statement' = statement
    <3>1. Kept(statement)
      BY <1>1, <2>1
    <3>2. rows # <<>> /\ \E i \in 1..Len(cps) : statement = Build(cps[i], ledger_id)
      BY <3>1 DEF Kept
    <3>3. rows' # <<>> /\ \E i \in 1..Len(cps') : statement = Build(cps'[i], ledger_id')
      BY <1>2, <3>1 DEF Kept
    <3> QED BY <2>1, <3>3 DEF Kept
  <2> QED BY <2>1
<1> QED BY <1>1, <1>2, <1>3

\* A verification takes a step.
LEMMA OnlyTheVerdict ==
    ASSUME Untouched,
           UNCHANGED <<rows, cps, receipts, log, corrupt, restores, pc, statement>>,
           restores = 0 /\ corrupt = FALSE =>
               \/ verdict' = verdict
               \/ verdict' \subseteq {"error", "no_witness", "rollback", "orphaned_witness"}
    PROVE  Untouched'
<1>1. ledger_id' = ledger_id
  BY DEF ledger_id
<1>2. \A w : Kept(w)' <=> Kept(w)
  BY <1>1 DEF Kept
<1>3. Elements(log)' = Elements(log) /\ Elements(receipts)' = Elements(receipts)
  BY DEF Elements
<1>4. Kept(statement)' <=> Kept(statement)
  BY <1>1 DEF Kept
<1> QED BY <1>2, <1>3, <1>4 DEF Untouched, Publishing

\* Every step keeps Untouched.
LEMMA UntouchedStep ==
    ASSUME Sound, Untouched, [Next]_vars
    PROVE  Untouched'
<1>1. /\ LedgerOK(rows, cps, receipts) /\ rows \in Seq(Row) /\ clock \in 0..MaxCheckpoints
      /\ leaves \in Seq(Seq(Rec))
  BY DEF Sound, World, InHand, LedgerOK
<1>2. ASSUME NEW hs \in Seq(Seq(Rec)), clock < MaxCheckpoints
      PROVE  Timed(hs) \in TimedCheckpoint
  <2>1. clock + 1 \in 1..MaxCheckpoints
    BY <1>1, <1>2, BoundAssumption
  <2>2. Timed(hs) = [cp |-> NewCheckpoint(hs, Kid), at |-> clock + 1]
    BY DEF Timed
  <2>3. Len(hs) \in Nat
    BY <1>2
  <2> QED BY <1>2, <2>1, <2>2, <2>3 DEF TimedCheckpoint, NewCheckpoint, RootSig, Sign
<1>3. ASSUME NEW r \in Rec, AppendRow(r)
      PROVE  Untouched'
  <2> DEFINE row == NewRow(r, LastEntryHash(rows), Kid)
  <2>1. row \in Row /\ rows' = Append(rows, row)
        /\ UNCHANGED <<receipts, log, corrupt, verdict, restores, pc, statement>>
    BY <1>1, <1>3, RowType DEF AppendRow, outside, anchoring, call, verifying, copy
  <2> HIDE DEF row
  <2>2. Hashes(rows') \in Seq(Seq(Rec))
    BY <1>1, <2>1, HashesGrow, HashesType
  <2>3. cps' = cps \/ \E c \in TimedCheckpoint : cps' = Append(cps, c)
    BY <1>2, <1>3, <2>2 DEF AppendRow
  <2>4. Publishing' => Publishing
    BY <2>1 DEF Publishing
  <2> QED BY <2>1, <2>3, <2>4, LedgerGrowsUntouched
<1>4. CASE AnchorCheckpoint
  <2>1. /\ clock < MaxCheckpoints /\ cps' = Append(cps, Timed(leaves)) /\ rows' = rows
        /\ UNCHANGED <<receipts, log, corrupt, verdict, restores>>
        /\ pc' = "checkpointed"
    BY <1>4 DEF AnchorCheckpoint, outside, verifying, copy
  <2>2. \E c \in TimedCheckpoint : cps' = Append(cps, c)
    BY <1>1, <1>2, <2>1
  <2>3. ~Publishing'
    BY <2>1 DEF Publishing
  <2> QED BY <2>1, <2>2, <2>3, LedgerGrowsUntouched
<1>5. CASE Open \/ ReadCheckpoint
  <2>1. /\ UNCHANGED <<rows, cps, receipts, log, corrupt, verdict, restores>>
        /\ pc' \in {"opened", "identify"}
    BY <1>5 DEF Open, ReadCheckpoint, ledger, outside, verifying, copy
  <2>2. ~Publishing'
    BY <2>1 DEF Publishing
  <2> QED BY <2>1, <2>2, LedgerGrowsUntouched
<1>6. CASE ReadIdentity
  <2>1. /\ UNCHANGED <<rows, cps, receipts, log, corrupt, verdict, restores>>
        /\ pc = "identify"
        /\ \/ rows = <<>> /\ pc' = "idle"
           \/ rows # <<>> /\ statement' = Build(checkpoint, ledger_id)
    BY <1>6 DEF ReadIdentity, Return, ledger, outside, verifying, copy
  <2>2. \E i \in 1..Len(cps) : checkpoint = cps[i]
    BY <2>1 DEF Sound, InHand
  <2>3. ledger_id' = ledger_id
    BY <2>1 DEF ledger_id
  <2>4. Publishing' => Kept(statement)'
    BY <2>1, <2>2, <2>3 DEF Kept, Publishing
  <2> QED BY <2>1, <2>4, LedgerGrowsUntouched
<1>7. CASE Publish \/ PublishFails
  <2>1. /\ Elements(log') \subseteq Elements(log) \cup {statement}
        /\ corrupt' = FALSE => corrupt = FALSE /\ Elements(log) \subseteq Elements(log')
        /\ pc = "publish"
        /\ (pc' = "record" /\ statement' = statement) \/ pc' = "idle"
        /\ UNCHANGED <<rows, cps, receipts, verdict, restores>>
    BY <1>7, PublishEffect DEF ledger, verifying, copy, call, Return
  <2>2. ledger_id' = ledger_id
    BY <2>1 DEF ledger_id
  <2>3. \A w : Kept(w)' <=> Kept(w)
    BY <2>1, <2>2 DEF Kept
  <2>4. ASSUME restores = 0, corrupt' = FALSE
        PROVE  /\ \A w \in Elements(log') : Kept(w)
               /\ Kept(statement)
               /\ Elements(receipts) \subseteq Elements(log')
               /\ verdict \subseteq {"error", "no_witness", "rollback", "orphaned_witness"}
    <3>1. /\ \A w \in Elements(log) : Kept(w)
          /\ Kept(statement)
          /\ Elements(receipts) \subseteq Elements(log)
          /\ verdict \subseteq {"error", "no_witness", "rollback", "orphaned_witness"}
      BY <2>1, <2>4 DEF Untouched, Publishing
    <3> QED BY <2>1, <2>4, <3>1
  <2>5. Publishing' => statement' = statement
    BY <2>1 DEF Publishing
  <2>6. Publishing' /\ Kept(statement) => Kept(statement)'
    BY <2>1, <2>2, <2>5 DEF Kept
  <2>7. restores' = restores /\ Elements(receipts)' = Elements(receipts)
        /\ Elements(log)' = Elements(log') /\ verdict' = verdict
    BY <2>1 DEF Elements
  <2> QED BY <2>3, <2>4, <2>6, <2>7 DEF Untouched
<1>8. CASE Record
  <2>1. /\ pc = "record" /\ pc' = "idle"
        /\ receipts' = IF statement \in Elements(receipts) THEN receipts
                       ELSE Append(receipts, statement)
        /\ UNCHANGED <<rows, cps, log, corrupt, verdict, restores>>
    BY <1>8 DEF Record, Return, outside, verifying, copy
  <2>2. /\ Genuine(statement)
        /\ statement \in Elements(log) \/ corrupt = TRUE
        /\ receipts \in Seq(StatementType)
    BY <2>1 DEF Sound, World, InHand, Publishing, LedgerOK
  <2>3. corrupt = FALSE => Elements(receipts') \subseteq Elements(receipts) \cup Elements(log)
    BY <2>1, <2>2, ElementsOf DEF Genuine
  <2>4. ledger_id' = ledger_id
    BY <2>1 DEF ledger_id
  <2>5. \A w : Kept(w)' <=> Kept(w)
    BY <2>1, <2>4 DEF Kept
  <2>6. Elements(receipts)' = Elements(receipts') /\ Elements(log)' = Elements(log)
    BY <2>1 DEF Elements
  <2>7. ~Publishing'
    BY <2>1 DEF Publishing
  <2> QED BY <2>1, <2>3, <2>5, <2>6, <2>7 DEF Untouched
<1>9. CASE Crash
  <2>1. pc' = "idle" /\ UNCHANGED <<rows, cps, receipts, log, corrupt, verdict, restores>>
    BY <1>9 DEF Crash, Return, ledger, outside, verifying, copy
  <2>2. ~Publishing'
    BY <2>1 DEF Publishing
  <2> QED BY <2>1, <2>2, LedgerGrowsUntouched
<1>10. CASE Backup \/ VerifyLocal \/ UNCHANGED vars
  <2>1. /\ UNCHANGED <<rows, cps, receipts, log, corrupt, restores, pc, statement>>
        /\ verdict' = verdict \/ verdict' = {}
    BY <1>10 DEF Backup, VerifyLocal, vars, ledger, outside, anchoring, call, verifying, copy
  <2> QED BY <2>1, OnlyTheVerdict
<1>11. CASE Restore
  <2>1. restores' # 0
    BY <1>11, BoundAssumption DEF Restore, Sound, World
  <2> QED BY <2>1 DEF Untouched
<1>12. CASE VerifyRemote
  <2>1. /\ UNCHANGED <<rows, cps, receipts, log, corrupt, restores, pc, statement>>
        /\ \E held \in Fetched :
              verdict' = Verify(seen, held, Hashes(rows), Elements(receipts))
    BY <1>12 DEF VerifyRemote, ledger, outside, anchoring, call, copy
  <2>2. restores = 0 /\ corrupt = FALSE =>
            verdict' \subseteq {"error", "no_witness", "rollback", "orphaned_witness"}
    BY <2>1, LaggingVerdict
  <2> QED BY <2>1, <2>2, OnlyTheVerdict
<1> QED BY <1>3, <1>4, <1>7, <1>8, <1>9, <1>10, <1>11, <1>12, <1>5, <1>6 DEF Next

\* It holds at first.
LEMMA UntouchedInit ==
    ASSUME Init
    PROVE  Untouched
<1>1. Elements(<<>>) = {}
  BY DEF Elements
<1> QED BY <1>1 DEF Init, Untouched, Publishing

-----------------------------------------------------------------------------
(* Loss *)

\* A witness of rows that are gone makes the verification fail that is handed it.
LEMMA LossIsSeen ==
    ASSUME Sound, NEW held \in Fetched, NEW w \in held, ledger_id # NONE,
           profile.backend = "rekor" \/ w.ledger = ledger_id,
           ~Extends(w)
    PROVE  VerifyNow(held) # {}
<1> DEFINE witnesses == Witnesses(ledger_id, held)
<1>1. held \subseteq Elements(log)
  BY DEF Fetched
<1>2. /\ rows \in Seq(Row) /\ cps \in Seq(TimedCheckpoint)
      /\ Genuine(w) /\ profile.backend \in {"file-witness", "rekor"}
  BY <1>1, ProfileAssumption DEF Sound, World, LedgerOK
<1>3. Hashes(rows) \in Seq(Seq(Rec)) /\ Len(Hashes(rows)) = Len(rows) /\ Len(rows) \in Nat
  BY <1>2, HashesType
<1>4. w \in witnesses
  BY DEF Witnesses
<1>5. VerifyNow(held) = IF Unreadable THEN {"error"}
                        ELSE IF witnesses = {} THEN {"no_witness"}
                        ELSE StatementsOff(witnesses, Hashes(rows), Len(rows))
                             \cup Orphans(witnesses, cps, ledger_id)
                             \cup BadReceipts(Elements(receipts), held)
  BY DEF VerifyNow, Verify, Now
<1> HIDE DEF witnesses
<1>6. CASE profile.backend = "file-witness"
  <2> DEFINE signed == {v \in witnesses : SignatureVerifies(v.sig, <<"root", v.root>>, Kid)}
  <2>1. w \in signed
    BY <1>2, <1>4 DEF Genuine, SignatureVerifies
  <2>2. HasPayload
    BY <1>6 DEF HasPayload
  <2> HIDE DEF signed
  <2>3. StatementsOff(witnesses, Hashes(rows), Len(rows)) =
          {"unsigned_witness" : v \in witnesses \ signed}
          \cup {"rollback" : v \in {v \in signed : v.count > Len(rows)}}
          \cup {"fork" : v \in {v \in signed :
                   /\ v.count <= Len(rows)
                   /\ \/ Len(Hashes(rows)) < v.count
                      \/ SubSeq(Hashes(rows), 1, v.count) # v.root}}
    BY <2>2 DEF StatementsOff, signed
  <2>4. w.count \in Nat
    BY <1>2 DEF Genuine, StatementType
  <2>5. CASE w.count > Len(rows)
    <3>1. "rollback" \in {"rollback" : v \in {v \in signed : v.count > Len(rows)}}
      BY <2>1, <2>5
    <3> QED BY <1>4, <1>5, <2>3, <3>1
  <2>6. CASE w.count <= Len(rows)
    <3>1. SubSeq(Hashes(rows), 1, w.count) # w.root
      BY <2>6 DEF Extends
    <3>2. "fork" \in {"fork" : v \in {v \in signed :
                       /\ v.count <= Len(rows)
                       /\ \/ Len(Hashes(rows)) < v.count
                          \/ SubSeq(Hashes(rows), 1, v.count) # v.root}}
      BY <2>1, <2>6, <3>1
    <3> QED BY <1>4, <1>5, <2>3, <3>2
  <2> QED BY <1>3, <2>4, <2>5, <2>6
<1>7. CASE profile.backend = "rekor"
  <2>1. ~HasPayload
    BY <1>7 DEF HasPayload
  <2>2. ASSUME NEW i \in 1..Len(cps), w = Build(cps[i], ledger_id)
        PROVE  FALSE
    <3>1. rows # <<>>
      BY DEF ledger_id
    <3>2. Kept(w)
      BY <2>2, <3>1 DEF Kept
    <3> QED BY <3>2, KeptExtends DEF Extends
  <2>3. "orphaned_witness" \in Orphans(witnesses, cps, ledger_id)
    <3>1. w \in witnesses \ {Build(cps[i], ledger_id) : i \in 1..Len(cps)}
      BY <1>4, <2>2
    <3> QED BY <3>1 DEF Orphans
  <2> QED BY <1>4, <1>5, <2>1, <2>3
<1> QED BY <1>2, <1>6, <1>7

\* So do rows that anchor_now opened the ledger with and that are gone.
LEMMA AnchoredIsSeen ==
    ASSUME Sound, NEW c \in covered, NEW held \in Fetched, ledger_id # NONE,
           profile.backend = "rekor" \/ c.statement.ledger = ledger_id,
           ~IsPrefix(c.rows, Hashes(rows)),
           c.statement \notin Elements(log) \ held
    PROVE  VerifyNow(held) # {}
<1>1. CASE corrupt = TRUE
  <2>1. profile.backend = "file-witness"
    BY <1>1, ProfileAssumption DEF Sound, World
  <2>2. Unreadable
    BY <1>1, <2>1 DEF Unreadable, HasPayload
  <2> QED BY <2>2 DEF VerifyNow, Verify, Now
<1>2. CASE c.statement \in Elements(log)
  <2> DEFINE w == c.statement
  <2>1. /\ Genuine(w) /\ Begins(c.rows, w.root) /\ rows \in Seq(Row)
        /\ c.rows \in Seq(Seq(Rec))
    BY DEF Sound, World, Past, LedgerOK
  <2>2. Hashes(rows) \in Seq(Seq(Rec)) /\ Len(Hashes(rows)) = Len(rows)
    BY <2>1, HashesType
  <2>3. w.count = Len(w.root) /\ w.root \in Seq(Seq(Rec))
    BY <2>1 DEF Genuine, StatementType
  <2>4. w \in held
    BY <1>2
  <2> HIDE DEF w
  <2>5. ~Begins(w.root, Hashes(rows))
    BY <2>1, <2>2, <2>3, BeginsTransitive, BeginsIsPrefix
  <2>6. ~(Len(w.root) <= Len(Hashes(rows)) /\ SubSeq(Hashes(rows), 1, Len(w.root)) = w.root)
    BY <2>2, <2>3, <2>5, BeginsIsPrefix
  <2>7. ~Extends(w)
    BY <2>2, <2>3, <2>6 DEF Extends
  <2>8. profile.backend = "rekor" \/ w.ledger = ledger_id
    BY DEF w
  <2> QED BY <2>4, <2>7, <2>8, LossIsSeen
<1>3. c.statement \in Elements(log) \/ corrupt = TRUE
  BY DEF Sound, Past
<1> QED BY <1>1, <1>2, <1>3

-----------------------------------------------------------------------------
(* The theorems *)

\* Every value keeps its type, whatever is cut short or put back.
THEOREM AnchoringTypes == Spec => []TypeOK
<1>1. Init => Sound
  BY SoundInit
<1>2. Sound /\ [Next]_vars => Sound'
  BY SoundStep
<1>3. ASSUME Sound
      PROVE  TypeOK
  <2>1. /\ log \in Seq(StatementType) /\ receipts \in Seq(StatementType)
        /\ statement \in StatementType \cup {NONE}
    BY <1>3 DEF Sound, World, InHand, Publishing, LedgerOK, Genuine
  <2>2. /\ \A i \in 1..Len(log) : log[i] \in StatementType
        /\ \A i \in 1..Len(receipts) : receipts[i] \in StatementType
    BY <2>1, ElementOfSeq
  <2> QED BY <1>3, <2>1, <2>2 DEF Sound, World, InHand, Past, TypeOK
<1> QED BY <1>1, <1>2, <1>3, PTL DEF Spec

\* verify_anchors passes a ledger nobody touched, whatever anchoring failed at,
\* whoever recorded meanwhile and whichever entries cannot be fetched, as long as
\* one can and the log is not too long to enumerate (anchor/verify.py).
THEOREM NoFalseAlarms == Spec => []NoFalseAlarm
<1>1. Init => Sound /\ Untouched
  BY SoundInit, UntouchedInit
<1>2. Sound /\ Untouched /\ [Next]_vars => Sound' /\ Untouched'
  BY SoundStep, UntouchedStep
<1>3. ASSUME Sound, Untouched
      PROVE  NoFalseAlarm
  <2>1. corrupt \in BOOLEAN
    BY <1>3 DEF Sound, World
  <2> QED BY <1>3, <2>1, CurrentVerdict DEF NoFalseAlarm
<1> QED BY <1>1, <1>2, <1>3, PTL DEF Spec

\* A verification beside recording and anchoring never reports a fork, a bad receipt or
\* an unsigned witness: it only lags.
THEOREM LiveVerificationsOnlyLag == Spec => []LiveVerifyOnlyLags
<1>1. Init => Sound /\ Untouched
  BY SoundInit, UntouchedInit
<1>2. Sound /\ Untouched /\ [Next]_vars => Sound' /\ Untouched'
  BY SoundStep, UntouchedStep
<1>3. ASSUME Sound, Untouched
      PROVE  LiveVerifyOnlyLags
  <2>1. corrupt \in BOOLEAN
    BY <1>3 DEF Sound, World
  <2> QED BY <1>3, <2>1 DEF Untouched, LiveVerifyOnlyLags
<1> QED BY <1>1, <1>2, <1>3, PTL DEF Spec

\* Once history that the log has seen is gone, every verification that is handed
\* an entry of it fails, whatever was appended and anchored since and whichever
\* other entries cannot be fetched.
THEOREM LossesAreDetected == Spec => []LossIsDetected
<1>1. Init => Sound
  BY SoundInit
<1>2. Sound /\ [Next]_vars => Sound'
  BY SoundStep
<1>3. Sound => LossIsDetected
  BY LossIsSeen DEF LossIsDetected
<1> QED BY <1>1, <1>2, <1>3, PTL DEF Spec

\* No row that was there when a call of anchor_now that returned opened the ledger
\* is lost in silence, whoever appends and checkpoints beside it, unless the entry
\* it published cannot be fetched.
THEOREM AnchoredRowsAreProtected == Spec => []AnchoredIsProtected
<1>1. Init => Sound
  BY SoundInit
<1>2. Sound /\ [Next]_vars => Sound'
  BY SoundStep
<1>3. Sound => AnchoredIsProtected
  BY AnchoredIsSeen DEF AnchoredIsProtected
<1> QED BY <1>1, <1>2, <1>3, PTL DEF Spec
=============================================================================
