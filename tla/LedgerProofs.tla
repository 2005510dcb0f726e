---------------------------- MODULE LedgerProofs ----------------------------
(***************************************************************************)
(* Theorems about the ledger store, for every number of processes, records *)
(* and checkpoint cadence.                                                 *)
(***************************************************************************)
EXTENDS Ledger, SequenceTheorems, TLAPS

-----------------------------------------------------------------------------
(* Type correctness *)

\* Hashes are sequences of records: the link and the NULL of the genesis row.
LEMMA HashTypes ==
    /\ NULL \in Hash
    /\ \A r \in Rec, h \in Hash : Link(r, h) \in Hash
BY DEF NULL, Hash, Link

\* What NewRow and NewCheckpoint build has the type of its table.
LEMMA RowTypes ==
    /\ \A r \in Rec, h \in Hash : NewRow(r, h, Kid) \in Row
    /\ \A ls \in Seq(Hash) : NewCheckpoint(ls, Kid) \in CheckpointRow
BY HashTypes DEF NewRow, NewCheckpoint, Row, CheckpointRow, Sign

\* The view of a connection is a sequence of rows, and so are its hashes.
LEMMA ViewType ==
    ASSUME TypeOK, NEW p \in Proc
    PROVE  View(p) \in Seq(Row) /\ LastEntryHash(View(p)) \in Hash
<1>1. View(p) \in Seq(Row)
  BY DEF TypeOK, View
<1>2. CASE View(p) = <<>>
  BY <1>2, <1>1, HashTypes DEF LastEntryHash
<1>3. CASE View(p) # <<>>
  <2>1. Len(View(p)) \in 1..Len(View(p))
    BY <1>1, <1>3, EmptySeq
  <2>2. View(p)[Len(View(p))] \in Row
    BY <1>1, <2>1, ElementOfSeq
  <2>3. View(p)[Len(View(p))].hash \in Hash
    BY <2>2 DEF Row
  <2> QED BY <1>1, <1>3, <2>3 DEF LastEntryHash
<1> QED BY <1>1, <1>2, <1>3

\* The leaves of a sequence of rows.
LEMMA HashesType ==
    ASSUME NEW s \in Seq(Row)
    PROVE  Hashes(s) \in Seq(Hash) /\ Len(Hashes(s)) = Len(s)
<1>1. \A i \in 1..Len(s) : s[i].hash \in Hash
  <2> TAKE i \in 1..Len(s)
  <2>1. s[i] \in Row
    BY ElementOfSeq
  <2> QED BY <2>1 DEF Row
<1>2. Len(s) \in Nat
  OBVIOUS
<1>4. Hashes(s) \in [1..Len(s) -> Hash]
  BY <1>1 DEF Hashes
<1>3. Hashes(s) \in Seq(Hash)
  BY <1>2, <1>4, SeqDef
<1> QED BY <1>2, <1>3, <1>4, LenProperties

\* The three ways a transaction ends keep the file well typed.
LEMMA TransactionType ==
    ASSUME TypeOK, NEW p \in Proc,
           NEW newRows \in Seq(Row), NEW newCps \in Seq(CheckpointRow),
           Commit(p, newRows, newCps) \/ Hold(p, newRows, newCps) \/ Refuse(p)
    PROVE  /\ rows' \in Seq(Row) /\ pendRows' \in Seq(Row)
           /\ cps' \in Seq(CheckpointRow) /\ pendCps' \in Seq(CheckpointRow)
           /\ conn' \in [Proc -> {"auto", "begun", "reading", "writing"}]
<1>1. CASE Commit(p, newRows, newCps)
  BY <1>1, ConcatProperties, EmptySeq DEF TypeOK, Commit
<1>2. CASE Hold(p, newRows, newCps)
  BY <1>2, ConcatProperties DEF TypeOK, Hold
<1>3. CASE Refuse(p)
  BY <1>3 DEF TypeOK, Refuse, file
<1> QED BY <1>1, <1>2, <1>3

\* Every step keeps the types.
LEMMA TypeStep == TypeOK /\ [Next]_vars => TypeOK'
<1> SUFFICES ASSUME TypeOK, [Next]_vars PROVE TypeOK'
  OBVIOUS
<1>1. CASE UNCHANGED vars
  BY <1>1 DEF TypeOK, vars
<1>2. ASSUME NEW p \in Proc, Open(p) PROVE TypeOK'
  BY <1>2, HashesType DEF TypeOK, Open, file, call
<1>3. ASSUME NEW p \in Proc, Stop(p) PROVE TypeOK'
  BY <1>3, HashTypes DEF TypeOK, Stop
<1>4. ASSUME NEW p \in Proc, NEW r \in Rec, ReadPrev(p, r) PROVE TypeOK'
  BY <1>4, ViewType DEF TypeOK, ReadPrev, file
<1>5. ASSUME NEW p \in Proc, Insert(p) PROVE TypeOK'
  <2> DEFINE row == NewRow(rec[p], prev[p], Kid)
  <2>0. <<>> \in Seq(CheckpointRow) /\ (row \in Row => <<row>> \in Seq(Row))
    OBVIOUS
  <2>1. row \in Row /\ row.hash \in Hash
    BY <1>5, RowTypes DEF TypeOK, Insert, Row
  <2>2. Commit(p, <<row>>, <<>>)
    BY <1>5 DEF Insert
  <2>3. /\ rows' \in Seq(Row) /\ pendRows' \in Seq(Row)
        /\ cps' \in Seq(CheckpointRow) /\ pendCps' \in Seq(CheckpointRow)
        /\ conn' \in [Proc -> {"auto", "begun", "reading", "writing"}]
    BY <2>1, <2>2, <2>0, TransactionType
  <2>4. leaves' \in [Proc -> Seq(Hash)]
    <3>1. Append(leaves[p], row.hash) \in Seq(Hash)
      BY <2>1 DEF TypeOK
    <3>2. leaves' = [leaves EXCEPT ![p] = Append(@, row.hash)]
      BY <1>5 DEF Insert
    <3> QED BY <3>1, <3>2 DEF TypeOK
  <2> QED BY <1>5, <2>3, <2>4 DEF TypeOK, Insert, call
<1>6. ASSUME NEW p \in Proc, InsertHeld(p) PROVE TypeOK'
  <2> DEFINE row == NewRow(rec[p], prev[p], Kid)
  <2>0. <<>> \in Seq(CheckpointRow) /\ (row \in Row => <<row>> \in Seq(Row))
    OBVIOUS
  <2>1. row \in Row
    BY <1>6, RowTypes DEF TypeOK, InsertHeld
  <2>2. Hold(p, <<row>>, <<>>)
    BY <1>6 DEF InsertHeld
  <2>3. /\ rows' \in Seq(Row) /\ pendRows' \in Seq(Row)
        /\ cps' \in Seq(CheckpointRow) /\ pendCps' \in Seq(CheckpointRow)
        /\ conn' \in [Proc -> {"auto", "begun", "reading", "writing"}]
    BY <2>1, <2>2, <2>0, TransactionType
  <2> QED BY <1>6, <2>3, HashTypes DEF TypeOK, InsertHeld, Raise
<1>7. ASSUME NEW p \in Proc, InsertRefused(p) PROVE TypeOK'
  BY <1>7, HashTypes DEF TypeOK, InsertRefused, Refuse, Raise, file
<1>8. ASSUME NEW p \in Proc, InsertDuplicate(p) PROVE TypeOK'
  BY <1>8, HashTypes DEF TypeOK, InsertDuplicate, Raise, file
<1>9. ASSUME NEW p \in Proc, ReturnUnsealed(p) PROVE TypeOK'
  BY <1>9, HashTypes DEF TypeOK, ReturnUnsealed, Return, file
<1>10. ASSUME NEW p \in Proc,
              Seal(p) \/ SealFails(p) \/ Checkpoint(p) \/ CheckpointFails(p)
       PROVE  TypeOK'
  <2> DEFINE cp == NewCheckpoint(leaves[p], Kid)
  <2>0. /\ <<>> \in Seq(Row)
        /\ cp \in CheckpointRow => <<cp>> \in Seq(CheckpointRow)
    OBVIOUS
  <2>1. cp \in CheckpointRow
    BY RowTypes DEF TypeOK
  <2>2. Commit(p, <<>>, <<cp>>) \/ Hold(p, <<>>, <<cp>>) \/ Refuse(p)
    BY <1>10 DEF Seal, SealFails, Checkpoint, CheckpointFails
  <2>3. /\ rows' \in Seq(Row) /\ pendRows' \in Seq(Row)
        /\ cps' \in Seq(CheckpointRow) /\ pendCps' \in Seq(CheckpointRow)
        /\ conn' \in [Proc -> {"auto", "begun", "reading", "writing"}]
    BY <2>1, <2>2, <2>0, TransactionType
  <2>4. CASE Seal(p)
    BY <2>3, <2>4, HashTypes DEF TypeOK, Seal, Return
  <2>5. CASE SealFails(p)
    BY <2>3, <2>5, HashTypes DEF TypeOK, SealFails, Raise
  <2>6. CASE Checkpoint(p) \/ CheckpointFails(p)
    BY <2>3, <2>6 DEF TypeOK, Checkpoint, CheckpointFails, call
  <2> QED BY <1>10, <2>4, <2>5, <2>6
<1> QED
  BY <1>1, <1>2, <1>3, <1>4, <1>5, <1>6, <1>7, <1>8, <1>9, <1>10 DEF Next

\* Every reachable state of the store is well typed: rows, hashes, signatures.
THEOREM TypeCorrect == Spec => []TypeOK
<1>1. Init => TypeOK
  BY HashTypes DEF Init, TypeOK
<1> QED BY <1>1, TypeStep, PTL DEF Spec
-----------------------------------------------------------------------------
(* The write lock and the rows it guards                                   *)

\* At most one connection holds the write lock, and whatever is inserted but
\* not committed is its own.
LockInv ==
    /\ \A p, q \in Proc : conn[p] = "writing" /\ conn[q] = "writing" => p = q
    /\ pendRows # <<>> \/ pendCps # <<>> => \E p \in Proc : conn[p] = "writing"

\* The committed rows, then the uncommitted ones.
AllRows == rows \o pendRows

\* The committed rows and the uncommitted ones are one sequence of rows.
LEMMA AllRowsType == TypeOK => AllRows \in Seq(Row)
BY ConcatProperties DEF TypeOK, AllRows

\* Whoever may write sees every row there is.
LEMMA WriterSeesAll ==
    ASSUME TypeOK, LockInv, NEW p \in Proc, CanWrite(p)
    PROVE  View(p) = AllRows
<1>1. CASE conn[p] = "writing"
  BY <1>1 DEF View, AllRows
<1>2. CASE conn[p] # "writing"
  <2>1. pendRows = <<>>
    BY <1>2 DEF CanWrite, LockInv
  <2> QED BY <1>2, <2>1, ConcatEmptySeq DEF View, AllRows, TypeOK
<1> QED BY <1>1, <1>2

\* Rows that follow what is pending follow the file and what is pending.
LEMMA RowsJoin ==
    ASSUME NEW r \in Seq(Row), NEW s \in Seq(Row), NEW t \in Seq(Row)
    PROVE  r \o (s \o t) = (r \o s) \o t /\ (r \o s) \o t \in Seq(Row)
<1>1. (r \o s) \o t = r \o (s \o t)
  BY ConcatAssociative
<1>2. r \o s \in Seq(Row)
  BY ConcatProperties
<1>3. (r \o s) \o t \in Seq(Row)
  BY <1>2, ConcatProperties
<1> QED BY <1>1, <1>3

\* What a transaction does to the rows that are or will be in the file.
LEMMA TransactionRows ==
    ASSUME TypeOK, LockInv, NEW p \in Proc,
           NEW newRows \in Seq(Row), NEW newCps \in Seq(CheckpointRow),
           Commit(p, newRows, newCps) \/ Hold(p, newRows, newCps)
    PROVE  LockInv' /\ AllRows' = AllRows \o newRows /\ CanWrite(p)
<1>1. CASE Commit(p, newRows, newCps)
  <2>1. LockInv' /\ CanWrite(p)
    BY <1>1 DEF LockInv, Commit, CanCommit, CanWrite, TypeOK
  <2>2. AllRows' = (rows \o pendRows \o newRows) \o <<>>
    BY <1>1 DEF AllRows, Commit
  <2>3. rows \o pendRows \o newRows \in Seq(Row)
    BY RowsJoin DEF TypeOK
  <2> QED BY <2>1, <2>2, <2>3, ConcatEmptySeq DEF AllRows
<1>2. CASE Hold(p, newRows, newCps)
  <2>1. LockInv' /\ CanWrite(p)
    BY <1>2 DEF LockInv, Hold, CommitRefused, CanWrite, TypeOK
  <2>2. AllRows' = rows \o (pendRows \o newRows)
    BY <1>2 DEF AllRows, Hold
  <2>3. rows \o (pendRows \o newRows) = (rows \o pendRows) \o newRows
    BY RowsJoin DEF TypeOK
  <2> QED BY <2>1, <2>2, <2>3 DEF AllRows
<1> QED BY <1>1, <1>2

\* The only steps that change the rows: an INSERT extends them by one, and a
\* process that stops takes its uncommitted ones with it.
LEMMA RowsStep ==
    ASSUME TypeOK, LockInv, [Next]_vars
    PROVE  /\ LockInv'
           /\ \/ AllRows' = AllRows
              \/ \E p \in Proc :
                    /\ Insert(p) \/ InsertHeld(p)
                    /\ CanWrite(p)
                    /\ AllRows' = AllRows \o <<NewRow(rec[p], prev[p], Kid)>>
              \/ \E p \in Proc : Stop(p) /\ AllRows' = rows
<1> DEFINE Goal == /\ LockInv'
                   /\ \/ AllRows' = AllRows
                      \/ \E p \in Proc :
                            /\ Insert(p) \/ InsertHeld(p)
                            /\ CanWrite(p)
                            /\ AllRows' = AllRows \o <<NewRow(rec[p], prev[p], Kid)>>
                      \/ \E p \in Proc : Stop(p) /\ AllRows' = rows
<1>0. <<>> \in Seq(Row) /\ <<>> \in Seq(CheckpointRow)
  OBVIOUS
<1>1. CASE UNCHANGED vars
  BY <1>1 DEF vars, LockInv, AllRows
<1>2. ASSUME NEW p \in Proc, Stop(p) PROVE Goal
  <2>1. LockInv'
    BY <1>2 DEF Stop, LockInv, TypeOK
  <2>2. CASE conn[p] = "writing"
    <3>1. AllRows' = rows \o <<>>
      BY <1>2, <2>2 DEF Stop, AllRows
    <3>2. AllRows' = rows
      BY <3>1, ConcatEmptySeq DEF TypeOK
    <3> QED BY <1>2, <2>1, <3>2
  <2>3. CASE conn[p] # "writing"
    BY <1>2, <2>1, <2>3 DEF Stop, AllRows
  <2> QED BY <2>2, <2>3
<1>3. ASSUME NEW p \in Proc, Insert(p) \/ InsertHeld(p) PROVE Goal
  <2> DEFINE row == NewRow(rec[p], prev[p], Kid)
  <2>1. row \in Row
    BY <1>3, RowTypes DEF TypeOK, Insert, InsertHeld
  <2>2. <<row>> \in Seq(Row)
    BY <2>1
  <2>3. Commit(p, <<row>>, <<>>) \/ Hold(p, <<row>>, <<>>)
    BY <1>3 DEF Insert, InsertHeld
  <2>4. LockInv' /\ AllRows' = AllRows \o <<row>> /\ CanWrite(p)
    BY <1>0, <2>2, <2>3, TransactionRows
  <2> QED BY <1>3, <2>4
<1>4. ASSUME NEW p \in Proc,
             Seal(p) \/ SealFails(p) \/ Checkpoint(p) \/ CheckpointFails(p)
      PROVE  Goal
  <2> DEFINE cp == NewCheckpoint(leaves[p], Kid)
  <2>1. cp \in CheckpointRow
    BY RowTypes DEF TypeOK
  <2>2. <<cp>> \in Seq(CheckpointRow)
    BY <2>1
  <2>3. Commit(p, <<>>, <<cp>>) \/ Hold(p, <<>>, <<cp>>) \/ Refuse(p)
    BY <1>4 DEF Seal, SealFails, Checkpoint, CheckpointFails
  <2>4. CASE Commit(p, <<>>, <<cp>>) \/ Hold(p, <<>>, <<cp>>)
    <3>1. LockInv' /\ AllRows' = AllRows \o <<>>
      BY <1>0, <2>2, <2>4, TransactionRows
    <3> QED BY <3>1, AllRowsType, ConcatEmptySeq
  <2>5. CASE Refuse(p)
    BY <2>5 DEF Refuse, LockInv, AllRows, file, TypeOK
  <2> QED BY <2>3, <2>4, <2>5
<1>5. ASSUME NEW p \in Proc,
             Open(p) \/ (\E r \in Rec : ReadPrev(p, r))
             \/ InsertRefused(p) \/ InsertDuplicate(p) \/ ReturnUnsealed(p)
      PROVE  Goal
  <2>1. CASE Open(p) \/ ReturnUnsealed(p)
    BY <2>1 DEF Open, ReturnUnsealed, LockInv, AllRows, file
  <2>2. CASE \E r \in Rec : ReadPrev(p, r)
    BY <2>2 DEF ReadPrev, LockInv, AllRows, file, TypeOK
  <2>3. CASE InsertRefused(p)
    BY <2>3 DEF InsertRefused, Refuse, LockInv, AllRows, file, TypeOK
  <2>4. CASE InsertDuplicate(p)
    BY <2>4 DEF InsertDuplicate, CanWrite, LockInv, AllRows, file, TypeOK
  <2> QED BY <1>5, <2>1, <2>2, <2>3, <2>4
<1> QED BY <1>1, <1>2, <1>3, <1>4, <1>5 DEF Next
-----------------------------------------------------------------------------
(* Every record is recorded once                                           *)

DistinctRecs(s) == \A i, j \in 1..Len(s) : s[i].rec = s[j].rec => i = j

OnceInv == LockInv /\ DistinctRecs(AllRows)

\* A prefix of rows with distinct records has distinct records.
LEMMA DistinctPrefix ==
    ASSUME NEW s \in Seq(Row), NEW t \in Seq(Row), DistinctRecs(s \o t)
    PROVE  DistinctRecs(s)
BY ConcatProperties DEF DistinctRecs

\* A fresh record keeps them distinct.
LEMMA DistinctExtend ==
    ASSUME NEW s \in Seq(Row), NEW row \in Row,
           DistinctRecs(s), row.rec \notin Recorded(s)
    PROVE  DistinctRecs(s \o <<row>>)
<1>1. /\ Len(s \o <<row>>) = Len(s) + 1
      /\ \A i \in 1..Len(s) : (s \o <<row>>)[i] = s[i]
      /\ (s \o <<row>>)[Len(s) + 1] = row
  OBVIOUS
<1>2. \A i \in 1..Len(s) : s[i].rec # row.rec
  BY DEF Recorded
<1> QED BY <1>1, <1>2 DEF DistinctRecs

\* Every step keeps the records distinct.
LEMMA OnceStep == TypeOK /\ OnceInv /\ [Next]_vars => OnceInv'
<1> SUFFICES ASSUME TypeOK, OnceInv, [Next]_vars PROVE OnceInv'
  OBVIOUS
<1>1. LockInv'
  BY RowsStep DEF OnceInv
<1>2. CASE AllRows' = AllRows
  BY <1>1, <1>2 DEF OnceInv, DistinctRecs
<1>3. ASSUME NEW p \in Proc, Insert(p) \/ InsertHeld(p), CanWrite(p),
             AllRows' = AllRows \o <<NewRow(rec[p], prev[p], Kid)>>
      PROVE  OnceInv'
  <2> DEFINE row == NewRow(rec[p], prev[p], Kid)
  <2>1. row \in Row /\ row.rec = rec[p]
    BY <1>3, RowTypes DEF TypeOK, Insert, InsertHeld, NewRow
  <2>2. rec[p] \notin Recorded(AllRows)
    BY <1>3, WriterSeesAll DEF OnceInv, Insert, InsertHeld, Fresh
  <2>3. DistinctRecs(AllRows \o <<row>>)
    BY <2>1, <2>2, AllRowsType, DistinctExtend DEF OnceInv
  <2> QED BY <1>1, <1>3, <2>3 DEF OnceInv, DistinctRecs
<1>4. ASSUME AllRows' = rows PROVE OnceInv'
  <2>1. DistinctRecs(rows)
    BY DistinctPrefix DEF OnceInv, AllRows, TypeOK
  <2> QED BY <1>1, <1>4, <2>1 DEF OnceInv, DistinctRecs
<1> QED BY <1>2, <1>3, <1>4, RowsStep DEF OnceInv

\* However many processes write and whichever calls fail and are retried, no
\* record is in the ledger twice.
THEOREM RecordsOnce == Spec => []RecordedOnce
<1>1. Init => OnceInv
  BY DEF Init, OnceInv, LockInv, AllRows, DistinctRecs
<1>2. TypeOK /\ OnceInv => RecordedOnce
  BY DistinctPrefix DEF OnceInv, AllRows, TypeOK, RecordedOnce, DistinctRecs
<1> QED BY <1>1, <1>2, OnceStep, TypeCorrect, PTL DEF Spec
-----------------------------------------------------------------------------
(* Every row is well formed on its own                                     *)

WellFormed(row) ==
    /\ row.hash = Link(row.rec, row.prev)
    /\ SignatureVerifies(row.sig, <<"row", row.hash>>, Kid)

AllWellFormed(s) == \A i \in 1..Len(s) : WellFormed(s[i])

FormInv == LockInv /\ AllWellFormed(AllRows)

\* Whatever it links to, a new row is well formed and signed.
LEMMA NewRowWellFormed == \A r, h : WellFormed(NewRow(r, h, Kid))
BY DEF WellFormed, NewRow, SignatureVerifies

\* A prefix of well-formed rows.
LEMMA FormPrefix ==
    ASSUME NEW s \in Seq(Row), NEW t \in Seq(Row), AllWellFormed(s \o t)
    PROVE  AllWellFormed(s)
<1> SUFFICES ASSUME NEW i \in 1..Len(s) PROVE WellFormed(s[i])
  BY DEF AllWellFormed
<1>1. i \in 1..Len(s \o t) /\ (s \o t)[i] = s[i]
  BY ConcatProperties
<1> QED BY <1>1 DEF AllWellFormed

\* Every step keeps the rows well formed.
LEMMA FormStep == TypeOK /\ FormInv /\ [Next]_vars => FormInv'
<1> SUFFICES ASSUME TypeOK, FormInv, [Next]_vars PROVE FormInv'
  OBVIOUS
<1>1. LockInv'
  BY RowsStep DEF FormInv
<1>2. CASE AllRows' = AllRows
  BY <1>1, <1>2 DEF FormInv, AllWellFormed
<1>3. ASSUME NEW p \in Proc, Insert(p) \/ InsertHeld(p),
             AllRows' = AllRows \o <<NewRow(rec[p], prev[p], Kid)>>
      PROVE  FormInv'
  <2> DEFINE row == NewRow(rec[p], prev[p], Kid)
             s == AllRows
  <2>1. row \in Row /\ s \in Seq(Row)
    BY <1>3, RowTypes, AllRowsType DEF TypeOK, Insert, InsertHeld
  <2>2. WellFormed(row)
    BY NewRowWellFormed, Zenon
  <2>5. AllWellFormed(s)
    BY DEF FormInv
  <2> HIDE DEF row, s
  <2>3. AllWellFormed(s \o <<row>>)
    BY <2>1, <2>2, <2>5 DEF AllWellFormed
  <2>4. AllWellFormed(AllRows')
    BY <1>3, <2>3 DEF row, s
  <2> QED BY <1>1, <2>4 DEF FormInv, AllWellFormed
<1>4. ASSUME AllRows' = rows PROVE FormInv'
  <2>1. AllWellFormed(rows)
    BY FormPrefix DEF FormInv, AllRows, TypeOK
  <2> QED BY <1>1, <1>4, <2>1 DEF FormInv, AllWellFormed
<1> QED BY <1>2, <1>3, <1>4, RowsStep DEF FormInv

\* In every configuration, racing writers included, verify_chain can find a
\* gap in what the program wrote but never an edit or a forgery.
THEOREM RacesLeaveOnlyGaps == Spec => []RacesOnlyLeaveGaps
<1>1. Init => FormInv
  BY DEF Init, FormInv, LockInv, AllRows, AllWellFormed
<1>2. TypeOK /\ FormInv => RacesOnlyLeaveGaps
  <2> SUFFICES ASSUME TypeOK, FormInv PROVE RacesOnlyLeaveGaps
    OBVIOUS
  <2>1. AllWellFormed(rows)
    BY FormPrefix DEF FormInv, AllRows, TypeOK
  <2> QED BY <2>1 DEF AllWellFormed, WellFormed, RacesOnlyLeaveGaps, RowVerdict
<1> QED BY <1>1, <1>2, FormStep, TypeCorrect, PTL DEF Spec

-----------------------------------------------------------------------------
(* With one process at a time the chain has no gap                         *)

OneAtATime ==
    /\ \A p, q \in Proc : pc[p] # "closed" /\ pc[q] # "closed" => p = q
    /\ \A p \in Proc : pc[p] = "closed" => conn[p] = "auto"

\* The hash a call read is still that of the newest row, committed or not.
PrevIsLast ==
    \A p \in Proc : pc[p] = "insert" => prev[p] = LastEntryHash(AllRows)

ChainInv ==
    LockInv /\ OneAtATime /\ PrevIsLast /\ ChainOK(AllRows, Kid)

\* A prefix of a chain is a chain.
LEMMA ChainPrefix ==
    ASSUME NEW s \in Seq(Row), NEW t \in Seq(Row), ChainOK(s \o t, Kid)
    PROVE  ChainOK(s, Kid)
<1> SUFFICES ASSUME NEW i \in 1..Len(s) PROVE RowVerdict(s, i, Kid) = "ok"
  BY DEF ChainOK
<1>1. i \in 1..Len(s \o t) /\ (s \o t)[i] = s[i]
  BY ConcatProperties
<1>2. i # 1 => (s \o t)[i - 1] = s[i - 1]
  BY ConcatProperties
<1>3. RowVerdict(s \o t, i, Kid) = "ok"
  BY <1>1 DEF ChainOK
<1> QED BY <1>1, <1>2, <1>3 DEF RowVerdict, WalkHash

\* A row that links to the last one keeps a chain a chain.
LEMMA ChainExtend ==
    ASSUME NEW s \in Seq(Row), ChainOK(s, Kid), NEW row \in Row,
           WellFormed(row), row.prev = LastEntryHash(s)
    PROVE  ChainOK(s \o <<row>>, Kid)
<1>1. /\ Len(s \o <<row>>) = Len(s) + 1
      /\ \A i \in 1..Len(s) : (s \o <<row>>)[i] = s[i]
      /\ (s \o <<row>>)[Len(s) + 1] = row
  OBVIOUS
<1>2. ASSUME NEW i \in 1..Len(s) PROVE RowVerdict(s \o <<row>>, i, Kid) = "ok"
  <2>1. RowVerdict(s, i, Kid) = "ok"
    BY DEF ChainOK
  <2>2. i # 1 => i - 1 \in 1..Len(s)
    OBVIOUS
  <2> QED BY <1>1, <2>1, <2>2 DEF RowVerdict, WalkHash
<1>3. RowVerdict(s \o <<row>>, Len(s) + 1, Kid) = "ok"
  <2>1. WalkHash(s \o <<row>>, Len(s) + 1) = LastEntryHash(s)
    BY <1>1, EmptySeq DEF WalkHash, LastEntryHash
  <2> QED BY <1>1, <2>1 DEF RowVerdict, WellFormed
<1> QED BY <1>1, <1>2, <1>3 DEF ChainOK
\* Only one process has the ledger open, after any step.
LEMMA OneAtATimeStep ==
    ASSUME Exclusive, TypeOK, OneAtATime, [Next]_vars
    PROVE  OneAtATime'
<1>1. CASE UNCHANGED vars
  BY <1>1 DEF OneAtATime, vars
<1>2. ASSUME NEW p \in Proc, Open(p) PROVE OneAtATime'
  BY <1>2 DEF Open, OneAtATime, TypeOK
<1>3. ASSUME NEW p \in Proc, Stop(p) PROVE OneAtATime'
  BY <1>3 DEF Stop, OneAtATime, TypeOK
<1>4. ASSUME NEW p \in Proc,
             \/ \E r \in Rec : ReadPrev(p, r)
             \/ Insert(p) \/ InsertHeld(p) \/ InsertRefused(p) \/ InsertDuplicate(p)
             \/ ReturnUnsealed(p) \/ Seal(p) \/ SealFails(p)
             \/ Checkpoint(p) \/ CheckpointFails(p)
      PROVE  OneAtATime'
  <2>1. /\ pc[p] # "closed"
        /\ \A q \in Proc \ {p} : pc'[q] = pc[q] /\ conn'[q] = conn[q]
        /\ pc'[p] # "closed"
    BY <1>4 DEF ReadPrev, Insert, InsertHeld, InsertRefused, InsertDuplicate,
                ReturnUnsealed, Return, Seal, SealFails, Checkpoint, CheckpointFails,
                Commit, Hold, Refuse, Raise, TypeOK
  <2> QED BY <2>1 DEF OneAtATime
<1> QED BY <1>1, <1>2, <1>3, <1>4 DEF Next

\* Only the open process has a connection that could be in the way.
LEMMA AloneMayWrite ==
    ASSUME OneAtATime, NEW p \in Proc, pc[p] # "closed"
    PROVE  CanWrite(p)
BY DEF OneAtATime, CanWrite

\* What an append has read is still the newest hash when it inserts.
LEMMA PrevIsLastStep ==
    ASSUME Exclusive, TypeOK, LockInv, OneAtATime, PrevIsLast, [Next]_vars
    PROVE  PrevIsLast'
<1>1. CASE UNCHANGED vars
  BY <1>1 DEF PrevIsLast, AllRows, vars
<1>2. ASSUME NEW p \in Proc, NEW r \in Rec, ReadPrev(p, r) PROVE PrevIsLast'
  <2>1. View(p) = AllRows
    BY <1>2, AloneMayWrite, WriterSeesAll DEF ReadPrev
  <2>2. prev'[p] = LastEntryHash(AllRows) /\ AllRows' = AllRows
    BY <1>2, <2>1 DEF ReadPrev, TypeOK, AllRows, file
  <2>3. \A q \in Proc \ {p} : pc'[q] = "closed"
    BY <1>2 DEF ReadPrev, OneAtATime, TypeOK
  <2> QED BY <2>2, <2>3 DEF PrevIsLast
<1>3. ASSUME NEW p \in Proc,
             \/ Stop(p) \/ Open(p)
             \/ Insert(p) \/ InsertHeld(p) \/ InsertRefused(p) \/ InsertDuplicate(p)
             \/ ReturnUnsealed(p) \/ Seal(p) \/ SealFails(p)
             \/ Checkpoint(p) \/ CheckpointFails(p)
      PROVE  PrevIsLast'
  <2>1. \A q \in Proc : pc'[q] # "insert"
    <3>1. pc'[p] # "insert"
      BY <1>3 DEF Stop, Open, Insert, InsertHeld, InsertRefused, InsertDuplicate,
                  ReturnUnsealed, Return, Seal, SealFails, Checkpoint,
                  CheckpointFails, Raise, TypeOK
    <3>2. \A q \in Proc \ {p} : pc[q] = "closed" /\ pc'[q] = pc[q]
      BY <1>3 DEF Stop, Open, Insert, InsertHeld, InsertRefused, InsertDuplicate,
                  ReturnUnsealed, Return, Seal, SealFails, Checkpoint,
                  CheckpointFails, Raise, TypeOK, OneAtATime
    <3> QED BY <3>1, <3>2
  <2> QED BY <2>1 DEF PrevIsLast
<1> QED BY <1>1, <1>2, <1>3 DEF Next

\* Every step of a single process keeps the chain.
LEMMA ChainStep ==
    ASSUME Exclusive, TypeOK, ChainInv, [Next]_vars
    PROVE  ChainInv'
<1>1. LockInv' /\ OneAtATime' /\ PrevIsLast'
  BY RowsStep, OneAtATimeStep, PrevIsLastStep DEF ChainInv
<1>2. CASE AllRows' = AllRows
  BY <1>1, <1>2 DEF ChainInv, ChainOK
<1>3. ASSUME NEW p \in Proc, Insert(p) \/ InsertHeld(p),
             AllRows' = AllRows \o <<NewRow(rec[p], prev[p], Kid)>>
      PROVE  ChainInv'
  <2> DEFINE row == NewRow(rec[p], prev[p], Kid)
  <2>1. row \in Row
    BY <1>3, RowTypes DEF TypeOK, Insert, InsertHeld
  <2>2. WellFormed(row)
    BY NewRowWellFormed, Zenon
  <2>3. row.prev = LastEntryHash(AllRows)
    BY <1>3 DEF ChainInv, PrevIsLast, Insert, InsertHeld, NewRow
  <2>4. ChainOK(AllRows \o <<row>>, Kid)
    <3> HIDE DEF row
    <3> QED BY <2>1, <2>2, <2>3, ChainExtend, AllRowsType DEF ChainInv
  <2> QED BY <1>1, <1>3, <2>4 DEF ChainInv
<1>4. ASSUME AllRows' = rows PROVE ChainInv'
  <2>1. ChainOK(rows, Kid)
    BY ChainPrefix DEF ChainInv, AllRows, TypeOK
  <2> QED BY <1>1, <1>4, <2>1 DEF ChainInv
<1> QED BY <1>2, <1>3, <1>4, RowsStep DEF ChainInv

\* With one process at a time verify_chain passes in every reachable state,
\* whatever commits a reader refuses and wherever the process dies.
THEOREM ChainAlwaysVerifies ==
    ASSUME Exclusive PROVE Spec => []ChainIntact
<1>1. Init => ChainInv
  BY DEF Init, ChainInv, LockInv, OneAtATime, PrevIsLast, AllRows, ChainOK
<1>2. TypeOK /\ ChainInv => ChainIntact
  BY ChainPrefix DEF ChainInv, AllRows, TypeOK, ChainIntact
<1>3. TypeOK /\ ChainInv /\ [Next]_vars => ChainInv'
  BY ChainStep
<1> QED BY <1>1, <1>2, <1>3, TypeCorrect, PTL DEF Spec
-----------------------------------------------------------------------------
(* With no reader in its way either, the checkpoints verify                *)

NothingPends ==
    /\ pendRows = <<>> /\ pendCps = <<>>
    /\ \A p \in Proc : conn[p] \in {"auto", "writing"}

CacheIsFile == \A p \in Proc : pc[p] # "closed" => leaves[p] = Hashes(rows)

CheckpointsVerify ==
    \A i \in 1..Len(cps) : CheckpointVerdict(cps[i], rows, Kid) = "ok"

SealInv ==
    OneAtATime /\ NothingPends /\ CacheIsFile /\ CheckpointsVerify

\* The hashes of more rows extend the hashes of fewer.
LEMMA HashesExtend ==
    ASSUME NEW s \in Seq(Row), NEW row \in Row
    PROVE  Hashes(s \o <<row>>) = Append(Hashes(s), row.hash)
<1>1. /\ Len(s \o <<row>>) = Len(s) + 1
      /\ \A i \in 1..Len(s) : (s \o <<row>>)[i] = s[i]
      /\ (s \o <<row>>)[Len(s) + 1] = row
      /\ s \o <<row>> \in Seq(Row)
  OBVIOUS
<1>2. row.hash \in Hash
  BY DEF Row
<1>3. /\ Hashes(s) \in Seq(Hash) /\ Len(Hashes(s)) = Len(s)
      /\ Hashes(s \o <<row>>) \in Seq(Hash) /\ Len(Hashes(s \o <<row>>)) = Len(s) + 1
  BY <1>1, HashesType
<1>4. /\ Append(Hashes(s), row.hash) \in Seq(Hash)
      /\ Len(Append(Hashes(s), row.hash)) = Len(s) + 1
      /\ \A i \in 1..Len(s) : Append(Hashes(s), row.hash)[i] = Hashes(s)[i]
      /\ Append(Hashes(s), row.hash)[Len(s) + 1] = row.hash
  BY <1>2, <1>3
<1>5. \A i \in 1..(Len(s) + 1) :
         Hashes(s \o <<row>>)[i] = Append(Hashes(s), row.hash)[i]
  BY <1>1, <1>4 DEF Hashes
<1> QED BY <1>3, <1>4, <1>5, SeqEqual

\* A checkpoint that verifies still does when a row is appended.
LEMMA VerdictExtend ==
    ASSUME NEW s \in Seq(Row), NEW row \in Row, NEW cp \in CheckpointRow,
           CheckpointVerdict(cp, s, Kid) = "ok"
    PROVE  CheckpointVerdict(cp, s \o <<row>>, Kid) = "ok"
<1>1. cp.count \in Nat /\ cp.count <= Len(s) /\ SubSeq(Hashes(s), 1, cp.count) = cp.root
      /\ SignatureVerifies(cp.sig, <<"root", cp.root>>, Kid)
  BY DEF CheckpointVerdict, CheckpointRow
<1>2. Hashes(s) \in Seq(Hash) /\ Len(Hashes(s)) = Len(s) /\ row.hash \in Hash
  BY HashesType DEF Row
<1>3. SubSeq(Append(Hashes(s), row.hash), 1, cp.count) = SubSeq(Hashes(s), 1, cp.count)
  <2> DEFINE h == Hashes(s)
             n == cp.count
  <2>1. n \in Nat /\ n <= Len(h) /\ h \in Seq(Hash)
    BY <1>1, <1>2
  <2>2. SubSeq(h \o <<row.hash>>, 1, n) = SubSeq(h, 1, n)
    <3>1. CASE n = 0
      BY <3>1, SubSeqEmpty
    <3>2. CASE n # 0
      <4>1. <<row.hash>> \in Seq(Hash) /\ 1 \in 1..Len(h) /\ n \in 1..Len(h)
        BY <1>2, <2>1, <3>2
      <4> HIDE DEF h, n
      <4> QED BY <2>1, <4>1, SubSeqOfConcat1
    <3> QED BY <3>1, <3>2
  <2> QED BY <2>1, <2>2, <1>2, AppendIsConcat
<1>4. Len(s \o <<row>>) = Len(s) + 1
  OBVIOUS
<1>5. SubSeq(Hashes(s \o <<row>>), 1, cp.count) = cp.root
  <2>1. Hashes(s \o <<row>>) = Append(Hashes(s), row.hash)
    BY HashesExtend
  <2> QED BY <1>1, <1>3, <2>1
<1>6. ~(Len(s \o <<row>>) < cp.count)
  BY <1>1, <1>4, LenProperties
<1> QED BY <1>1, <1>5, <1>6, Zenon DEF CheckpointVerdict

\* A checkpoint over a leaf cache that is the file verifies.
LEMMA NewCheckpointVerifies ==
    ASSUME NEW s \in Seq(Row)
    PROVE  CheckpointVerdict(NewCheckpoint(Hashes(s), Kid), s, Kid) = "ok"
<1>1. Hashes(s) \in Seq(Hash) /\ Len(Hashes(s)) = Len(s)
  BY HashesType
<1>2. SubSeq(Hashes(s), 1, Len(Hashes(s))) = Hashes(s)
  BY <1>1, SubSeqFull
<1> QED BY <1>1, <1>2 DEF CheckpointVerdict, NewCheckpoint, SignatureVerifies
\* Every step keeps the leaf cache equal to the file, and the checkpoint valid.
LEMMA SealStep ==
    ASSUME Exclusive, ~OutsideReader, TypeOK, SealInv, [Next]_vars
    PROVE  SealInv'
<1>0. OneAtATime'
  BY OneAtATimeStep DEF SealInv
<1>1. CASE UNCHANGED vars
  BY <1>0, <1>1 DEF SealInv, NothingPends, CacheIsFile, CheckpointsVerify, vars
<1>2. ASSUME NEW p \in Proc, Open(p) PROVE SealInv'
  BY <1>0, <1>2 DEF Open, SealInv, NothingPends, CacheIsFile, CheckpointsVerify,
                    TypeOK, file, call
<1>3. ASSUME NEW p \in Proc, Stop(p) PROVE SealInv'
  BY <1>0, <1>3 DEF Stop, SealInv, NothingPends, CacheIsFile, CheckpointsVerify, TypeOK
<1>4. ASSUME NEW p \in Proc, pc[p] # "closed"
      PROVE  CanWrite(p) /\ ~CommitRefused(p)
  BY <1>4, AloneMayWrite DEF SealInv, NothingPends, CommitRefused
<1>5. ASSUME NEW p \in Proc, NEW r \in Rec, ReadPrev(p, r) PROVE SealInv'
  BY <1>0, <1>5 DEF ReadPrev, SealInv, NothingPends, CacheIsFile, CheckpointsVerify,
                    TypeOK, file
<1>6. ASSUME NEW p \in Proc, Insert(p) PROVE SealInv'
  <2> DEFINE row == NewRow(rec[p], prev[p], Kid)
  <2>1. row \in Row
    BY <1>6, RowTypes DEF TypeOK, Insert
  <2>2. /\ rows' = rows \o <<row>> /\ cps' = cps
        /\ NothingPends'
    <3>1. Commit(p, <<row>>, <<>>)
      BY <1>6 DEF Insert
    <3>2. rows' = rows \o <<>> \o <<row>> /\ cps' = cps \o <<>> \o <<>>
      BY <3>1 DEF Commit, SealInv, NothingPends
    <3>3. NothingPends'
      BY <3>1 DEF Commit, SealInv, NothingPends, TypeOK
    <3> QED BY <3>2, <3>3, ConcatEmptySeq DEF TypeOK
  <2>3. CacheIsFile'
    <3>1. leaves' = [leaves EXCEPT ![p] = Append(@, row.hash)] /\ pc[p] # "closed"
      BY <1>6 DEF Insert
    <3>2. Hashes(rows') = Append(Hashes(rows), row.hash)
      <4> HIDE DEF row
      <4> QED BY <2>1, <2>2, HashesExtend DEF TypeOK
    <3>3. leaves'[p] = Hashes(rows')
      BY <3>1, <3>2 DEF SealInv, CacheIsFile, TypeOK
    <3>4. \A q \in Proc \ {p} : pc'[q] = "closed"
      BY <1>6 DEF Insert, SealInv, OneAtATime, TypeOK
    <3> QED BY <3>3, <3>4 DEF CacheIsFile
  <2>4. CheckpointsVerify'
    <3> SUFFICES ASSUME NEW i \in 1..Len(cps)
                 PROVE  CheckpointVerdict(cps[i], rows \o <<row>>, Kid) = "ok"
      BY <2>2 DEF CheckpointsVerify
    <3>1. cps[i] \in CheckpointRow
      BY ElementOfSeq DEF TypeOK
    <3> HIDE DEF row
    <3> QED BY <2>1, <3>1, VerdictExtend DEF SealInv, CheckpointsVerify, TypeOK
  <2> QED BY <1>0, <2>2, <2>3, <2>4 DEF SealInv
<1>7. ASSUME NEW p \in Proc, Seal(p) \/ Checkpoint(p) PROVE SealInv'
  <2> DEFINE cp == NewCheckpoint(leaves[p], Kid)
  <2>1. cp \in CheckpointRow /\ leaves[p] = Hashes(rows)
    BY <1>7, RowTypes DEF TypeOK, Seal, Checkpoint, SealInv, CacheIsFile
  <2>2. /\ rows' = rows /\ cps' = cps \o <<cp>>
        /\ NothingPends'
    <3>1. Commit(p, <<>>, <<cp>>)
      BY <1>7 DEF Seal, Checkpoint
    <3>2. rows' = rows \o <<>> \o <<>> /\ cps' = cps \o <<>> \o <<cp>>
      BY <3>1 DEF Commit, SealInv, NothingPends
    <3>3. NothingPends'
      BY <3>1 DEF Commit, SealInv, NothingPends, TypeOK
    <3> QED BY <3>2, <3>3, ConcatEmptySeq DEF TypeOK
  <2>3. CacheIsFile'
    <3>1. CASE Seal(p)
      BY <2>2, <3>1 DEF Seal, Return, SealInv, CacheIsFile, TypeOK
    <3>2. CASE Checkpoint(p)
      BY <2>2, <3>2 DEF Checkpoint, SealInv, CacheIsFile
    <3> QED BY <1>7, <3>1, <3>2
  <2>4. CheckpointsVerify'
    <3>1. CheckpointVerdict(cp, rows, Kid) = "ok"
      BY <2>1, NewCheckpointVerifies DEF TypeOK
    <3> HIDE DEF cp
    <3>2. /\ Len(cps \o <<cp>>) = Len(cps) + 1
          /\ \A i \in 1..Len(cps) : (cps \o <<cp>>)[i] = cps[i]
          /\ (cps \o <<cp>>)[Len(cps) + 1] = cp
      BY <2>1 DEF TypeOK
    <3> QED BY <2>2, <3>1, <3>2 DEF SealInv, CheckpointsVerify, TypeOK
  <2> QED BY <1>0, <2>2, <2>3, <2>4 DEF SealInv
<1>8. ASSUME NEW p \in Proc, InsertDuplicate(p) \/ ReturnUnsealed(p) PROVE SealInv'
  BY <1>0, <1>8 DEF InsertDuplicate, ReturnUnsealed, Return, Raise, SealInv,
                    NothingPends, CacheIsFile, CheckpointsVerify, TypeOK, file
<1>9. ASSUME NEW p \in Proc, InsertHeld(p) \/ InsertRefused(p) \/ SealFails(p)
                              \/ CheckpointFails(p)
      PROVE  FALSE
  BY <1>4, <1>9 DEF InsertHeld, InsertRefused, SealFails, CheckpointFails, Hold, Refuse
<1> QED
  BY <1>1, <1>2, <1>3, <1>5, <1>6, <1>7, <1>8, <1>9 DEF Next

\* With one process at a time and no reader that outlasts a commit, every
\* checkpoint in the file verifies against the rows, and so does the latest.
THEOREM MerkleAlwaysVerifies ==
    ASSUME Exclusive, ~OutsideReader PROVE Spec => []MerkleIntact
<1>1. Init => SealInv
  BY DEF Init, SealInv, OneAtATime, NothingPends, CacheIsFile, CheckpointsVerify
<1>2. TypeOK /\ SealInv => MerkleIntact
  <2> SUFFICES ASSUME TypeOK, SealInv, cps # <<>>
               PROVE  CheckpointVerdict(cps[Len(cps)], rows, Kid) = "ok"
    BY DEF MerkleIntact, VerifyMerkle
  <2>1. Len(cps) \in 1..Len(cps)
    BY EmptySeq DEF TypeOK
  <2> QED BY <2>1 DEF SealInv, CheckpointsVerify
<1>3. TypeOK /\ SealInv /\ [Next]_vars => SealInv'
  BY SealStep
<1> QED BY <1>1, <1>2, <1>3, TypeCorrect, PTL DEF Spec

-----------------------------------------------------------------------------
(* What the verifiers are for: a file that passes holds the sealed records *)

\* Any list of rows, put in place of the store's file, that passes verify_chain
\* and passes verify_merkle with a checkpoint that the store wrote, has in its
\* first rows the very records the checkpoint sealed.
SealedRecordsBind ==
    \A S : \A other \in Seq(S) : \A k \in 1..Len(cps) :
        /\ ChainOK(other, Kid)
        /\ CheckpointVerdict(cps[k], other, Kid) = "ok"
        => \A i \in 1..cps[k].count : other[i].rec = rows[i].rec

\* The first hashes of a list of rows.
LEMMA FirstHashes ==
    ASSUME NEW S, NEW s \in Seq(S), NEW n \in Nat, n <= Len(s)
    PROVE  \A i \in 1..n : SubSeq(Hashes(s), 1, n)[i] = s[i].hash
<1> DEFINE h == Hashes(s)
<1>1. /\ Len(s) \in Nat /\ h = [i \in 1..Len(s) |-> s[i].hash]
      /\ \A i \in 1..Len(s) : h[i] = s[i].hash
  BY LenProperties DEF Hashes
<1>2. h \in Seq({s[i].hash : i \in 1..Len(s)}) /\ Len(h) = Len(s)
  BY <1>1
<1> HIDE DEF h
<1>3. \A i \in 1..n : SubSeq(h, 1, n)[i] = h[i]
  BY <1>1, <1>2
<1>4. \A i \in 1..n : i \in 1..Len(s)
  BY <1>1
<1> QED BY <1>1, <1>3, <1>4 DEF h

\* Two records linked to the same hash are the same if their links are.
LEMMA LinksDiffer ==
    ASSUME NEW prev0 \in Hash, NEW x, NEW y, Link(x, prev0) = Link(y, prev0)
    PROVE  x = y
<1>1. prev0 \in Seq(Rec \cup {x, y})
  BY DEF Hash
<1>2. Append(prev0, x)[Len(prev0) + 1] = x /\ Append(prev0, y)[Len(prev0) + 1] = y
  BY <1>1, AppendProperties
<1> QED BY <1>2 DEF Link

\* With one process at a time and no reader that outlasts a commit, an altered,
\* reordered or shortened history never passes beside a checkpoint that sealed it.
THEOREM SealsAreBinding ==
    ASSUME Exclusive, ~OutsideReader PROVE Spec => []SealedRecordsBind
<1>1. TypeOK /\ ChainIntact /\ SealInv => SealedRecordsBind
  <2> SUFFICES ASSUME TypeOK, ChainIntact, SealInv,
                      NEW S, NEW other \in Seq(S), NEW k \in 1..Len(cps),
                      ChainOK(other, Kid), CheckpointVerdict(cps[k], other, Kid) = "ok",
                      NEW i \in 1..cps[k].count
               PROVE  other[i].rec = rows[i].rec
    BY DEF SealedRecordsBind
  <2> DEFINE n == cps[k].count
  <2>1. n \in Nat /\ rows \in Seq(Row)
    <3>1. cps[k] \in CheckpointRow
      BY ElementOfSeq DEF TypeOK
    <3> QED BY <3>1 DEF CheckpointRow, TypeOK
  <2>2. CheckpointVerdict(cps[k], rows, Kid) = "ok" /\ ChainOK(rows, Kid)
    BY DEF SealInv, CheckpointsVerify, ChainIntact
  <2>3. /\ ~(Len(other) < n) /\ ~(Len(rows) < n)
        /\ SubSeq(Hashes(other), 1, n) = SubSeq(Hashes(rows), 1, n)
    BY <2>2 DEF CheckpointVerdict
  <2>4. n <= Len(other) /\ n <= Len(rows) /\ Len(other) \in Nat /\ Len(rows) \in Nat
    BY <2>1, <2>3, LenProperties
  <2> HIDE DEF n
  <2>5. \A j \in 1..n : other[j].hash = rows[j].hash
    <3>1. \A j \in 1..n : SubSeq(Hashes(other), 1, n)[j] = other[j].hash
      BY <2>1, <2>4, FirstHashes
    <3>2. \A j \in 1..n : SubSeq(Hashes(rows), 1, n)[j] = rows[j].hash
      BY <2>1, <2>4, FirstHashes
    <3> QED BY <2>3, <3>1, <3>2
  <2>6. i \in 1..n /\ i \in 1..Len(other) /\ i \in 1..Len(rows)
    BY <2>1, <2>4 DEF n
  <2>7. /\ other[i].hash = Link(other[i].rec, other[i].prev) /\ other[i].prev = WalkHash(other, i)
        /\ rows[i].hash = Link(rows[i].rec, rows[i].prev) /\ rows[i].prev = WalkHash(rows, i)
    BY <2>2, <2>6 DEF ChainOK, RowVerdict
  <2>8. WalkHash(other, i) = WalkHash(rows, i)
    <3>1. i # 1 => i - 1 \in 1..n
      BY <2>1, <2>6
    <3> QED BY <2>5, <3>1 DEF WalkHash
  <2>9. rows[i].prev \in Hash
    <3>1. rows[i] \in Row
      BY <2>1, <2>6, ElementOfSeq
    <3> QED BY <3>1 DEF Row
  <2> QED BY <2>5, <2>6, <2>7, <2>8, <2>9, LinksDiffer
<1>2. Init => SealInv
  BY DEF Init, SealInv, OneAtATime, NothingPends, CacheIsFile, CheckpointsVerify
<1>3. TypeOK /\ SealInv /\ [Next]_vars => SealInv'
  BY SealStep
<1> QED BY <1>1, <1>2, <1>3, TypeCorrect, ChainAlwaysVerifies, PTL DEF Spec

-----------------------------------------------------------------------------
(* A cache is never longer than the file                                   *)

\* A checkpoint that claims no more rows than there are, signed by the key.
Modest(cp, s) ==
    /\ cp.count <= Len(s)
    /\ SignatureVerifies(cp.sig, <<"root", cp.root>>, Kid)

ModestInv ==
    /\ \A p \in Proc : Len(leaves[p]) <= Len(rows)
    /\ \A i \in 1..Len(cps) : Modest(cps[i], rows)
    /\ \A i \in 1..Len(pendCps) : Modest(pendCps[i], rows)

\* What the file holds after a transaction, in terms of lengths and checkpoints.
LEMMA ModestTransaction ==
    ASSUME TypeOK, ModestInv, NEW p \in Proc,
           NEW newRows \in Seq(Row), NEW newCps \in Seq(CheckpointRow),
           \A i \in 1..Len(newCps) : Modest(newCps[i], rows),
           Commit(p, newRows, newCps) \/ Hold(p, newRows, newCps) \/ Refuse(p)
    PROVE  /\ Len(rows') >= Len(rows) /\ Len(rows') \in Nat /\ Len(rows) \in Nat
           /\ Commit(p, newRows, newCps) => Len(rows') >= Len(rows) + Len(newRows)
           /\ \A i \in 1..Len(cps') : Modest(cps'[i], rows')
           /\ \A i \in 1..Len(pendCps') : Modest(pendCps'[i], rows')
<1>1. /\ Len(rows') >= Len(rows) /\ Len(rows') \in Nat /\ Len(rows) \in Nat
      /\ Commit(p, newRows, newCps) => Len(rows') >= Len(rows) + Len(newRows)
  <2>1. CASE Commit(p, newRows, newCps)
    <3>1. rows' = rows \o pendRows \o newRows
      BY <2>1 DEF Commit
    <3>2. /\ Len(rows) \in Nat /\ Len(pendRows) \in Nat /\ Len(newRows) \in Nat
          /\ Len(rows') = Len(rows) + Len(pendRows) + Len(newRows)
      BY <3>1, ConcatProperties, LenProperties DEF TypeOK
    <3> QED BY <3>2
  <2>2. CASE ~Commit(p, newRows, newCps)
    <3>1. rows' = rows
      BY <2>2 DEF Hold, Refuse, file
    <3> QED BY <2>2, <3>1, LenProperties DEF TypeOK
  <2> QED BY <2>1, <2>2
<1>2. \A cp \in CheckpointRow : Modest(cp, rows) => Modest(cp, rows')
  BY <1>1 DEF Modest, CheckpointRow
<1>3. /\ cps \in Seq(CheckpointRow) /\ pendCps \in Seq(CheckpointRow)
      /\ \A i \in 1..Len(cps) : Modest(cps[i], rows)
      /\ \A i \in 1..Len(pendCps) : Modest(pendCps[i], rows)
  BY DEF TypeOK, ModestInv
<1> DEFINE Good(s) == s \in Seq(CheckpointRow) /\ \A i \in 1..Len(s) : Modest(s[i], rows)
<1>4. ASSUME NEW s, NEW t, Good(s), Good(t) PROVE Good(s \o t)
  BY <1>4, ConcatProperties
<1>5. Good(cps') /\ Good(pendCps')
  <2>1. CASE Commit(p, newRows, newCps)
    <3>1. Good(cps \o pendCps \o newCps)
      BY <1>3, <1>4
    <3>2. Good(<<>>)
      BY EmptySeq
    <3> QED BY <2>1, <3>1, <3>2 DEF Commit
  <2>2. CASE Hold(p, newRows, newCps)
    <3>1. Good(pendCps \o newCps)
      BY <1>3, <1>4
    <3> QED BY <1>3, <2>2, <3>1 DEF Hold
  <2>3. CASE Refuse(p)
    BY <1>3, <2>3 DEF Refuse, file
  <2> QED BY <2>1, <2>2, <2>3
<1>6. /\ \A i \in 1..Len(cps') : cps'[i] \in CheckpointRow
      /\ \A i \in 1..Len(pendCps') : pendCps'[i] \in CheckpointRow
  BY <1>5, ElementOfSeq
<1> QED BY <1>1, <1>2, <1>5, <1>6

\* No step takes a cache or a checkpoint past the file.
LEMMA ModestStep == TypeOK /\ TypeOK' /\ ModestInv /\ [Next]_vars => ModestInv'
<1> SUFFICES ASSUME TypeOK, TypeOK', ModestInv, [Next]_vars PROVE ModestInv'
  OBVIOUS
<1>0. <<>> \in Seq(Row) /\ <<>> \in Seq(CheckpointRow) /\ Len(<<>>) = 0
  OBVIOUS
<1>1. CASE UNCHANGED vars
  BY <1>1 DEF ModestInv, vars
<1>2. ASSUME NEW p \in Proc, Open(p) PROVE ModestInv'
  <2>1. Len(Hashes(rows)) = Len(rows)
    BY HashesType DEF TypeOK
  <2>2. Len(rows) \in Nat
    BY LenProperties DEF TypeOK
  <2> QED BY <1>2, <2>1, <2>2 DEF Open, ModestInv, file, TypeOK
<1>3. ASSUME NEW p \in Proc, Stop(p) PROVE ModestInv'
  <2>1. Len(rows) \in Nat
    BY LenProperties DEF TypeOK
  <2> QED BY <1>0, <1>3, <2>1 DEF Stop, ModestInv, TypeOK
<1>4. ASSUME NEW p \in Proc,
             \/ \E r \in Rec : ReadPrev(p, r)
             \/ InsertRefused(p) \/ InsertDuplicate(p) \/ ReturnUnsealed(p)
      PROVE  ModestInv'
  BY <1>4 DEF ReadPrev, InsertRefused, Refuse, InsertDuplicate, ReturnUnsealed, Return,
              Raise, ModestInv, file
<1>5. ASSUME NEW p \in Proc, Insert(p) \/ InsertHeld(p) PROVE ModestInv'
  <2> DEFINE row == NewRow(rec[p], prev[p], Kid)
  <2>1. row \in Row
    BY <1>5, RowTypes DEF TypeOK, Insert, InsertHeld
  <2>2. Commit(p, <<row>>, <<>>) \/ Hold(p, <<row>>, <<>>)
    BY <1>5 DEF Insert, InsertHeld
  <2>3. <<row>> \in Seq(Row) /\ Len(<<row>>) = 1
    BY <2>1
  <2>4. /\ Len(rows') >= Len(rows) /\ Len(rows') \in Nat /\ Len(rows) \in Nat
        /\ Commit(p, <<row>>, <<>>) => Len(rows') >= Len(rows) + Len(<<row>>)
        /\ \A i \in 1..Len(cps') : Modest(cps'[i], rows')
        /\ \A i \in 1..Len(pendCps') : Modest(pendCps'[i], rows')
    <3>1. \A i \in 1..Len(<<>>) : Modest(<<>>[i], rows)
      OBVIOUS
    <3> HIDE DEF row
    <3> QED BY <1>0, <2>2, <2>3, <3>1, ModestTransaction
  <2>5. ASSUME NEW q \in Proc PROVE Len(leaves'[q]) <= Len(rows')
    <3>1. Len(leaves[q]) <= Len(rows) /\ leaves[q] \in Seq(Hash)
      BY DEF ModestInv, TypeOK
    <3>2. Len(leaves[q]) \in Nat
      BY <3>1, LenProperties
    <3>3. CASE Insert(p) /\ q = p
      <4>1. leaves'[p] = Append(leaves[p], row.hash) /\ Commit(p, <<row>>, <<>>)
        BY <3>3 DEF Insert, TypeOK
      <4>2. Len(leaves'[p]) = Len(leaves[p]) + 1
        BY <4>1, <3>1, <3>3
      <4> QED BY <2>3, <2>4, <3>1, <3>2, <3>3, <4>1, <4>2
    <3>4. CASE ~(Insert(p) /\ q = p)
      <4>1. leaves'[q] = leaves[q]
        BY <1>5, <3>4 DEF Insert, InsertHeld, Raise, TypeOK
      <4> QED BY <2>4, <3>1, <3>2, <4>1
    <3> QED BY <3>3, <3>4
  <2> QED BY <2>4, <2>5 DEF ModestInv
<1>6. ASSUME NEW p \in Proc,
             Seal(p) \/ SealFails(p) \/ Checkpoint(p) \/ CheckpointFails(p)
      PROVE  ModestInv'
  <2> DEFINE cp == NewCheckpoint(leaves[p], Kid)
  <2>1. cp \in CheckpointRow
    BY RowTypes DEF TypeOK
  <2>2. Modest(cp, rows)
    BY DEF ModestInv, Modest, NewCheckpoint, SignatureVerifies
  <2>3. Commit(p, <<>>, <<cp>>) \/ Hold(p, <<>>, <<cp>>) \/ Refuse(p)
    BY <1>6 DEF Seal, SealFails, Checkpoint, CheckpointFails
  <2> HIDE DEF cp
  <2>4. <<cp>> \in Seq(CheckpointRow) /\ \A i \in 1..Len(<<cp>>) : Modest(<<cp>>[i], rows)
    BY <2>1, <2>2
  <2>5. /\ Len(rows') >= Len(rows) /\ Len(rows') \in Nat /\ Len(rows) \in Nat
        /\ \A i \in 1..Len(cps') : Modest(cps'[i], rows')
        /\ \A i \in 1..Len(pendCps') : Modest(pendCps'[i], rows')
    BY <1>0, <2>3, <2>4, ModestTransaction
  <2>6. leaves' = leaves
    BY <1>6 DEF Seal, SealFails, Checkpoint, CheckpointFails, Return, Raise
  <2>7. ASSUME NEW q \in Proc PROVE Len(leaves'[q]) <= Len(rows')
    <3>1. Len(leaves[q]) <= Len(rows) /\ leaves[q] \in Seq(Hash)
      BY DEF ModestInv, TypeOK
    <3>2. Len(leaves[q]) \in Nat
      BY <3>1, LenProperties
    <3> QED BY <2>5, <2>6, <3>1, <3>2
  <2> QED BY <2>5, <2>7 DEF ModestInv
<1> QED BY <1>1, <1>2, <1>3, <1>4, <1>5, <1>6 DEF Next

\* Whatever races, fails or stops, a checkpoint never claims more rows than the
\* file has, so verify_merkle reports no truncation that did not happen.
THEOREM NeverFalselyTruncated == Spec => []NoFalseTruncation
<1>1. Init => ModestInv
  BY DEF Init, ModestInv
<1>2. TypeOK /\ ModestInv => NoFalseTruncation
  <2> SUFFICES ASSUME TypeOK, ModestInv, cps # <<>>
               PROVE  CheckpointVerdict(cps[Len(cps)], rows, Kid) \in {"ok", "root"}
    BY DEF NoFalseTruncation, VerifyMerkle
  <2> DEFINE cp == cps[Len(cps)]
  <2>1. Len(cps) \in 1..Len(cps)
    BY EmptySeq DEF TypeOK
  <2>2. cp \in CheckpointRow /\ Modest(cp, rows)
    BY <2>1, ElementOfSeq DEF TypeOK, ModestInv
  <2>3. ~(Len(rows) < cp.count)
    <3>1. Len(rows) \in Nat /\ cp.count \in Nat
      BY <2>2, LenProperties DEF TypeOK, CheckpointRow
    <3> QED BY <2>2, <3>1 DEF Modest
  <2> QED BY <2>2, <2>3 DEF Modest, CheckpointVerdict
<1>3. Spec => []ModestInv
  BY <1>1, ModestStep, TypeCorrect, PTL DEF Spec
<1> QED BY <1>2, <1>3, TypeCorrect, PTL

-----------------------------------------------------------------------------
(* What an answer means, and what the store implements                     *)

\* Alone and undisturbed, a call either commits its row, or a checkpoint over
\* all rows, or changes nothing in the file.
LEMMA SerialStep ==
    ASSUME Exclusive, ~OutsideReader, TypeOK, SealInv, [Next]_vars
    PROVE  \/ \E p \in Proc : /\ Insert(p)
                              /\ rows' = Append(rows, NewRow(rec[p], prev[p], Kid))
                              /\ cps' = cps
           \/ \E p \in Proc : /\ Seal(p) \/ Checkpoint(p)
                              /\ rows' = rows
                              /\ cps' = Append(cps, NewCheckpoint(Hashes(rows), Kid))
           \/ /\ rows' = rows /\ cps' = cps
              /\ \/ acked' = acked
                    /\ \A p \in Proc : pc'[p] = "committed" => pc[p] = "committed" /\ rec'[p] = rec[p]
                 \/ \E p \in Proc : ReturnUnsealed(p)
<1>0. TypeOK /\ <<>> \in Seq(Row) /\ <<>> \in Seq(CheckpointRow)
  OBVIOUS
<1> DEFINE Quiet == /\ rows' = rows /\ cps' = cps /\ acked' = acked
                    /\ \A p \in Proc : pc'[p] = "committed"
                                         => pc[p] = "committed" /\ rec'[p] = rec[p]
<1>1. CASE UNCHANGED vars
  BY <1>1 DEF vars
<1>2. ASSUME NEW p \in Proc,
             \/ Open(p) \/ Stop(p) \/ InsertDuplicate(p)
             \/ \E r \in Rec : ReadPrev(p, r)
      PROVE  Quiet
  BY <1>2 DEF Open, Stop, InsertDuplicate, ReadPrev, Raise, file, call, TypeOK
<1>3. ASSUME NEW p \in Proc, Insert(p)
      PROVE  /\ rows' = Append(rows, NewRow(rec[p], prev[p], Kid))
             /\ cps' = cps
  <2> DEFINE row == NewRow(rec[p], prev[p], Kid)
  <2>1. row \in Row
    BY <1>3, RowTypes DEF TypeOK, Insert
  <2>2. rows' = rows \o <<>> \o <<row>> /\ cps' = cps \o <<>> \o <<>>
    BY <1>3 DEF Insert, Commit, SealInv, NothingPends
  <2> HIDE DEF row
  <2>3. rows' = rows \o <<row>> /\ cps' = cps
    BY <2>2, ConcatEmptySeq DEF TypeOK
  <2>4. rows' = Append(rows, row) /\ cps' = cps
    BY <2>1, <2>3, AppendIsConcat DEF TypeOK
  <2> QED BY <2>4 DEF row
<1>4. ASSUME NEW p \in Proc, Seal(p) \/ Checkpoint(p)
      PROVE  /\ rows' = rows
             /\ cps' = Append(cps, NewCheckpoint(Hashes(rows), Kid))
  <2> DEFINE cp == NewCheckpoint(leaves[p], Kid)
  <2>1. cp \in CheckpointRow /\ leaves[p] = Hashes(rows)
    BY <1>4, RowTypes DEF TypeOK, Seal, Checkpoint, SealInv, CacheIsFile
  <2>2. rows' = rows \o <<>> \o <<>> /\ cps' = cps \o <<>> \o <<cp>>
    BY <1>4 DEF Seal, Checkpoint, Commit, SealInv, NothingPends
  <2> HIDE DEF cp
  <2>3. rows' = rows /\ cps' = cps \o <<cp>>
    BY <2>2, ConcatEmptySeq DEF TypeOK
  <2>4. cps' = Append(cps, cp)
    BY <2>1, <2>3, AppendIsConcat DEF TypeOK
  <2> QED BY <2>1, <2>3, <2>4 DEF cp
<1>5. ASSUME NEW p \in Proc, pc[p] # "closed"
      PROVE  CanWrite(p) /\ ~CommitRefused(p)
  BY <1>5, AloneMayWrite DEF SealInv, NothingPends, CommitRefused
<1>6. ASSUME NEW p \in Proc, InsertHeld(p) \/ InsertRefused(p) \/ SealFails(p)
                              \/ CheckpointFails(p)
      PROVE  FALSE
  BY <1>5, <1>6 DEF InsertHeld, InsertRefused, SealFails, CheckpointFails, Hold, Refuse
<1>7. ASSUME NEW p \in Proc, ReturnUnsealed(p) PROVE rows' = rows /\ cps' = cps
  BY <1>7 DEF ReturnUnsealed, file
<1> QED BY <1>1, <1>2, <1>3, <1>4, <1>6, <1>7 DEF Next

Records(s) == [i \in 1..Len(s) |-> s[i].rec]

\* The rows of a new entry: the old ones, and it.
LEMMA AppendedRow ==
    ASSUME NEW s \in Seq(Row), NEW row \in Row
    PROVE  /\ Append(s, row) \in Seq(Row) /\ Append(s, row) # <<>>
           /\ Len(s) \in Nat /\ Len(Append(s, row)) = Len(s) + 1
           /\ \A i \in 1..Len(s) : Append(s, row)[i] = s[i]
           /\ Append(s, row)[Len(s) + 1] = row
           /\ Records(s) \in Seq(Rec)
           /\ Records(Append(s, row)) = Append(Records(s), row.rec)
<1>1. /\ Append(s, row) \in Seq(Row) /\ Append(s, row) # <<>>
      /\ Len(s) \in Nat /\ Len(Append(s, row)) = Len(s) + 1
      /\ \A i \in 1..Len(s) : Append(s, row)[i] = s[i]
      /\ Append(s, row)[Len(s) + 1] = row
  BY AppendProperties, LenProperties
<1>2. ASSUME NEW t \in Seq(Row)
      PROVE  Records(t) \in Seq(Rec) /\ Len(Records(t)) = Len(t)
  <2>1. ASSUME NEW i \in 1..Len(t) PROVE t[i].rec \in Rec
    <3>1. t[i] \in Row
      BY ElementOfSeq
    <3> QED BY <3>1 DEF Row
  <2>2. Records(t) \in [1..Len(t) -> Rec] /\ Len(t) \in Nat
    BY <2>1, LenProperties DEF Records
  <2>3. Records(t) \in Seq(Rec)
    BY <2>2, SeqDef
  <2> QED BY <2>2, <2>3, LenProperties
<1>3. row.rec \in Rec
  BY DEF Row
<1>4. /\ Append(Records(s), row.rec) \in Seq(Rec)
      /\ Len(Append(Records(s), row.rec)) = Len(s) + 1
      /\ \A i \in 1..Len(s) : Append(Records(s), row.rec)[i] = Records(s)[i]
      /\ Append(Records(s), row.rec)[Len(s) + 1] = row.rec
  BY <1>2, <1>3, AppendProperties
<1>5. \A i \in 1..(Len(s) + 1) :
         Records(Append(s, row))[i] = Append(Records(s), row.rec)[i]
  BY <1>1, <1>4 DEF Records
<1>6. Records(Append(s, row)) = Append(Records(s), row.rec)
  <2>1. /\ Records(Append(s, row)) \in Seq(Rec)
        /\ Len(Records(Append(s, row))) = Len(s) + 1
    BY <1>1, <1>2
  <2> QED BY <2>1, <1>4, <1>5, SeqEqual
<1> QED BY <1>1, <1>2, <1>6

\* The hash of the newest row commits to the whole log.
HashIsLog == LastEntryHash(rows) = Records(rows)

\* The last leaf of a root over some rows is the hash of the last of them.
LEMMA LastLeaf ==
    ASSUME NEW s \in Seq(Row)
    PROVE  LastEntryHash([i \in 1..Len(Hashes(s)) |-> [hash |-> Hashes(s)[i]]])
               = LastEntryHash(s)
<1> DEFINE t == [i \in 1..Len(Hashes(s)) |-> [hash |-> Hashes(s)[i]]]
<1>1. /\ Hashes(s) \in Seq(Hash) /\ Len(Hashes(s)) = Len(s)
      /\ Len(s) \in Nat
  BY HashesType, LenProperties
<1>2. t \in Seq([hash : Hash]) /\ Len(t) = Len(s)
  <2>1. \A i \in 1..Len(s) : Hashes(s)[i] \in Hash
    BY <1>1, ElementOfSeq
  <2>2. t \in [1..Len(s) -> [hash : Hash]]
    BY <1>1, <2>1
  <2>3. t \in Seq([hash : Hash])
    BY <1>1, <2>2, SeqDef
  <2> QED BY <1>1, <2>2, <2>3, LenProperties
<1>3. CASE s = <<>>
  <2>1. Len(t) = 0
    BY <1>2, <1>3, EmptySeq
  <2>2. t = <<>>
    BY <1>2, <2>1, EmptySeq
  <2> QED BY <1>3, <2>2 DEF LastEntryHash
<1>4. CASE s # <<>>
  <2>1. Len(s) \in 1..Len(s)
    BY <1>4, EmptySeq
  <2>2. t # <<>>
    BY <1>2, <2>1, EmptySeq
  <2>3. t[Len(s)].hash = s[Len(s)].hash
    BY <1>1, <2>1 DEF Hashes
  <2>4. LastEntryHash(s) = s[Len(s)].hash
    BY <1>4 DEF LastEntryHash
  <2> HIDE DEF t
  <2>5. LastEntryHash(t) = s[Len(s)].hash
    BY <1>2, <2>2, <2>3 DEF LastEntryHash
  <2> QED BY <2>4, <2>5 DEF t
<1> QED BY <1>3, <1>4

\* An append extends the log by its record, and its row's hash with it.
LEMMA HashIsLogStep ==
    ASSUME Exclusive, ~OutsideReader, TypeOK, ChainInv, SealInv, HashIsLog, [Next]_vars
    PROVE  HashIsLog'
<1>1. ASSUME NEW p \in Proc, Insert(p), rows' = Append(rows, NewRow(rec[p], prev[p], Kid))
      PROVE  HashIsLog'
  <2> DEFINE row == NewRow(rec[p], prev[p], Kid)
  <2>1. row \in Row /\ rows \in Seq(Row)
    BY <1>1, RowTypes DEF TypeOK, Insert
  <2>2. AllRows = rows
    BY ConcatEmptySeq DEF AllRows, SealInv, NothingPends, TypeOK
  <2>3. row.rec = rec[p] /\ row.hash = Append(LastEntryHash(rows), rec[p])
    BY <1>1, <2>2 DEF ChainInv, PrevIsLast, Insert, NewRow, Link
  <2> HIDE DEF row
  <2>4. /\ rows' = Append(rows, row)
        /\ Append(rows, row) # <<>>
        /\ Len(Append(rows, row)) = Len(rows) + 1
        /\ Append(rows, row)[Len(rows) + 1] = row
        /\ Records(Append(rows, row)) = Append(Records(rows), row.rec)
    BY <1>1, <2>1, AppendedRow DEF row
  <2>5. LastEntryHash(rows') = row.hash
    BY <2>4 DEF LastEntryHash
  <2> QED BY <2>3, <2>4, <2>5 DEF HashIsLog
<1>2. CASE rows' = rows
  BY <1>2 DEF HashIsLog
<1> QED BY <1>1, <1>2, SerialStep

\* With one process at a time and no reader that outlasts a commit, the store is
\* the append-only log: no step loses, changes or reorders an entry, every entry
\* is new, and a checkpoint seals the log as it is.
THEOREM StoreImplementsLog ==
    ASSUME Exclusive, ~OutsideReader PROVE Spec => ImplementsLog
<1> DEFINE Inv == TypeOK /\ OnceInv /\ ChainInv /\ SealInv /\ HashIsLog
<1>1. Init => Inv
  <2> SUFFICES ASSUME Init PROVE OnceInv /\ ChainInv /\ SealInv /\ HashIsLog /\ TypeOK
    OBVIOUS
  <2>1. TypeOK
    BY HashTypes DEF Init, TypeOK
  <2>2. OnceInv
    BY DEF Init, OnceInv, LockInv, AllRows, DistinctRecs
  <2>3. ChainInv
    BY DEF Init, ChainInv, LockInv, OneAtATime, PrevIsLast, AllRows, ChainOK
  <2>4. SealInv
    BY DEF Init, SealInv, OneAtATime, NothingPends, CacheIsFile, CheckpointsVerify
  <2>5. HashIsLog
    <3>1. Records(<<>>) \in [1..0 -> Rec]
      BY DEF Records
    <3>2. Records(<<>>) = <<>>
      BY <3>1, EmptySeq
    <3> QED BY <3>2 DEF Init, HashIsLog, LastEntryHash, NULL
  <2> QED BY <2>1, <2>2, <2>3, <2>4, <2>5
<1>2. Inv /\ [Next]_vars => Inv'
  BY TypeStep, OnceStep, ChainStep, SealStep, HashIsLogStep
<1>3. Init => Log!Init
  BY DEF Init, Log!Init, LastEntryHash, NULL
<1>4. Inv /\ Inv' /\ [Next]_vars => [Log!Next]_<<Records(rows),
          IF cps = <<>> THEN <<>> ELSE LastEntryHash(
              [i \in 1..Len(cps[Len(cps)].root) |-> [hash |-> cps[Len(cps)].root[i]]])>>
  <2> SUFFICES ASSUME Inv, Inv', [Next]_vars
               PROVE  [Log!Next]_<<Records(rows),
                          IF cps = <<>> THEN <<>> ELSE LastEntryHash(
                              [i \in 1..Len(cps[Len(cps)].root) |->
                                  [hash |-> cps[Len(cps)].root[i]]])>>
    OBVIOUS
  <2>1. ASSUME NEW p \in Proc, Insert(p), cps' = cps,
               rows' = Append(rows, NewRow(rec[p], prev[p], Kid))
        PROVE  Log!Record(rec[p]) /\ rec[p] \in Rec
    <3> DEFINE row == NewRow(rec[p], prev[p], Kid)
    <3>1. row \in Row /\ rows \in Seq(Row) /\ row.rec = rec[p] /\ rec[p] \in Rec
      BY <2>1, RowTypes DEF TypeOK, Insert, NewRow
    <3> HIDE DEF row
    <3>2. Records(rows') = Append(Records(rows), rec[p])
      BY <2>1, <3>1, AppendedRow DEF row
    <3>3. View(p) = rows
      BY ConcatEmptySeq DEF View, SealInv, NothingPends, TypeOK
    <3>4. \A i \in 1..Len(Records(rows)) : Records(rows)[i] # rec[p]
      <4>1. Len(Records(rows)) = Len(rows)
        BY <3>1, LenProperties DEF Records
      <4> QED BY <2>1, <3>3, <4>1 DEF Insert, Fresh, Recorded, Records
    <3> QED BY <2>1, <3>1, <3>2, <3>4 DEF Log!Record, Records
  <2>2. ASSUME NEW p \in Proc, rows' = rows,
               cps' = Append(cps, NewCheckpoint(Hashes(rows), Kid))
        PROVE  Log!Seal
    <3> DEFINE cp == NewCheckpoint(Hashes(rows), Kid)
    <3>1. cp \in CheckpointRow /\ cps \in Seq(CheckpointRow)
      BY HashesType, RowTypes DEF TypeOK
    <3>2. cp.root = Hashes(rows)
      BY DEF NewCheckpoint
    <3> HIDE DEF cp
    <3>3. cps' = Append(cps, cp) /\ cps' # <<>> /\ cps'[Len(cps')] = cp
      BY <2>2, <3>1, AppendProperties DEF cp
    <3>4. LastEntryHash([i \in 1..Len(Hashes(rows)) |-> [hash |-> Hashes(rows)[i]]])
              = Records(rows)
      BY LastLeaf DEF TypeOK, HashIsLog
    <3> QED BY <2>2, <3>2, <3>3, <3>4 DEF Log!Seal, Records
  <2>3. Log!Next \/ (rows' = rows /\ cps' = cps)
    <3>1. CASE \E p \in Proc : /\ Insert(p)
                               /\ rows' = Append(rows, NewRow(rec[p], prev[p], Kid))
                               /\ cps' = cps
      <4>1. PICK p \in Proc : /\ Insert(p)
                              /\ rows' = Append(rows, NewRow(rec[p], prev[p], Kid))
                              /\ cps' = cps
        BY <3>1
      <4>2. Log!Record(rec[p]) /\ rec[p] \in Rec
        BY <2>1, <4>1
      <4> QED BY <4>2 DEF Log!Next, Log!Record
    <3>2. CASE \E p \in Proc : /\ Seal(p) \/ Checkpoint(p)
                               /\ rows' = rows
                               /\ cps' = Append(cps, NewCheckpoint(Hashes(rows), Kid))
      BY <2>2, <3>2 DEF Log!Next
    <3>3. CASE rows' = rows /\ cps' = cps
      BY <3>3
    <3> QED BY <3>1, <3>2, <3>3, SerialStep
  <2> QED BY <2>3
<1>5. Spec => []Inv
  BY <1>1, <1>2, PTL DEF Spec
<1> HIDE DEF Inv
<1> QED BY <1>3, <1>4, <1>5, PTL DEF Spec, ImplementsLog, Log!Spec, Records

\* A call between its row and its answer has committed the newest row.
NewestIsInHand ==
    \A p \in Proc : pc[p] = "committed" => rows # <<>> /\ rows[Len(rows)].rec = rec[p]

\* An answer given now is for the newest row, which is under a new checkpoint or
\* not at the cadence.
LEMMA AckedStep ==
    ASSUME Exclusive, ~OutsideReader, TypeOK, TypeOK', OnceInv, SealInv,
           NewestIsInHand, AckedIsSealed, [Next]_vars
    PROVE  NewestIsInHand' /\ AckedIsSealed'
<1>0. /\ rows \in Seq(Row) /\ cps \in Seq(CheckpointRow) /\ Len(rows) \in Nat
      /\ RecordedOnce
  <2>1. rows \in Seq(Row) /\ pendRows = <<>>
    BY DEF TypeOK, SealInv, NothingPends
  <2>2. AllRows = rows
    BY <2>1, ConcatEmptySeq DEF AllRows
  <2> QED BY <2>1, <2>2, LenProperties DEF TypeOK, OnceInv, DistinctRecs, RecordedOnce
<1>1. ASSUME NEW p \in Proc, Insert(p), cps' = cps,
             rows' = Append(rows, NewRow(rec[p], prev[p], Kid))
      PROVE  NewestIsInHand' /\ AckedIsSealed'
  <2> DEFINE row == NewRow(rec[p], prev[p], Kid)
  <2>1. row \in Row /\ row.rec = rec[p]
    BY <1>1, RowTypes DEF TypeOK, Insert, NewRow
  <2> HIDE DEF row
  <2>2. /\ rows' = Append(rows, row) /\ rows' # <<>> /\ Len(rows') = Len(rows) + 1
        /\ \A i \in 1..Len(rows) : rows'[i] = rows[i]
        /\ rows'[Len(rows) + 1] = row
    BY <1>0, <1>1, <2>1, AppendedRow DEF row
  <2>3. /\ acked' = acked /\ rec' = rec /\ rec[p] \notin Recorded(rows)
        /\ \A q \in Proc \ {p} : pc'[q] = "closed"
    <3>1. View(p) = rows
      BY <1>0, ConcatEmptySeq DEF View, SealInv, NothingPends
    <3> QED BY <1>1, <3>1 DEF Insert, Fresh, call, SealInv, OneAtATime, TypeOK
  <2>4. NewestIsInHand'
    BY <2>1, <2>2, <2>3 DEF NewestIsInHand
  <2>5. acked \subseteq Recorded(rows) /\ acked' \subseteq Recorded(rows')
    <3>1. Recorded(rows) \subseteq Recorded(rows')
      BY <1>0, <2>2 DEF Recorded
    <3> QED BY <2>3, <3>1 DEF AckedIsSealed
  <2>6. ASSUME NEW i \in 1..Len(rows'), CheckpointEvery > 0, i % CheckpointEvery = 0,
               rows'[i].rec \in acked'
        PROVE  cps' # <<>> /\ cps'[Len(cps')].count >= i
    <3>1. i # Len(rows) + 1
      BY <2>1, <2>2, <2>3, <2>5, <2>6
    <3>2. i \in 1..Len(rows) /\ rows[i].rec \in acked
      BY <1>0, <2>2, <2>3, <2>6, <3>1
    <3> QED BY <1>1, <2>6, <3>2 DEF AckedIsSealed
  <2> QED BY <2>4, <2>5, <2>6 DEF AckedIsSealed
<1>2. ASSUME NEW p \in Proc, Seal(p) \/ Checkpoint(p), rows' = rows,
             cps' = Append(cps, NewCheckpoint(Hashes(rows), Kid))
      PROVE  NewestIsInHand' /\ AckedIsSealed'
  <2> DEFINE cp == NewCheckpoint(Hashes(rows), Kid)
  <2>1. cp \in CheckpointRow /\ cp.count = Len(rows)
    BY <1>0, HashesType, RowTypes DEF NewCheckpoint
  <2> HIDE DEF cp
  <2>2. cps' # <<>> /\ cps'[Len(cps')] = cp
    BY <1>0, <1>2, <2>1, AppendProperties DEF cp
  <2>3. acked' \subseteq Recorded(rows')
    <3>1. CASE Seal(p)
      <4>1. acked' = acked \cup {rec[p]} /\ pc[p] = "committed"
        BY <3>1 DEF Seal, Return
      <4>2. Len(rows) \in 1..Len(rows) /\ rows[Len(rows)].rec = rec[p]
        BY <1>0, <4>1, EmptySeq DEF NewestIsInHand
      <4>3. rec[p] \in Recorded(rows)
        BY <4>2 DEF Recorded
      <4> QED BY <1>2, <4>1, <4>3 DEF AckedIsSealed
    <3>2. CASE Checkpoint(p)
      BY <1>2, <3>2 DEF Checkpoint, AckedIsSealed
    <3> QED BY <1>2, <3>1, <3>2
  <2>4. NewestIsInHand'
    <3>1. CASE Seal(p)
      BY <1>2, <3>1 DEF Seal, Return, NewestIsInHand, TypeOK
    <3>2. CASE Checkpoint(p)
      BY <1>2, <3>2 DEF Checkpoint, call, NewestIsInHand
    <3> QED BY <1>2, <3>1, <3>2
  <2>5. \A i \in 1..Len(rows') : cps'[Len(cps')].count >= i
    BY <1>0, <1>2, <2>1, <2>2
  <2> QED BY <2>2, <2>3, <2>4, <2>5 DEF AckedIsSealed
<1>3. ASSUME NEW p \in Proc, ReturnUnsealed(p), rows' = rows, cps' = cps
      PROVE  NewestIsInHand' /\ AckedIsSealed'
  <2>1. /\ acked' = acked \cup {rec[p]} /\ pc[p] = "committed" /\ ~Due(p)
        /\ \A q \in Proc : pc'[q] = "committed" => pc[q] = "committed" /\ rec'[q] = rec[q]
    BY <1>3 DEF ReturnUnsealed, Return, TypeOK
  <2>2. Len(rows) \in 1..Len(rows) /\ rows[Len(rows)].rec = rec[p]
    BY <1>0, <2>1, EmptySeq DEF NewestIsInHand
  <2>3. Len(leaves[p]) = Len(rows)
    BY <1>0, <2>1, HashesType DEF SealInv, CacheIsFile
  <2>4. CheckpointEvery > 0 => Len(rows) % CheckpointEvery # 0
    BY <2>1, <2>3 DEF Due
  <2>5. rec[p] \in Recorded(rows)
    BY <2>2 DEF Recorded
  <2>6. ASSUME NEW i \in 1..Len(rows), CheckpointEvery > 0, i % CheckpointEvery = 0,
               rows[i].rec \in acked'
        PROVE  cps # <<>> /\ cps[Len(cps)].count >= i
    <3>1. rows[i].rec # rec[p]
      <4>1. i # Len(rows)
        BY <2>4, <2>6
      <4> QED BY <1>0, <2>2, <4>1 DEF RecordedOnce
    <3> QED BY <2>1, <2>6, <3>1 DEF AckedIsSealed
  <2>7. AckedIsSealed'
    BY <1>3, <2>1, <2>5, <2>6 DEF AckedIsSealed
  <2>8. NewestIsInHand'
    BY <1>3, <2>1 DEF NewestIsInHand
  <2> QED BY <2>7, <2>8
<1>4. ASSUME rows' = rows, cps' = cps, acked' = acked,
             \A p \in Proc : pc'[p] = "committed" => pc[p] = "committed" /\ rec'[p] = rec[p]
      PROVE  NewestIsInHand' /\ AckedIsSealed'
  BY <1>4 DEF NewestIsInHand, AckedIsSealed
<1> QED BY <1>1, <1>2, <1>3, <1>4, SerialStep

\* With one process at a time and no reader that outlasts a commit, an append
\* that returned is in the file, and under a checkpoint whenever the cadence
\* asked for one, for any cadence.
THEOREM AnswersAreSealed ==
    ASSUME Exclusive, ~OutsideReader PROVE Spec => []AckedIsSealed
<1>1. Init => OnceInv /\ SealInv /\ NewestIsInHand /\ AckedIsSealed
  BY DEF Init, OnceInv, LockInv, AllRows, DistinctRecs, SealInv, OneAtATime, NothingPends,
         CacheIsFile, CheckpointsVerify, NewestIsInHand, AckedIsSealed
<1>2. TypeOK /\ TypeOK' /\ OnceInv /\ SealInv /\ NewestIsInHand /\ AckedIsSealed
         /\ [Next]_vars
      => (OnceInv /\ SealInv /\ NewestIsInHand /\ AckedIsSealed)'
  BY OnceStep, SealStep, AckedStep
<1> QED BY <1>1, <1>2, TypeCorrect, PTL DEF Spec
=============================================================================
