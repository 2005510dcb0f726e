------------------------------- MODULE Ledger -------------------------------
(***************************************************************************)
(* The append-only ledger store (ledger/store.py): the SQLite file, the    *)
(* processes that open it, and one LedgerStore.append or checkpoint call   *)
(* at a time in each of them.                                              *)
(*                                                                         *)
(* An append reads the newest entry_hash outside any transaction, then     *)
(* inserts and commits the row, then extends the in-memory leaf cache and, *)
(* when the cadence says so, commits a checkpoint over that cache.         *)
(*                                                                         *)
(* The sqlite3 module opens a deferred transaction before an INSERT and    *)
(* leaves it open when the INSERT or the commit raises; nothing in the     *)
(* store rolls back.  conn[p] is where that leaves p's connection:         *)
(*   auto      no transaction                                              *)
(*   begun     a transaction that holds no lock (its INSERT was refused)   *)
(*   reading   a transaction that has read: its SHARED lock stops commits  *)
(*   writing   a transaction that holds the write lock                     *)
(* What the writing connection inserted but has not committed is in        *)
(* pendRows and pendCps; while there is any, SQLite keeps new readers out. *)
(***************************************************************************)
EXTENDS LedgerRows, FiniteSets

CONSTANTS
    Proc,              \* the processes that open the file
    Rec,               \* the records they append (their unique ids)
    Kid,               \* the profile's signing key
    CheckpointEvery,   \* checkpoint_every; 0 turns the cadence off
    Exclusive,         \* only one process has the ledger open at a time
    OutsideReader,     \* a read-only command may hold a read lock at a commit
    MaxCheckpoints     \* bound: no explicit checkpoint beyond this many

ASSUME CadenceAssumption == CheckpointEvery \in Nat
ASSUME EnvironmentAssumption == Exclusive \in BOOLEAN /\ OutsideReader \in BOOLEAN
ASSUME BoundAssumption == MaxCheckpoints \in Nat

VARIABLES
    rows, cps,           \* the committed rows and checkpoints
    pendRows, pendCps,   \* inserted by the writing connection, not committed
    conn,                \* per process, the state of its connection
    pc,                  \* per process, where its call is
    leaves,              \* per process, LedgerStore._leaves
    rec, prev,           \* per process, the record in hand and its prev_hash
    acked                \* history: the records an append returned

file == <<rows, cps, pendRows, pendCps>>
call == <<rec, prev>>
vars == <<rows, cps, pendRows, pendCps, conn, pc, leaves, rec, prev, acked>>

Hash == Seq(Rec)

Row == [ rec : Rec, prev : Hash, hash : Hash,
         sig : [kid : {Kid}, msg : {"row"} \X Hash] ]

CheckpointRow == [ count : Nat, root : Seq(Hash),
                   sig : [kid : {Kid}, msg : {"root"} \X Seq(Hash)] ]

TypeOK ==
    /\ rows \in Seq(Row) /\ pendRows \in Seq(Row)
    /\ cps \in Seq(CheckpointRow) /\ pendCps \in Seq(CheckpointRow)
    /\ conn \in [Proc -> {"auto", "begun", "reading", "writing"}]
    /\ pc \in [Proc -> {"closed", "idle", "insert", "committed"}]
    /\ leaves \in [Proc -> Seq(Hash)]
    /\ rec \in [Proc -> Rec \cup {NULL}]
    /\ prev \in [Proc -> Hash]
    /\ \A p \in Proc : pc[p] \in {"insert", "committed"} => rec[p] \in Rec
    /\ acked \subseteq Rec

Init ==
    /\ rows = <<>> /\ cps = <<>> /\ pendRows = <<>> /\ pendCps = <<>>
    /\ conn = [p \in Proc |-> "auto"]
    /\ pc = [p \in Proc |-> "closed"]
    /\ leaves = [p \in Proc |-> <<>>]
    /\ rec = [p \in Proc |-> NULL]
    /\ prev = [p \in Proc |-> NULL]
    /\ acked = {}

-----------------------------------------------------------------------------
(* The connection *)

\* A connection sees the committed rows and its own uncommitted ones.
View(p) == IF conn[p] = "writing" THEN rows \o pendRows ELSE rows

\* A failed commit leaves the writer's PENDING lock: nobody else may read.
CanRead(p) ==
    conn[p] \in {"reading", "writing"} \/ (pendRows = <<>> /\ pendCps = <<>>)

CanWrite(p) == \A q \in Proc \ {p} : conn[q] # "writing"

CanCommit(p) == CanWrite(p) /\ \A q \in Proc \ {p} : conn[q] # "reading"

\* A reader outlasts the busy timeout: the INSERT stands, the commit raises.
CommitRefused(p) ==
    CanWrite(p) /\ (OutsideReader \/ \E q \in Proc \ {p} : conn[q] = "reading")

\* COMMIT of everything the connection inserted since its last commit.
Commit(p, newRows, newCps) ==
    /\ CanCommit(p)
    /\ rows' = rows \o pendRows \o newRows
    /\ cps' = cps \o pendCps \o newCps
    /\ pendRows' = <<>> /\ pendCps' = <<>>
    /\ conn' = [conn EXCEPT ![p] = "auto"]

Hold(p, newRows, newCps) ==
    /\ CommitRefused(p)
    /\ pendRows' = pendRows \o newRows
    /\ pendCps' = pendCps \o newCps
    /\ conn' = [conn EXCEPT ![p] = "writing"]
    /\ UNCHANGED <<rows, cps>>

\* The INSERT itself is refused: another connection has the write lock.
Refuse(p) ==
    /\ ~CanWrite(p)
    /\ conn' = [conn EXCEPT ![p] = IF @ = "auto" THEN "begun" ELSE @]
    /\ UNCHANGED file

-----------------------------------------------------------------------------
(* LedgerStore.__init__, close *)

\* Mutant: the leaf cache is not loaded from the rows already there.
OpenWithoutReload(p) ==
    /\ pc[p] = "closed"
    /\ Exclusive => \A q \in Proc : pc[q] = "closed"
    /\ CanRead(p)
    /\ pc' = [pc EXCEPT ![p] = "idle"]
    /\ UNCHANGED <<file, leaves, conn, call, acked>>

Open(p) ==
    /\ pc[p] = "closed"
    /\ Exclusive => \A q \in Proc : pc[q] = "closed"
    /\ CanRead(p)
    /\ pc' = [pc EXCEPT ![p] = "idle"]
    /\ leaves' = [leaves EXCEPT ![p] = Hashes(rows)]
    /\ UNCHANGED <<file, conn, call, acked>>

\* close(), or the process dies at any point of a call: SQLite rolls back.
Stop(p) ==
    /\ pc[p] # "closed"
    /\ pc' = [pc EXCEPT ![p] = "closed"]
    /\ conn' = [conn EXCEPT ![p] = "auto"]
    /\ pendRows' = IF conn[p] = "writing" THEN <<>> ELSE pendRows
    /\ pendCps' = IF conn[p] = "writing" THEN <<>> ELSE pendCps
    /\ leaves' = [leaves EXCEPT ![p] = <<>>]
    /\ rec' = [rec EXCEPT ![p] = NULL]
    /\ prev' = [prev EXCEPT ![p] = NULL]
    /\ UNCHANGED <<rows, cps, acked>>

(* LedgerStore.append *)

\* prev_hash = self.last_entry_hash(), before the INSERT's transaction.
ReadPrev(p, r) ==
    /\ pc[p] = "idle"
    /\ CanRead(p)
    /\ \A q \in Proc \ {p} : rec[q] # r
    /\ pc' = [pc EXCEPT ![p] = "insert"]
    /\ rec' = [rec EXCEPT ![p] = r]
    /\ prev' = [prev EXCEPT ![p] = LastEntryHash(View(p))]
    /\ conn' = [conn EXCEPT ![p] = IF @ = "begun" THEN "reading" ELSE @]
    /\ UNCHANGED <<file, leaves, acked>>

\* Mutant: record_id without its UNIQUE constraint.
AnyRecord(p) == TRUE

Fresh(p) == rec[p] \notin Recorded(View(p))

\* Mutant: the new leaf is left out of the cache.
InsertUncached(p) ==
    LET row == NewRow(rec[p], prev[p], Kid)
    IN  /\ pc[p] = "insert"
        /\ Fresh(p)
        /\ Commit(p, <<row>>, <<>>)
        /\ pc' = [pc EXCEPT ![p] = "committed"]
        /\ UNCHANGED <<leaves, call, acked>>

\* INSERT and COMMIT, then the leaf cache.
Insert(p) ==
    LET row == NewRow(rec[p], prev[p], Kid)
    IN  /\ pc[p] = "insert"
        /\ Fresh(p)
        /\ Commit(p, <<row>>, <<>>)
        /\ pc' = [pc EXCEPT ![p] = "committed"]
        /\ leaves' = [leaves EXCEPT ![p] = Append(@, row.hash)]
        /\ UNCHANGED <<call, acked>>

\* Mutant: the record is dropped while the call goes on.
RaiseInPlace(p) ==
    /\ rec' = [rec EXCEPT ![p] = NULL]
    /\ prev' = [prev EXCEPT ![p] = NULL]
    /\ UNCHANGED <<pc, leaves, acked>>

\* append raises and the caller has no row to show for it.
Raise(p) ==
    /\ pc' = [pc EXCEPT ![p] = "idle"]
    /\ rec' = [rec EXCEPT ![p] = NULL]
    /\ prev' = [prev EXCEPT ![p] = NULL]
    /\ UNCHANGED <<leaves, acked>>

InsertHeld(p) ==
    /\ pc[p] = "insert"
    /\ Fresh(p)
    /\ Hold(p, <<NewRow(rec[p], prev[p], Kid)>>, <<>>)
    /\ Raise(p)

InsertRefused(p) ==
    /\ pc[p] = "insert"
    /\ Refuse(p)
    /\ Raise(p)

\* UNIQUE(record_id) fails: the statement is undone, the transaction is not.
InsertDuplicate(p) ==
    /\ pc[p] = "insert"
    /\ CanWrite(p) /\ ~Fresh(p)
    /\ conn' = [conn EXCEPT ![p] = "writing"]
    /\ UNCHANGED file
    /\ Raise(p)

\* Mutant: the cadence test off by one.
DueOneEarly(p) == CheckpointEvery > 0 /\ (Len(leaves[p]) + 1) % CheckpointEvery = 0

Due(p) == CheckpointEvery > 0 /\ Len(leaves[p]) % CheckpointEvery = 0

Return(p) ==
    /\ pc' = [pc EXCEPT ![p] = "idle"]
    /\ acked' = acked \cup {rec[p]}
    /\ rec' = [rec EXCEPT ![p] = NULL]
    /\ prev' = [prev EXCEPT ![p] = NULL]
    /\ UNCHANGED leaves

ReturnUnsealed(p) ==
    /\ pc[p] = "committed"
    /\ ~Due(p)
    /\ Return(p)
    /\ UNCHANGED <<file, conn>>

Seal(p) ==
    /\ pc[p] = "committed"
    /\ Due(p)
    /\ Commit(p, <<>>, <<NewCheckpoint(leaves[p], Kid)>>)
    /\ Return(p)

SealFails(p) ==
    /\ pc[p] = "committed"
    /\ Due(p)
    /\ Hold(p, <<>>, <<NewCheckpoint(leaves[p], Kid)>>) \/ Refuse(p)
    /\ Raise(p)

(* LedgerStore.checkpoint, called on its own (anchor_now) *)

Checkpoint(p) ==
    /\ pc[p] = "idle"
    /\ Len(cps) + Len(pendCps) < MaxCheckpoints
    /\ Commit(p, <<>>, <<NewCheckpoint(leaves[p], Kid)>>)
    /\ UNCHANGED <<pc, leaves, call, acked>>

CheckpointFails(p) ==
    /\ pc[p] = "idle"
    /\ Len(cps) + Len(pendCps) < MaxCheckpoints
    /\ Hold(p, <<>>, <<NewCheckpoint(leaves[p], Kid)>>) \/ Refuse(p)
    /\ UNCHANGED <<pc, leaves, call, acked>>

Next ==
    \E p \in Proc :
        \/ Open(p) \/ Stop(p)
        \/ \E r \in Rec : ReadPrev(p, r)
        \/ Insert(p) \/ InsertHeld(p) \/ InsertRefused(p) \/ InsertDuplicate(p)
        \/ ReturnUnsealed(p) \/ Seal(p) \/ SealFails(p)
        \/ Checkpoint(p) \/ CheckpointFails(p)

Spec == Init /\ [][Next]_vars

-----------------------------------------------------------------------------
(* Safety *)

\* verify_chain passes on what the program itself wrote: whatever commit
\* fails and wherever a process dies, the next row links to the last one.
ChainIntact == ChainOK(rows, Kid)

\* verify_merkle passes once there is a checkpoint: the leaf cache a root is
\* computed from is the committed file, across reopenings and failed calls.
MerkleIntact == cps # <<>> => VerifyMerkle(rows, cps, Kid) = "ok"

\* A record append returned is in the file, and one that the cadence puts at
\* a checkpoint is under the latest one: the answer means it is sealed.
AckedIsSealed ==
    /\ acked \subseteq Recorded(rows)
    /\ \A i \in 1..Len(rows) :
          (CheckpointEvery > 0 /\ i % CheckpointEvery = 0 /\ rows[i].rec \in acked)
             => cps # <<>> /\ cps[Len(cps)].count >= i

\* A caller that retries an append that raised never records it twice, even
\* when the row it was told had failed was committed by a later call.
RecordedOnce ==
    \A i, j \in 1..Len(rows) : rows[i].rec = rows[j].rec => i = j

\* Writers that race can make verify_chain report a gap, but never an edit or
\* a forgery: every row is well formed and signed on its own.
RacesOnlyLeaveGaps ==
    \A i \in 1..Len(rows) : RowVerdict(rows, i, Kid) \in {"ok", "gap"}

\* A stale leaf cache never claims more rows than the file has: verify_merkle
\* can report a wrong root, not a truncation that did not happen.
NoFalseTruncation ==
    VerifyMerkle(rows, cps, Kid) \in {"ok", "no_checkpoint", "root"}

(* What the store promises: an append-only log and a sealed prefix of it. *)

Log == INSTANCE AppendOnlyLog WITH
    log <- [i \in 1..Len(rows) |-> rows[i].rec],
    sealed <- IF cps = <<>> THEN <<>> ELSE LastEntryHash(
                 [i \in 1..Len(cps[Len(cps)].root) |->
                     [hash |-> cps[Len(cps)].root[i]]])

\* With a single writer and no reader in its way, the store implements the
\* append-only log: one record at a time, and a checkpoint seals all of it.
ImplementsLog == Log!Spec
=============================================================================
