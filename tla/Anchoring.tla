----------------------------- MODULE Anchoring -----------------------------
(***************************************************************************)
(* External anchoring (anchor/): anchor_now publishes a checkpoint to an   *)
(* append-only log, verify_anchors compares the ledger with everything the *)
(* log holds for it.                                                       *)
(*                                                                         *)
(* Two backends.  The file witness keeps whole statements, one per line,   *)
(* and returns those of one ledger id; Rekor keeps a digest of each        *)
(* statement and returns everything signed with the key.                   *)
(*                                                                         *)
(* One process records, a second one anchors (the command opens the        *)
(* ledger, makes a checkpoint, reads the newest one back, and so on, while *)
(* the first goes on), a third verifies.  The file may be replaced by an   *)
(* older copy of it (a restored backup; at first the copy is that of an    *)
(* empty ledger).  Rows and checkpoints are those of module Ledger, one    *)
(* append or checkpoint in one step.                                       *)
(***************************************************************************)
EXTENDS LedgerRows, SequencesExt

CONSTANTS
    Rec, Kid,
    Backends,          \* the backends a profile may be configured with
    Cadences,          \* the values it may give checkpoint_every: 0 or 1
    Faults,            \* what may go wrong: see FaultAssumption
    MaxWitnesses,      \* the entries of Rekor's that the client will enumerate
    MaxCheckpoints,    \* bound: checkpoints ever made
    MaxRestores        \* bound: times an older copy is put back

ASSUME ProfileAssumption ==
    Backends \subseteq {"file-witness", "rekor"} /\ Cadences \subseteq {0, 1}
ASSUME BoundAssumption ==
    MaxWitnesses \in Nat /\ MaxCheckpoints \in Nat /\ MaxRestores \in Nat
ASSUME FaultAssumption == Faults \subseteq {"crash", "lost_response", "short_write"}

VARIABLES
    profile,               \* the configuration, the same throughout
    rows, cps, receipts,   \* the ledger file: rows, checkpoints, anchors table
    issued, clock,         \* record ids and checkpoint times ever given out
    log, tail, corrupt,    \* the external log; how its last line ends
    pc, leaves,            \* the anchoring process, the leaf cache it opened with
    checkpoint, statement, \* anchor_now: what it read back, what it publishes
    covered,               \* history: of each that returned, the rows it opened
                           \* with and what it published
    vpc, seen, verdict,    \* verify_anchors: what it read first, its answer
    backup, restores       \* the copy that can be put back

ledger == <<rows, cps, receipts>>
given == <<issued, clock>>
outside == <<log, tail, corrupt>>
call == <<leaves, checkpoint, statement>>
anchoring == <<pc, call, covered>>
verifying == <<vpc, seen, verdict>>
copy == <<backup, restores>>
vars == <<profile, ledger, given, outside, anchoring, verifying, copy>>

NONE == [none |-> TRUE]

\* The ledger's identity: its genesis row's entry_hash and key.
ledger_id == IF rows = <<>> THEN NONE ELSE [genesis |-> rows[1].hash, kid |-> Kid]

\* Mutant: a statement without the time of its checkpoint's creation.
BuildUntimed(c, id) ==
    [ledger |-> id, count |-> c.cp.count, root |-> c.cp.root, sig |-> c.cp.sig]

\* CheckpointStatement.build; its digest stands for all of it.
Build(c, id) ==
    [ledger |-> id, count |-> c.cp.count, root |-> c.cp.root, sig |-> c.cp.sig,
     at |-> c.at]

Elements(s) == {s[i] : i \in 1..Len(s)}

Init ==
    /\ profile \in [backend : Backends, checkpoint_every : Cadences]
    /\ rows = <<>> /\ cps = <<>> /\ receipts = <<>>
    /\ issued = {} /\ clock = 0
    /\ log = <<>> /\ tail = "newline" /\ corrupt = FALSE
    /\ pc = "idle" /\ leaves = <<>> /\ checkpoint = NONE /\ statement = NONE
    /\ covered = {}
    /\ vpc = "idle" /\ seen = NONE /\ verdict = {}
    /\ backup = [rows |-> <<>>, cps |-> <<>>, receipts |-> <<>>] /\ restores = 0

-----------------------------------------------------------------------------
(* The ledger *)

Timed(hashes) == [cp |-> NewCheckpoint(hashes, Kid), at |-> clock + 1]

\* The recorder is the only one to append, so its cache is the rows.
AppendRow(r) ==
    /\ r \notin issued
    /\ profile.checkpoint_every = 1 => clock < MaxCheckpoints
    /\ issued' = issued \cup {r}
    /\ rows' = Append(rows, NewRow(r, LastEntryHash(rows), Kid))
    /\ IF profile.checkpoint_every = 1
       THEN cps' = Append(cps, Timed(Hashes(rows'))) /\ clock' = clock + 1
       ELSE UNCHANGED <<cps, clock>>
    /\ UNCHANGED <<profile, receipts, outside, anchoring, verifying, copy>>

Quiet == pc = "idle" /\ vpc = "idle"

Backup ==
    /\ Quiet /\ restores < MaxRestores
    /\ backup' = [rows |-> rows, cps |-> cps, receipts |-> receipts]
    /\ UNCHANGED <<profile, ledger, given, outside, anchoring, verifying, restores>>

Restore ==
    /\ Quiet /\ restores < MaxRestores
    /\ rows' = backup.rows /\ cps' = backup.cps /\ receipts' = backup.receipts
    /\ restores' = restores + 1
    /\ UNCHANGED <<profile, given, outside, anchoring, verifying, backup>>

-----------------------------------------------------------------------------
(* anchor_now *)

\* The command opens the ledger: the cache is the rows of that moment.
Open ==
    /\ pc = "idle"
    /\ pc' = "opened" /\ leaves' = Hashes(rows)
    /\ UNCHANGED <<profile, ledger, given, outside, checkpoint, statement, covered,
                   verifying, copy>>

\* ledger.checkpoint(), over the cache, whatever was appended since.
AnchorCheckpoint ==
    /\ pc = "opened" /\ clock < MaxCheckpoints
    /\ cps' = Append(cps, Timed(leaves)) /\ clock' = clock + 1
    /\ pc' = "checkpointed"
    /\ UNCHANGED <<profile, rows, receipts, issued, outside, call, covered, verifying, copy>>

\* Mutant: the oldest checkpoint is read, not the newest.
ReadOldest ==
    /\ pc = "checkpointed"
    /\ checkpoint' = cps[1]
    /\ pc' = "identify"
    /\ UNCHANGED <<profile, ledger, given, outside, leaves, statement, covered, verifying, copy>>

\* latest_checkpoint(): it may be one the recorder has made since.
ReadCheckpoint ==
    /\ pc = "checkpointed"
    /\ checkpoint' = cps[Len(cps)]
    /\ pc' = "identify"
    /\ UNCHANGED <<profile, ledger, given, outside, leaves, statement, covered, verifying, copy>>

Return == pc' = "idle" /\ leaves' = <<>> /\ checkpoint' = NONE /\ statement' = NONE

\* Mutant: the statement has the time of its publication.
ReadIdentityRestamped ==
    /\ pc = "identify"
    /\ IF rows = <<>> THEN Return
       ELSE /\ pc' = "publish"
            /\ statement' = [Build(checkpoint, ledger_id) EXCEPT !.at = clock + 1]
            /\ UNCHANGED <<leaves, checkpoint>>
    /\ UNCHANGED <<profile, ledger, given, outside, covered, verifying, copy>>

\* ledger_id(): with no genesis row anchor_now raises, and the checkpoint of no
\* rows stays.  With one that came after the checkpoint it publishes that of none.
ReadIdentity ==
    /\ pc = "identify"
    /\ IF rows = <<>> THEN Return
       ELSE /\ pc' = "publish" /\ statement' = Build(checkpoint, ledger_id)
            /\ UNCHANGED <<leaves, checkpoint>>
    /\ UNCHANGED <<profile, ledger, given, outside, covered, verifying, copy>>

\* One line of the witness file.  Written after a line that was cut short, it
\* completes that line instead, and neither can be read again.
WriteLine ==
    IF tail = "newline"
    THEN log' = Append(log, statement) /\ UNCHANGED <<tail, corrupt>>
    ELSE /\ log' = IF tail = "unterminated" THEN SubSeq(log, 1, Len(log) - 1) ELSE log
         /\ tail' = "newline"
         /\ corrupt' = TRUE

\* os.write may write less than it is given; its result is not looked at.
\* Without its newline the line still parses, for as long as it is the last.
WriteShort ==
    /\ tail = "newline"
    /\ \/ tail' = "unterminated" /\ log' = Append(log, statement) /\ UNCHANGED corrupt
       \/ tail' = "cut" /\ corrupt' = TRUE /\ UNCHANGED log

Publish ==
    /\ pc = "publish"
    /\ \/ WriteLine
       \/ profile.backend = "file-witness" /\ "short_write" \in Faults /\ WriteShort
    /\ pc' = "record"
    /\ UNCHANGED <<profile, ledger, given, call, covered, verifying, copy>>

\* The log takes the entry but its answer never arrives, or it never gets it:
\* publish raises AnchorError either way and nothing is recorded.
PublishFails ==
    /\ pc = "publish"
    /\ profile.backend = "rekor" /\ "lost_response" \in Faults
    /\ log' \in {log, Append(log, statement)}
    /\ Return
    /\ UNCHANGED <<profile, ledger, given, covered, tail, corrupt, verifying, copy>>

Record ==
    /\ pc = "record"
    /\ receipts' = IF statement \in Elements(receipts) THEN receipts
                   ELSE Append(receipts, statement)
    /\ Return
    /\ covered' = covered \cup {[rows |-> leaves, statement |-> statement]}
    /\ UNCHANGED <<profile, rows, cps, given, outside, verifying, copy>>

Crash ==
    /\ "crash" \in Faults
    /\ pc # "idle"
    /\ Return
    /\ UNCHANGED <<profile, ledger, given, covered, outside, verifying, copy>>

-----------------------------------------------------------------------------
(* verify_anchors *)

\* Mutant: only the witnesses that the ledger has a receipt for.
WitnessesReceipted(id, held) == held \cap Elements(receipts)

Witnesses(id, held) ==
    IF profile.backend = "rekor" THEN held ELSE {w \in held : w.ledger = id}

\* Rekor's entries carry no statement to check one by one.
HasPayload == profile.backend = "file-witness"

\* A line that cannot be parsed, or more entries than the client will enumerate:
\* witnesses raises, and there is no answer.
Unreadable == IF HasPayload THEN corrupt ELSE Len(log) > MaxWitnesses

\* A statement with a bad signature is not looked at further.
StatementsOff(witnesses, hashes, count) ==
    LET signed == {w \in witnesses : SignatureVerifies(w.sig, <<"root", w.root>>, Kid)}
    IN  IF ~HasPayload THEN {}
        ELSE {"unsigned_witness" : w \in witnesses \ signed}
             \cup {"rollback" : w \in {v \in signed : v.count > count}}
             \cup {"fork" : w \in {v \in signed :
                  /\ v.count <= count
                  /\ \/ Len(hashes) < v.count
                     \/ SubSeq(hashes, 1, v.count) # v.root}}

Orphans(witnesses, local, id) ==
    {"orphaned_witness" : w \in witnesses \ {Build(local[i], id) : i \in 1..Len(local)}}

\* A file receipt is looked up again.  A Rekor receipt carries its own proof: what
\* the log answered verifies (TrueReceiptVerifies, module LogInclusion).
BadReceipts(recorded, held) ==
    {"bad_receipt" : r \in IF HasPayload THEN recorded \ held ELSE {}}

\* What verify_anchors answers: first is what it read of the ledger before it
\* asked the log, held what the log gave it; {} is a pass.
Verify(first, held, hashes, recorded) ==
    LET witnesses == Witnesses(first.id, held)
    IN  IF first.id = NONE THEN {}
        ELSE IF Unreadable THEN {"error"}
        ELSE IF witnesses = {} THEN {"no_witness"}
        ELSE StatementsOff(witnesses, hashes, first.count)
             \cup Orphans(witnesses, first.cps, first.id)
             \cup BadReceipts(recorded, held)

Now == [count |-> Len(rows), cps |-> cps, id |-> ledger_id]

\* A verification that nothing comes between, of what the log hands over.
VerifyNow(held) == Verify(Now, held, Hashes(rows), Elements(receipts))

\* What the log may hand over: an entry of Rekor's that cannot be fetched is
\* left out, and an index that cannot be searched raises.
Fetched ==
    IF profile.backend = "rekor" /\ "lost_response" \in Faults
    THEN SUBSET Elements(log) ELSE {Elements(log)}

\* count, checkpoints and the ledger id are read before the log is asked,
\* the leaves and the receipts after.
VerifyLocal ==
    /\ vpc = "idle"
    /\ vpc' = "local"
    /\ seen' = Now
    /\ verdict' = {}
    /\ UNCHANGED <<profile, ledger, given, outside, anchoring, copy>>

VerifyRemote ==
    /\ vpc = "local"
    /\ vpc' = "idle"
    /\ \E held \in Fetched :
          verdict' = Verify(seen, held, Hashes(rows), Elements(receipts))
    /\ seen' = NONE
    /\ UNCHANGED <<profile, ledger, given, outside, anchoring, copy>>

Next ==
    \/ \E r \in Rec : AppendRow(r)
    \/ Open \/ AnchorCheckpoint \/ ReadCheckpoint \/ ReadIdentity
    \/ Publish \/ PublishFails \/ Record \/ Crash
    \/ Backup \/ Restore
    \/ VerifyLocal \/ VerifyRemote

Spec == Init /\ [][Next]_vars

-----------------------------------------------------------------------------
(* Properties *)

StatementType ==
    [ledger : [genesis : Seq(Rec), kid : {Kid}], count : Nat, root : Seq(Seq(Rec)),
     sig : [kid : {Kid}, msg : {"root"} \X Seq(Seq(Rec))], at : 1..MaxCheckpoints]

TypeOK ==
    /\ profile \in [backend : Backends, checkpoint_every : Cadences]
    /\ \A i \in 1..Len(log) : log[i] \in StatementType
    /\ \A i \in 1..Len(receipts) : receipts[i] \in StatementType
    /\ statement \in StatementType \cup {NONE} /\ leaves \in Seq(Seq(Rec))
    /\ pc \in {"idle", "opened", "checkpointed", "identify", "publish", "record"}
    /\ vpc \in {"idle", "local"}
    /\ tail \in {"newline", "unterminated", "cut"} /\ corrupt \in BOOLEAN
    /\ covered \subseteq [rows : Seq(Seq(Rec)), statement : StatementType]
    /\ clock \in 0..MaxCheckpoints /\ restores \in 0..MaxRestores

\* The ledger still has the history that a witness saw.
Extends(witness) ==
    /\ witness.count <= Len(rows)
    /\ SubSeq(Hashes(rows), 1, witness.count) = witness.root

\* A ledger nobody touched passes, whatever anchoring failed at and whoever
\* recorded meanwhile: a crash between checkpoint, publication and receipt, a lost
\* answer and a retry, or entries that cannot be fetched leave nothing that is
\* taken for tampering.  It fails only for the want of a witness, when none is
\* handed over, and has no answer when there are too many.
NoFalseAlarm ==
    restores = 0 /\ ~corrupt =>
        \A held \in Fetched :
            VerifyNow(held) = IF rows = <<>> THEN {}
                              ELSE IF Unreadable THEN {"error"}
                              ELSE IF held = {} THEN {"no_witness"} ELSE {}

\* Once history that the log has seen is gone (an older copy put back, and
\* whatever was appended or anchored since), every verification that is handed
\* an entry of it fails, whichever other entries it is handed, as long as the
\* copy has rows and the log can tell it is the same ledger.
LossIsDetected ==
    \A held \in Fetched : \A w \in held :
        /\ ledger_id # NONE
        /\ profile.backend = "rekor" \/ w.ledger = ledger_id
        /\ ~Extends(w)
        => VerifyNow(held) # {}

\* Once anchor_now has returned, no row that was there when its process opened
\* the ledger is lost in silence, though others append and checkpoint while it
\* works: whatever failed, and whatever copy is put back, appended to or anchored
\* since, a verification fails unless the very entry it published cannot be
\* fetched (or the log cannot tell that it is the same ledger).  Rows appended
\* after the opening wait for the next anchoring.
AnchoredIsProtected ==
    \A c \in covered : \A held \in Fetched :
        /\ ledger_id # NONE
        /\ profile.backend = "rekor" \/ c.statement.ledger = ledger_id
        /\ ~IsPrefix(c.rows, Hashes(rows))
        /\ c.statement \notin Elements(log) \ held
        => VerifyNow(held) # {}

\* A verification that runs beside recording and anchoring can be behind the log,
\* and then reports witnesses ahead of the ledger it read; it never sees a fork,
\* a bad receipt or an unsigned witness.
LiveVerifyOnlyLags ==
    restores = 0 /\ ~corrupt =>
        verdict \subseteq {"error", "no_witness", "rollback", "orphaned_witness"}

(* What the documentation says and the code does not do (run fetch) *)

\* A witness that cannot be fetched never turns a failure into a pass.
FetchFailureHidesNothing ==
    VerifyNow(Elements(log)) # {} =>
        \A held \in SUBSET Elements(log) : VerifyNow(held) # {}
=============================================================================
