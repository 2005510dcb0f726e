---------------------------- MODULE MemoryFiles ----------------------------
(***************************************************************************)
(* The watcher of agent memory files (adapters/memory_md.py).  Anything on *)
(* the machine edits the files at any time, while the watcher runs and     *)
(* while it does not; a pass over them (baseline or scan) looks at each,   *)
(* reads it and records a write for one that changed.                      *)
(*                                                                         *)
(* The snapshots are the process's own and die with it.  Of the ledger     *)
(* only the newest write of each file is kept: last_write_hash is its only *)
(* reader here.  A content stands for its digest.  A call to record_write  *)
(* returns, or raises with the row stored or not (module Ledger has the    *)
(* ways in which it does).                                                 *)
(***************************************************************************)
EXTENDS Sequences, Naturals

CONSTANTS
    Files,         \* the watched files, in the order they are looked at
    Content,       \* what a file may hold
    Oversize,      \* the contents above max_content_bytes
    Undecodable,   \* the contents that are not UTF-8
    Absent         \* no file, no write, no snapshot

File == {Files[i] : i \in 1..Len(Files)}

Held == Content \cup {Absent}

ASSUME FilesAssumption == Files \in Seq(File) /\ Files # <<>>
ASSUME ContentAssumption ==
    /\ Absent \notin Content
    /\ Oversize \subseteq Content /\ Undecodable \subseteq Content

VARIABLES
    file,                    \* per file, what it holds
    ledger,                  \* per file, the newest write of it
    snapshots,               \* the watcher's dict
    pc, mode, todo, hand,    \* its call, the files left, the content read
    scanned,                 \* history: the last pass was a scan that returned
    edited,                  \* history: files edited since the last pass began
    touched,                 \* history: files edited since their newest write
    failed,                  \* history: files whose write raised, unstored
    based                    \* history: files this process's baseline saw

call == <<pc, mode, todo, hand>>
history == <<scanned, edited, touched, failed, based>>
vars == <<file, ledger, snapshots, call, history>>

TypeOK ==
    /\ file \in [File -> Held] /\ snapshots \in [File -> Held]
    /\ ledger \in [File -> (Content \ (Oversize \cup Undecodable)) \cup {Absent}]
    /\ pc \in {"down", "idle", "look", "read", "record"}
    /\ mode \in {"none", "baseline", "scan"}
    /\ todo \in Seq(File) /\ (pc \in {"look", "read", "record"} <=> todo # <<>>)
    /\ hand \in Held /\ (pc = "record" <=> hand # Absent)
    /\ scanned \in BOOLEAN
    /\ edited \subseteq File /\ touched \subseteq File
    /\ failed \subseteq File /\ based \subseteq File

Init ==
    /\ file \in [File -> Held]
    /\ ledger = [f \in File |-> Absent]
    /\ snapshots = [f \in File |-> Absent]
    /\ pc = "down" /\ mode = "none" /\ todo = <<>> /\ hand = Absent
    /\ scanned = FALSE
    /\ edited = {} /\ touched = File /\ failed = {} /\ based = {}

-----------------------------------------------------------------------------
(* The machine *)

Edit(f, c) ==
    /\ c # file[f]
    /\ file' = [file EXCEPT ![f] = c]
    /\ edited' = edited \cup {f} /\ touched' = touched \cup {f}
    /\ UNCHANGED <<ledger, snapshots, call, scanned, failed, based>>

\* __init__
Start ==
    /\ pc = "down"
    /\ pc' = "idle"
    /\ UNCHANGED <<file, ledger, snapshots, mode, todo, hand, history>>

\* The process ends, wherever it is.
Stop ==
    /\ pc # "down"
    /\ pc' = "down" /\ mode' = "none" /\ todo' = <<>> /\ hand' = Absent
    /\ snapshots' = [f \in File |-> Absent]
    /\ scanned' = FALSE /\ failed' = {} /\ based' = {}
    /\ UNCHANGED <<file, ledger, edited, touched>>

-----------------------------------------------------------------------------
(* A pass *)

last_write_hash(f) == ledger[f]

Begin(kind) ==
    /\ pc = "idle"
    /\ pc' = "look" /\ mode' = kind /\ todo' = Files
    /\ scanned' = FALSE /\ edited' = {}
    /\ UNCHANGED <<file, ledger, snapshots, hand, touched, failed, based>>

\* On to the next file; after the last one the pass returns.
Proceed ==
    /\ todo' = Tail(todo)
    /\ hand' = Absent
    /\ IF Tail(todo) # <<>> THEN pc' = "look" /\ UNCHANGED <<mode, scanned>>
       ELSE pc' = "idle" /\ mode' = "none" /\ scanned' = (mode = "scan")

\* An exception leaves the pass: the files after this one are not looked at.
Abort ==
    /\ pc' = "idle" /\ mode' = "none" /\ todo' = <<>> /\ hand' = Absent
    /\ UNCHANGED scanned

\* path.exists, and the size.
SkipFile ==
    /\ pc = "look"
    /\ \/ file[Head(todo)] = Absent
       \/ file[Head(todo)] \in Oversize
          /\ (mode = "baseline" => last_write_hash(Head(todo)) = Absent)
    /\ Proceed
    /\ based' = IF mode = "baseline" /\ file[Head(todo)] # Absent
                THEN based \cup {Head(todo)} ELSE based
    /\ UNCHANGED <<file, ledger, snapshots, edited, touched, failed>>

\* Mutants: the file as it is becomes the baseline, as it did before 0.1.1; a
\* file the ledger knows is left without a snapshot.
BaselineTrustsFile ==
    LET f == Head(todo)
    IN  /\ pc = "look" /\ mode = "baseline"
        /\ file[f] # Absent /\ last_write_hash(f) # Absent
        /\ snapshots' = [snapshots EXCEPT ![f] = file[f]]
        /\ failed' = failed \ {f} /\ based' = based \cup {f}
        /\ Proceed
        /\ UNCHANGED <<file, ledger, edited, touched>>

BaselineForgets ==
    LET f == Head(todo)
    IN  /\ pc = "look" /\ mode = "baseline"
        /\ file[f] # Absent /\ last_write_hash(f) # Absent
        /\ failed' = failed \ {f} /\ based' = based \cup {f}
        /\ Proceed
        /\ UNCHANGED <<file, ledger, snapshots, edited, touched>>

\* baseline, a file the ledger knows: its newest write is the snapshot.
BaselineKnown ==
    LET f == Head(todo)
    IN  /\ pc = "look" /\ mode = "baseline"
        /\ file[f] # Absent /\ last_write_hash(f) # Absent
        /\ snapshots' = [snapshots EXCEPT ![f] = last_write_hash(f)]
        /\ failed' = failed \ {f} /\ based' = based \cup {f}
        /\ Proceed
        /\ UNCHANGED <<file, ledger, edited, touched>>

Look ==
    LET f == Head(todo)
    IN  /\ pc = "look"
        /\ file[f] \notin Oversize \cup {Absent}
        /\ mode = "baseline" => last_write_hash(f) = Absent
        /\ pc' = "read"
        /\ based' = IF mode = "baseline" THEN based \cup {f} ELSE based
        /\ UNCHANGED <<file, ledger, snapshots, mode, todo, hand,
                       scanned, edited, touched, failed>>

\* read_text: the file is gone by now, or is not text.
ReadFails ==
    /\ pc = "read"
    /\ file[Head(todo)] \in Undecodable \cup {Absent}
    /\ Abort
    /\ UNCHANGED <<file, ledger, snapshots, edited, touched, failed, based>>

ReadUnchanged ==
    /\ pc = "read"
    /\ file[Head(todo)] \notin Undecodable \cup {Absent}
    /\ snapshots[Head(todo)] = file[Head(todo)]
    /\ Proceed
    /\ UNCHANGED <<file, ledger, snapshots, edited, touched, failed, based>>

\* The snapshot is moved before the write is recorded.
ReadChanged ==
    LET f == Head(todo)
    IN  /\ pc = "read"
        /\ file[f] \notin Undecodable \cup {Absent}
        /\ snapshots[f] # file[f]
        /\ snapshots' = [snapshots EXCEPT ![f] = file[f]]
        /\ hand' = file[f]
        /\ pc' = "record"
        /\ UNCHANGED <<file, ledger, mode, todo, history>>

\* Mutant: the engine does not look at the size again.
StoreAnySize ==
    LET f == Head(todo)
    IN  /\ ledger' = [ledger EXCEPT ![f] = hand]
        /\ failed' = failed \ {f}
        /\ touched' = IF file[f] = hand THEN touched \ {f} ELSE touched

\* The row of record_write: from here on the ledger's newest write of the file.
Store ==
    LET f == Head(todo)
    IN  /\ hand \notin Oversize
        /\ ledger' = [ledger EXCEPT ![f] = hand]
        /\ failed' = failed \ {f}
        /\ touched' = IF file[f] = hand THEN touched \ {f} ELSE touched

Record ==
    /\ pc = "record"
    /\ Store
    /\ Proceed
    /\ UNCHANGED <<file, snapshots, edited, based>>

\* A checkpoint or an edge after the row raised.
RecordRaisesStored ==
    /\ pc = "record"
    /\ Store
    /\ Abort
    /\ UNCHANGED <<file, snapshots, edited, based>>

\* The ledger is locked, a detector raised, or the file grew above the limit
\* after its size was looked at.
RecordRaises ==
    /\ pc = "record"
    /\ failed' = failed \cup {Head(todo)}
    /\ Abort
    /\ UNCHANGED <<file, ledger, snapshots, edited, touched, based>>

Next ==
    \/ \E f \in File, c \in Held : Edit(f, c)
    \/ Start \/ Stop
    \/ Begin("baseline") \/ Begin("scan")
    \/ SkipFile \/ BaselineKnown \/ Look
    \/ ReadFails \/ ReadUnchanged \/ ReadChanged
    \/ Record \/ RecordRaises \/ RecordRaisesStored

Spec == Init /\ [][Next]_vars

-----------------------------------------------------------------------------
(* Properties *)

Legible(f) == file[f] \in Content \ (Oversize \cup Undecodable)

\* After a scan that returned, the ledger's newest write of every legible file
\* that was not edited meanwhile is what the file holds, whatever was edited
\* before the process began and whichever process stopped half way; only a
\* file whose write raised earlier in this process may be behind.
ScanCatchesUp ==
    scanned => \A f \in File \ (edited \cup failed) : Legible(f) => ledger[f] = file[f]

\* No write without an edit: what the watcher is about to record was edited
\* since the file's newest write, in this process or before it, unless no
\* baseline of this process saw the file.
WriteMeansEdit ==
    pc = "record" => Head(todo) \in touched \/ Head(todo) \notin based
=============================================================================
