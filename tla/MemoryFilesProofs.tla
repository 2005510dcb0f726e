------------------------- MODULE MemoryFilesProofs -------------------------
(***************************************************************************)
(* Theorems about the watcher of memory files, for any list of files and   *)
(* any contents: a scan that returns leaves the ledger up to date, and     *)
(* nothing is written without an edit.                                     *)
(***************************************************************************)
EXTENDS MemoryFiles, SequenceTheorems, TLAPS

Left == {todo[i] : i \in 1..Len(todo)}

\* A snapshot is the newest write of its file, but while that is written.
SnapshotsRecorded ==
    \A f \in File \ failed :
        snapshots[f] # Absent /\ ~(pc = "record" /\ f = Head(todo))
            => snapshots[f] = ledger[f]

\* What is in hand is the snapshot, and the file unless somebody edited it.
InHand ==
    pc = "record" =>
        /\ snapshots[Head(todo)] = hand /\ hand \notin Undecodable
        /\ Head(todo) \notin edited \cap touched => hand = file[Head(todo)]

\* A scan is done with the files that are not left.
Covered ==
    mode = "scan" => \A f \in File \ (edited \cup failed \cup Left) :
                        Legible(f) => ledger[f] = file[f]

\* A file nobody touched since its newest write holds what was written.
Untouched == \A f \in File \ touched : ledger[f] = file[f] /\ ledger[f] # Absent

\* What a baseline saw has a snapshot, unless it was touched.
Based == \A f \in based \ touched : snapshots[f] # Absent /\ f \notin failed

\* The inductive invariant.
IInv ==
    /\ TypeOK
    /\ todo # <<>> => ~scanned
    /\ SnapshotsRecorded /\ InHand /\ Covered /\ ScanCatchesUp
    /\ Untouched /\ Based /\ WriteMeansEdit

-----------------------------------------------------------------------------
\* The next file is a file, and the files left are it and those after it.
LEMMA TodoSplits ==
    ASSUME TypeOK, todo # <<>>
    PROVE  /\ Head(todo) \in File /\ Tail(todo) \in Seq(File)
           /\ \A f \in Left : f = Head(todo) \/ \E i \in 1..Len(Tail(todo)) : f = Tail(todo)[i]
<1>1. todo \in Seq(File) /\ Len(todo) \in Nat /\ Len(todo) # 0 /\ Head(todo) = todo[1]
  BY EmptySeq DEF TypeOK
<1>2. /\ Head(todo) \in File /\ Tail(todo) \in Seq(File)
      /\ Len(Tail(todo)) = Len(todo) - 1
      /\ \A i \in 1..Len(Tail(todo)) : Tail(todo)[i] = todo[i + 1]
  BY <1>1, HeadTailProperties DEF TypeOK
<1>3. ASSUME NEW i \in 1..Len(todo), i # 1
      PROVE  i - 1 \in 1..Len(Tail(todo)) /\ todo[i] = Tail(todo)[i - 1]
  BY <1>1, <1>2, <1>3
<1> QED BY <1>1, <1>2, <1>3 DEF Left

\* A pass that goes on, or returns, after a file that is up to date: what it
\* covers and what a scan promises.  L and F are the ledger and the failures
\* that the step leaves behind.
LEMMA ProceedCovers ==
    ASSUME TypeOK, Covered, todo # <<>>, ~scanned, Proceed,
           file' = file, edited' = edited, failed' \subseteq failed,
           \A f \in File \ {Head(todo)} : ledger'[f] = ledger[f] /\ (f \in failed => f \in failed'),
           mode = "scan" /\ Head(todo) \notin edited \cup failed' /\ Legible(Head(todo))
               => ledger'[Head(todo)] = file[Head(todo)]
    PROVE  /\ Covered' /\ ScanCatchesUp' /\ (todo' # <<>> => ~scanned')
           /\ todo' \in Seq(File) /\ hand' = Absent
           /\ (pc' \in {"look", "read", "record"} <=> todo' # <<>>)
           /\ pc' \in {"look", "idle"} /\ scanned' \in BOOLEAN
           /\ mode' \in {"none", "baseline", "scan"}
<1>1. /\ Head(todo) \in File /\ Tail(todo) \in Seq(File)
      /\ \A f \in Left : f = Head(todo) \/ \E i \in 1..Len(Tail(todo)) : f = Tail(todo)[i]
  BY TodoSplits
<1>2. todo' = Tail(todo) /\ hand' = Absent
  BY DEF Proceed
<1>3. ASSUME mode = "scan", NEW f \in File, f \notin edited \cup failed', f \notin Left', Legible(f)
      PROVE  ledger'[f] = file[f]
  <2>1. CASE f = Head(todo)
    BY <1>3, <2>1
  <2>2. CASE f # Head(todo)
    <3>1. f \notin Left
      BY <1>1, <1>2, <1>3, <2>2 DEF Left
    <3>2. f \notin failed
      BY <1>3, <2>2
    <3> QED BY <1>3, <2>2, <3>1, <3>2 DEF Covered
  <2> QED BY <2>1, <2>2
<1>4. \A f : Legible(f)' <=> Legible(f)
  BY DEF Legible
<1>5. CASE Tail(todo) # <<>>
  <2>1. pc' = "look" /\ mode' = mode /\ scanned' = scanned
    BY <1>5 DEF Proceed
  <2>2. Covered'
    BY <1>3, <1>4, <2>1 DEF Covered
  <2> QED BY <1>1, <1>2, <1>5, <2>1, <2>2 DEF ScanCatchesUp, TypeOK
<1>6. CASE Tail(todo) = <<>>
  <2>1. pc' = "idle" /\ mode' = "none" /\ scanned' = (mode = "scan")
    BY <1>6 DEF Proceed
  <2>2. Left' = {}
    BY <1>2, <1>6, EmptySeq DEF Left
  <2>3. Covered'
    BY <2>1 DEF Covered
  <2>4. ScanCatchesUp'
    BY <1>3, <1>4, <2>1, <2>2 DEF ScanCatchesUp
  <2> QED BY <1>1, <1>2, <1>6, <2>1, <2>3, <2>4
<1> QED BY <1>5, <1>6

-----------------------------------------------------------------------------
(* The steps outside a pass *)

\* Nothing is recorded, known or left at first.
LEMMA InitIInv ==
    ASSUME Init
    PROVE  IInv
<1>1. TypeOK
  BY EmptySeq DEF Init, TypeOK, Held
<1>2. \A f \in File : snapshots[f] = Absent
  BY DEF Init
<1> QED BY <1>1, <1>2 DEF Init, IInv, SnapshotsRecorded, InHand, Covered, ScanCatchesUp,
           Untouched, Based, WriteMeansEdit

\* An edit marks its file as edited and touched.
LEMMA EditIInv ==
    ASSUME IInv, NEW f \in File, NEW c \in Held, Edit(f, c)
    PROVE  IInv'
<1>1. /\ file' = [file EXCEPT ![f] = c]
      /\ edited' = edited \cup {f} /\ touched' = touched \cup {f}
      /\ UNCHANGED <<ledger, snapshots, pc, mode, todo, hand, scanned, failed, based>>
  BY DEF Edit, call
<1>2. TypeOK'
  BY <1>1 DEF IInv, TypeOK
<1>3. file \in [File -> Held]
  BY DEF IInv, TypeOK
<1>4. \A g \in File \ {f} : file'[g] = file[g] /\ (Legible(g)' <=> Legible(g))
  BY <1>1, <1>3 DEF Legible
<1>5. SnapshotsRecorded' /\ Based' /\ WriteMeansEdit'
  BY <1>1 DEF IInv, SnapshotsRecorded, Based, WriteMeansEdit
<1>6. Untouched'
  BY <1>1, <1>4 DEF IInv, Untouched
<1>7. InHand'
  <2> SUFFICES ASSUME pc = "record"
               PROVE  /\ snapshots[Head(todo)] = hand /\ hand \notin Undecodable
                      /\ Head(todo) \notin edited' \cap touched' => hand = file'[Head(todo)]
    BY <1>1 DEF InHand
  <2>1. Head(todo) \in File
    BY TodoSplits DEF IInv, TypeOK
  <2> QED BY <1>1, <1>4, <2>1 DEF IInv, InHand
<1>8. Covered' /\ ScanCatchesUp'
  BY <1>1, <1>4 DEF IInv, Covered, ScanCatchesUp, Left
<1> QED BY <1>1, <1>2, <1>5, <1>6, <1>7, <1>8 DEF IInv

\* A process that starts or stops knows nothing, and forgets its failures.
LEMMA StartStopIInv ==
    ASSUME IInv, Start \/ Stop
    PROVE  IInv'
<1>1. CASE Start
  <2>1. pc = "down" /\ pc' = "idle"
        /\ UNCHANGED <<file, ledger, snapshots, mode, todo, hand,
                       scanned, edited, touched, failed, based>>
    BY <1>1 DEF Start, history
  <2>2. TypeOK'
    BY <2>1 DEF IInv, TypeOK
  <2> QED BY <2>1, <2>2 DEF IInv, SnapshotsRecorded, InHand, Covered, ScanCatchesUp,
             Untouched, Based, WriteMeansEdit, Left, Legible
<1>2. CASE Stop
  <2>1. /\ pc' = "down" /\ mode' = "none" /\ todo' = <<>> /\ hand' = Absent
        /\ snapshots' = [f \in File |-> Absent]
        /\ scanned' = FALSE /\ failed' = {} /\ based' = {}
        /\ UNCHANGED <<file, ledger, edited, touched>>
    BY <1>2 DEF Stop
  <2>2. TypeOK'
    BY <2>1, EmptySeq DEF IInv, TypeOK, Held
  <2> QED BY <2>1, <2>2 DEF IInv, SnapshotsRecorded, InHand, Covered, ScanCatchesUp,
             Untouched, Based, WriteMeansEdit
<1> QED BY <1>1, <1>2

\* A pass begins with all files left.
LEMMA BeginIInv ==
    ASSUME IInv, NEW kind \in {"baseline", "scan"}, Begin(kind)
    PROVE  IInv'
<1>1. /\ pc = "idle" /\ pc' = "look" /\ mode' = kind /\ todo' = Files
      /\ scanned' = FALSE /\ edited' = {}
      /\ UNCHANGED <<file, ledger, snapshots, hand, touched, failed, based>>
  BY DEF Begin
<1>2. TypeOK'
  BY <1>1, FilesAssumption DEF IInv, TypeOK
<1>3. File \subseteq Left'
  BY <1>1 DEF File, Left
<1> QED BY <1>1, <1>2, <1>3 DEF IInv, SnapshotsRecorded, InHand, Covered, ScanCatchesUp,
           Untouched, Based, WriteMeansEdit

-----------------------------------------------------------------------------
(* The steps of a pass *)

\* A pass is on exactly when a file is left.
LEMMA PassIsOn ==
    ASSUME IInv, pc \in {"look", "read", "record"}
    PROVE  /\ TypeOK /\ todo # <<>> /\ ~scanned /\ Head(todo) \in File
           /\ file[Head(todo)] \in Held
<1>1. TypeOK /\ todo # <<>> /\ ~scanned
  BY DEF IInv, TypeOK
<1>2. Head(todo) \in File
  BY <1>1, TodoSplits
<1> QED BY <1>1, <1>2 DEF TypeOK

\* A file that is not there or is too large is not legible.
LEMMA SkipFileIInv ==
    ASSUME IInv, SkipFile
    PROVE  IInv'
<1> DEFINE f == Head(todo)
<1>1. /\ pc = "look" /\ Proceed
      /\ \/ file[f] = Absent
         \/ file[f] \in Oversize /\ (mode = "baseline" => ledger[f] = Absent)
      /\ based' = IF mode = "baseline" /\ file[f] # Absent THEN based \cup {f} ELSE based
      /\ UNCHANGED <<file, ledger, snapshots, edited, touched, failed>>
  BY DEF SkipFile, last_write_hash
<1>2. TypeOK /\ todo # <<>> /\ ~scanned /\ f \in File
  BY <1>1, PassIsOn
<1>3. ~Legible(f)
  BY <1>1, ContentAssumption DEF Legible
<1>4. Covered
  BY DEF IInv
<1>5. /\ Covered' /\ ScanCatchesUp' /\ (todo' # <<>> => ~scanned')
      /\ todo' \in Seq(File) /\ hand' = Absent
      /\ (pc' \in {"look", "read", "record"} <=> todo' # <<>>)
      /\ pc' \in {"look", "idle"} /\ scanned' \in BOOLEAN
      /\ mode' \in {"none", "baseline", "scan"}
  BY <1>1, <1>2, <1>3, <1>4, ProceedCovers
<1>6. TypeOK'
  BY <1>1, <1>2, <1>5 DEF TypeOK, Held
<1>7. mode = "baseline" /\ file[f] # Absent => f \in touched
  BY <1>1, <1>2 DEF IInv, Untouched
<1>8. Based'
  BY <1>1, <1>7 DEF IInv, Based
<1>9. SnapshotsRecorded' /\ InHand' /\ Untouched' /\ WriteMeansEdit'
  BY <1>1, <1>5 DEF IInv, SnapshotsRecorded, InHand, Untouched, WriteMeansEdit
<1> QED BY <1>5, <1>6, <1>8, <1>9 DEF IInv

\* The newest write becomes the snapshot.
LEMMA BaselineKnownIInv ==
    ASSUME IInv, BaselineKnown
    PROVE  IInv'
<1> DEFINE f == Head(todo)
<1>1. /\ pc = "look" /\ mode = "baseline" /\ Proceed
      /\ file[f] # Absent /\ ledger[f] # Absent
      /\ snapshots' = [snapshots EXCEPT ![f] = ledger[f]]
      /\ failed' = failed \ {f} /\ based' = based \cup {f}
      /\ UNCHANGED <<file, ledger, edited, touched>>
  BY DEF BaselineKnown, last_write_hash
<1>2. TypeOK /\ todo # <<>> /\ ~scanned /\ f \in File
  BY <1>1, PassIsOn
<1>3. Covered
  BY DEF IInv
<1>4. /\ Covered' /\ ScanCatchesUp' /\ (todo' # <<>> => ~scanned')
      /\ todo' \in Seq(File) /\ hand' = Absent
      /\ (pc' \in {"look", "read", "record"} <=> todo' # <<>>)
      /\ pc' \in {"look", "idle"} /\ scanned' \in BOOLEAN
      /\ mode' \in {"none", "baseline", "scan"}
  BY <1>1, <1>2, <1>3, ProceedCovers
<1>5. snapshots \in [File -> Held] /\ ledger[f] \in Held
  BY <1>2 DEF TypeOK, Held
<1>6. TypeOK'
  BY <1>1, <1>2, <1>4, <1>5 DEF TypeOK, Held
<1>7. snapshots'[f] = ledger[f] /\ \A g \in File \ {f} : snapshots'[g] = snapshots[g]
  BY <1>1, <1>2, <1>5
<1>8. SnapshotsRecorded'
  BY <1>1, <1>4, <1>7 DEF IInv, SnapshotsRecorded
<1>9. Based'
  <2> SUFFICES ASSUME NEW g \in based' \ touched'
               PROVE  snapshots'[g] # Absent /\ g \notin failed'
    BY DEF Based
  <2>1. CASE g = f
    BY <1>1, <1>7, <2>1
  <2>2. CASE g # f
    <3>1. g \in based \ touched /\ g \in File
      BY <1>1, <1>2, <2>2 DEF TypeOK
    <3> QED BY <1>1, <1>7, <2>2, <3>1 DEF IInv, Based
  <2> QED BY <2>1, <2>2
<1>10. InHand' /\ Untouched' /\ WriteMeansEdit'
  BY <1>1, <1>4 DEF IInv, InHand, Untouched, WriteMeansEdit
<1> QED BY <1>4, <1>6, <1>8, <1>9, <1>10 DEF IInv

\* A baseline looks into a file only if the ledger has no write of it.
LEMMA LookIInv ==
    ASSUME IInv, Look
    PROVE  IInv'
<1> DEFINE f == Head(todo)
<1>1. /\ pc = "look" /\ pc' = "read"
      /\ file[f] # Absent
      /\ mode = "baseline" => ledger[f] = Absent
      /\ based' = IF mode = "baseline" THEN based \cup {f} ELSE based
      /\ UNCHANGED <<file, ledger, snapshots, mode, todo, hand,
                     scanned, edited, touched, failed>>
  BY DEF Look, last_write_hash
<1>2. TypeOK /\ todo # <<>> /\ f \in File
  BY <1>1, PassIsOn
<1>3. TypeOK'
  BY <1>1, <1>2 DEF TypeOK
<1>4. mode = "baseline" => f \in touched
  BY <1>1, <1>2 DEF IInv, Untouched
<1>5. Based'
  BY <1>1, <1>4 DEF IInv, Based
<1> QED BY <1>1, <1>3, <1>5 DEF IInv, SnapshotsRecorded, InHand, Covered, ScanCatchesUp,
           Untouched, WriteMeansEdit, Left, Legible

\* An exception ends the pass, and nothing is promised of it.
LEMMA ReadFailsIInv ==
    ASSUME IInv, ReadFails
    PROVE  IInv'
<1>1. /\ pc = "read"
      /\ pc' = "idle" /\ mode' = "none" /\ todo' = <<>> /\ hand' = Absent
      /\ UNCHANGED <<scanned, file, ledger, snapshots, edited, touched, failed, based>>
  BY DEF ReadFails, Abort
<1>2. TypeOK /\ ~scanned
  BY <1>1, PassIsOn
<1>3. TypeOK'
  BY <1>1, <1>2, EmptySeq DEF TypeOK, Held
<1> QED BY <1>1, <1>2, <1>3 DEF IInv, SnapshotsRecorded, InHand, Covered, ScanCatchesUp,
           Untouched, Based, WriteMeansEdit

\* A file that equals its snapshot is the newest write, unless that failed.
LEMMA ReadUnchangedIInv ==
    ASSUME IInv, ReadUnchanged
    PROVE  IInv'
<1> DEFINE f == Head(todo)
<1>1. /\ pc = "read" /\ Proceed
      /\ file[f] \notin Undecodable \cup {Absent}
      /\ snapshots[f] = file[f]
      /\ UNCHANGED <<file, ledger, snapshots, edited, touched, failed, based>>
  BY DEF ReadUnchanged
<1>2. TypeOK /\ todo # <<>> /\ ~scanned /\ f \in File
  BY <1>1, PassIsOn
<1>3. f \notin failed => ledger[f] = file[f]
  BY <1>1, <1>2 DEF IInv, SnapshotsRecorded
<1>4. Covered
  BY DEF IInv
<1>5. /\ Covered' /\ ScanCatchesUp' /\ (todo' # <<>> => ~scanned')
      /\ todo' \in Seq(File) /\ hand' = Absent
      /\ (pc' \in {"look", "read", "record"} <=> todo' # <<>>)
      /\ pc' \in {"look", "idle"} /\ scanned' \in BOOLEAN
      /\ mode' \in {"none", "baseline", "scan"}
  BY <1>1, <1>2, <1>3, <1>4, ProceedCovers
<1>6. TypeOK'
  BY <1>1, <1>2, <1>5 DEF TypeOK, Held
<1>7. SnapshotsRecorded' /\ InHand' /\ Untouched' /\ Based' /\ WriteMeansEdit'
  BY <1>1, <1>5 DEF IInv, SnapshotsRecorded, InHand, Untouched, Based, WriteMeansEdit
<1> QED BY <1>5, <1>6, <1>7 DEF IInv

\* A file that differs from its snapshot was touched, or no baseline saw it.
LEMMA ReadChangedIInv ==
    ASSUME IInv, ReadChanged
    PROVE  IInv'
<1> DEFINE f == Head(todo)
<1>1. /\ pc = "read" /\ pc' = "record"
      /\ file[f] \notin Undecodable \cup {Absent}
      /\ snapshots[f] # file[f]
      /\ snapshots' = [snapshots EXCEPT ![f] = file[f]]
      /\ hand' = file[f]
      /\ UNCHANGED <<file, ledger, mode, todo, scanned, edited, touched, failed, based>>
  BY DEF ReadChanged, history
<1>2. TypeOK /\ todo # <<>> /\ ~scanned /\ f \in File /\ file[f] \in Held
  BY <1>1, PassIsOn
<1>3. TypeOK'
  BY <1>1, <1>2 DEF TypeOK
<1>4. snapshots'[f] = file[f] /\ \A g \in File \ {f} : snapshots'[g] = snapshots[g]
  BY <1>1, <1>2 DEF TypeOK
<1>5. WriteMeansEdit'
  <2> SUFFICES ASSUME f \notin touched, f \in based
               PROVE  FALSE
    BY <1>1 DEF WriteMeansEdit
  <2>1. ledger[f] = file[f]
    BY <1>2 DEF IInv, Untouched
  <2>2. snapshots[f] # Absent /\ f \notin failed
    BY DEF IInv, Based
  <2> QED BY <1>1, <1>2, <2>1, <2>2 DEF IInv, SnapshotsRecorded
<1>6. SnapshotsRecorded'
  BY <1>1, <1>4 DEF IInv, SnapshotsRecorded
<1>7. Based'
  <2> SUFFICES ASSUME NEW g \in based \ touched
               PROVE  snapshots'[g] # Absent /\ g \notin failed
    BY <1>1 DEF Based
  <2>1. g \in File
    BY <1>2 DEF TypeOK
  <2> QED BY <1>1, <1>4, <2>1 DEF IInv, Based
<1>8. InHand'
  BY <1>1, <1>4 DEF InHand
<1>9. Covered' /\ ScanCatchesUp' /\ Untouched'
  BY <1>1 DEF IInv, Covered, ScanCatchesUp, Untouched, Left, Legible
<1> QED BY <1>1, <1>2, <1>3, <1>5, <1>6, <1>7, <1>8, <1>9 DEF IInv

\* What is stored is what the snapshot already says.
LEMMA StoreKeeps ==
    ASSUME IInv, pc = "record", Store, pc' # "record",
           UNCHANGED <<file, snapshots, edited, based>>
    PROVE  /\ ledger' \in [File -> (Content \ (Oversize \cup Undecodable)) \cup {Absent}]
           /\ failed' \subseteq failed /\ touched' \subseteq File
           /\ \A f \in File \ {Head(todo)} :
                 ledger'[f] = ledger[f] /\ (f \in failed => f \in failed')
           /\ Head(todo) \notin edited => ledger'[Head(todo)] = file[Head(todo)]
           /\ SnapshotsRecorded' /\ Untouched' /\ Based'
<1> DEFINE f == Head(todo)
<1>1. /\ hand \notin Oversize
      /\ ledger' = [ledger EXCEPT ![f] = hand]
      /\ failed' = failed \ {f}
      /\ touched' = IF file[f] = hand THEN touched \ {f} ELSE touched
  BY DEF Store
<1>2. TypeOK /\ todo # <<>> /\ f \in File
  BY PassIsOn
<1>3. hand \in Content \ (Oversize \cup Undecodable) /\ snapshots[f] = hand /\ hand # Absent
  BY <1>1, <1>2, ContentAssumption DEF IInv, InHand, TypeOK, Held
<1>4. ledger'[f] = hand /\ \A g \in File \ {f} : ledger'[g] = ledger[g]
  BY <1>1, <1>2 DEF TypeOK
<1>5. ledger' \in [File -> (Content \ (Oversize \cup Undecodable)) \cup {Absent}]
  BY <1>1, <1>2, <1>3 DEF TypeOK
<1>6. failed' \subseteq failed /\ touched' \subseteq File
  BY <1>1, <1>2 DEF TypeOK
<1>7. f \notin edited => ledger'[f] = file[f]
  BY <1>4 DEF IInv, InHand
<1>8. SnapshotsRecorded'
  BY <1>1, <1>3, <1>4 DEF IInv, SnapshotsRecorded
<1>9. Untouched'
  <2> SUFFICES ASSUME NEW g \in File \ touched'
               PROVE  ledger'[g] = file[g] /\ ledger'[g] # Absent
    BY DEF Untouched
  <2>1. CASE g = f
    <3>1. CASE file[f] = hand
      BY <1>3, <1>4, <2>1, <3>1
    <3>2. CASE file[f] # hand
      <4>1. f \notin touched
        BY <1>1, <2>1, <3>2
      <4> QED BY <3>2, <4>1 DEF IInv, InHand
    <3> QED BY <3>1, <3>2
  <2>2. CASE g # f
    BY <1>1, <1>4, <2>2 DEF IInv, Untouched
  <2> QED BY <2>1, <2>2
<1>10. Based'
  <2> SUFFICES ASSUME NEW g \in based \ touched'
               PROVE  snapshots[g] # Absent /\ g \notin failed'
    BY DEF Based
  <2>1. CASE g = f
    BY <1>1, <1>3, <2>1
  <2>2. CASE g # f
    BY <1>1, <2>2 DEF IInv, Based
  <2> QED BY <2>1, <2>2
<1> QED BY <1>1, <1>4, <1>5, <1>6, <1>7, <1>8, <1>9, <1>10

\* The call returns and the pass goes on.
LEMMA RecordIInv ==
    ASSUME IInv, Record
    PROVE  IInv'
<1>1. pc = "record" /\ Store /\ Proceed /\ UNCHANGED <<file, snapshots, edited, based>>
  BY DEF Record
<1>2. TypeOK /\ todo # <<>> /\ ~scanned /\ Head(todo) \in File /\ Covered
  BY <1>1, PassIsOn DEF IInv
<1>3. pc' # "record"
  BY <1>1 DEF Proceed
<1>4. /\ ledger' \in [File -> (Content \ (Oversize \cup Undecodable)) \cup {Absent}]
      /\ failed' \subseteq failed /\ touched' \subseteq File
      /\ \A f \in File \ {Head(todo)} :
            ledger'[f] = ledger[f] /\ (f \in failed => f \in failed')
      /\ Head(todo) \notin edited => ledger'[Head(todo)] = file[Head(todo)]
      /\ SnapshotsRecorded' /\ Untouched' /\ Based'
  BY <1>1, <1>3, StoreKeeps
<1>5. /\ Covered' /\ ScanCatchesUp' /\ (todo' # <<>> => ~scanned')
      /\ todo' \in Seq(File) /\ hand' = Absent
      /\ (pc' \in {"look", "read", "record"} <=> todo' # <<>>)
      /\ pc' \in {"look", "idle"} /\ scanned' \in BOOLEAN
      /\ mode' \in {"none", "baseline", "scan"}
  BY <1>1, <1>2, <1>4, ProceedCovers
<1>6. TypeOK'
  BY <1>1, <1>2, <1>4, <1>5 DEF TypeOK, Held
<1> QED BY <1>3, <1>4, <1>5, <1>6 DEF IInv, InHand, WriteMeansEdit

\* It raises: the row is stored, or the file has failed.
LEMMA RecordRaisesIInv ==
    ASSUME IInv, RecordRaisesStored \/ RecordRaises
    PROVE  IInv'
<1>1. /\ pc = "record" /\ pc' = "idle" /\ mode' = "none" /\ todo' = <<>> /\ hand' = Absent
      /\ UNCHANGED <<scanned, file, snapshots, edited, based>>
  BY DEF RecordRaisesStored, RecordRaises, Abort
<1>2. TypeOK /\ todo # <<>> /\ ~scanned /\ Head(todo) \in File
  BY <1>1, PassIsOn
<1>3. Covered' /\ ScanCatchesUp' /\ InHand' /\ WriteMeansEdit'
  BY <1>1, <1>2 DEF Covered, ScanCatchesUp, InHand, WriteMeansEdit
<1>4. CASE RecordRaisesStored
  <2>1. /\ ledger' \in [File -> (Content \ (Oversize \cup Undecodable)) \cup {Absent}]
        /\ failed' \subseteq failed /\ touched' \subseteq File
        /\ SnapshotsRecorded' /\ Untouched' /\ Based'
    BY <1>1, <1>4, StoreKeeps DEF RecordRaisesStored
  <2>2. TypeOK'
    BY <1>1, <1>2, <2>1, EmptySeq DEF TypeOK, Held
  <2> QED BY <1>1, <1>2, <1>3, <2>1, <2>2 DEF IInv
<1>5. CASE RecordRaises
  <2>1. failed' = failed \cup {Head(todo)} /\ UNCHANGED <<ledger, touched>>
    BY <1>5 DEF RecordRaises
  <2>2. TypeOK'
    BY <1>1, <1>2, <2>1, EmptySeq DEF TypeOK, Held
  <2>3. SnapshotsRecorded' /\ Untouched'
    BY <1>1, <2>1 DEF IInv, SnapshotsRecorded, Untouched
  <2>4. Based'
    BY <1>1, <2>1 DEF IInv, Based, WriteMeansEdit
  <2> QED BY <1>1, <1>2, <1>3, <2>2, <2>3, <2>4 DEF IInv
<1> QED BY <1>4, <1>5

\* Every step keeps the invariant.
LEMMA IInvStep ==
    ASSUME IInv, [Next]_vars
    PROVE  IInv'
<1>1. CASE UNCHANGED vars
  <2>1. UNCHANGED <<file, ledger, snapshots, pc, mode, todo, hand,
                    scanned, edited, touched, failed, based>>
    BY <1>1 DEF vars, call, history
  <2>2. TypeOK'
    BY <2>1 DEF IInv, TypeOK
  <2> QED BY <2>1, <2>2 DEF IInv, SnapshotsRecorded, InHand, Covered, ScanCatchesUp,
             Untouched, Based, WriteMeansEdit, Left, Legible
<1>2. CASE Next
  BY <1>2, EditIInv, StartStopIInv, BeginIInv, SkipFileIInv, BaselineKnownIInv, LookIInv,
     ReadFailsIInv, ReadUnchangedIInv, ReadChangedIInv, RecordIInv, RecordRaisesIInv DEF Next
<1> QED BY <1>1, <1>2

-----------------------------------------------------------------------------
(* The theorems *)

\* Whatever is edited and wherever a pass ends, every value keeps its type;
\* the ledger never holds a content above the limit, even of a file that grew
\* after its size was looked at.
THEOREM MemoryFilesTypes == Spec => []TypeOK
<1>1. Init => IInv
  BY InitIInv
<1>2. IInv /\ [Next]_vars => IInv'
  BY IInvStep
<1>3. IInv => TypeOK
  BY DEF IInv
<1> QED BY <1>1, <1>2, <1>3, PTL DEF Spec

\* A scan that returns has recorded every legible file as it is (scan and
\* _record_if_changed), edits made while no process was watching included.
THEOREM ScansCatchUp == Spec => []ScanCatchesUp
<1>1. Init => IInv
  BY InitIInv
<1>2. IInv /\ [Next]_vars => IInv'
  BY IInvStep
<1>3. IInv => ScanCatchesUp
  BY DEF IInv
<1> QED BY <1>1, <1>2, <1>3, PTL DEF Spec

\* The watcher records a file that its baseline saw only when it was edited
\* since its newest write (baseline and last_write_hash).
THEOREM WritesMeanEdits == Spec => []WriteMeansEdit
<1>1. Init => IInv
  BY InitIInv
<1>2. IInv /\ [Next]_vars => IInv'
  BY IInvStep
<1>3. IInv => WriteMeansEdit
  BY DEF IInv
<1> QED BY <1>1, <1>2, <1>3, PTL DEF Spec
=============================================================================
