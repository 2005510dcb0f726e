--------------------------- MODULE AppendOnlyLog ---------------------------
(***************************************************************************)
(* What the ledger store promises its callers: a log that only grows, one  *)
(* record at a time and none twice, and a sealed prefix of it, which a     *)
(* checkpoint moves to the end of the log.                                 *)
(***************************************************************************)
EXTENDS Sequences, Naturals

CONSTANT Rec

VARIABLES log, sealed

Init == log = <<>> /\ sealed = <<>>

Record(r) ==
    /\ \A i \in 1..Len(log) : log[i] # r
    /\ log' = Append(log, r)
    /\ UNCHANGED sealed

Seal == sealed' = log /\ UNCHANGED log

Next == Seal \/ \E r \in Rec : Record(r)

Spec == Init /\ [][Next]_<<log, sealed>>
=============================================================================
