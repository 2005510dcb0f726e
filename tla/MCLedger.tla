------------------------------ MODULE MCLedger ------------------------------
(* Small instances of Ledger for TLC. *)
EXTENDS Ledger, TLC

CONSTANTS p1, p2, r1, r2, r3, r4, key

OneProc == {p1}
TwoProcs == {p1, p2}
ThreeRecs == {r1, r2, r3}
FourRecs == {r1, r2, r3, r4}

Symmetry == Permutations(Proc) \cup Permutations(Rec)
=============================================================================
