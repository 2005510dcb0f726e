---------------------------- MODULE MCAnchoring ----------------------------
(* Small instances of Anchoring for TLC. *)
EXTENDS Anchoring, TLC

CONSTANTS r1, r2, r3, key

TwoRecs == {r1, r2}
ThreeRecs == {r1, r2, r3}

Symmetric == Permutations(ThreeRecs)
=============================================================================
