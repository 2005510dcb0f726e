----------------------------- MODULE MCCapture -----------------------------
(* Small instances of Capture for TLC. *)
EXTENDS Capture, TLC

CONSTANTS client, sidecar, m1, m2

OneClient == {client}
OneSidecar == {sidecar}
TwoMemories == {m1, m2}
Symmetry == Permutations(TwoMemories)
=============================================================================
