---------------------------- MODULE MCMerkleTree ----------------------------
(* Every tree of up to six leaves over two leaf values, and every leaf of it. *)
EXTENDS LogInclusion

CONSTANTS a, b
TwoLeaves == {a, b}
=============================================================================
