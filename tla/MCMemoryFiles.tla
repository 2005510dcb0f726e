--------------------------- MODULE MCMemoryFiles ---------------------------
(* Small instances of MemoryFiles for TLC. *)
EXTENDS MemoryFiles

CONSTANTS memory, agents, a, b, big, binary

TwoFiles == <<memory, agents>>
=============================================================================
