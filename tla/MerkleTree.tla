----------------------------- MODULE MerkleTree -----------------------------
(***************************************************************************)
(* The Merkle tree over entry hashes (merkle/tree.py): inclusion_proof,    *)
(* which walks the tree level by level exactly as compute_root does, and   *)
(* verify_proof.  The loop is the state machine; the reference is the      *)
(* recursive tree hash of RFC 6962, which the code never spells out.       *)
(*                                                                         *)
(* BLAKE3 is symbolic: a digest is the sequence it was computed from.      *)
(***************************************************************************)
EXTENDS Integers, Sequences

CONSTANTS
    Leaf,        \* the leaf payloads (entry hashes)
    MaxLeaves    \* bound: trees of up to this many leaves

ASSUME MerkleAssumption == MaxLeaves \in Nat \ {0}

VARIABLES
    leaves, index,   \* the arguments of inclusion_proof
    nodes,           \* the level the loop has reached
    idx,             \* the position of the leaf's ancestor in that level
    proof            \* the siblings collected so far

vars == <<leaves, index, nodes, idx, proof>>

b3_raw(bytes) == <<"b3", bytes>>

hash_leaf(data) == b3_raw(<<0, data>>)

hash_node(left, right) == b3_raw(<<1, left, right>>)

LeafHashes(s) == [i \in 1..Len(s) |-> hash_leaf(s[i])]

\* Mutant: the odd node is paired with itself (not when it is alone).
NextLevelDuplicated(level) ==
    [k \in 1..((Len(level) + 1) \div 2) |->
        IF 2 * k <= Len(level) THEN hash_node(level[2 * k - 1], level[2 * k])
        ELSE IF k = 1 THEN level[1]
        ELSE hash_node(level[2 * k - 1], level[2 * k - 1])]

\* Pairs from the left; the odd node out is promoted unchanged.
NextLevel(level) ==
    [k \in 1..((Len(level) + 1) \div 2) |->
        IF 2 * k <= Len(level) THEN hash_node(level[2 * k - 1], level[2 * k])
        ELSE level[2 * k - 1]]

\* The levels above a level.  A single node stays as it is.
Levels(level) ==
    LET levels[n \in Nat] == IF n = 0 THEN level ELSE NextLevel(levels[n - 1])
    IN  levels

\* The loop runs until one node is left, at most once for every node.
Collapse(level) == Levels(level)[Len(level)][1]

compute_root(s) == IF s = <<>> THEN b3_raw(<<>>) ELSE Collapse(LeafHashes(s))

\* Mutant: the side of the sibling is read from the leaf's side.
FoldStepSwapped(node, step) ==
    IF step.left THEN hash_node(node, step.sibling) ELSE hash_node(step.sibling, node)

FoldStep(node, step) ==
    IF step.left THEN hash_node(step.sibling, node) ELSE hash_node(node, step.sibling)

\* The nodes on the way up.
Refolds(node, steps) ==
    LET at[n \in Nat] == IF n = 0 THEN node ELSE FoldStep(at[n - 1], steps[n])
    IN  at

Refold(node, steps) == Refolds(node, steps)[Len(steps)]

verify_proof(leaf, steps, root) == Refold(hash_leaf(leaf), steps) = root

-----------------------------------------------------------------------------
(* inclusion_proof *)

Init ==
    /\ leaves \in UNION {[1..n -> Leaf] : n \in 1..MaxLeaves}
    /\ index \in 0..(Len(leaves) - 1)
    /\ nodes = LeafHashes(leaves)
    /\ idx = index
    /\ proof = <<>>

\* The sibling of the node at i (from 0) in its level, if it has one.
Sibling(level, i) ==
    IF i % 2 = 1 THEN <<[sibling |-> level[i], left |-> TRUE]>>
    ELSE IF i + 2 <= Len(level) THEN <<[sibling |-> level[i + 2], left |-> FALSE]>>
    ELSE <<>>

\* Mutant: the loop gives up at a level with an odd node.
ClimbEvenLevels ==
    /\ Len(nodes) % 2 = 0
    /\ proof' = proof \o Sibling(nodes, idx)
    /\ nodes' = NextLevel(nodes)
    /\ idx' = idx \div 2
    /\ UNCHANGED <<leaves, index>>

Climb ==
    /\ Len(nodes) > 1
    /\ proof' = proof \o Sibling(nodes, idx)
    /\ nodes' = NextLevel(nodes)
    /\ idx' = idx \div 2
    /\ UNCHANGED <<leaves, index>>

Next == Climb

Spec == Init /\ [][Next]_vars /\ WF_vars(Climb)

-----------------------------------------------------------------------------
(* Reference: the tree hash of RFC 6962, section 2.1 *)

PowerOfTwo[e \in Nat] == IF e = 0 THEN 1 ELSE 2 * PowerOfTwo[e - 1]

\* The largest power of two that is smaller than n.
SplitPoint(n) == CHOOSE k \in 1..(n - 1) :
                    /\ \E e \in 0..n : k = PowerOfTwo[e]
                    /\ n <= 2 * k

TreeHash[s \in Seq(Leaf)] ==
    IF s = <<>> THEN <<"b3", <<>>>>
    ELSE IF Len(s) = 1 THEN <<"b3", <<0, s[1]>>>>
    ELSE LET k == SplitPoint(Len(s))
         IN  <<"b3", <<1, TreeHash[SubSeq(s, 1, k)],
                          TreeHash[SubSeq(s, k + 1, Len(s))]>>>>

\* The level loop with promoted odd nodes computes the tree hash of RFC 6962,
\* at every level it passes through: the shape the module header claims.
RootIsTreeHash ==
    /\ Collapse(nodes) = TreeHash[leaves]
    /\ compute_root(leaves) = TreeHash[leaves]

\* A finished proof verifies, for that leaf's value and for no other.
ProofBindsLeaf ==
    Len(nodes) = 1 =>
        \A x \in Leaf : verify_proof(x, proof, compute_root(leaves))
                            <=> x = leaves[index + 1]

\* Two different ledgers, of any lengths, never share a root: truncating or
\* repeating the last row changes it.  (One state per ledger is enough.)
RootDeterminesLeaves ==
    index = 0 /\ proof = <<>> =>
        LET root == compute_root(leaves)
        IN  \A n \in 0..MaxLeaves : \A t \in [1..n -> Leaf] :
                compute_root(t) = root => t = leaves

\* The loop ends at a single node.
ProofEnds == <>(Len(nodes) = 1)
=============================================================================
