---------------------------- MODULE LogInclusion ----------------------------
(***************************************************************************)
(* Re-checking a stored Rekor receipt offline (anchor/rekor.py             *)
(* verify_receipt and verify_inclusion).  The log is external: a tree of   *)
(* RFC 6962 over its entries, whose proofs are the ones module MerkleTree  *)
(* climbs to.  The client has only the index and the tree size to tell     *)
(* which side each hash goes on.                                           *)
(*                                                                         *)
(* A leaf is an entry body; the body of an entry of another kind commits   *)
(* to no statement.  SHA-256 is symbolic, like BLAKE3.                     *)
(***************************************************************************)
EXTENDS MerkleTree

CONSTANT NoBody    \* a receipt without a readable entry body

ASSUME LogInclusionAssumption == NoBody \notin Leaf

NoNote == <<"no note">>      \* a receipt whose log sent no checkpoint note
BadNote == <<"bad note">>    \* a note that cannot be read

\* n shifted right, again and again.
Halves(n) ==
    LET half[e \in Nat] == IF e = 0 THEN n ELSE half[e - 1] \div 2
    IN  half

\* Mutant: the levels an odd node skips are not skipped.
PromoteNowhere(n, last) == <<n, last>>

\* The while loop: both are shifted while n is even and not 0, past the levels at
\* which the last node has no sibling.
Promote(n, last) ==
    IF n = 0 THEN <<n, last>>
    ELSE LET e == CHOOSE e \in 0..n : /\ Halves(n)[e] % 2 = 1
                                      /\ \A d \in 0..(e - 1) : Halves(n)[d] % 2 = 0
         IN  <<Halves(n)[e], Halves(last)[e]>>

\* The sibling goes on the left of an odd node, and of the last node of a level.
OnLeft(at) == at[1] % 2 = 1 \/ at[1] = at[2]

\* What one round of the for loop makes of node_index and last_index.
Advance(at) ==
    LET up == IF OnLeft(at) THEN Promote(at[1], at[2]) ELSE at
    IN  <<up[1] \div 2, up[2] \div 2>>

\* node_index and last_index before each round.
Positions(n, last) ==
    LET at[j \in Nat] == IF j = 0 THEN <<n, last>> ELSE Advance(at[j - 1])
    IN  at

\* The proof with the sides the client works out for its hashes.
Sided(i, tree_size, hashes) ==
    LET at == Positions(i, tree_size - 1)
    IN  [j \in 1..Len(hashes) |-> [sibling |-> hashes[j], left |-> OnLeft(at[j - 1])]]

\* The last round must end at the root, and no round may start there.
verify_inclusion(i, tree_size, leaf_hash, hashes, root) ==
    /\ 0 <= i /\ i < tree_size
    /\ LET at == Positions(i, tree_size - 1)
       IN  /\ at[Len(hashes)][2] = 0
           /\ \A j \in 0..(Len(hashes) - 1) : at[j][2] # 0
    /\ Refold(leaf_hash, Sided(i, tree_size, hashes)) = root

\* Mutant: an unreadable or contradicting note is let through.
CommitsToNothing(note, root) == TRUE

\* _checkpoint_commits_to, and the note that is absent.
CommitsTo(note, root) == note = NoNote \/ note = root

verify_receipt(r) ==
    /\ r.body # NoBody
    /\ r.body = r.statement
    /\ verify_inclusion(r.index, r.size, hash_leaf(r.body), r.hashes, r.root)
    /\ CommitsTo(r.note, r.root)

-----------------------------------------------------------------------------
(* The receipt the log gave for the entry the climb started from, and what *)
(* may be stored in its place.                                             *)

Hashes == [k \in 1..Len(proof) |-> proof[k].sibling]

TrueReceipt ==
    [ statement |-> leaves[index + 1], body |-> leaves[index + 1],
      index |-> index, size |-> Len(leaves), hashes |-> Hashes,
      root |-> nodes[1], note |-> nodes[1] ]

\* The path cut at either end, lengthened, or with a hash replaced.
OtherPaths ==
    {<<>>} \cup {SubSeq(Hashes, 2, Len(Hashes))}
        \cup {SubSeq(Hashes, 1, Len(Hashes) - 1)}
        \cup {Append(Hashes, h) : h \in {hash_leaf(x) : x \in Leaf}}
        \cup {[Hashes EXCEPT ![k] = hash_leaf(x)] : k \in DOMAIN Hashes, x \in Leaf}

OtherRoots ==
    {hash_leaf(x) : x \in Leaf} \cup {nodes[1]}
        \cup {hash_node(l, r) : l, r \in {hash_leaf(x) : x \in Leaf}}

\* Any position, tree size, body and statement, with the log's own path or one
\* edit of it, beside the log's own note.
Receipts ==
    [ statement : Leaf, body : Leaf \cup {NoBody},
      index : (-1)..MaxLeaves, size : 0..(MaxLeaves + 1),
      hashes : {Hashes} \cup OtherPaths,
      root : OtherRoots, note : {nodes[1]} ]

\* The log's own receipt passes, at every index of a tree of any size, whether
\* its note came along or not, and with an unreadable note it does not.
TrueReceiptVerifies ==
    Len(nodes) = 1 =>
        /\ verify_receipt(TrueReceipt)
        /\ verify_receipt([TrueReceipt EXCEPT !.note = NoNote])
        /\ ~verify_receipt([TrueReceipt EXCEPT !.note = BadNote])

\* A receipt with the log's path, or one edit of it, that passes beside the log's
\* own note names a statement the log holds, whatever its other fields say; with
\* the log's tree size, it is the one at the index the receipt claims.
VerifiedReceiptIsIncluded ==
    Len(nodes) = 1 =>
        \A r \in Receipts : verify_receipt(r) =>
            /\ \E i \in 1..Len(leaves) : leaves[i] = r.statement
            /\ r.size = Len(leaves) => leaves[r.index + 1] = r.statement
=============================================================================
