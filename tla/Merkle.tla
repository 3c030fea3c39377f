------------------------------- MODULE Merkle -------------------------------
(***************************************************************************)
(* The Merkle trees of pwm-core (trace.rs, block.rs, commit.rs): a node is *)
(* the term it hashes, its tag with its two children.                      *)
(***************************************************************************)
EXTENDS Integers, Sequences

\* One level up: an odd level duplicates its last node.
MerkleUp(node, level) ==
    [i \in 1..((Len(level) + 1) \div 2) |->
        << node, level[2 * i - 1], IF 2 * i <= Len(level) THEN level[2 * i] ELSE level[2 * i - 1] >>]

\* The levels are folded until one node is left; no leaf at all is the tag alone.
MerkleRoot(node, leaves) ==
    IF leaves = <<>> THEN <<node>>
    ELSE LET level[k \in 0..Len(leaves)] ==
                IF k = 0 THEN leaves
                ELSE IF Len(level[k - 1]) = 1 THEN level[k - 1]
                ELSE MerkleUp(node, level[k - 1])
         IN  level[Len(leaves)][1]
=============================================================================
