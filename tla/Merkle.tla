------------------------------- MODULE Merkle -------------------------------
(***************************************************************************)
(* Merkle trees as electrum_merkle.rs builds them, for the transactions of *)
(* a block and for the headers up to a checkpoint.  The hash of two nodes  *)
(* is their pair, so that equal hashes have equal inputs; a leaf is <<x>>. *)
(***************************************************************************)
EXTENDS Integers, Sequences, SequencesExt

Merklize(left, right) == <<left, right>>

\* A level is completed by its last hash when its length is odd, then hashed in pairs.
Parents(hashes) ==
    [i \in 1..((Len(hashes) + 1) \div 2) |->
        Merklize(hashes[2 * i - 1], hashes[IF 2 * i > Len(hashes) THEN Len(hashes) ELSE 2 * i])]

RECURSIVE LevelsAbove(_)
\* build_levels_above_leaves
LevelsAbove(leaves) ==
    IF Len(leaves) <= 1 THEN <<>> ELSE <<Parents(leaves)>> \o LevelsAbove(Parents(leaves))

Other(index) == IF index % 2 = 0 THEN index + 1 ELSE index - 1

\* A sibling past the end of a level is the level's last hash; indices count from 0.
SiblingAt(level, index) ==
    IF Other(index) < Len(level) THEN level[Other(index) + 1] ELSE level[Len(level)]

\* extract_branch_and_root
ExtractBranch(levels, sibling, index) ==
    <<sibling>> \o [k \in 1..(Len(levels) - 1) |-> SiblingAt(levels[k], index \div 2^k)]

ExtractRoot(levels) == Last(Last(levels))

RECURSIVE CreateBranch(_, _)
\* create_merkle_branch_and_root, for transactions.
CreateBranch(hashes, index) ==
    IF Len(hashes) <= 1 THEN <<>>
    ELSE LET padded == IF Len(hashes) % 2 = 0 THEN hashes ELSE Append(hashes, Last(hashes))
         IN  <<padded[Other(index) + 1]>> \o CreateBranch(Parents(hashes), index \div 2)

----------------------------------------------------------------------------
(* What a client does with a proof, and the root of a list of leaves.      *)

RECURSIVE Climb(_, _, _)
Climb(node, index, branch) ==
    IF branch = <<>> THEN node
    ELSE Climb(IF index % 2 = 0 THEN <<node, Head(branch)>> ELSE <<Head(branch), node>>,
               index \div 2, Tail(branch))

RECURSIVE RootOf(_)
RootOf(leaves) ==
    IF Len(leaves) = 1 THEN leaves[1]
    ELSE LET even == IF Len(leaves) % 2 = 0 THEN leaves ELSE Append(leaves, Last(leaves))
         IN  RootOf([i \in 1..(Len(even) \div 2) |-> <<even[2 * i - 1], even[2 * i]>>])

Proves(leaf, index, branch, root) == Climb(leaf, index, branch) = root
==============================================================================
