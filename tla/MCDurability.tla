---------------------------- MODULE MCDurability ----------------------------
(* Files of one block, two of these and one snapshot: enough for a block     *)
(* that is shared, moved, lost, or outlived by its index entry.             *)
EXTENDS Durability, TLC

CONSTANTS a, b, p, s1

MCContents == {{x} : x \in Blocks}

Symmetry == Permutations(Blocks)
=============================================================================
