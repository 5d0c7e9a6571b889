------------------------------ MODULE MCCowTree -----------------------------
(* A small instance of CowTree: two names, paths of one or two components,  *)
(* and ids enough for two or three transactions.                            *)
EXTENDS CowTree, TLC

CONSTANTS a, b

Symmetry == Permutations(Name)

(* Inodes no root, snapshot or lookup leads to are never read again: states *)
(* that differ in those alone are one.                                      *)
LiveState == <<[id \in UNION {Reach(r) : r \in Roots} |-> inodes[id]],
               state, super, snaps, walk>>
=============================================================================
