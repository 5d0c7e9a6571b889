----------------------------- MODULE MCRamCache -----------------------------
(* Three or four keys; capacities at the boundaries of cap_bytes / 10 * 8:  *)
(* none, below ten bytes (a protected segment of one byte), ten and more.   *)
EXTENDS RamCache, TLC

Symmetry == Permutations(Key)
=============================================================================
