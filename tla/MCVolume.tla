------------------------------ MODULE MCVolume ------------------------------
(* Small instances of Volume for TLC.  Two paths are enough for a file that *)
(* is overwritten and one that goes with its directory; two blocks for one  *)
(* that moves when the other is dropped.                                    *)
EXTENDS Volume, TLC

CONSTANTS t1, t2, a, b, dir, file, other, s1

MCBelow == [p \in Paths |-> IF p = dir THEN {file} \cap Paths ELSE {}]
MCContents == {{a}, {a, b} \cap Blocks}
MCEither == {{a}, {b}}
MCBench == IF b \in Blocks THEN {b} ELSE {a}

Symmetry == Permutations(Tasks)
=============================================================================
