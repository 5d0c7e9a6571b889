----------------------------- MODULE MCFuseMount ----------------------------
(* A small instance of FuseMount: two names, two levels, two files.         *)
EXTENDS FuseMount, TLC

CONSTANTS a, b, o1, o2, h1, h2

Symmetry == Permutations(Name) \cup Permutations(Obj) \cup Permutations(Handle)
=============================================================================
