---------------------------- MODULE MCWinFspHost ----------------------------
(* Two names and two levels: a file that moves within a directory, between  *)
(* two, or with one.                                                        *)
EXTENDS WinFspHost, TLC

CONSTANTS h1, h2, h3, x, y

Symmetry == Permutations(Handles) \cup Permutations(Names)
=============================================================================
