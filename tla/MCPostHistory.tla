---------------------------- MODULE MCPostHistory ----------------------------
(* A post of two articles, in one file or in two, for TLC.                    *)
EXTENDS PostHistory, TLC

CONSTANTS f1, f2, a1, a2

Symmetry == Permutations({a1, a2}) \cup Permutations({f1, f2})
=============================================================================
