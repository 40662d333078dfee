--------------------------- MODULE MCSourceCache ---------------------------
(* Instances of SourceCache for TLC. *)
EXTENDS SourceCache, TLC

CONSTANTS c1, c2, f1, f2, f3

Symmetry == Permutations({c1, c2}) \cup Permutations({f1, f2, f3})
=============================================================================
