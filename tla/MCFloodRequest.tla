--------------------------- MODULE MCFloodRequest ---------------------------
(* Finite instances of FloodRequest.                                       *)
EXTENDS FloodRequest, TLC

CONSTANTS f1, f2

\* f1 asks for support, f2 only declares a flood.
OneOfTwo == {f1}
Symmetry == Permutations(Procs) \cup Permutations(Teams) \cup Permutations(Sos)
=============================================================================
