--------------------------- MODULE MCTokenManager ---------------------------
(* Small instances of TokenManager. *)
EXTENDS TokenManager, TLC

Symmetry == Permutations(Containers)
=============================================================================
