--------------------------- MODULE MCLinkerClaims ---------------------------
(* Instances of LinkerClaims for TLC.                                      *)
EXTENDS LinkerClaims, TLC

Symmetry == Permutations(Labels)
=============================================================================
