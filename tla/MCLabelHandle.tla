--------------------------- MODULE MCLabelHandle ---------------------------
(* Instances of LabelHandle for TLC.                                       *)
EXTENDS LabelHandle, TLC

Symmetry == Permutations(Handles)
=============================================================================
