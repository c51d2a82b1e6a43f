--------------------------- MODULE MCStringLabels ---------------------------
(* Instances of StringLabels for TLC.                                      *)
EXTENDS StringLabels
=============================================================================
