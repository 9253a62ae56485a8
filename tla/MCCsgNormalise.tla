--------------------------- MODULE MCCsgNormalise ----------------------------
(* Instances of CsgNormalise for TLC. *)
EXTENDS MCCsgTrees, CsgNormalise

=============================================================================
