---------------------------- MODULE MCGlutTimer -----------------------------
(***************************************************************************)
(* Instances of GlutTimer for TLC.                                         *)
(***************************************************************************)
EXTENDS GlutTimer

(* The objects are interchangeable; used by the runs without liveness. *)
Symmetry == Permutations(Addresses)

=============================================================================
