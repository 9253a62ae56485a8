---------------------------- MODULE MCGlutMaster -----------------------------
(* Instances of GlutMaster for TLC. *)
EXTENDS GlutMaster, TLC

(* The last handler each object received is a history that no step reads. *)
View == <<timerVars, objs, windowID, onOpenPending, windows, toOpen, toClose,
          checks, glutWins, windowFrame, ended, windowFault, mouseEvents>>

Symmetry == Permutations(Addresses) \cup Permutations(Ids)

=============================================================================
