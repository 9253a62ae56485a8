---------------------------- MODULE MCGlutWindows ----------------------------
(* Instances of GlutWindows for TLC. *)
EXTENDS GlutWindows, TLC

(* Objects are interchangeable, and so are GLUT's identifiers. *)
Symmetry == Permutations(Addresses) \cup Permutations(Ids)

=============================================================================
