----------------------------- MODULE MCObserver -----------------------------
(* Instances of Observer for TLC. *)
EXTENDS Observer, TLC

(* Objects are interchangeable. *)
Symmetry == Permutations(Objects)

=============================================================================
