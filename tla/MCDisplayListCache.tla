------------------------- MODULE MCDisplayListCache -------------------------
(* Instances of DisplayListCache for TLC. *)
EXTENDS DisplayListCache, TLC

CONSTANTS outer, inner, other

(* OnDraw of the outer object draws the inner. *)
PartsOf == [k \in Keys |-> IF k = outer THEN <<inner>> ELSE <<>>]

Symmetry == Permutations(Lists)

=============================================================================
