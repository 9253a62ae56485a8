----------------------------- MODULE MCCsgTrees ------------------------------
(* The trees that the instances of CsgNormalise and CsgPicture start from:   *)
(* every tree with up to MaxLeaves different primitives, and every tree with *)
(* up to MaxRepeated of which some are the same shape.                       *)
EXTENDS Naturals, Sequences

CONSTANTS MaxLeaves, MaxRepeated

Leaf(k) == <<[type |-> "primitive", shape |-> k, left |-> 0, right |-> 0]>>

Shift(h, d) ==
  [k \in DOMAIN h |-> IF h[k].type = "primitive" THEN h[k]
                      ELSE [h[k] EXCEPT !.left = @ + d, !.right = @ + d]]

Join(t, l, r) ==
  <<[type |-> t, shape |-> 0, left |-> 2, right |-> 2 + Len(l)]>>
    \o Shift(l, 1) \o Shift(r, 1 + Len(l))

(* The trees with n primitives, numbered from left to right. *)
RECURSIVE TreesOf(_, _)
TreesOf(from, n) ==
  IF n = 1 THEN {Leaf(from)}
  ELSE UNION {{Join(t, l, r) : t \in {"union", "intersection", "difference"},
                               l \in TreesOf(from, k), r \in TreesOf(from + k, n - k)}
                : k \in 1..(n - 1)}

(* The ways to make some of n primitives the same: each has the shape of the *)
(* first one that is the same.                                               *)
Repeats(n) ==
  {f \in [1..n -> 1..n] : /\ \A k \in 1..n : f[k] <= k /\ f[f[k]] = f[k]
                         /\ \E k \in 1..n : f[k] # k}

Repeated(h, f) ==
  [k \in DOMAIN h |-> IF h[k].type = "primitive" THEN [h[k] EXCEPT !.shape = f[@]] ELSE h[k]]

RepeatedTrees ==
  UNION {{Repeated(h, f) : h \in TreesOf(1, n), f \in Repeats(n)} : n \in 1..MaxRepeated}

AllTrees == UNION {TreesOf(1, n) : n \in 1..MaxLeaves} \cup RepeatedTrees

(* A - B - C ... with n primitives. *)
RECURSIVE Drilled(_)
Drilled(n) == IF n = 1 THEN Leaf(1) ELSE Join("difference", Drilled(n - 1), Leaf(n))

Leaves(h) == (Len(h) + 1) \div 2

=============================================================================
