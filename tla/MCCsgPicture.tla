---------------------------- MODULE MCCsgPicture -----------------------------
(* Instances of CsgPicture for TLC.  All trees are normalised; those of up   *)
(* to three shapes and some of four are drawn for every ray, and those with  *)
(* many holes for many overlap graphs.                                       *)
EXTENDS MCCsgTrees, CsgPicture

CONSTANTS
  AnySize,        \* numbers of holes, for every overlap graph of them
  RingSizes,      \* ... overlapping in a ring
  CompleteSizes   \* ... all overlapping each other

Pairs(S) == {e \in SUBSET S : Cardinality(e) = 2}

(* (A - B) + (C - D) and (A . B) - C - D *)
TwoDrilled == Join("union", Drilled(2), Join("difference", Leaf(3), Leaf(4)))
DrilledLens ==
  Join("difference", Join("difference", Join("intersection", Leaf(1), Leaf(2)), Leaf(3)), Leaf(4))

PictureTrees == AllTrees \cup {Drilled(n + 1) : n \in AnySize \cup RingSizes \cup CompleteSizes}

(* The rays that hit the shapes of S, at depths from `free'. *)
RECURSIVE RaysThrough(_, _)
RaysThrough(S, free) ==
  IF S = {} THEN {<<>>}
  ELSE LET s == Cardinality(S) IN
    UNION {{Append(r, [front |-> ab[1], back |-> ab[2]]) : r \in RaysThrough(S \ {s}, free \ {ab[1], ab[2]})}
             : ab \in {p \in free \X free : p[1] < p[2]}}

RaysByHits == [m \in 0..4 |-> RaysThrough(1..m, 1..(2 * m))]

Rank(S, s) == Cardinality({t \in S : t <= s})

RaysOf(n) ==
  UNION {{[s \in S |-> r[Rank(S, s)]] : r \in RaysByHits[Cardinality(S)]} : S \in SUBSET (1..n)}

Overlaps(ray) ==
  {e \in Pairs(DOMAIN ray) :
     \A s, t \in e : ray[s].front < ray[t].back}

View(ray, graph, overlapGraph) ==
  [ray |-> ray, graph |-> graph, overlapGraph |-> overlapGraph, renderer |-> "scs"]

(* Goldfeather knows nothing of overlaps.  The layers must fit the stencil. *)
GoldfeatherViews(n) ==
  {[ray |-> ray, graph |-> {}, overlapGraph |-> FALSE, renderer |-> r] :
     ray \in RaysOf(n), r \in IF n <= StencilMask THEN {"goldfeather", "layered"} ELSE {"goldfeather"}}

AllViews(n) ==
  UNION {{View(ray, g, m) : g \in {e \cup Overlaps(ray) : e \in SUBSET Pairs(1..n)}, m \in BOOLEAN}
           : ray \in RaysOf(n)}

SomeViews(n) ==
  UNION {{View(ray, Overlaps(ray), TRUE), View(ray, Pairs(1..n), TRUE),
          View(ray, Overlaps(ray), FALSE)} : ray \in RaysOf(n)}

(* Shape 1 touches all n holes, and these each other as in `graph'. *)
Holes(n, graph, overlapGraph) ==
  View(<<>>, graph \cup {{1, s} : s \in 2..(n + 1)}, overlapGraph)

RingOf(n) == {{s, s + 1} : s \in 2..n} \cup {{n + 1, 2}}

ManyHoles(n) ==
  (IF n \in AnySize THEN {Holes(n, g, TRUE) : g \in SUBSET Pairs(2..(n + 1))} ELSE {})
    \cup (IF n \in RingSizes THEN {Holes(n, RingOf(n), TRUE)} ELSE {})
    \cup (IF n \in CompleteSizes THEN {Holes(n, Pairs(2..(n + 1)), m) : m \in BOOLEAN} ELSE {})

ViewsOf(h) ==
  IF Leaves(h) <= 3 THEN AllViews(Leaves(h)) \cup GoldfeatherViews(Leaves(h))
  ELSE IF h \in {Drilled(4), TwoDrilled, DrilledLens} THEN SomeViews(4) \cup GoldfeatherViews(4)
  ELSE IF Leaves(h) > 5 THEN ManyHoles(Leaves(h) - 1)
  ELSE {}

=============================================================================
