---------------------------- MODULE CsgNormalise -----------------------------
(***************************************************************************)
(* Normalisation of a CSG tree: union, intersection and difference of      *)
(* primitive shapes are rewritten by eight production rules until the tree *)
(* is a union of products, which is then read off and optimised.           *)
(*                                                                         *)
(* Nodes are reference counted and rewritten in place, so what the code    *)
(* transforms is a heap: rules 2, 3 and 5 leave their operand X, and rules *)
(* 7 and 8 their operand Z, with two parents.  A node is named by its      *)
(* place in the heap, the root is node 1, and nothing is ever freed (the   *)
(* reference counts only give storage back).                               *)
(*                                                                         *)
(* The recursive calls of normalise() are an explicit stack.  At most one  *)
(* rule matches a node at any time, so the order in which the code tries   *)
(* them is of no consequence.                                              *)
(***************************************************************************)
EXTENDS Naturals, FiniteSets, SequencesExt

CONSTANT
  Trees    \* the heaps to start from, each the copy of one tree

Node ==
  [type : {"primitive", "union", "intersection", "difference"},
   shape : Nat, left : Nat, right : Nat]

(* A copy is made from the root down: the nodes of the operands come behind, *)
(* and each node but the root is an operand once.                            *)
IsTree(h) ==
  LET Parents == {n \in DOMAIN h : h[n].type # "primitive"} IN
    /\ h \in Seq(Node) /\ h # <<>>
    /\ \A n \in Parents :
         /\ h[n].left \in (n + 1)..Len(h) /\ h[n].right \in (n + 1)..Len(h)
         /\ h[n].left # h[n].right
         /\ \A m \in Parents \ {n} :
              {h[m].left, h[m].right} \cap {h[n].left, h[n].right} = {}

ASSUME TreesAssumption == \A h \in Trees : IsTree(h)

VARIABLES
  heap,    \* the CsgNormalisationNode objects
  stack,   \* the activations of normalise(), innermost last
  sum,     \* the CsgSumOfProducts, once it has been read off
  phase,   \* what csg/test.cpp does with the tree
  origin   \* the heap at the start

csgVars == <<heap, stack, sum, phase, origin>>

-----------------------------------------------------------------------------
(* Nodes. *)

Primitive(s) == [type |-> "primitive", shape |-> s, left |-> 0, right |-> 0]
Parent(t, l, r) == [type |-> t, shape |-> 0, left |-> l, right |-> r]

L(n) == heap[n].left
R(n) == heap[n].right

IsPrimitive(n) == heap[n].type = "primitive"
IsType(n, t)   == heap[n].type = t
RightIs(n, t)  == ~IsPrimitive(n) /\ IsType(R(n), t)
LeftIs(n, t)   == ~IsPrimitive(n) /\ IsType(L(n), t)

-----------------------------------------------------------------------------
(* The production rules, on node n.  A rule that needs a node more has it    *)
(* at the end of the heap.                                                   *)

New == Len(heap) + 1

(* X - (Y + Z)  ->  (X - Y) - Z *)
Rule1(n) ==
  /\ IsType(n, "difference") /\ RightIs(n, "union")
  /\ heap' = Append([heap EXCEPT ![n].left = New, ![n].right = R(R(n))],
                    Parent("difference", L(n), L(R(n))))

(* X op (Y opR Z)  ->  (X op Y) + (X opZ Z), with the node of (Y opR Z) for  *)
(* the second term.                                                          *)
Distribute(n, op, opZ) ==
  heap' = Append([heap EXCEPT ![n].type = "union", ![n].left = New,
                              ![R(n)].type = opZ, ![R(n)].left = L(n)],
                 Parent(op, L(n), L(R(n))))

(* X . (Y + Z)  ->  (X . Y) + (X . Z) *)
Rule2(n) ==
  /\ IsType(n, "intersection") /\ RightIs(n, "union")
  /\ Distribute(n, "intersection", "intersection")

(* X - (Y . Z)  ->  (X - Y) + (X - Z) *)
Rule3(n) ==
  /\ IsType(n, "difference") /\ RightIs(n, "intersection")
  /\ Distribute(n, "difference", "difference")

(* Mistake to be noticed: the second term is a difference. *)
Rule5Difference(n) ==
  /\ IsType(n, "difference") /\ RightIs(n, "difference")
  /\ Distribute(n, "difference", "difference")

(* X - (Y - Z)  ->  (X - Y) + (X . Z) *)
Rule5(n) ==
  /\ IsType(n, "difference") /\ RightIs(n, "difference")
  /\ Distribute(n, "difference", "intersection")

(* X . (Y . Z)  ->  (X . Y) . Z, and X . (Y - Z)  ->  (X . Y) - Z: the two   *)
(* nodes exchange their places and types.                                    *)
Rotate(n) ==
  heap' = [heap EXCEPT ![n] = Parent(heap[R(n)].type, R(n), R(R(n))),
                       ![R(n)] = Parent("intersection", L(n), L(R(n)))]

Rule4(n) ==
  /\ IsType(n, "intersection") /\ RightIs(n, "intersection")
  /\ Rotate(n)

Rule6(n) ==
  /\ IsType(n, "intersection") /\ RightIs(n, "difference")
  /\ Rotate(n)

(* (X + Y) op Z  ->  (X op Z) + (Y op Z), with the node of (X + Y) for the   *)
(* first term.                                                               *)
DistributeLeft(n, op) ==
  heap' = Append([heap EXCEPT ![n].type = "union", ![n].right = New,
                              ![L(n)].type = op, ![L(n)].right = R(n)],
                 Parent(op, R(L(n)), R(n)))

Rule7(n) ==
  /\ IsType(n, "difference") /\ LeftIs(n, "union")
  /\ DistributeLeft(n, "difference")

Rule8(n) ==
  /\ IsType(n, "intersection") /\ LeftIs(n, "union")
  /\ DistributeLeft(n, "intersection")

RightRuleMatches(n) ==
  /\ heap[n].type \in {"intersection", "difference"}
  /\ ~IsPrimitive(R(n))

LeftRuleMatches(n) ==
  /\ heap[n].type \in {"intersection", "difference"}
  /\ IsType(L(n), "union")

-----------------------------------------------------------------------------
(* CsgNormalisationNode::normalise() *)

Call(n) == [node |-> n, at |-> "entry"]
Top     == Last(stack)
Caller  == Front(stack)
GoOn(at) == stack' = Append(Caller, [Top EXCEPT !.at = at])

Running(at) == phase = "normalise" /\ stack # <<>> /\ Top.at = at

(* Primitives, and nodes with two of them, need nothing. *)
Enter ==
  /\ Running("entry")
  /\ IF IsPrimitive(Top.node) \/ (IsPrimitive(L(Top.node)) /\ IsPrimitive(R(Top.node)))
       THEN stack' = Caller
       ELSE GoOn("right rules")
  /\ UNCHANGED <<heap, sum, phase, origin>>

(* The inner loop: rules 1 to 6 as long as one matches. *)
ApplyRightRule ==
  /\ Running("right rules")
  /\ LET n == Top.node IN
       Rule1(n) \/ Rule2(n) \/ Rule3(n) \/ Rule4(n) \/ Rule5(n) \/ Rule6(n)
  /\ UNCHANGED <<stack, sum, phase, origin>>

(* Then rules 7 and 8, and the left operand. *)
ApplyLeftRule ==
  /\ Running("right rules")
  /\ ~RightRuleMatches(Top.node)
  /\ \/ Rule7(Top.node) \/ Rule8(Top.node)
     \/ ~LeftRuleMatches(Top.node) /\ UNCHANGED heap
  /\ stack' = Caller \o <<[Top EXCEPT !.at = "left done"], Call(heap'[Top.node].left)>>
  /\ UNCHANGED <<sum, phase, origin>>

(* Mistake: the loop ends only at a union. *)
LoopEndsAtUnion(n) == IsType(n, "union")

LoopEnds(n) ==
  \/ IsType(n, "union")
  \/ IsPrimitive(R(n)) /\ ~IsPrimitive(L(n)) /\ ~IsType(L(n), "union")

(* The right operand comes last, or the rules are tried once more. *)
LeftDone ==
  /\ Running("left done")
  /\ IF LoopEnds(Top.node)
       THEN stack' = Append(Caller, Call(R(Top.node)))
       ELSE GoOn("right rules")
  /\ UNCHANGED <<heap, sum, phase, origin>>

-----------------------------------------------------------------------------
(* CsgNormalisationNode::normalised() and CsgSumOfProducts *)

Element == [shape : Nat, positive : BOOLEAN]

Negate(p) == [k \in DOMAIN p |-> [p[k] EXCEPT !.positive = ~@]]

(* The sum a node stands for; the products of the operands of a difference   *)
(* or intersection are single.                                               *)
Normalised[n \in Nat] ==
  LET left == Normalised[L(n)] right == Normalised[R(n)] IN
    CASE IsPrimitive(n) -> << <<[shape |-> heap[n].shape, positive |-> TRUE]>> >>
      [] IsType(n, "union") -> left \o right
      [] IsType(n, "difference") -> <<left[1] \o Negate(right[1])>>
      [] IsType(n, "intersection") -> <<left[1] \o right[1]>>

(* The nodes of the tree with root n. *)
ReachableFrom(n) ==
  LET Below[m \in DOMAIN heap] ==
        IF IsPrimitive(m) THEN {m} ELSE {m} \cup Below[L(m)] \cup Below[R(m)]
  IN  Below[n]

(* Its assertions, that these operands are sums of one product. *)
IsSumOfProducts(n) ==
  \A m \in ReachableFrom(n) : heap[m].type \in {"intersection", "difference"} =>
    \A k \in ReachableFrom(m) : ~IsType(k, "union")

(* Mistake: the wrong way round. *)
CoversSwapped(p, other) == ToSet(p) \subseteq ToSet(other)

(* CsgProduct::contains *)
Covers(p, other) == ToSet(other) \subseteq ToSet(p)

(* CsgProduct::optimise: of two elements with one shape, the second is       *)
(* dropped, or the product if they are opposite.                             *)
OptimiseProduct[p \in Seq(Element), i \in Nat] ==
  LET twins == {j \in (i + 1)..Len(p) : p[j].shape = p[i].shape}
      first == CHOOSE j \in twins : \A k \in twins : j <= k
  IN  IF i > Len(p) THEN p
      ELSE IF twins = {} THEN OptimiseProduct[p, i + 1]
      ELSE IF p[first].positive = p[i].positive
        THEN OptimiseProduct[RemoveAt(p, first), i + 1]
      ELSE <<>>

(* The second part of CsgSumOfProducts::optimise: product i is dropped if it *)
(* contains product j, and loses the opposites of j's elements if it has     *)
(* them all.                                                                 *)
Absorb[s \in Seq(Seq(Element)), i \in Nat, j \in Nat] ==
  IF i > Len(s) THEN s
  ELSE IF j > Len(s) THEN Absorb[s, i + 1, 1]
  ELSE IF i = j THEN Absorb[s, i, j + 1]
  ELSE IF Covers(s[i], s[j]) THEN Absorb[RemoveAt(s, i), i, 1]
  ELSE IF Covers(Negate(s[i]), s[j])
    THEN Absorb[[s EXCEPT ![i] = SelectSeq(@, LAMBDA e : e \notin ToSet(Negate(s[j])))],
                i, j + 1]
  ELSE Absorb[s, i, j + 1]

Optimise(s) ==
  LET products == [k \in DOMAIN s |-> OptimiseProduct[s[k], 1]]
  IN  Absorb[SelectSeq(products, LAMBDA p : p # <<>>), 1, 1]

ReadOff ==
  /\ phase = "normalise" /\ stack = <<>>
  /\ IsSumOfProducts(1)
  /\ sum' = Normalised[1]
  /\ phase' = "normalised"
  /\ UNCHANGED <<heap, stack, origin>>

OptimiseSum ==
  /\ phase = "normalised"
  /\ sum' = Optimise(sum)
  /\ phase' = "optimised"
  /\ UNCHANGED <<heap, stack, origin>>

-----------------------------------------------------------------------------

Init ==
  /\ heap \in Trees
  /\ origin = heap
  /\ stack = <<Call(1)>>
  /\ sum = <<>>
  /\ phase = "normalise"

Next ==
  \/ Enter \/ ApplyRightRule \/ ApplyLeftRule \/ LeftDone
  \/ ReadOff \/ OptimiseSum

Spec == Init /\ [][Next]_csgVars

-----------------------------------------------------------------------------
(* Properties. *)

(* What a node makes of the meaning In of its operands.                      *)
Means(h, points, In, n) ==
  CASE h[n].type = "primitive" -> {point \in points : h[n].shape \in point}
    [] h[n].type = "union" -> In[h[n].left] \cup In[h[n].right]
    [] h[n].type = "intersection" -> In[h[n].left] \cap In[h[n].right]
    [] h[n].type = "difference" -> In[h[n].left] \ In[h[n].right]

(* The meaning of a tree: a point is in some of the shapes, and is named by  *)
(* them.  Those of the points given that are in the object.                  *)
Solid(h, points) ==
  LET In[n \in DOMAIN h] == Means(h, points, In, n) IN In[1]

Points == SUBSET {origin[m].shape : m \in {n \in DOMAIN origin : origin[n].type = "primitive"}}

(* The nodes of the tree with node m as an operand. *)
Owners(m) == {n \in ReachableFrom(1) : ~IsPrimitive(n) /\ m \in {L(n), R(n)}}

(* The step rewrites, besides the node it is called for, only an operand     *)
(* which that node does not share with another.                              *)
RewritesOwnOperands ==
  \A m \in DOMAIN heap : heap'[m] # heap[m] => m = Top.node \/ Owners(m) = {Top.node}

(* Each of the eight rules is the identity its comment states.  Rules 1 to 6 *)
(* always are, whatever is shared: the right operand they rewrite never is.  *)
(* Rules 7 and 8 are if no other node has the left operand they rewrite.     *)
RulesAreIdentities ==
  [][ApplyRightRule \/ RewritesOwnOperands
       => Solid(heap', Points) = Solid(heap, Points)]_csgVars

(* When normalise() returns, no union is below a product: the assertions of  *)
(* normalised() hold, which reads the sum off.                               *)
EndsInASum == stack = <<>> => IsSumOfProducts(1)

(* normalise() as a whole keeps the object, as the comments on its rules     *)
(* promise.                                                                  *)
KeepsTheObject == Solid(heap, Points) = Solid(origin, Points)

InProduct(p, point) == \A e \in ToSet(p) : (e.shape \in point) = e.positive

SumIs(h) ==
  {point \in Points : \E p \in ToSet(sum) : InProduct(p, point)} = Solid(h, Points)

(* The shapes that a sum has both intersected and subtracted.                *)
BothSigns(s) ==
  LET elements == UNION {ToSet(p) : p \in ToSet(s)}
  IN  {e.shape : e \in {f \in elements : [f EXCEPT !.positive = ~@] \in elements}}

(* What optimise() can be trusted with.  One shape at most is intersected    *)
(* here and subtracted there: where it is several, a product may lose the    *)
(* opposites of several elements of another at once (element.cpp, 311), and  *)
(* A + A'.B => A + B is right for one.  And no product has a shape three     *)
(* times: of A.A.A' the second is erased and the third not looked at         *)
(* (element.cpp, 149).                                                       *)
Optimisable(s) ==
  /\ Cardinality(BothSigns(s)) <= 1
  /\ \A p \in ToSet(s) : \A e \in ToSet(p) :
       Cardinality({k \in DOMAIN p : p[k].shape = e.shape}) <= 2

(* The sum read off from the rewritten tree and optimised is the object of   *)
(* that tree, primitives repeated or not, if the sum is Optimisable.  (The   *)
(* tree is left alone by the optimisation: Normalised[1] is the sum before.) *)
OptimisedIsTheTree ==
  phase = "optimised" /\ Optimisable(Normalised[1]) => SumIs(heap)

(* The same for every tree.  The code breaks it: (A - B) + (B - A), A.B' and *)
(* B.A', becomes everything.                                                 *)
OptimisedIsAlwaysTheTree == phase = "optimised" => SumIs(heap)

(* The rewriting ends, in a union of products as normalised() asserts, and   *)
(* the sum is read off and optimised.                                        *)
Terminates == <>(phase = "optimised")

=============================================================================
