------------------------- MODULE CsgNormaliseProofs -------------------------
(***************************************************************************)
(* Proofs about CsgNormalise, for trees of any size: nodes are shared, but  *)
(* never in a circle, each of the eight rules is an identity, and the tree  *)
(* normalise() leaves is a union of products.                               *)
(***************************************************************************)
EXTENDS CsgNormalise, ListLemmas

-----------------------------------------------------------------------------
(* The shape of the heap. *)

Prim(h, n) == h[n].type = "primitive"
IsOp(h, n) == h[n].type \in {"intersection", "difference"}

Owns(h, m, c) == ~Prim(h, m) /\ (h[m].left = c \/ h[m].right = c)

(* No node is below itself: each parent has a higher rank than its operands. *)
Ranked(h, r, b) ==
  /\ b \in Nat /\ r \in [DOMAIN h -> 0..b]
  /\ \A n \in DOMAIN h : Prim(h, n) => r[n] = 0
  /\ \A n \in DOMAIN h : \A c : Owns(h, n, c) => c \in DOMAIN h /\ r[c] < r[n]

(* T are parents that normalise() has not come to; they have one owner each, *)
(* and all below them is such, too.  The right operand of a difference or    *)
(* intersection is always one of them, or a primitive.  D are nodes that     *)
(* nobody has any more.                                                      *)
Shaped(h, T, D) ==
  /\ T \subseteq DOMAIN h /\ D \subseteq DOMAIN h
  /\ T \cap D = {}
  /\ 1 \notin T \cup D
  /\ \A n \in T \cup D : ~Prim(h, n)
  /\ \A t \in T : \A c : Owns(h, t, c) => c \in T \/ Prim(h, c)
  /\ \A t \in T, m, k \in DOMAIN h \ D :
       Owns(h, m, t) /\ Owns(h, k, t) => m = k /\ h[m].left # h[m].right
  /\ \A m \in DOMAIN h \ D : IsOp(h, m) => h[m].right \in T \/ Prim(h, h[m].right)
  /\ \A m \in DOMAIN h \ D : \A c : Owns(h, m, c) => c \notin D

(* normalise() comes to a node: it is not the right operand of a difference  *)
(* or intersection, and no node of T has it.                                 *)
LEMMA LeavesTree ==
  ASSUME NEW h, NEW T, NEW D, Shaped(h, T, D), NEW c,
         \A m \in DOMAIN h \ D : Owns(h, m, c) => m \notin T,
         \A m \in DOMAIN h \ D : IsOp(h, m) /\ c \in T => h[m].right # c
  PROVE  Shaped(h, T \ {c}, D)
<1> USE DEF Shaped
<1>1. \A t \in T \ {c} : \A e : Owns(h, t, e) => e \in T \ {c} \/ Prim(h, e)
  OBVIOUS
<1>2. \A m \in DOMAIN h \ D : IsOp(h, m) => h[m].right \in T \ {c} \/ Prim(h, h[m].right)
  OBVIOUS
<1> QED
  BY <1>1, <1>2

(* So it is with an operand of a node that normalise() has come to, the left *)
(* one or one of a union.                                                    *)
LEMMA OperandLeavesTree ==
  ASSUME NEW h, NEW T, NEW D, Shaped(h, T, D),
         NEW n \in DOMAIN h \ (T \cup D), ~Prim(h, n),
         NEW c, Owns(h, n, c), IsOp(h, n) => c = h[n].left
  PROVE  Shaped(h, T \ {c}, D)
<1>1. CASE c \in T
  <2>1. \A m \in DOMAIN h \ D : Owns(h, m, c) => m = n /\ h[m].left # h[m].right
    BY <1>1 DEF Shaped
  <2>2. \A m \in DOMAIN h \ D : IsOp(h, m) /\ h[m].right = c => Owns(h, m, c)
    BY DEF IsOp, Owns, Prim
  <2>3. \A m \in DOMAIN h \ D : IsOp(h, m) => h[m].right # c
    BY <2>1, <2>2
  <2> QED
    BY <2>1, <2>3, LeavesTree
<1>2. CASE c \notin T
  <2>1. T \ {c} = T
    BY <1>2
  <2> QED
    BY <2>1
<1> QED
  BY <1>1, <1>2

-----------------------------------------------------------------------------
(* What the rules make of the node n, its operand c and a new node. *)

(* X - (Y + Z)  ->  (X - Y) - Z *)
Nests(h, n, c, new, g) ==
  /\ h[n].type = "difference" /\ c = h[n].right /\ h[c].type = "union"
  /\ new \notin DOMAIN h /\ DOMAIN g = DOMAIN h \cup {new}
  /\ \A m \in DOMAIN h \ {n} : g[m] = h[m]
  /\ g[n].type = "difference" /\ g[n].left = new /\ g[n].right = h[c].right
  /\ g[new].type = "difference" /\ g[new].left = h[n].left /\ g[new].right = h[c].left

(* X op (Y opR Z)  ->  (X op Y) + (X opZ Z) *)
Distributes(h, n, c, new, g) ==
  /\ c = h[n].right
  /\ \/ h[n].type = "intersection" /\ h[c].type = "union" /\ g[c].type = "intersection"
     \/ h[n].type = "difference" /\ h[c].type = "intersection" /\ g[c].type = "difference"
     \/ h[n].type = "difference" /\ h[c].type = "difference" /\ g[c].type = "intersection"
  /\ new \notin DOMAIN h /\ DOMAIN g = DOMAIN h \cup {new}
  /\ \A m \in DOMAIN h \ {n, c} : g[m] = h[m]
  /\ g[n].type = "union" /\ g[n].left = new /\ g[n].right = c
  /\ g[c].left = h[n].left /\ g[c].right = h[c].right
  /\ g[new].type = h[n].type /\ g[new].left = h[n].left /\ g[new].right = h[c].left

(* X . (Y opR Z)  ->  (X . Y) opR Z *)
Rotates(h, n, c, g) ==
  /\ h[n].type = "intersection" /\ c = h[n].right /\ IsOp(h, c)
  /\ DOMAIN g = DOMAIN h
  /\ \A m \in DOMAIN h \ {n, c} : g[m] = h[m]
  /\ g[n].type = h[c].type /\ g[n].left = c /\ g[n].right = h[c].right
  /\ g[c].type = "intersection" /\ g[c].left = h[n].left /\ g[c].right = h[c].left

(* (A + B) op Z  ->  (A op Z) + (B op Z) *)
DistributesLeft(h, n, c, new, g) ==
  /\ IsOp(h, n) /\ c = h[n].left /\ h[c].type = "union" /\ Prim(h, h[n].right)
  /\ new \notin DOMAIN h /\ DOMAIN g = DOMAIN h \cup {new}
  /\ \A m \in DOMAIN h \ {n, c} : g[m] = h[m]
  /\ g[n].type = "union" /\ g[n].left = c /\ g[n].right = new
  /\ g[c].type = h[n].type /\ g[c].left = h[c].left /\ g[c].right = h[n].right
  /\ g[new].type = h[n].type /\ g[new].left = h[c].right /\ g[new].right = h[n].right

-----------------------------------------------------------------------------
(* What the rules make of the shape. *)

(* X - (Y + Z)  ->  (X - Y) - Z: the union is nobody's any more. *)
LEMMA Rule1Shape ==
  ASSUME NEW h, NEW T, NEW D, Shaped(h, T, D), NEW r, NEW b, Ranked(h, r, b),
         NEW n \in DOMAIN h \ (T \cup D), NEW c, NEW new, NEW g,
         Nests(h, n, c, new, g)
  PROVE  \E U, E : Shaped(g, U, E) /\ U \subseteq T /\ E \subseteq D \cup T
<1> USE DEF Nests
<1>1. c \in T /\ c \in DOMAIN h /\ c # n
  BY DEF Shaped, Ranked, Owns, IsOp, Prim
<1>2. /\ h[n].left \in DOMAIN h /\ h[c].left \in DOMAIN h /\ h[c].right \in DOMAIN h
      /\ n \notin {h[n].left, h[c].left, h[c].right}
      /\ c \notin {h[c].left, h[c].right}
  BY <1>1 DEF Ranked, Owns, Prim
<1>3. /\ \A m \in DOMAIN h \ D : Owns(h, m, c) => m = n
      /\ h[n].left # c
  BY <1>1 DEF Shaped, Owns, Prim
<1> DEFINE U == T \ {c}
           E == D \cup {c}
<1>4. /\ \A m \in DOMAIN h \ {n} : Prim(g, m) <=> Prim(h, m)
      /\ ~Prim(g, n) /\ ~Prim(g, new) /\ ~Prim(h, n) /\ ~Prim(h, c)
  BY DEF Prim
<1>5. /\ \A m \in DOMAIN h \ {n} : \A x : Owns(g, m, x) <=> Owns(h, m, x)
      /\ \A x : Owns(g, n, x) <=> x \in {new, h[c].right}
      /\ \A x : Owns(g, new, x) <=> x \in {h[n].left, h[c].left}
      /\ \A x : Owns(h, n, x) <=> x \in {h[n].left, c}
      /\ \A x : Owns(h, c, x) <=> x \in {h[c].left, h[c].right}
  BY <1>4 DEF Owns
<1>6. /\ U \subseteq DOMAIN g /\ E \subseteq DOMAIN g /\ U \cap E = {}
      /\ 1 \notin U \cup E /\ \A m \in U \cup E : ~Prim(g, m)
      /\ n \notin U \cup E /\ new \notin U \cup E
  BY <1>1, <1>4 DEF Shaped
<1>7. \A t \in U : \A x : Owns(g, t, x) => x \in U \/ Prim(g, x)
  <2> SUFFICES ASSUME NEW t \in U, NEW x, Owns(g, t, x)
               PROVE  x \in U \/ Prim(g, x)
    OBVIOUS
  <2>1. Owns(h, t, x) /\ x \in DOMAIN h
    BY <1>5, <1>6 DEF Shaped, Ranked
  <2>2. (x \in T \/ Prim(h, x)) /\ x # c /\ x # n
    BY <1>3, <1>4, <1>6, <2>1 DEF Shaped
  <2> QED
    BY <1>4, <2>1, <2>2
<1>8. \A t \in U, m, k \in DOMAIN g \ E :
        Owns(g, m, t) /\ Owns(g, k, t) => m = k /\ g[m].left # g[m].right
  <2> SUFFICES ASSUME NEW t \in U, NEW m \in DOMAIN g \ E, NEW k \in DOMAIN g \ E,
                      Owns(g, m, t), Owns(g, k, t)
               PROVE  m = k /\ g[m].left # g[m].right
    OBVIOUS
  <2>1. t \in T /\ t \in DOMAIN h /\ t # new
    BY <1>6 DEF Shaped
  <2>2. \A p, q \in DOMAIN h \ D :
          Owns(h, p, t) /\ Owns(h, q, t) => p = q /\ h[p].left # h[p].right
    BY <2>1 DEF Shaped
  <2>3. n \in DOMAIN h \ D /\ c \in DOMAIN h \ D /\ n # c
    BY <1>1 DEF Shaped
  <2>4. \A x \in DOMAIN g \ E : x \notin {n, new} => x \in DOMAIN h \ D /\ x # c
    BY <1>6
  <2>5. \A x \in DOMAIN g \ E : x \notin {n, new} /\ Owns(g, x, t) => Owns(h, x, t)
    BY <1>5, <2>4
  <2>6. ~(Owns(g, n, t) /\ Owns(g, new, t))
    BY <1>5, <2>1, <2>2, <2>3
  <2>7. \A x \in DOMAIN g \ E : x \notin {n, new} /\ Owns(g, x, t)
          => ~Owns(g, n, t) /\ ~Owns(g, new, t)
    BY <1>5, <2>1, <2>2, <2>3, <2>4, <2>5
  <2>8. m = k
    BY <2>2, <2>4, <2>5, <2>6, <2>7
  <2>9. CASE m = n
    BY <1>2, <2>8, <2>9
  <2>10. CASE m = new
    <3>1. ~(t = h[n].left /\ t = h[c].left)
      BY <1>5, <2>2, <2>3
    <3> QED
      BY <1>5, <2>8, <2>10, <3>1
  <2>11. CASE m \notin {n, new}
    <3>1. Owns(h, m, t) /\ g[m] = h[m] /\ m \in DOMAIN h \ D
      BY <2>4, <2>5, <2>11
    <3> QED
      BY <2>2, <2>8, <3>1
  <2> QED
    BY <2>8, <2>9, <2>10, <2>11
<1>9. \A m \in DOMAIN g \ E : IsOp(g, m) => g[m].right \in U \/ Prim(g, g[m].right)
  <2> SUFFICES ASSUME NEW m \in DOMAIN g \ E, IsOp(g, m)
               PROVE  g[m].right \in U \/ Prim(g, g[m].right)
    OBVIOUS
  <2>1. \A x \in {h[c].left, h[c].right} : x \in U \/ Prim(g, x)
    BY <1>1, <1>2, <1>4, <1>5 DEF Shaped
  <2>2. CASE m \in {n, new}
    BY <2>1, <2>2
  <2>3. CASE m \notin {n, new}
    <3>1. g[m] = h[m] /\ m \in DOMAIN h \ D /\ IsOp(h, m)
      BY <2>3 DEF IsOp
    <3>2. Owns(h, m, h[m].right) /\ h[m].right \in DOMAIN h
      BY <3>1 DEF Owns, Prim, IsOp, Ranked
    <3>3. (h[m].right \in T \/ Prim(h, h[m].right)) /\ h[m].right # c
      BY <1>3, <2>3, <3>1, <3>2 DEF Shaped
    <3> QED
      BY <1>4, <3>1, <3>2, <3>3
  <2> QED
    BY <2>2, <2>3
<1>10. \A m \in DOMAIN g \ E : \A x : Owns(g, m, x) => x \notin E
  BY <1>1, <1>2, <1>3, <1>4, <1>5, <1>6 DEF Shaped
<1> HIDE DEF U, E
<1>11. Shaped(g, U, E)
  BY <1>6, <1>7, <1>8, <1>9, <1>10 DEF Shaped
<1>12. U \subseteq T /\ E \subseteq D \cup T
  BY <1>1 DEF U, E
<1> QED
  BY <1>11, <1>12

(* X op (Y opR Z)  ->  (X op Y) + (X opZ Z): X gets a second owner. *)
LEMMA DistributeShape ==
  ASSUME NEW h, NEW T, NEW D, Shaped(h, T, D), NEW r, NEW b, Ranked(h, r, b),
         NEW n \in DOMAIN h \ (T \cup D), NEW c, NEW new, NEW g,
         Distributes(h, n, c, new, g)
  PROVE  \E U : Shaped(g, U, D) /\ U \subseteq T
<1>0. IsOp(h, n) /\ ~Prim(h, c) /\ IsOp(g, c) /\ IsOp(g, new)
  BY DEF Distributes, IsOp, Prim
<1> USE <1>0 DEF Distributes
<1>1. c \in T /\ c \in DOMAIN h /\ c # n /\ ~Prim(h, n)
  BY DEF Shaped, Ranked, Owns, IsOp, Prim
<1>2. /\ h[n].left \in DOMAIN h /\ h[c].left \in DOMAIN h /\ h[c].right \in DOMAIN h
      /\ n \notin {h[n].left, h[c].left, h[c].right}
      /\ c \notin {h[c].left, h[c].right}
  BY <1>1 DEF Ranked, Owns, Prim
<1>3. /\ \A m \in DOMAIN h \ D : Owns(h, m, c) => m = n
      /\ h[n].left # c
  BY <1>1 DEF Shaped, Owns, Prim
<1> DEFINE X == h[n].left
           Y == h[c].left
           Z == h[c].right
           U == T \ {c, X}
<1>4. /\ \A m \in DOMAIN h : Prim(g, m) <=> Prim(h, m)
      /\ ~Prim(g, n) /\ ~Prim(g, c) /\ ~Prim(g, new)
  BY <1>1 DEF Prim, IsOp
<1>5. /\ \A m \in DOMAIN h \ {n, c} : \A x : Owns(g, m, x) <=> Owns(h, m, x)
      /\ \A x : Owns(g, n, x) <=> x \in {new, c}
      /\ \A x : Owns(g, c, x) <=> x \in {X, Z}
      /\ \A x : Owns(g, new, x) <=> x \in {X, Y}
      /\ \A x : Owns(h, n, x) <=> x \in {X, c}
      /\ \A x : Owns(h, c, x) <=> x \in {Y, Z}
  BY <1>1, <1>4 DEF Owns
<1>6. /\ U \subseteq DOMAIN g /\ D \subseteq DOMAIN g /\ U \cap D = {}
      /\ 1 \notin U \cup D /\ \A m \in U \cup D : ~Prim(g, m)
      /\ n \notin U \cup D /\ new \notin U \cup D /\ c \notin U
  BY <1>1, <1>4 DEF Shaped
<1>7. \A m \in DOMAIN h \ D : Owns(h, m, X) /\ X \in T => m = n
  BY <1>5 DEF Shaped
<1>8. \A t \in U : \A x : Owns(g, t, x) => x \in U \/ Prim(g, x)
  <2> SUFFICES ASSUME NEW t \in U, NEW x, Owns(g, t, x)
               PROVE  x \in U \/ Prim(g, x)
    OBVIOUS
  <2>1. Owns(h, t, x) /\ x \in DOMAIN h /\ t \in DOMAIN h \ D /\ t # n
    BY <1>5, <1>6 DEF Shaped, Ranked
  <2>2. (x \in T \/ Prim(h, x)) /\ x # c /\ ~(x = X /\ X \in T)
    BY <1>3, <1>7, <2>1 DEF Shaped
  <2> QED
    BY <1>4, <2>1, <2>2
<1>9. Y \in U \/ Prim(g, Y)
  <2>1. Y \in T \/ Prim(h, Y)
    BY <1>1, <1>5 DEF Shaped
  <2>2. ~(Y = X /\ X \in T)
    BY <1>1, <1>5, <1>7 DEF Shaped
  <2> QED
    BY <1>2, <1>4, <2>1, <2>2
<1>10. Z \in U \/ Prim(g, Z)
  <2>1. Z \in T \/ Prim(h, Z)
    BY <1>1, <1>5 DEF Shaped
  <2>2. ~(Z = X /\ X \in T)
    BY <1>1, <1>5, <1>7 DEF Shaped
  <2> QED
    BY <1>2, <1>4, <2>1, <2>2
<1>11. \A t \in U, m, k \in DOMAIN g \ D :
        Owns(g, m, t) /\ Owns(g, k, t) => m = k /\ g[m].left # g[m].right
  <2> SUFFICES ASSUME NEW t \in U, NEW m \in DOMAIN g \ D, NEW k \in DOMAIN g \ D,
                      Owns(g, m, t), Owns(g, k, t)
               PROVE  m = k /\ g[m].left # g[m].right
    OBVIOUS
  <2>1. t \in T /\ t \in DOMAIN h /\ t \notin {new, c, X}
    BY <1>6 DEF Shaped
  <2>2. \A p, q \in DOMAIN h \ D :
          Owns(h, p, t) /\ Owns(h, q, t) => p = q /\ h[p].left # h[p].right
    BY <2>1 DEF Shaped
  <2>3. c \in DOMAIN h \ D
    BY <1>1 DEF Shaped
  <2>4. \A x \in DOMAIN g \ D : x # new => x \in DOMAIN h \ D
    OBVIOUS
  <2>5. /\ \A x \in DOMAIN g \ D : Owns(g, x, t) /\ x # new => Owns(h, x, t) /\ x # n
        /\ Owns(g, new, t) => t = Y /\ Owns(h, c, t)
        /\ Owns(g, c, t) => t = Z /\ Owns(h, c, t)
    BY <1>5, <2>1, <2>4
  <2>6. ~(Owns(g, new, t) /\ Owns(g, c, t))
    BY <2>2, <2>3, <2>5
  <2>7. \A x \in DOMAIN g \ D : x # new /\ Owns(g, x, t) => ~Owns(g, new, t)
    BY <2>2, <2>3, <2>4, <2>5, <2>6
  <2>8. m = k
    BY <2>2, <2>4, <2>5, <2>7
  <2>9. CASE m \in {new, c}
    <3>1. X # Y \/ m # new
      BY <2>1, <2>5
    <3>2. X # Z \/ m # c
      BY <2>1, <2>5
    <3> QED
      BY <2>8, <2>9, <3>1, <3>2
  <2>10. CASE m \notin {new, c}
    <3>1. Owns(h, m, t) /\ g[m] = h[m] /\ m \in DOMAIN h \ D
      BY <2>4, <2>5, <2>10
    <3> QED
      BY <2>2, <2>8, <3>1
  <2> QED
    BY <2>9, <2>10
<1>12. \A m \in DOMAIN g \ D : IsOp(g, m) => g[m].right \in U \/ Prim(g, g[m].right)
  <2> SUFFICES ASSUME NEW m \in DOMAIN g \ D, IsOp(g, m)
               PROVE  g[m].right \in U \/ Prim(g, g[m].right)
    OBVIOUS
  <2>1. CASE m \in {n, c, new}
    BY <1>9, <1>10, <2>1 DEF IsOp
  <2>2. CASE m \notin {n, c, new}
    <3>1. g[m] = h[m] /\ m \in DOMAIN h \ D /\ IsOp(h, m)
      BY <2>2 DEF IsOp
    <3>2. Owns(h, m, h[m].right) /\ h[m].right \in DOMAIN h
      BY <3>1 DEF Owns, Prim, IsOp, Ranked
    <3>3. (h[m].right \in T \/ Prim(h, h[m].right)) /\ h[m].right # c
          /\ ~(h[m].right = X /\ X \in T)
      BY <1>3, <1>7, <2>2, <3>1, <3>2 DEF Shaped
    <3> QED
      BY <1>4, <3>1, <3>2, <3>3
  <2> QED
    BY <2>1, <2>2
<1>13. \A m \in DOMAIN g \ D : \A x : Owns(g, m, x) => x \notin D
  <2>1. c \notin D /\ new \notin D /\ n \notin D
    BY <1>1 DEF Shaped
  <2>2. X \notin D /\ Y \notin D /\ Z \notin D
    BY <1>1, <1>5, <2>1 DEF Shaped
  <2> QED
    BY <1>5, <2>1, <2>2 DEF Shaped
<1> HIDE DEF U
<1>14. Shaped(g, U, D)
  BY <1>6, <1>8, <1>11, <1>12, <1>13 DEF Shaped
<1>15. U \subseteq T
  BY DEF U
<1> QED
  BY <1>14, <1>15

(* X . (Y opR Z)  ->  (X . Y) opR Z: the nodes exchange their places. *)
LEMMA RotateShape ==
  ASSUME NEW h, NEW T, NEW D, Shaped(h, T, D), NEW r, NEW b, Ranked(h, r, b),
         NEW n \in DOMAIN h \ (T \cup D), NEW c, NEW g,
         Rotates(h, n, c, g)
  PROVE  \E U : Shaped(g, U, D) /\ U \subseteq T
<1>0. IsOp(h, n) /\ ~Prim(h, c) /\ IsOp(g, n) /\ IsOp(g, c)
  BY DEF Rotates, IsOp, Prim
<1> USE <1>0 DEF Rotates
<1>1. c \in T /\ c \in DOMAIN h /\ c # n /\ ~Prim(h, n)
  BY DEF Shaped, Ranked, Owns, IsOp, Prim
<1>2. /\ h[n].left \in DOMAIN h /\ h[c].left \in DOMAIN h /\ h[c].right \in DOMAIN h
      /\ n \notin {h[n].left, h[c].left, h[c].right}
      /\ c \notin {h[c].left, h[c].right}
  BY <1>1 DEF Ranked, Owns, Prim
<1>3. /\ \A m \in DOMAIN h \ D : Owns(h, m, c) => m = n
      /\ h[n].left # c
  BY <1>1 DEF Shaped, Owns, Prim
<1> DEFINE X == h[n].left
           Y == h[c].left
           Z == h[c].right
           U == T \ {c}
<1>4. /\ \A m \in DOMAIN h : Prim(g, m) <=> Prim(h, m)
      /\ ~Prim(g, n) /\ ~Prim(g, c)
  BY <1>1 DEF Prim, IsOp
<1>5. /\ \A m \in DOMAIN h \ {n, c} : \A x : Owns(g, m, x) <=> Owns(h, m, x)
      /\ \A x : Owns(g, n, x) <=> x \in {c, Z}
      /\ \A x : Owns(g, c, x) <=> x \in {X, Y}
      /\ \A x : Owns(h, n, x) <=> x \in {X, c}
      /\ \A x : Owns(h, c, x) <=> x \in {Y, Z}
  BY <1>1, <1>4 DEF Owns
<1>6. /\ U \subseteq DOMAIN g /\ D \subseteq DOMAIN g /\ U \cap D = {}
      /\ 1 \notin U \cup D /\ \A m \in U \cup D : ~Prim(g, m)
      /\ n \notin U \cup D /\ c \notin U
  BY <1>1, <1>4 DEF Shaped
<1>7. \A t \in U : \A x : Owns(g, t, x) => x \in U \/ Prim(g, x)
  <2> SUFFICES ASSUME NEW t \in U, NEW x, Owns(g, t, x)
               PROVE  x \in U \/ Prim(g, x)
    OBVIOUS
  <2>1. Owns(h, t, x) /\ x \in DOMAIN h /\ t \in DOMAIN h \ D /\ t # n
    BY <1>5, <1>6 DEF Shaped, Ranked
  <2>2. (x \in T \/ Prim(h, x)) /\ x # c
    BY <1>3, <2>1 DEF Shaped
  <2> QED
    BY <1>4, <2>1, <2>2
<1>8. (Y \in U \/ Prim(g, Y)) /\ (Z \in U \/ Prim(g, Z))
  BY <1>1, <1>2, <1>4, <1>5 DEF Shaped
<1>9. \A t \in U, m, k \in DOMAIN g \ D :
        Owns(g, m, t) /\ Owns(g, k, t) => m = k /\ g[m].left # g[m].right
  <2> SUFFICES ASSUME NEW t \in U, NEW m \in DOMAIN g \ D, NEW k \in DOMAIN g \ D,
                      Owns(g, m, t), Owns(g, k, t)
               PROVE  m = k /\ g[m].left # g[m].right
    OBVIOUS
  <2>1. t \in T /\ t \in DOMAIN h /\ t # c
    BY <1>6 DEF Shaped
  <2>2. \A p, q \in DOMAIN h \ D :
          Owns(h, p, t) /\ Owns(h, q, t) => p = q /\ h[p].left # h[p].right
    BY <2>1 DEF Shaped
  <2>3. c \in DOMAIN h \ D /\ n \in DOMAIN h \ D /\ n # c
    BY <1>1 DEF Shaped
  <2>4. /\ Owns(g, n, t) => t = Z /\ Owns(h, c, t)
        /\ Owns(g, c, t) => (t = X /\ Owns(h, n, t)) \/ (t = Y /\ Owns(h, c, t))
        /\ \A x \in DOMAIN g \ D : Owns(g, x, t) /\ x \notin {n, c} => Owns(h, x, t)
    BY <1>5, <2>1
  <2>5. ~(Owns(g, n, t) /\ Owns(g, c, t))
    BY <2>2, <2>3, <2>4
  <2>6. \A x \in DOMAIN g \ D : x \notin {n, c} /\ Owns(g, x, t)
          => ~Owns(g, n, t) /\ ~Owns(g, c, t)
    BY <2>2, <2>3, <2>4
  <2>7. m = k
    BY <2>2, <2>4, <2>5, <2>6
  <2>8. CASE m = n
    BY <1>2, <2>7, <2>8
  <2>9. CASE m = c
    <3>1. X # Y
      BY <1>5, <2>2, <2>3, <2>4, <2>9
    <3> QED
      BY <2>7, <2>9, <3>1
  <2>10. CASE m \notin {n, c}
    <3>1. Owns(h, m, t) /\ g[m] = h[m] /\ m \in DOMAIN h \ D
      BY <2>4, <2>10
    <3> QED
      BY <2>2, <2>7, <3>1
  <2> QED
    BY <2>8, <2>9, <2>10
<1>10. \A m \in DOMAIN g \ D : IsOp(g, m) => g[m].right \in U \/ Prim(g, g[m].right)
  <2> SUFFICES ASSUME NEW m \in DOMAIN g \ D, IsOp(g, m)
               PROVE  g[m].right \in U \/ Prim(g, g[m].right)
    OBVIOUS
  <2>1. CASE m \in {n, c}
    BY <1>8, <2>1
  <2>2. CASE m \notin {n, c}
    <3>1. g[m] = h[m] /\ m \in DOMAIN h \ D /\ IsOp(h, m)
      BY <2>2 DEF IsOp
    <3>2. Owns(h, m, h[m].right) /\ h[m].right \in DOMAIN h
      BY <3>1 DEF Owns, Prim, IsOp, Ranked
    <3>3. (h[m].right \in T \/ Prim(h, h[m].right)) /\ h[m].right # c
      BY <1>3, <2>2, <3>1, <3>2 DEF Shaped
    <3> QED
      BY <1>4, <3>1, <3>2, <3>3
  <2> QED
    BY <2>1, <2>2
<1>11. \A m \in DOMAIN g \ D : \A x : Owns(g, m, x) => x \notin D
  <2>1. c \notin D /\ n \notin D
    BY <1>1 DEF Shaped
  <2>2. X \notin D /\ Y \notin D /\ Z \notin D
    BY <1>1, <1>5, <2>1 DEF Shaped
  <2> QED
    BY <1>5, <2>1, <2>2 DEF Shaped
<1> HIDE DEF U
<1>12. Shaped(g, U, D)
  BY <1>6, <1>7, <1>9, <1>10, <1>11 DEF Shaped
<1>13. U \subseteq T
  BY DEF U
<1> QED
  BY <1>12, <1>13

(* (A + B) op Z  ->  (A op Z) + (B op Z): Z, a primitive by now, gets a second *)
(* owner.  The union may have others; they have (A op Z) then.                 *)
LEMMA DistributeLeftShape ==
  ASSUME NEW h, NEW T, NEW D, Shaped(h, T, D), NEW r, NEW b, Ranked(h, r, b),
         NEW n \in DOMAIN h \ (T \cup D), NEW c, NEW new, NEW g,
         DistributesLeft(h, n, c, new, g)
  PROVE  \E U : Shaped(g, U, D) /\ U \subseteq T
<1>0. IsOp(g, c) /\ IsOp(g, new)
  BY DEF DistributesLeft, IsOp
<1> USE <1>0 DEF DistributesLeft
<1> DEFINE A == h[c].left
           B == h[c].right
           Z == h[n].right
           U == T \ {c}
<1>1. c \in DOMAIN h \ D /\ c # n /\ ~Prim(h, n) /\ ~Prim(h, c) /\ c # Z
  BY DEF Shaped, Ranked, Owns, IsOp, Prim
<1>2. /\ A \in DOMAIN h /\ B \in DOMAIN h /\ Z \in DOMAIN h
      /\ n \notin {A, B, Z} /\ c \notin {A, B, Z}
  BY <1>1 DEF Ranked, Owns, Prim
<1>3. c \in T => \A m \in DOMAIN h \ D : Owns(h, m, c) => m = n
  BY <1>1 DEF Shaped, Owns
<1>4. /\ \A m \in DOMAIN h : Prim(g, m) <=> Prim(h, m)
      /\ ~Prim(g, n) /\ ~Prim(g, c) /\ ~Prim(g, new) /\ Prim(g, Z) /\ Z \notin T \cup D
  BY <1>1, <1>2 DEF Prim, IsOp, Shaped
<1>5. /\ \A m \in DOMAIN h \ {n, c} : \A x : Owns(g, m, x) <=> Owns(h, m, x)
      /\ \A x : Owns(g, n, x) <=> x \in {new, c}
      /\ \A x : Owns(g, c, x) <=> x \in {A, Z}
      /\ \A x : Owns(g, new, x) <=> x \in {B, Z}
      /\ \A x : Owns(h, n, x) <=> x \in {c, Z}
      /\ \A x : Owns(h, c, x) <=> x \in {A, B}
  BY <1>1, <1>4 DEF Owns
<1>6. /\ U \subseteq DOMAIN g /\ D \subseteq DOMAIN g /\ U \cap D = {}
      /\ 1 \notin U \cup D /\ \A m \in U \cup D : ~Prim(g, m)
      /\ n \notin U \cup D /\ new \notin U \cup D /\ c \notin U
  BY <1>1, <1>4 DEF Shaped
<1>7. \A t \in U : \A x : Owns(g, t, x) => x \in U \/ Prim(g, x)
  <2> SUFFICES ASSUME NEW t \in U, NEW x, Owns(g, t, x)
               PROVE  x \in U \/ Prim(g, x)
    OBVIOUS
  <2>1. Owns(h, t, x) /\ x \in DOMAIN h /\ t \in DOMAIN h \ D /\ t # n /\ t \in T
    BY <1>5, <1>6 DEF Shaped, Ranked
  <2>2. (x \in T \/ Prim(h, x)) /\ x # c
    BY <1>1, <1>3, <2>1 DEF Shaped
  <2> QED
    BY <1>4, <2>1, <2>2
<1>8. \A t \in U, m, k \in DOMAIN g \ D :
        Owns(g, m, t) /\ Owns(g, k, t) => m = k /\ g[m].left # g[m].right
  <2> SUFFICES ASSUME NEW t \in U, NEW m \in DOMAIN g \ D, NEW k \in DOMAIN g \ D,
                      Owns(g, m, t), Owns(g, k, t)
               PROVE  m = k /\ g[m].left # g[m].right
    OBVIOUS
  <2>1. t \in T /\ t \in DOMAIN h /\ t \notin {new, c, Z}
    BY <1>4, <1>6 DEF Shaped
  <2>2. \A p, q \in DOMAIN h \ D :
          Owns(h, p, t) /\ Owns(h, q, t) => p = q /\ h[p].left # h[p].right
    BY <2>1 DEF Shaped
  <2>3. c \in DOMAIN h \ D /\ n \in DOMAIN h \ D /\ n # c
    BY <1>1
  <2>4. /\ ~Owns(g, n, t)
        /\ Owns(g, c, t) => t = A /\ Owns(h, c, t)
        /\ Owns(g, new, t) => t = B /\ Owns(h, c, t)
        /\ \A x \in DOMAIN g \ D : Owns(g, x, t) /\ x \notin {n, c, new}
             => Owns(h, x, t) /\ x \in DOMAIN h \ D
    BY <1>5, <2>1
  <2>5. ~(Owns(g, new, t) /\ Owns(g, c, t))
    BY <2>2, <2>3, <2>4
  <2>6. \A x \in DOMAIN g \ D : x \notin {n, c, new} /\ Owns(g, x, t)
          => ~Owns(g, new, t) /\ ~Owns(g, c, t)
    BY <2>2, <2>3, <2>4
  <2>7. m = k
    BY <2>2, <2>4, <2>5, <2>6
  <2>8. CASE m \in {c, new}
    BY <2>1, <2>4, <2>7, <2>8
  <2>9. CASE m \notin {n, c, new}
    <3>1. Owns(h, m, t) /\ g[m] = h[m] /\ m \in DOMAIN h \ D
      BY <2>4, <2>9
    <3> QED
      BY <2>2, <2>7, <3>1
  <2> QED
    BY <2>4, <2>8, <2>9
<1>9. \A m \in DOMAIN g \ D : IsOp(g, m) => g[m].right \in U \/ Prim(g, g[m].right)
  <2> SUFFICES ASSUME NEW m \in DOMAIN g \ D, IsOp(g, m)
               PROVE  g[m].right \in U \/ Prim(g, g[m].right)
    OBVIOUS
  <2>1. CASE m \in {n, c, new}
    BY <1>4, <2>1 DEF IsOp
  <2>2. CASE m \notin {n, c, new}
    <3>1. g[m] = h[m] /\ m \in DOMAIN h \ D /\ IsOp(h, m)
      BY <2>2 DEF IsOp
    <3>2. Owns(h, m, h[m].right) /\ h[m].right \in DOMAIN h
      BY <3>1 DEF Owns, Prim, IsOp, Ranked
    <3>3. (h[m].right \in T \/ Prim(h, h[m].right)) /\ h[m].right # c
      BY <1>1, <1>3, <2>2, <3>1, <3>2 DEF Shaped
    <3> QED
      BY <1>4, <3>1, <3>2, <3>3
  <2> QED
    BY <2>1, <2>2
<1>10. \A m \in DOMAIN g \ D : \A x : Owns(g, m, x) => x \notin D
  <2>1. A \notin D /\ B \notin D /\ new \notin D
    BY <1>1, <1>5 DEF Shaped
  <2> QED
    BY <1>1, <1>4, <1>5, <2>1 DEF Shaped
<1> HIDE DEF U
<1>11. Shaped(g, U, D)
  BY <1>6, <1>7, <1>8, <1>9, <1>10 DEF Shaped
<1>12. U \subseteq T
  BY DEF U
<1> QED
  BY <1>11, <1>12

-----------------------------------------------------------------------------
(* No rule makes a circle. *)

(* The nodes Up come between n and what it had below it, and nodes D may have *)
(* one of them still.                                                         *)
Between(h, g, r, D, Up, n) ==
  /\ n \in DOMAIN h \ (D \cup Up) /\ r[n] > 0
  /\ DOMAIN g = DOMAIN h \cup Up /\ Up \cap D = {}
  /\ \A m \in DOMAIN g : Prim(g, m) => m \in DOMAIN h \ (Up \cup D) /\ Prim(h, m)
  /\ \A m \in Up \cup {n} : \A x : Owns(g, m, x) =>
       \/ x \in Up /\ m = n
       \/ x \in DOMAIN h \ (Up \cup D) /\ r[x] < r[n]
  /\ \A m \in DOMAIN h \ (Up \cup {n}) : \A x : Owns(g, m, x) =>
       x \in DOMAIN h /\ r[x] < r[m] /\ (x \in Up \cup D => m \in D)

(* The nodes D, which are dead, then go above n. *)
LEMMA RankStep ==
  ASSUME NEW h, NEW r, NEW b, Ranked(h, r, b), NEW g, NEW D, NEW Up, NEW n,
         Between(h, g, r, D, Up, n)
  PROVE  \E q, d : Ranked(g, q, d)
<1> USE DEF Between
<1> DEFINE q == [m \in DOMAIN g |->
                   IF m \in Up THEN 2 * r[n] - 1
                   ELSE IF m \in D THEN 2 * r[m] + 2 * r[n] ELSE 2 * r[m]]
           d == 4 * b
<1>1. b \in Nat /\ \A m \in DOMAIN h : r[m] \in 0..b
  BY DEF Ranked
<1>2. /\ \A m \in Up : q[m] = 2 * r[n] - 1
      /\ \A m \in DOMAIN h \ Up : m \in D => q[m] = 2 * r[m] + 2 * r[n]
      /\ \A m \in DOMAIN h \ Up : m \notin D => q[m] = 2 * r[m]
  OBVIOUS
<1>3. d \in Nat /\ q \in [DOMAIN g -> 0..d]
  <2>1. d \in Nat
    BY <1>1
  <2>2. ASSUME NEW m \in DOMAIN g PROVE q[m] \in 0..d
    <3>1. CASE m \in Up
      BY <1>1, <1>2, <3>1
    <3>2. CASE m \notin Up
      BY <1>1, <1>2, <3>2
    <3> QED
      BY <3>1, <3>2
  <2>3. q = [m \in DOMAIN g |-> q[m]]
    OBVIOUS
  <2> HIDE DEF q, d
  <2> QED
    BY <2>1, <2>2, <2>3
<1>4. \A m \in DOMAIN g : Prim(g, m) => q[m] = 0
  BY <1>2 DEF Ranked
<1>5. ASSUME NEW m \in DOMAIN g, NEW x, Owns(g, m, x)
      PROVE  x \in DOMAIN g /\ q[x] < q[m]
  <2> HIDE DEF q, d
  <2>1. CASE m \in Up \cup {n}
    <3>1. CASE x \in Up /\ m = n
      BY <1>1, <1>2, <3>1
    <3>2. CASE x \in DOMAIN h \ (Up \cup D) /\ r[x] < r[n]
      BY <1>1, <1>2, <2>1, <3>2
    <3> QED
      BY <1>5, <2>1, <3>1, <3>2
  <2>2. CASE m \notin Up \cup {n}
    <3>1. m \in DOMAIN h \ Up /\ x \in DOMAIN h /\ r[x] < r[m] /\ (x \in Up \cup D => m \in D)
      BY <1>5, <2>2
    <3>2. CASE x \in Up
      BY <1>1, <1>2, <3>1, <3>2
    <3>3. CASE x \notin Up
      BY <1>1, <1>2, <3>1, <3>3
    <3> QED
      BY <3>2, <3>3
  <2> QED
    BY <2>1, <2>2
<1> HIDE DEF q, d
<1>6. Ranked(g, q, d)
  BY <1>3, <1>4, <1>5 DEF Ranked
<1> QED
  BY <1>6

-----------------------------------------------------------------------------
(* The meaning of a heap, node by node. *)

Meaning(h, points, f) == f = [n \in DOMAIN h |-> Means(h, points, f, n)]

(* What a node means depends on its operands alone. *)
LEMMA MeansFromBelow ==
  ASSUME NEW h, NEW n, h[n] \in Node, NEW points, NEW f, NEW g,
         ~Prim(h, n) => f[h[n].left] = g[h[n].left] /\ f[h[n].right] = g[h[n].right]
  PROVE  Means(h, points, f, n) = Means(h, points, g, n)
<1>1. h[n].type \in {"primitive", "union", "intersection", "difference"}
  BY DEF Node
<1>2. CASE h[n].type = "primitive"
  BY <1>2 DEF Means
<1>3. CASE h[n].type # "primitive"
  BY <1>1, <1>3 DEF Means, Prim
<1> QED
  BY <1>2, <1>3

(* Nodes of any rank have a meaning. *)
LEMMA MeaningExists ==
  ASSUME NEW h \in Seq(Node), NEW r, NEW b, Ranked(h, r, b), NEW points
  PROVE  \E f : Meaning(h, points, f)
<1> DEFINE Upto(k, f) == /\ f = [n \in DOMAIN h |-> f[n]]
                         /\ \A n \in DOMAIN h : r[n] < k => f[n] = Means(h, points, f, n)
           Failing == {k \in Nat : ~ \E f : Upto(k, f)}
<1>1. /\ b \in Nat /\ \A n \in DOMAIN h : r[n] \in 0..b /\ h[n] \in Node
      /\ \A n \in DOMAIN h : ~Prim(h, n) => /\ h[n].left \in DOMAIN h /\ r[h[n].left] < r[n]
                                            /\ h[n].right \in DOMAIN h /\ r[h[n].right] < r[n]
  BY DEF Ranked, Owns
<1>2. Failing = {}
  <2>1. SUFFICES ASSUME Failing # {} PROVE FALSE
    OBVIOUS
  <2>2. PICK k \in Failing : \A j \in Failing : k <= j
    BY <2>1, LeastOf
  <2>3. k # 0
    <3>1. PICK f : f = [n \in DOMAIN h |-> {}]
      OBVIOUS
    <3>2. f = [n \in DOMAIN h |-> f[n]]
      BY <3>1
    <3>3. Upto(0, f)
      BY <1>1, <3>2
    <3> QED
      BY <2>2, <3>3
  <2>4. k - 1 \in Nat /\ k - 1 \notin Failing /\ k \in Nat
    <3>1. k \in Nat /\ k - 1 \in Nat /\ ~(k <= k - 1)
      BY <2>2, <2>3
    <3> QED
      BY <2>2, <3>1
  <2>5. PICK f : Upto(k - 1, f)
    BY <2>4
  <2>6. PICK g : g = [n \in DOMAIN h |-> Means(h, points, f, n)]
    OBVIOUS
  <2>7. \A n \in DOMAIN h : r[n] < k - 1 => f[n] = g[n]
    BY <2>5, <2>6
  <2>8. ASSUME NEW n \in DOMAIN h, r[n] < k
        PROVE  g[n] = Means(h, points, g, n)
    <3>1. ~Prim(h, n) => r[h[n].left] < k - 1 /\ r[h[n].right] < k - 1
      BY <1>1, <2>4, <2>8
    <3>2. ~Prim(h, n) => f[h[n].left] = g[h[n].left] /\ f[h[n].right] = g[h[n].right]
      BY <1>1, <2>7, <3>1
    <3>3. Means(h, points, f, n) = Means(h, points, g, n)
      BY <1>1, <3>2, MeansFromBelow
    <3> QED
      BY <2>6, <3>3
  <2>9. g = [n \in DOMAIN h |-> g[n]]
    BY <2>6
  <2>10. Upto(k, g)
    BY <2>8, <2>9
  <2> QED
    BY <2>2, <2>10
<1>3. b + 1 \in Nat /\ \A n \in DOMAIN h : r[n] < b + 1
  BY <1>1
<1>4. PICK f : Upto(b + 1, f)
  BY <1>2, <1>3
<1>5. f = [n \in DOMAIN h |-> Means(h, points, f, n)]
  BY <1>3, <1>4
<1> QED
  BY <1>5 DEF Meaning

(* Solid is the meaning of the root. *)
LEMMA MeaningOf ==
  ASSUME NEW h \in Seq(Node), NEW r, NEW b, Ranked(h, r, b), NEW points
  PROVE  \E f : Meaning(h, points, f) /\ Solid(h, points) = f[1]
<1> DEFINE f == CHOOSE f : Meaning(h, points, f)
<1>1. Meaning(h, points, f)
  BY MeaningExists
<1>2. Solid(h, points) = f[1]
  BY DEF Solid, Meaning
<1> HIDE DEF f
<1> QED
  BY <1>1, <1>2

(* The meaning of each type of node. *)
LEMMA MeaningHolds ==
  ASSUME NEW h \in Seq(Node), NEW points, NEW f, Meaning(h, points, f), NEW n \in DOMAIN h
  PROVE  /\ Prim(h, n) => f[n] = {point \in points : h[n].shape \in point}
         /\ h[n].type = "union" => f[n] = f[h[n].left] \cup f[h[n].right]
         /\ h[n].type = "intersection" => f[n] = f[h[n].left] \cap f[h[n].right]
         /\ h[n].type = "difference" => f[n] = f[h[n].left] \ f[h[n].right]
<1>1. f[n] = Means(h, points, f, n)
  <2>1. \A e : e = [m \in DOMAIN h |-> Means(h, points, f, m)] => e[n] = Means(h, points, f, n)
    OBVIOUS
  <2> QED
    BY <2>1 DEF Meaning
<1> QED
  BY <1>1 DEF Means, Prim

(* W is closed but for c, an operand that no node of it but n has. *)
Sole(h, W, n, c) ==
  /\ W \subseteq DOMAIN h /\ 1 \in W /\ c \notin W
  /\ \A m \in W \ {n} : \A x : Owns(h, m, x) => x \in W
  /\ n \in W => \A x : x # c /\ (Owns(h, n, x) \/ Owns(h, c, x)) => x \in W

(* The step from h to g rewrites n and c. *)
Rewrites(h, g, n, c) ==
  DOMAIN h \subseteq DOMAIN g /\ \A m \in DOMAIN h \ {n, c} : g[m] = h[m]

(* n has the same meaning in e and f if all with a lower rank have. *)
Lifts(W, r, n, e, f) ==
  n \in W /\ (\A x \in W : r[x] < r[n] => f[x] = e[x]) => f[n] = e[n]

(* Then all nodes of W keep their meaning. *)
LEMMA SameMeaning ==
  ASSUME NEW h \in Seq(Node), NEW g \in Seq(Node), NEW r, NEW b, Ranked(h, r, b),
         NEW points, NEW e, NEW f, Meaning(h, points, e), Meaning(g, points, f),
         NEW W, NEW n, NEW c, Sole(h, W, n, c), Rewrites(h, g, n, c),
         Lifts(W, r, n, e, f)
  PROVE  \A m \in W : f[m] = e[m]
<1>10. /\ W \subseteq DOMAIN h /\ W \subseteq DOMAIN g
       /\ \A m \in W \ {n} : g[m] = h[m] /\ \A x : Owns(h, m, x) => x \in W
       /\ n \in W => ((\A x \in W : r[x] < r[n] => f[x] = e[x]) => f[n] = e[n])
  BY DEF Sole, Rewrites, Lifts
<1> DEFINE Lost == {k \in Nat : \E x \in W : r[x] = k /\ f[x] # e[x]}
<1>1. \A x \in DOMAIN h : r[x] \in Nat
  BY DEF Ranked
<1>2. SUFFICES ASSUME Lost # {} PROVE FALSE
  BY <1>1, <1>10
<1>3. PICK k \in Lost : \A j \in Lost : k <= j
  BY <1>2, LeastOf
<1>4. PICK x \in W : r[x] = k /\ f[x] # e[x]
  BY <1>3
<1>5. \A y \in W : r[y] < r[x] => f[y] = e[y]
  BY <1>1, <1>3, <1>4, <1>10
<1>6. x # n
  BY <1>4, <1>5, <1>10
<1>7. g[x] = h[x] /\ x \in DOMAIN h /\ x \in DOMAIN g /\ h[x] \in Node
  BY <1>4, <1>6, <1>10
<1>8. CASE Prim(h, x)
  <2>1. f[x] = e[x]
    <3>1. e[x] = {point \in points : h[x].shape \in point}
      BY <1>7, <1>8, MeaningHolds
    <3>2. f[x] = {point \in points : g[x].shape \in point}
      BY <1>7, <1>8, MeaningHolds DEF Prim
    <3> QED
      BY <1>7, <3>1, <3>2
  <2> QED
    BY <1>4, <2>1
<1>9. CASE ~Prim(h, x)
  <2>1. \A y \in {h[x].left, h[x].right} : y \in W /\ r[y] < r[x]
    BY <1>4, <1>6, <1>7, <1>9, <1>10 DEF Owns, Ranked
  <2>2. f[h[x].left] = e[h[x].left] /\ f[h[x].right] = e[h[x].right]
    BY <1>5, <2>1
  <2>3. h[x].type \in {"union", "intersection", "difference"}
    BY <1>7, <1>9 DEF Prim, Node
  <2>4. f[x] = e[x]
    <3>1. /\ h[x].type = "union" => e[x] = e[h[x].left] \cup e[h[x].right]
          /\ h[x].type = "intersection" => e[x] = e[h[x].left] \cap e[h[x].right]
          /\ h[x].type = "difference" => e[x] = e[h[x].left] \ e[h[x].right]
      BY <1>7, MeaningHolds
    <3>2. /\ g[x].type = "union" => f[x] = f[g[x].left] \cup f[g[x].right]
          /\ g[x].type = "intersection" => f[x] = f[g[x].left] \cap f[g[x].right]
          /\ g[x].type = "difference" => f[x] = f[g[x].left] \ f[g[x].right]
      BY <1>7, MeaningHolds
    <3> QED
      BY <1>7, <2>2, <2>3, <3>1, <3>2
  <2> QED
    BY <1>4, <2>4
<1> QED
  BY <1>8, <1>9

SameObject(h, g) == \A points : Solid(g, points) = Solid(h, points)

(* Rewriting n and c keeps the object if it keeps the meaning of n. *)
LEMMA RewritingKeeps ==
  ASSUME NEW h \in Seq(Node), NEW g \in Seq(Node),
         NEW r, NEW b, Ranked(h, r, b), NEW q, NEW d, Ranked(g, q, d),
         NEW W, NEW n, NEW c, Sole(h, W, n, c), Rewrites(h, g, n, c), NEW points,
         \A e, f : Meaning(h, points, e) /\ Meaning(g, points, f) => Lifts(W, r, n, e, f)
  PROVE  Solid(g, points) = Solid(h, points)
<1>1. PICK e : Meaning(h, points, e) /\ Solid(h, points) = e[1]
  BY MeaningOf
<1>2. PICK f : Meaning(g, points, f) /\ Solid(g, points) = f[1]
  BY MeaningOf
<1>3. Lifts(W, r, n, e, f) /\ 1 \in W
  BY <1>1, <1>2 DEF Sole
<1>4. f[1] = e[1]
  BY <1>1, <1>2, <1>3, SameMeaning
<1> QED
  BY <1>1, <1>2, <1>4

(* The right operand that a rule rewrites is one of T, so n alone has it. *)
LEMMA RightIsSole ==
  ASSUME NEW h, NEW T, NEW D, Shaped(h, T, D), NEW r, NEW b, Ranked(h, r, b),
         1 \in DOMAIN h, NEW n \in DOMAIN h \ (T \cup D), IsOp(h, n),
         NEW c, c = h[n].right, ~Prim(h, c)
  PROVE  Sole(h, DOMAIN h \ (D \cup {c}), n, c)
<1> DEFINE W == DOMAIN h \ (D \cup {c})
<1>1. c \in T /\ Owns(h, n, c) /\ c \in DOMAIN h \ D
  BY DEF Shaped, Ranked, Owns, IsOp, Prim
<1>2. \A m \in DOMAIN h \ D : Owns(h, m, c) => m = n
  BY <1>1 DEF Shaped
<1>3. \A m \in DOMAIN h \ D : \A x : Owns(h, m, x) => x \in DOMAIN h \ D
  BY DEF Shaped, Ranked
<1>4. 1 \in W
  BY <1>1 DEF Shaped
<1> QED
  BY <1>1, <1>2, <1>3, <1>4 DEF Sole

-----------------------------------------------------------------------------
(* Each rule keeps the ranks and the object. *)

(* Rules 1 to 6, below, have to do with these nodes. *)
LEMMA RightOperands ==
  ASSUME NEW h, NEW T, NEW D, Shaped(h, T, D), NEW r, NEW b, Ranked(h, r, b),
         NEW n \in DOMAIN h \ (T \cup D), IsOp(h, n), NEW c, c = h[n].right, ~Prim(h, c)
  PROVE  /\ r[n] > 0 /\ c \in DOMAIN h \ D /\ c # n
         /\ \A m \in DOMAIN h \ D : Owns(h, m, c) => m = n
         /\ \A x \in {h[n].left, h[c].left, h[c].right} :
              /\ x \in DOMAIN h \ (D \cup {n, c}) /\ r[x] < r[n]
              /\ Owns(h, n, x) \/ Owns(h, c, x)
         /\ \A m \in DOMAIN h \ D : \A x : Owns(h, m, x) => x \in DOMAIN h \ D /\ r[x] < r[m]
<1>1. c \in T /\ Owns(h, n, c) /\ ~Prim(h, n) /\ c \in DOMAIN h /\ r[c] < r[n]
  BY DEF Shaped, Ranked, Owns, IsOp, Prim
<1>2. \A m \in DOMAIN h : r[m] \in Nat
  BY DEF Ranked
<1>3. \A m \in DOMAIN h \ D : \A x : Owns(h, m, x) => x \in DOMAIN h \ D /\ r[x] < r[m]
  BY DEF Shaped, Ranked
<1>4. /\ \A m \in DOMAIN h \ D : Owns(h, m, c) => m = n
      /\ h[n].left # h[n].right /\ c \notin D
  BY <1>1 DEF Shaped
<1>5. Owns(h, n, h[n].left) /\ Owns(h, c, h[c].left) /\ Owns(h, c, h[c].right)
  BY <1>1 DEF Owns
<1>6. r[n] > 0 /\ c # n
  BY <1>1, <1>2
<1>7. ASSUME NEW x \in {h[c].left, h[c].right}
      PROVE  x \in DOMAIN h \ (D \cup {n, c}) /\ r[x] < r[n]
  <2>1. Owns(h, c, x) /\ x \in DOMAIN h \ D /\ r[x] < r[c]
    BY <1>1, <1>3, <1>4, <1>5
  <2> QED
    BY <1>1, <1>2, <2>1
<1>8. h[n].left \in DOMAIN h \ (D \cup {n, c}) /\ r[h[n].left] < r[n]
  BY <1>2, <1>3, <1>4, <1>5
<1> QED
  BY <1>1, <1>3, <1>4, <1>5, <1>6, <1>7, <1>8

(* X - (Y + Z)  =  (X - Y) - Z. *)
LEMMA Rule1Keeps ==
  ASSUME NEW h, h \in Seq(Node), NEW T, NEW D, Shaped(h, T, D), NEW r, NEW b, Ranked(h, r, b),
         1 \in DOMAIN h, NEW n \in DOMAIN h \ (T \cup D), NEW c, NEW new, NEW g, g \in Seq(Node),
         Nests(h, n, c, new, g)
  PROVE  /\ \E q, d : Ranked(g, q, d)
         /\ SameObject(h, g)
<1> USE DEF Nests
<1> DEFINE X == h[n].left
           Y == h[c].left
           Z == h[c].right
<1>1. IsOp(h, n) /\ ~Prim(h, c) /\ ~Prim(h, n) /\ ~Prim(g, n) /\ ~Prim(g, new)
  BY DEF IsOp, Prim
<1>2. /\ r[n] > 0 /\ c \in DOMAIN h \ D /\ c # n
      /\ \A x \in {X, Y, Z} :
           x \in DOMAIN h \ (D \cup {n, c}) /\ r[x] < r[n] /\ (Owns(h, n, x) \/ Owns(h, c, x))
      /\ \A m \in DOMAIN h \ D : \A x : Owns(h, m, x) => x \in DOMAIN h \ D /\ r[x] < r[m]
  BY <1>1, RightOperands
<1>3. PICK q, d : Ranked(g, q, d)
  <2>1. \A m \in DOMAIN g : Prim(g, m) => m \in DOMAIN h \ ({new} \cup D) /\ Prim(h, m)
    BY <1>1 DEF Prim, Shaped
  <2>2. \A m \in {new} \cup {n} : \A x : Owns(g, m, x) =>
          (x = new /\ m = n) \/ x \in {X, Y, Z}
    BY DEF Owns
  <2>3. \A m \in DOMAIN h \ ({new} \cup {n}) : \A x : Owns(g, m, x) =>
          x \in DOMAIN h /\ r[x] < r[m] /\ (x \in {new} \cup D => m \in D)
    <3>1. \A m \in DOMAIN h \ {n} : \A x : Owns(g, m, x) => Owns(h, m, x)
      BY DEF Owns, Prim
    <3> QED
      BY <1>2, <3>1 DEF Ranked
  <2>4. n \in DOMAIN h \ (D \cup {new}) /\ {new} \cap D = {}
    BY DEF Shaped
  <2>5. new \notin {X, Y, Z}
    BY <1>2
  <2>6. Between(h, g, r, D, {new}, n)
    BY <1>2, <2>1, <2>2, <2>3, <2>4, <2>5 DEF Between
  <2> QED
    BY <2>6, RankStep
<1>4. ASSUME NEW points PROVE Solid(g, points) = Solid(h, points)
  <2> DEFINE W == DOMAIN h \ (D \cup {c})
  <2>1. Sole(h, W, n, c)
    BY <1>1, RightIsSole
  <2>2. \A x \in {X, Y, Z} : x \in W
    BY <1>2
  <2> HIDE DEF W
  <2>3. ASSUME NEW e, NEW f, Meaning(h, points, e), Meaning(g, points, f)
        PROVE  Lifts(W, r, n, e, f)
    <3> SUFFICES ASSUME n \in W, \A x \in W : r[x] < r[n] => f[x] = e[x]
                 PROVE  f[n] = e[n]
      BY DEF Lifts
    <3>1. \A x \in {X, Y, Z} : f[x] = e[x]
      BY <1>2, <2>2
    <3>2. e[n] = e[X] \ e[c]
      BY <2>3, MeaningHolds
    <3>3. e[c] = e[Y] \cup e[Z]
      <4>1. c \in DOMAIN h /\ h[c].type = "union"
        BY <1>2
      <4> HIDE DEF Nests
      <4> QED
        BY <2>3, <4>1, MeaningHolds
    <3>4. f[n] = f[new] \ f[Z]
      BY <2>3, MeaningHolds
    <3>5. f[new] = f[X] \ f[Y]
      BY <2>3, MeaningHolds
    <3> QED
      BY <3>1, <3>2, <3>3, <3>4, <3>5
  <2>4. Rewrites(h, g, n, c)
    BY DEF Rewrites
  <2> QED
    BY <1>3, <2>1, <2>3, <2>4, RewritingKeeps
<1> QED
  BY <1>3, <1>4 DEF SameObject

(* X . (Y + Z)  =  (X . Y) + (X . Z), X - (Y . Z)  =  (X - Y) + (X - Z), and  *)
(* X - (Y - Z)  =  (X - Y) + (X . Z).                                         *)
LEMMA DistributeKeeps ==
  ASSUME NEW h, h \in Seq(Node), NEW T, NEW D, Shaped(h, T, D), NEW r, NEW b, Ranked(h, r, b),
         1 \in DOMAIN h, NEW n \in DOMAIN h \ (T \cup D), NEW c, NEW new, NEW g, g \in Seq(Node),
         Distributes(h, n, c, new, g)
  PROVE  /\ \E q, d : Ranked(g, q, d)
         /\ SameObject(h, g)
<1>0. IsOp(h, n) /\ ~Prim(h, c) /\ IsOp(g, c) /\ IsOp(g, new)
  BY DEF Distributes, IsOp, Prim
<1> USE <1>0 DEF Distributes
<1> DEFINE X == h[n].left
           Y == h[c].left
           Z == h[c].right
<1>1. ~Prim(g, n) /\ ~Prim(g, c) /\ ~Prim(g, new)
  BY DEF IsOp, Prim
<1>2. /\ r[n] > 0 /\ c \in DOMAIN h \ D /\ c # n
      /\ \A m \in DOMAIN h \ D : Owns(h, m, c) => m = n
      /\ \A x \in {X, Y, Z} :
           x \in DOMAIN h \ (D \cup {n, c}) /\ r[x] < r[n] /\ (Owns(h, n, x) \/ Owns(h, c, x))
      /\ \A m \in DOMAIN h \ D : \A x : Owns(h, m, x) => x \in DOMAIN h \ D /\ r[x] < r[m]
  BY RightOperands
<1>3. PICK q, d : Ranked(g, q, d)
  <2>1. \A m \in DOMAIN g : Prim(g, m) => m \in DOMAIN h \ ({new, c} \cup D) /\ Prim(h, m)
    BY <1>1 DEF Prim, Shaped
  <2>2. new \notin {X, Y, Z}
    BY <1>2
  <2>3. \A m \in {new, c} \cup {n} : \A x : Owns(g, m, x) =>
          (x \in {new, c} /\ m = n) \/ x \in {X, Y, Z}
    BY <1>2 DEF Owns
  <2>4. \A m \in DOMAIN h \ ({new, c} \cup {n}) : \A x : Owns(g, m, x) =>
          x \in DOMAIN h /\ r[x] < r[m] /\ (x \in {new, c} \cup D => m \in D)
    <3>1. \A m \in DOMAIN h \ {n, c} : \A x : Owns(g, m, x) => Owns(h, m, x)
      BY DEF Owns, Prim
    <3> QED
      BY <1>2, <3>1, SMTT(30) DEF Ranked
  <2>5. n \in DOMAIN h \ (D \cup {new, c}) /\ {new, c} \cap D = {}
    BY <1>2 DEF Shaped
  <2>6. DOMAIN g = DOMAIN h \cup {new, c}
    BY <1>2
  <2>8. \A x \in {X, Y, Z} : x \in DOMAIN h \ ({new, c} \cup D) /\ r[x] < r[n]
    BY <1>2, <2>2
  <2>7. Between(h, g, r, D, {new, c}, n)
    <3> HIDE <1>0 DEF Distributes, X, Y, Z
    <3> QED
      BY <1>2, <2>1, <2>3, <2>4, <2>5, <2>6, <2>8 DEF Between
  <2> QED
    BY <2>7, RankStep
<1>4. ASSUME NEW points PROVE Solid(g, points) = Solid(h, points)
  <2> DEFINE W == DOMAIN h \ (D \cup {c})
  <2>1. Sole(h, W, n, c)
    BY RightIsSole
  <2>2. \A x \in {X, Y, Z} : x \in W
    BY <1>2
  <2> HIDE DEF W
  <2>3. ASSUME NEW e, NEW f, Meaning(h, points, e), Meaning(g, points, f)
        PROVE  Lifts(W, r, n, e, f)
    <3> SUFFICES ASSUME n \in W, \A x \in W : r[x] < r[n] => f[x] = e[x]
                 PROVE  f[n] = e[n]
      BY DEF Lifts
    <3>1. \A x \in {X, Y, Z} : f[x] = e[x]
      BY <1>2, <2>2
    <3>2. /\ h[n].type = "intersection" => e[n] = e[X] \cap e[c]
          /\ h[n].type = "difference" => e[n] = e[X] \ e[c]
      BY <2>3, MeaningHolds
    <3>3. /\ h[c].type = "union" => e[c] = e[Y] \cup e[Z]
          /\ h[c].type = "intersection" => e[c] = e[Y] \cap e[Z]
          /\ h[c].type = "difference" => e[c] = e[Y] \ e[Z]
      <4>1. c \in DOMAIN h /\ c \in DOMAIN g
        BY <1>2
      <4> HIDE <1>0
      <4> QED
        BY <2>3, <4>1, MeaningHolds
    <3>4. f[n] = f[new] \cup f[c]
      BY <2>3, MeaningHolds
    <3>5. /\ h[n].type = "intersection" => f[new] = f[X] \cap f[Y]
          /\ h[n].type = "difference" => f[new] = f[X] \ f[Y]
      BY <2>3, MeaningHolds
    <3>6. /\ g[c].type = "intersection" => f[c] = f[X] \cap f[Z]
          /\ g[c].type = "difference" => f[c] = f[X] \ f[Z]
      <4>1. c \in DOMAIN h /\ c \in DOMAIN g
        BY <1>2
      <4> HIDE <1>0
      <4> QED
        BY <2>3, <4>1, MeaningHolds
    <3>7. \/ h[n].type = "intersection" /\ h[c].type = "union" /\ g[c].type = "intersection"
          \/ h[n].type = "difference" /\ h[c].type = "intersection" /\ g[c].type = "difference"
          \/ h[n].type = "difference" /\ h[c].type = "difference" /\ g[c].type = "intersection"
      OBVIOUS
    <3>8. f[X] = e[X] /\ f[Y] = e[Y] /\ f[Z] = e[Z]
      BY <3>1
    <3> HIDE <1>0 DEF Distributes, X, Y, Z
    <3>9. CASE h[n].type = "intersection" /\ h[c].type = "union" /\ g[c].type = "intersection"
      <4>1. e[n] = e[X] \cap (e[Y] \cup e[Z]) /\ f[n] = (e[X] \cap e[Y]) \cup (e[X] \cap e[Z])
        BY <3>2, <3>3, <3>4, <3>5, <3>6, <3>8, <3>9
      <4> QED
        BY <4>1
    <3>10. CASE h[n].type = "difference" /\ h[c].type = "intersection" /\ g[c].type = "difference"
      <4>1. e[n] = e[X] \ (e[Y] \cap e[Z]) /\ f[n] = (e[X] \ e[Y]) \cup (e[X] \ e[Z])
        BY <3>2, <3>3, <3>4, <3>5, <3>6, <3>8, <3>10
      <4> QED
        BY <4>1
    <3>11. CASE h[n].type = "difference" /\ h[c].type = "difference" /\ g[c].type = "intersection"
      <4>1. e[n] = e[X] \ (e[Y] \ e[Z]) /\ f[n] = (e[X] \ e[Y]) \cup (e[X] \cap e[Z])
        BY <3>2, <3>3, <3>4, <3>5, <3>6, <3>8, <3>11
      <4> QED
        BY <4>1
    <3> QED
      BY <3>7, <3>9, <3>10, <3>11
  <2>4. Rewrites(h, g, n, c)
    BY DEF Rewrites
  <2> QED
    BY <1>3, <2>1, <2>3, <2>4, RewritingKeeps
<1> QED
  BY <1>3, <1>4 DEF SameObject

(* X . (Y . Z)  =  (X . Y) . Z, and X . (Y - Z)  =  (X . Y) - Z. *)
LEMMA RotateKeeps ==
  ASSUME NEW h, h \in Seq(Node), NEW T, NEW D, Shaped(h, T, D), NEW r, NEW b, Ranked(h, r, b),
         1 \in DOMAIN h, NEW n \in DOMAIN h \ (T \cup D), NEW c, NEW g, g \in Seq(Node),
         Rotates(h, n, c, g)
  PROVE  /\ \E q, d : Ranked(g, q, d)
         /\ SameObject(h, g)
<1>0. IsOp(h, n) /\ ~Prim(h, c) /\ IsOp(g, n) /\ IsOp(g, c)
  BY DEF Rotates, IsOp, Prim
<1> USE <1>0 DEF Rotates
<1> DEFINE X == h[n].left
           Y == h[c].left
           Z == h[c].right
<1>1. ~Prim(g, n) /\ ~Prim(g, c) /\ IsOp(h, n) /\ ~Prim(h, c)
  BY DEF IsOp, Prim
<1>2. /\ r[n] > 0 /\ c \in DOMAIN h \ D /\ c # n
      /\ \A m \in DOMAIN h \ D : Owns(h, m, c) => m = n
      /\ \A x \in {X, Y, Z} :
           x \in DOMAIN h \ (D \cup {n, c}) /\ r[x] < r[n] /\ (Owns(h, n, x) \/ Owns(h, c, x))
      /\ \A m \in DOMAIN h \ D : \A x : Owns(h, m, x) => x \in DOMAIN h \ D /\ r[x] < r[m]
  BY <1>1, RightOperands
<1>3. PICK q, d : Ranked(g, q, d)
  <2>1. \A m \in DOMAIN g : Prim(g, m) => m \in DOMAIN h \ ({c} \cup D) /\ Prim(h, m)
    BY <1>1 DEF Prim, Shaped
  <2>3. \A m \in {c} \cup {n} : \A x : Owns(g, m, x) =>
          (x \in {c} /\ m = n) \/ x \in {X, Y, Z}
    BY <1>2 DEF Owns
  <2>4. \A m \in DOMAIN h \ ({c} \cup {n}) : \A x : Owns(g, m, x) =>
          x \in DOMAIN h /\ r[x] < r[m] /\ (x \in {c} \cup D => m \in D)
    <3>1. \A m \in DOMAIN h \ {n, c} : \A x : Owns(g, m, x) => Owns(h, m, x)
      BY DEF Owns, Prim
    <3> QED
      BY <1>2, <3>1 DEF Ranked
  <2>5. n \in DOMAIN h \ (D \cup {c}) /\ {c} \cap D = {}
    BY <1>2 DEF Shaped
  <2>6. DOMAIN g = DOMAIN h \cup {c}
    BY <1>2
  <2>2. \A x \in {X, Y, Z} : x \in DOMAIN h \ ({c} \cup D) /\ r[x] < r[n]
    BY <1>2
  <2>7. Between(h, g, r, D, {c}, n)
    <3>1. \A m \in {c} \cup {n} : \A x : Owns(g, m, x) =>
            (x \in {c} /\ m = n) \/ (x \in DOMAIN h \ ({c} \cup D) /\ r[x] < r[n])
      BY <2>2, <2>3
    <3>2. r[n] > 0
      BY <1>2
    <3> HIDE <1>0 DEF Rotates, X, Y, Z
    <3> QED
      BY <2>1, <2>4, <2>5, <2>6, <3>1, <3>2 DEF Between
  <2> QED
    BY <2>7, RankStep
<1>4. ASSUME NEW points PROVE Solid(g, points) = Solid(h, points)
  <2> DEFINE W == DOMAIN h \ (D \cup {c})
  <2>1. Sole(h, W, n, c)
    BY <1>1, RightIsSole
  <2>2. \A x \in {X, Y, Z} : x \in W
    BY <1>2
  <2> HIDE DEF W
  <2>3. ASSUME NEW e, NEW f, Meaning(h, points, e), Meaning(g, points, f)
        PROVE  Lifts(W, r, n, e, f)
    <3> SUFFICES ASSUME n \in W, \A x \in W : r[x] < r[n] => f[x] = e[x]
                 PROVE  f[n] = e[n]
      BY DEF Lifts
    <3>1. \A x \in {X, Y, Z} : f[x] = e[x]
      BY <1>2, <2>2
    <3>2. e[n] = e[X] \cap e[c]
      BY <2>3, MeaningHolds
    <3>3. /\ h[c].type = "intersection" => e[c] = e[Y] \cap e[Z]
          /\ h[c].type = "difference" => e[c] = e[Y] \ e[Z]
      <4>1. c \in DOMAIN h /\ c \in DOMAIN g
        BY <1>2
      <4> HIDE <1>0
      <4> QED
        BY <2>3, <4>1, MeaningHolds
    <3>4. /\ h[c].type = "intersection" => f[n] = f[c] \cap f[Z]
          /\ h[c].type = "difference" => f[n] = f[c] \ f[Z]
      BY <2>3, MeaningHolds
    <3>5. f[c] = f[X] \cap f[Y]
      <4>1. c \in DOMAIN h /\ c \in DOMAIN g
        BY <1>2
      <4> HIDE <1>0
      <4> QED
        BY <2>3, <4>1, MeaningHolds
    <3>6. h[c].type \in {"intersection", "difference"}
      BY DEF IsOp
    <3> HIDE <1>0 DEF Rotates
    <3> QED
      BY <3>1, <3>2, <3>3, <3>4, <3>5, <3>6
  <2>4. Rewrites(h, g, n, c)
    BY DEF Rewrites
  <2> QED
    BY <1>3, <2>1, <2>3, <2>4, RewritingKeeps
<1> QED
  BY <1>3, <1>4 DEF SameObject

(* (A + B) op Z  =  (A op Z) + (B op Z), if (A + B) is not shared. *)
LEMMA DistributeLeftKeeps ==
  ASSUME NEW h, h \in Seq(Node), NEW D, NEW r, NEW b, Ranked(h, r, b),
         \A m \in DOMAIN h \ D : \A x : Owns(h, m, x) => x \notin D,
         \A m \in D : ~Prim(h, m),
         D \subseteq DOMAIN h, NEW n \in DOMAIN h \ D, NEW c, NEW new, NEW g, g \in Seq(Node),
         DistributesLeft(h, n, c, new, g)
  PROVE  /\ \E q, d : Ranked(g, q, d)
         /\ (\E W : Sole(h, W, n, c)) => SameObject(h, g)
<1>0. IsOp(g, c) /\ IsOp(g, new)
  BY DEF DistributesLeft, IsOp
<1> USE <1>0 DEF DistributesLeft
<1> DEFINE A == h[c].left
           B == h[c].right
           Z == h[n].right
<1>1. ~Prim(g, n) /\ ~Prim(g, c) /\ ~Prim(g, new) /\ ~Prim(h, n) /\ ~Prim(h, c)
  BY DEF IsOp, Prim
<1>2. /\ c \in DOMAIN h \ D /\ Owns(h, n, c) /\ r[c] < r[n] /\ c # n
      /\ \A m \in DOMAIN h : r[m] \in Nat
  BY <1>1 DEF Ranked, Owns
<1>3. \A x \in {A, B} : Owns(h, c, x) /\ x \in DOMAIN h \ D /\ r[x] < r[c] /\ x # c /\ x # n
  BY <1>1, <1>2 DEF Owns, Ranked
<1>4. Owns(h, n, Z) /\ Z \in DOMAIN h \ D /\ r[Z] = 0 /\ Z # c /\ Z # n
  BY <1>1 DEF Owns, Ranked
<1>5. r[c] > 0 /\ r[n] > 0
  BY <1>2, <1>3, SMTT(30)
<1>6. PICK q, d : Ranked(g, q, d)
  <2>1. \A m \in DOMAIN g : Prim(g, m) => m \in DOMAIN h \ ({new} \cup D) /\ Prim(h, m)
    BY <1>1, <1>2 DEF Prim
  <2>2. new \notin {A, B, Z} /\ \A x \in {A, B, Z} : x \in DOMAIN h \ D /\ r[x] < r[n]
    BY <1>2, <1>3, <1>4, <1>5, SMTT(30)
  <2>3. \A m \in {new} \cup {n} : \A x : Owns(g, m, x) =>
          (x \in {new} /\ m = n) \/ (x \in DOMAIN h \ ({new} \cup D) /\ r[x] < r[n])
    <3>1. \A x : Owns(g, n, x) => x \in {c, new}
      BY DEF Owns
    <3>2. \A x : Owns(g, new, x) => x \in {B, Z}
      BY DEF Owns
    <3>3. c \in DOMAIN h \ ({new} \cup D) /\ r[c] < r[n]
      BY <1>2
    <3>4. \A x \in {B, Z} : x \in DOMAIN h \ ({new} \cup D) /\ r[x] < r[n]
      BY <2>2
    <3> HIDE DEF A, B, Z
    <3>5. ASSUME NEW x, Owns(g, n, x)
          PROVE  x \in {new} \/ (x \in DOMAIN h \ ({new} \cup D) /\ r[x] < r[n])
      BY <3>1, <3>3, <3>5
    <3>6. ASSUME NEW x, Owns(g, new, x)
          PROVE  x \in DOMAIN h \ ({new} \cup D) /\ r[x] < r[n]
      BY <3>2, <3>4, <3>6
    <3> QED
      BY <3>5, <3>6
  <2>4. \A m \in DOMAIN h \ ({new} \cup {n}) : \A x : Owns(g, m, x) =>
          x \in DOMAIN h /\ r[x] < r[m] /\ (x \in {new} \cup D => m \in D)
    <3>1. \A m \in DOMAIN h \ {n, c} : \A x : Owns(g, m, x) => Owns(h, m, x)
      BY DEF Owns, Prim
    <3>2. \A x : Owns(g, c, x) => x \in {A, Z}
      BY DEF Owns
    <3>3. \A m \in DOMAIN h \ {n, c} : \A x : Owns(g, m, x) =>
            x \in DOMAIN h /\ r[x] < r[m] /\ (x \in {new} \cup D => m \in D)
      BY <3>1 DEF Ranked
    <3>4. \A x \in {A, Z} : x \in DOMAIN h \ D /\ r[x] < r[c]
      BY <1>3, <1>4, <1>5
    <3> QED
      BY <3>2, <3>3, <3>4
  <2>5. n \in DOMAIN h \ (D \cup {new}) /\ {new} \cap D = {}
    OBVIOUS
  <2>7. Between(h, g, r, D, {new}, n)
    BY <1>5, <2>1, <2>2, <2>3, <2>4, <2>5 DEF Between
  <2> QED
    BY <2>7, RankStep
<1>7. ASSUME NEW points, NEW W, Sole(h, W, n, c) PROVE Solid(g, points) = Solid(h, points)
  <2>3. ASSUME NEW e, NEW f, Meaning(h, points, e), Meaning(g, points, f)
        PROVE  Lifts(W, r, n, e, f)
    <3> SUFFICES ASSUME n \in W, \A x \in W : r[x] < r[n] => f[x] = e[x]
                 PROVE  f[n] = e[n]
      BY DEF Lifts
    <3>1. \A x \in {A, B, Z} : f[x] = e[x]
      <4>1. \A x \in {A, B, Z} : r[x] < r[n]
        <5>1. \A x \in {A, B} : r[x] \in Nat /\ r[x] < r[c]
          BY <1>2, <1>3
        <5>2. r[c] \in Nat /\ r[n] \in Nat
          BY <1>2
        <5> QED
          BY <1>2, <1>4, <1>5, <5>1, <5>2, SMTT(30)
      <4>2. \A x \in {A, B, Z} : x \in W
        BY <1>3, <1>4, <1>7 DEF Sole
      <4> QED
        BY <4>1, <4>2
    <3>2. /\ h[n].type = "intersection" => e[n] = e[c] \cap e[Z]
          /\ h[n].type = "difference" => e[n] = e[c] \ e[Z]
      BY <2>3, MeaningHolds
    <3>3. e[c] = e[A] \cup e[B]
      <4>1. c \in DOMAIN h
        BY <1>2
      <4> QED
        BY <2>3, <4>1, MeaningHolds
    <3>4. f[n] = f[c] \cup f[new]
      BY <2>3, MeaningHolds
    <3>5. /\ h[n].type = "intersection" => f[c] = f[A] \cap f[Z]
          /\ h[n].type = "difference" => f[c] = f[A] \ f[Z]
      <4>1. c \in DOMAIN g
        BY <1>2
      <4>2. /\ g[c].type = "intersection" => f[c] = f[g[c].left] \cap f[g[c].right]
            /\ g[c].type = "difference" => f[c] = f[g[c].left] \ f[g[c].right]
        BY <2>3, <4>1, MeaningHolds
      <4> QED
        BY <4>2
    <3>6. /\ h[n].type = "intersection" => f[new] = f[B] \cap f[Z]
          /\ h[n].type = "difference" => f[new] = f[B] \ f[Z]
      BY <2>3, MeaningHolds
    <3>7. h[n].type \in {"intersection", "difference"}
      BY DEF IsOp
    <3>8. f[A] = e[A] /\ f[B] = e[B] /\ f[Z] = e[Z]
      BY <3>1
    <3>9. CASE h[n].type = "intersection"
      <4>1. e[n] = (e[A] \cup e[B]) \cap e[Z] /\ f[n] = (e[A] \cap e[Z]) \cup (e[B] \cap e[Z])
        BY <3>2, <3>3, <3>4, <3>5, <3>6, <3>8, <3>9
      <4> QED
        BY <4>1
    <3>10. CASE h[n].type = "difference"
      <4>1. e[n] = (e[A] \cup e[B]) \ e[Z] /\ f[n] = (e[A] \ e[Z]) \cup (e[B] \ e[Z])
        BY <3>2, <3>3, <3>4, <3>5, <3>6, <3>8, <3>10
      <4> QED
        BY <4>1
    <3> QED
      BY <3>7, <3>9, <3>10
  <2>4. Rewrites(h, g, n, c)
    BY DEF Rewrites
  <2> QED
    BY <1>6, <1>7, <2>3, <2>4, RewritingKeeps
<1> QED
  BY <1>6, <1>7 DEF SameObject

-----------------------------------------------------------------------------
(* The nodes of a tree. *)

Spread(f, m) == IF IsPrimitive(m) THEN {m} ELSE {m} \cup f[L(m)] \cup f[R(m)]

(* The nodes below each node; they exist for any rank. *)
LEMMA BelowExists ==
  ASSUME heap \in Seq(Node), NEW r, NEW b, Ranked(heap, r, b)
  PROVE  \E f : f = [m \in DOMAIN heap |-> Spread(f, m)]
<1> DEFINE Upto(k, f) == /\ f = [m \in DOMAIN heap |-> f[m]]
                         /\ \A m \in DOMAIN heap : r[m] < k => f[m] = Spread(f, m)
           Failing == {k \in Nat : ~ \E f : Upto(k, f)}
<1>1. /\ b \in Nat /\ \A m \in DOMAIN heap : r[m] \in 0..b
      /\ \A m \in DOMAIN heap : ~IsPrimitive(m) => /\ L(m) \in DOMAIN heap /\ r[L(m)] < r[m]
                                                   /\ R(m) \in DOMAIN heap /\ r[R(m)] < r[m]
  BY DEF Ranked, Owns, Prim, IsPrimitive, L, R
<1>2. Failing = {}
  <2>1. SUFFICES ASSUME Failing # {} PROVE FALSE
    OBVIOUS
  <2>2. PICK k \in Failing : \A j \in Failing : k <= j
    BY <2>1, LeastOf
  <2>3. k # 0
    <3>1. PICK f : f = [m \in DOMAIN heap |-> {}]
      OBVIOUS
    <3>2. f = [m \in DOMAIN heap |-> f[m]]
      BY <3>1
    <3>3. Upto(0, f)
      BY <1>1, <3>2
    <3> QED
      BY <2>2, <3>3
  <2>4. k - 1 \in Nat /\ k - 1 \notin Failing /\ k \in Nat
    <3>1. k \in Nat /\ k - 1 \in Nat /\ ~(k <= k - 1)
      BY <2>2, <2>3
    <3> QED
      BY <2>2, <3>1
  <2>5. PICK f : Upto(k - 1, f)
    BY <2>4
  <2>6. PICK g : g = [m \in DOMAIN heap |-> Spread(f, m)]
    OBVIOUS
  <2>7. \A m \in DOMAIN heap : r[m] < k - 1 => f[m] = g[m]
    BY <2>5, <2>6
  <2>8. ASSUME NEW m \in DOMAIN heap, r[m] < k
        PROVE  g[m] = Spread(g, m)
    <3>1. ~IsPrimitive(m) => r[L(m)] < k - 1 /\ r[R(m)] < k - 1
      BY <1>1, <2>4, <2>8
    <3>2. ~IsPrimitive(m) => f[L(m)] = g[L(m)] /\ f[R(m)] = g[R(m)]
      BY <1>1, <2>7, <3>1
    <3>3. Spread(f, m) = Spread(g, m)
      BY <3>2 DEF Spread
    <3> QED
      BY <2>6, <3>3
  <2>9. g = [m \in DOMAIN heap |-> g[m]]
    BY <2>6
  <2>10. Upto(k, g)
    BY <2>8, <2>9
  <2> QED
    BY <2>2, <2>10
<1>3. b + 1 \in Nat /\ \A m \in DOMAIN heap : r[m] < b + 1
  BY <1>1
<1>4. PICK f : Upto(b + 1, f)
  BY <1>2, <1>3
<1>5. f = [m \in DOMAIN heap |-> Spread(f, m)]
  BY <1>3, <1>4
<1> QED
  BY <1>5

(* They are closed under having operands, and the root is above them. *)
LEMMA ReachIsClosed ==
  ASSUME heap \in Seq(Node), NEW r, NEW b, Ranked(heap, r, b), 1 \in DOMAIN heap
  PROVE  /\ ReachableFrom(1) \subseteq DOMAIN heap /\ 1 \in ReachableFrom(1)
         /\ \A m \in ReachableFrom(1) : r[m] <= r[1]
         /\ \A m \in ReachableFrom(1) : \A x : Owns(heap, m, x) => x \in ReachableFrom(1)
<1> DEFINE f == CHOOSE f : f = [m \in DOMAIN heap |-> Spread(f, m)]
<1>1. f = [m \in DOMAIN heap |-> Spread(f, m)]
  BY BelowExists
<1>2. ReachableFrom(1) = f[1]
  BY DEF ReachableFrom, Spread
<1> HIDE DEF f
<1>3. \A m \in DOMAIN heap : f[m] = Spread(f, m)
  BY <1>1
<1> DEFINE Closed(m) ==
             /\ f[m] \subseteq DOMAIN heap /\ m \in f[m]
             /\ \A x \in f[m] : r[x] <= r[m]
             /\ \A x \in f[m] : \A y : Owns(heap, x, y) => y \in f[m]
           Bad == {k \in Nat : \E m \in DOMAIN heap : r[m] = k /\ ~Closed(m)}
<1>4. \A m \in DOMAIN heap : r[m] \in Nat
  BY DEF Ranked
<1>5. Bad = {}
  <2>1. SUFFICES ASSUME Bad # {} PROVE FALSE
    OBVIOUS
  <2>2. PICK k \in Bad : \A j \in Bad : k <= j
    BY <2>1, LeastOf
  <2>3. PICK m \in DOMAIN heap : r[m] = k /\ ~Closed(m)
    BY <2>2
  <2>4. \A x \in DOMAIN heap : r[x] < r[m] => Closed(x)
    BY <1>4, <2>2, <2>3
  <2>5. CASE IsPrimitive(m)
    <3>1. f[m] = {m}
      BY <1>3, <2>5 DEF Spread
    <3>2. \A y : ~Owns(heap, m, y)
      BY <2>5 DEF Owns, Prim, IsPrimitive
    <3>3. Closed(m)
      BY <1>4, <3>1, <3>2
    <3> QED
      BY <2>3, <3>3
  <2>6. CASE ~IsPrimitive(m)
    <3>1. f[m] = {m} \cup f[L(m)] \cup f[R(m)]
      BY <1>3, <2>6 DEF Spread
    <3>2. \A y : Owns(heap, m, y) <=> y \in {L(m), R(m)}
      BY <2>6 DEF Owns, Prim, IsPrimitive, L, R
    <3>3. \A y \in {L(m), R(m)} : y \in DOMAIN heap /\ r[y] < r[m]
      BY <3>2 DEF Ranked
    <3>4. Closed(L(m)) /\ Closed(R(m))
      BY <2>4, <3>3
    <3>5. f[m] \subseteq DOMAIN heap /\ m \in f[m]
      BY <3>1, <3>4
    <3>6. \A x \in f[m] : r[x] <= r[m]
      BY <1>4, <3>1, <3>3, <3>4
    <3>7. \A x \in f[m] : \A y : Owns(heap, x, y) => y \in f[m]
      BY <3>1, <3>2, <3>4
    <3> QED
      BY <2>3, <3>5, <3>6, <3>7
  <2> QED
    BY <2>5, <2>6
<1>6. Closed(1)
  BY <1>4, <1>5
<1> QED
  BY <1>2, <1>6

(* An operand with one owner in the tree. *)
LEMMA OwnerIsSole ==
  ASSUME heap \in Seq(Node), NEW r, NEW b, Ranked(heap, r, b), 1 \in DOMAIN heap,
         NEW n, NEW c, Owners(c) = {n}
  PROVE  Sole(heap, ReachableFrom(1) \ {c}, n, c)
<1>1. n \in ReachableFrom(1) /\ Owns(heap, n, c)
  BY DEF Owners, Owns, IsPrimitive, Prim, L, R
<1>2. \A m \in ReachableFrom(1) : Owns(heap, m, c) => m = n
  BY DEF Owners, Owns, IsPrimitive, Prim, L, R
<1> DEFINE W == ReachableFrom(1)
<1>3. /\ W \subseteq DOMAIN heap /\ 1 \in W
      /\ \A m \in W : r[m] <= r[1]
      /\ \A m \in W : \A x : Owns(heap, m, x) => x \in W
  BY ReachIsClosed
<1> HIDE DEF W
<1>4. n \in W /\ c \in W /\ n \in DOMAIN heap /\ r[c] < r[n] /\ \A m \in DOMAIN heap : r[m] \in Nat
  BY <1>1, <1>3 DEF Ranked, W
<1>5. c # 1
  BY <1>3, <1>4
<1>6. Sole(heap, W \ {c}, n, c)
  BY <1>2, <1>3, <1>4, <1>5 DEF Sole, W
<1> QED
  BY <1>6 DEF W

-----------------------------------------------------------------------------
(* The rules, on the heap of the program. *)

Sound(h, T, D) ==
  /\ h \in Seq(Node) /\ 1 \in DOMAIN h
  /\ Shaped(h, T, D)
  /\ \E r, b : Ranked(h, r, b)

(* What a rule leaves a sound heap, with no more nodes to come to or dead. *)
Leaves(h, T, D, g) ==
  /\ \E U, E : Sound(g, U, E) /\ U \cup E \subseteq T \cup D
  /\ DOMAIN h \subseteq DOMAIN g
  /\ \A m \in DOMAIN h : Prim(g, m) <=> Prim(h, m)

(* Rules 1 to 6, and rules 7 and 8. *)
TurnsRight(h, n, g) ==
  \E c, new : Nests(h, n, c, new, g) \/ Distributes(h, n, c, new, g) \/ Rotates(h, n, c, g)

TurnsLeft(h, n, g) == \E c, new : DistributesLeft(h, n, c, new, g)

(* Nodes overwritten. *)
LEMMA NodeReplaced ==
  ASSUME NEW h \in Seq(Node), NEW n \in DOMAIN h, NEW node \in Node
  PROVE  [h EXCEPT ![n] = node] \in Seq(Node) /\ DOMAIN [h EXCEPT ![n] = node] = DOMAIN h
  OBVIOUS

(* Two nodes overwritten. *)
LEMMA TwoReplaced ==
  ASSUME NEW h, h \in Seq(Node), NEW n, n \in DOMAIN h, NEW c, c \in DOMAIN h, c # n,
         NEW a, a \in Node, NEW b, b \in Node, NEW k, k = [[h EXCEPT ![n] = a] EXCEPT ![c] = b]
  PROVE  /\ k \in Seq(Node) /\ Len(k) = Len(h)
         /\ \A m \in DOMAIN h \ {n, c} : k[m] = h[m]
         /\ k[n] = a /\ k[c] = b
<1> DEFINE g == [h EXCEPT ![n] = a]
<1>1. g \in Seq(Node) /\ DOMAIN g = DOMAIN h
  BY NodeReplaced
<1>2. k = [g EXCEPT ![c] = b]
  OBVIOUS
<1>3. \A m \in DOMAIN h \ {n, c} : k[m] = h[m]
  OBVIOUS
<1>4. k[n] = a /\ k[c] = b
  OBVIOUS
<1> HIDE DEF g
<1>5. k \in Seq(Node) /\ DOMAIN k = DOMAIN g
  BY <1>1, <1>2, NodeReplaced
<1>6. Len(k) = Len(h)
  BY <1>1, <1>5, LenProperties
<1> QED
  BY <1>3, <1>4, <1>5, <1>6

(* A node more, at the end. *)
LEMMA NodeMore ==
  ASSUME NEW h \in Seq(Node), NEW k \in Seq(Node), Len(k) = Len(h), NEW node \in Node
  PROVE  /\ Append(k, node) \in Seq(Node)
         /\ Len(h) + 1 \notin DOMAIN h
         /\ DOMAIN Append(k, node) = DOMAIN h \cup {Len(h) + 1}
         /\ \A m \in DOMAIN h : Append(k, node)[m] = k[m]
         /\ Append(k, node)[Len(h) + 1] = node
  OBVIOUS

(* The operands of a node. *)
LEMMA HeapOperands ==
  ASSUME NEW T, NEW D, Sound(heap, T, D), NEW n \in DOMAIN heap
  PROVE  /\ heap[n] \in Node
         /\ ~Prim(heap, n) =>
              /\ L(n) \in DOMAIN heap /\ R(n) \in DOMAIN heap
              /\ L(n) # n /\ R(n) # n /\ L(n) \in Nat /\ R(n) \in Nat
<1>1. heap \in Seq(Node) /\ heap[n] \in Node
  BY DEF Sound
<1>2. PICK r, b : Ranked(heap, r, b)
  BY DEF Sound
<1>3. ~Prim(heap, n) => Owns(heap, n, L(n)) /\ Owns(heap, n, R(n))
  BY DEF Owns, L, R
<1>4. \A c : Owns(heap, n, c) => c \in DOMAIN heap /\ r[c] < r[n] /\ r[n] \in Nat
  BY <1>2 DEF Ranked
<1>5. \A c \in DOMAIN heap : c \in Nat
  BY <1>1
<1> QED
  BY <1>1, <1>3, <1>4, <1>5

(* Rule 1. *)
LEMMA Rule1Step ==
  ASSUME NEW T, NEW D, Sound(heap, T, D), NEW n \in DOMAIN heap \ (T \cup D), Rule1(n)
  PROVE  /\ Leaves(heap, T, D, heap') /\ TurnsRight(heap, n, heap')
         /\ SameObject(heap, heap')
<1> DEFINE c == R(n)
           k == [heap EXCEPT ![n].left = New, ![n].right = R(c)]
           node == Parent("difference", L(n), L(c))
<1>1. /\ heap \in Seq(Node) /\ heap[n].type = "difference" /\ heap[c].type = "union"
      /\ heap' = Append(k, node)
  BY DEF Rule1, RightIs, IsType, Sound
<1>2. c \in DOMAIN heap /\ c # n /\ R(c) \in Nat /\ L(c) \in Nat /\ L(n) \in Nat
  BY <1>1, HeapOperands DEF Prim
<1>3. /\ k \in Seq(Node) /\ Len(k) = Len(heap) /\ New \in Nat
      /\ \A m \in DOMAIN heap \ {n} : k[m] = heap[m]
      /\ k[n].type = "difference" /\ k[n].left = New /\ k[n].right = R(c)
  <2>1. New \in Nat /\ heap[n] \in Node /\ R(c) \in Nat
    BY <1>1, <1>2 DEF New
  <2>2. PICK a : a = [heap[n] EXCEPT !.left = New, !.right = R(c)]
    OBVIOUS
  <2>3. a \in Node /\ a.type = heap[n].type /\ a.left = New /\ a.right = R(c)
    BY <2>1, <2>2 DEF Node
  <2>4. k = [heap EXCEPT ![n] = a]
    BY <2>2
  <2> HIDE DEF k
  <2>5. \A m \in DOMAIN heap \ {n} : k[m] = heap[m]
    BY <2>4
  <2>6. k[n] = a
    BY <2>4
  <2>7. k \in Seq(Node) /\ DOMAIN k = DOMAIN heap
    BY <1>1, <2>3, <2>4, NodeReplaced
  <2>8. Len(k) = Len(heap)
    BY <1>1, <2>7, LenProperties
  <2> QED
    BY <1>1, <2>1, <2>3, <2>5, <2>6, <2>7, <2>8
<1>4. /\ node \in Node /\ node.type = "difference" /\ node.left = L(n) /\ node.right = L(c)
  BY <1>2 DEF Node, Parent
<1> HIDE DEF k, node
<1>5. /\ heap' \in Seq(Node) /\ New \notin DOMAIN heap /\ DOMAIN heap' = DOMAIN heap \cup {New}
      /\ \A m \in DOMAIN heap : heap'[m] = k[m]
      /\ heap'[New] = node
  BY <1>1, <1>3, <1>4, NodeMore DEF New
<1>6. PICK r, b : Ranked(heap, r, b)
  BY DEF Sound
<1>7. Shaped(heap, T, D) /\ 1 \in DOMAIN heap
  BY DEF Sound
<1>8. /\ \A m \in DOMAIN heap \ {n} : heap'[m] = heap[m]
      /\ heap'[n].type = "difference" /\ heap'[n].left = New /\ heap'[n].right = heap[c].right
      /\ heap'[New].type = "difference" /\ heap'[New].left = heap[n].left
      /\ heap'[New].right = heap[c].left
      /\ c = heap[n].right
  BY <1>3, <1>4, <1>5 DEF L, R
<1> HIDE DEF c
<1>14. Nests(heap, n, c, New, heap')
  BY <1>1, <1>5, <1>8 DEF Nests
<1>9. PICK U, E : Shaped(heap', U, E) /\ U \subseteq T /\ E \subseteq D \cup T
  BY <1>6, <1>7, <1>14, Rule1Shape
<1>10. /\ \E q, d : Ranked(heap', q, d)
       /\ SameObject(heap, heap')
  BY <1>1, <1>5, <1>6, <1>7, <1>14, Rule1Keeps
<1>11. Sound(heap', U, E)
  BY <1>5, <1>7, <1>9, <1>10 DEF Sound
<1>12. \A m \in DOMAIN heap : Prim(heap', m) <=> Prim(heap, m)
  BY <1>1, <1>8 DEF Prim
<1>20. TurnsRight(heap, n, heap')
  BY <1>14 DEF TurnsRight
<1> QED
  BY <1>20, <1>5, <1>9, <1>10, <1>11, <1>12 DEF Leaves

(* Rules 2, 3 and 5. *)
LEMMA DistributeStep ==
  ASSUME NEW T, NEW D, Sound(heap, T, D), NEW n \in DOMAIN heap \ (T \cup D),
         NEW op, NEW opZ, Distribute(n, op, opZ), op = heap[n].type,
         \/ op = "intersection" /\ IsType(R(n), "union") /\ opZ = "intersection"
         \/ op = "difference" /\ IsType(R(n), "intersection") /\ opZ = "difference"
         \/ op = "difference" /\ IsType(R(n), "difference") /\ opZ = "intersection"
  PROVE  /\ Leaves(heap, T, D, heap') /\ TurnsRight(heap, n, heap')
         /\ SameObject(heap, heap')
<1> DEFINE c == R(n)
           k == [heap EXCEPT ![n].type = "union", ![n].left = New, ![c].type = opZ, ![c].left = L(n)]
           node == Parent(op, L(n), L(c))
<1>1. /\ heap \in Seq(Node) /\ ~Prim(heap, n) /\ ~Prim(heap, c) /\ IsOp(heap, n)
      /\ heap' = Append(k, node)
  BY DEF Distribute, IsType, Sound, Prim, IsOp
<1>2. /\ c \in DOMAIN heap /\ c # n /\ R(c) \in Nat /\ L(c) \in Nat /\ L(n) \in Nat /\ c \in Nat
      /\ opZ \in {"intersection", "difference"} /\ op \in {"intersection", "difference"}
  BY <1>1, HeapOperands
<1>3. /\ k \in Seq(Node) /\ Len(k) = Len(heap) /\ New \in Nat
      /\ \A m \in DOMAIN heap \ {n, c} : k[m] = heap[m]
      /\ k[n].type = "union" /\ k[n].left = New /\ k[n].right = c
      /\ k[c].type = opZ /\ k[c].left = L(n) /\ k[c].right = R(c)
  <2>1. New \in Nat /\ heap[n] \in Node /\ heap[c] \in Node
    BY <1>1, <1>2 DEF New
  <2>2. PICK a, b : a = [heap[n] EXCEPT !.type = "union", !.left = New] /\ b = [heap[c] EXCEPT !.type = opZ, !.left = L(n)]
    OBVIOUS
  <2>3. a \in Node /\ a.type = "union" /\ a.left = New /\ a.right = heap[n].right
    BY <2>1, <2>2 DEF Node
  <2>4. b \in Node /\ b.type = opZ /\ b.left = L(n) /\ b.right = heap[c].right
    BY <1>2, <2>1, <2>2 DEF Node
  <2>5. k = [[heap EXCEPT ![n] = a] EXCEPT ![c] = b]
    BY <1>2, <2>2
  <2> HIDE DEF k
  <2>6. /\ k \in Seq(Node) /\ Len(k) = Len(heap)
        /\ \A m \in DOMAIN heap \ {n, c} : k[m] = heap[m]
        /\ k[n] = a /\ k[c] = b
    BY <1>1, <1>2, <2>3, <2>4, <2>5, TwoReplaced
  <2> QED
    BY <2>1, <2>3, <2>4, <2>6 DEF L, R
<1>4. /\ node \in Node /\ node.type = op /\ node.left = L(n) /\ node.right = L(c)
  BY <1>2 DEF Node, Parent
<1> HIDE DEF k, node
<1>5. /\ heap' \in Seq(Node) /\ New \notin DOMAIN heap /\ DOMAIN heap' = DOMAIN heap \cup {New}
      /\ \A m \in DOMAIN heap : heap'[m] = k[m]
      /\ heap'[New] = node
  BY <1>1, <1>3, <1>4, NodeMore DEF New
<1>6. PICK r, b : Ranked(heap, r, b)
  BY DEF Sound
<1>7. Shaped(heap, T, D) /\ 1 \in DOMAIN heap
  BY DEF Sound
<1>8. /\ \A m \in DOMAIN heap \ {n, c} : heap'[m] = heap[m]
      /\ heap'[n].type = "union" /\ heap'[n].left = New /\ heap'[n].right = c
      /\ heap'[c].type = opZ /\ heap'[c].left = heap[n].left /\ heap'[c].right = heap[c].right
      /\ heap'[New].type = op /\ heap'[New].left = heap[n].left
      /\ heap'[New].right = heap[c].left
      /\ c = heap[n].right
  BY <1>2, <1>3, <1>4, <1>5 DEF L, R
<1>13. IsOp(heap', c) /\ IsOp(heap', New) /\ ~Prim(heap', n) /\ ~Prim(heap', c)
  BY <1>2, <1>8 DEF IsOp, Prim
<1>14. \/ heap[n].type = "intersection" /\ heap[c].type = "union" /\ heap'[c].type = "intersection"
       \/ heap[n].type = "difference" /\ heap[c].type = "intersection" /\ heap'[c].type = "difference"
       \/ heap[n].type = "difference" /\ heap[c].type = "difference" /\ heap'[c].type = "intersection"
  BY <1>8 DEF IsType
<1> HIDE DEF c
<1>15. Distributes(heap, n, c, New, heap')
  BY <1>5, <1>8, <1>14 DEF Distributes
<1>9. PICK U : Shaped(heap', U, D) /\ U \subseteq T
  BY <1>6, <1>7, <1>15, DistributeShape
<1>10. /\ \E q, d : Ranked(heap', q, d)
       /\ SameObject(heap, heap')
  BY <1>1, <1>5, <1>6, <1>7, <1>15, DistributeKeeps
<1>11. Sound(heap', U, D)
  BY <1>5, <1>7, <1>9, <1>10 DEF Sound
<1>12. \A m \in DOMAIN heap : Prim(heap', m) <=> Prim(heap, m)
  BY <1>1, <1>8, <1>13 DEF Prim
<1>20. TurnsRight(heap, n, heap')
  BY <1>15 DEF TurnsRight
<1> QED
  BY <1>20, <1>5, <1>9, <1>10, <1>11, <1>12 DEF Leaves

(* Rules 4 and 6. *)
LEMMA RotateStep ==
  ASSUME NEW T, NEW D, Sound(heap, T, D), NEW n \in DOMAIN heap \ (T \cup D),
         Rotate(n), IsType(n, "intersection"), heap[R(n)].type \in {"intersection", "difference"}
  PROVE  /\ Leaves(heap, T, D, heap') /\ TurnsRight(heap, n, heap')
         /\ SameObject(heap, heap')
<1> DEFINE c == R(n)
           one == Parent(heap[c].type, c, R(c))
           two == Parent("intersection", L(n), L(c))
<1>1. /\ heap \in Seq(Node) /\ ~Prim(heap, n) /\ ~Prim(heap, c) /\ IsOp(heap, n)
      /\ heap[n].type = "intersection" /\ heap[c].type \in {"intersection", "difference"}
      /\ heap' = [heap EXCEPT ![n] = one, ![c] = two]
  BY DEF Rotate, IsType, Sound, Prim, IsOp
<1>2. c \in DOMAIN heap /\ c # n /\ R(c) \in Nat /\ L(c) \in Nat /\ L(n) \in Nat /\ c \in Nat
  BY <1>1, HeapOperands
<1>3. /\ one \in Node /\ one.type = heap[c].type /\ one.left = c /\ one.right = R(c)
      /\ two \in Node /\ two.type = "intersection" /\ two.left = L(n) /\ two.right = L(c)
  BY <1>1, <1>2 DEF Node, Parent
<1> HIDE DEF one, two
<1>5. /\ heap' \in Seq(Node) /\ DOMAIN heap' = DOMAIN heap
      /\ \A m \in DOMAIN heap \ {n, c} : heap'[m] = heap[m]
      /\ heap'[n] = one /\ heap'[c] = two
  BY <1>1, <1>2, <1>3
<1>6. PICK r, b : Ranked(heap, r, b)
  BY DEF Sound
<1>7. Shaped(heap, T, D) /\ 1 \in DOMAIN heap
  BY DEF Sound
<1>8. /\ heap'[n].type = heap[c].type /\ heap'[n].left = c /\ heap'[n].right = heap[c].right
      /\ heap'[c].type = "intersection" /\ heap'[c].left = heap[n].left
      /\ heap'[c].right = heap[c].left
      /\ c = heap[n].right
  BY <1>3, <1>5 DEF L, R
<1>13. IsOp(heap', c) /\ IsOp(heap', n) /\ ~Prim(heap', n) /\ ~Prim(heap', c)
  BY <1>1, <1>8 DEF IsOp, Prim
<1> HIDE DEF c
<1>14. Rotates(heap, n, c, heap')
  BY <1>1, <1>5, <1>8 DEF Rotates, IsOp
<1>9. PICK U : Shaped(heap', U, D) /\ U \subseteq T
  BY <1>6, <1>7, <1>14, RotateShape
<1>10. /\ \E q, d : Ranked(heap', q, d)
       /\ SameObject(heap, heap')
  BY <1>1, <1>5, <1>6, <1>7, <1>14, RotateKeeps
<1>11. Sound(heap', U, D)
  BY <1>5, <1>7, <1>9, <1>10 DEF Sound
<1>12. \A m \in DOMAIN heap : Prim(heap', m) <=> Prim(heap, m)
  BY <1>1, <1>5, <1>13 DEF Prim
<1>20. TurnsRight(heap, n, heap')
  BY <1>14 DEF TurnsRight
<1> QED
  BY <1>20, <1>5, <1>9, <1>10, <1>11, <1>12 DEF Leaves

(* What rules 7 and 8 have in common. *)
LEMMA DistributeLeftStep ==
  ASSUME NEW T, NEW D, Sound(heap, T, D), NEW n \in DOMAIN heap \ (T \cup D),
         NEW op, DistributeLeft(n, op), op = heap[n].type,
         IsOp(heap, n), IsType(L(n), "union"), IsPrimitive(R(n))
  PROVE  /\ Leaves(heap, T, D, heap') /\ TurnsLeft(heap, n, heap')
         /\ heap'[n].left = L(n) /\ IsType(n, "union")'
         /\ heap'[L(n)] # heap[L(n)] /\ L(n) \in DOMAIN heap
         /\ Owners(L(n)) = {n} => SameObject(heap, heap')
<1> DEFINE c == L(n)
           k == [heap EXCEPT ![n].type = "union", ![n].right = New, ![c].type = op, ![c].right = R(n)]
           node == Parent(op, R(c), R(n))
<1>1. /\ heap \in Seq(Node) /\ ~Prim(heap, n) /\ ~Prim(heap, c) /\ Prim(heap, R(n))
      /\ heap[c].type = "union" /\ heap' = Append(k, node)
  BY DEF DistributeLeft, IsType, Sound, Prim, IsOp, IsPrimitive
<1>2. /\ c \in DOMAIN heap /\ c # n /\ R(c) \in Nat /\ L(c) \in Nat /\ R(n) \in Nat /\ c \in Nat
      /\ op \in {"intersection", "difference"}
  BY <1>1, HeapOperands DEF IsOp
<1>3. /\ k \in Seq(Node) /\ Len(k) = Len(heap) /\ New \in Nat
      /\ \A m \in DOMAIN heap \ {n, c} : k[m] = heap[m]
      /\ k[n].type = "union" /\ k[n].left = c /\ k[n].right = New
      /\ k[c].type = op /\ k[c].left = L(c) /\ k[c].right = R(n)
  <2>1. New \in Nat /\ heap[n] \in Node /\ heap[c] \in Node
    BY <1>1, <1>2 DEF New
  <2>2. PICK a, b : a = [heap[n] EXCEPT !.type = "union", !.right = New] /\ b = [heap[c] EXCEPT !.type = op, !.right = R(n)]
    OBVIOUS
  <2>3. a \in Node /\ a.type = "union" /\ a.right = New /\ a.left = heap[n].left
    BY <2>1, <2>2 DEF Node
  <2>4. b \in Node /\ b.type = op /\ b.right = R(n) /\ b.left = heap[c].left
    BY <1>2, <2>1, <2>2 DEF Node
  <2>5. k = [[heap EXCEPT ![n] = a] EXCEPT ![c] = b]
    BY <1>2, <2>2
  <2> HIDE DEF k
  <2>6. /\ k \in Seq(Node) /\ Len(k) = Len(heap)
        /\ \A m \in DOMAIN heap \ {n, c} : k[m] = heap[m]
        /\ k[n] = a /\ k[c] = b
    BY <1>1, <1>2, <2>3, <2>4, <2>5, TwoReplaced
  <2> QED
    BY <2>1, <2>3, <2>4, <2>6 DEF L, R
<1>4. /\ node \in Node /\ node.type = op /\ node.left = R(c) /\ node.right = R(n)
  BY <1>2 DEF Node, Parent
<1> HIDE DEF k, node
<1>5. /\ heap' \in Seq(Node) /\ New \notin DOMAIN heap /\ DOMAIN heap' = DOMAIN heap \cup {New}
      /\ \A m \in DOMAIN heap : heap'[m] = k[m]
      /\ heap'[New] = node
  BY <1>1, <1>3, <1>4, NodeMore DEF New
<1>6. PICK r, b : Ranked(heap, r, b)
  BY DEF Sound
<1>7. /\ Shaped(heap, T, D) /\ 1 \in DOMAIN heap
      /\ \A m \in DOMAIN heap \ D : \A x : Owns(heap, m, x) => x \notin D
      /\ \A m \in D : ~Prim(heap, m)
      /\ D \subseteq DOMAIN heap
  BY DEF Sound, Shaped
<1>8. /\ \A m \in DOMAIN heap \ {n, c} : heap'[m] = heap[m]
      /\ heap'[n].type = "union" /\ heap'[n].left = c /\ heap'[n].right = New
      /\ heap'[c].type = heap[n].type /\ heap'[c].left = heap[c].left
      /\ heap'[c].right = heap[n].right
      /\ heap'[New].type = heap[n].type /\ heap'[New].left = heap[c].right
      /\ heap'[New].right = heap[n].right
      /\ c = heap[n].left /\ Prim(heap, heap[n].right)
  BY <1>1, <1>2, <1>3, <1>4, <1>5 DEF L, R
<1>13. IsOp(heap', c) /\ IsOp(heap', New) /\ ~Prim(heap', n) /\ ~Prim(heap', c)
  BY <1>2, <1>8 DEF IsOp, Prim
<1> HIDE DEF c
<1>17. DistributesLeft(heap, n, c, New, heap')
  BY <1>1, <1>5, <1>8 DEF DistributesLeft
<1>9. PICK U : Shaped(heap', U, D) /\ U \subseteq T
  BY <1>6, <1>7, <1>17, DistributeLeftShape
<1>10. /\ \E q, d : Ranked(heap', q, d)
       /\ (\E W : Sole(heap, W, n, c)) => SameObject(heap, heap')
  BY <1>1, <1>5, <1>6, <1>7, <1>17, DistributeLeftKeeps
<1>11. Sound(heap', U, D)
  BY <1>5, <1>7, <1>9, <1>10 DEF Sound
<1>12. \A m \in DOMAIN heap : Prim(heap', m) <=> Prim(heap, m)
  BY <1>1, <1>8, <1>13 DEF Prim
<1>14. Leaves(heap, T, D, heap')
  BY <1>5, <1>9, <1>11, <1>12 DEF Leaves
<1>15. heap'[n].left = L(n) /\ IsType(n, "union")' /\ heap'[L(n)] # heap[L(n)] /\ L(n) \in DOMAIN heap
  BY <1>1, <1>2, <1>8 DEF IsType, c, IsOp
<1>16. Owners(L(n)) = {n} => SameObject(heap, heap')
  <2> SUFFICES ASSUME Owners(c) = {n} PROVE SameObject(heap, heap')
    BY DEF c
  <2>1. Sole(heap, ReachableFrom(1) \ {c}, n, c)
    BY <1>1, <1>6, <1>7, OwnerIsSole
  <2> QED
    BY <1>10, <2>1
<1>20. TurnsLeft(heap, n, heap')
  BY <1>17 DEF TurnsLeft
<1> QED
  BY <1>20, <1>14, <1>15, <1>16

(* Rules 1 to 6. *)
LEMMA RightRuleStep ==
  ASSUME NEW T, NEW D, Sound(heap, T, D), NEW n \in DOMAIN heap \ (T \cup D),
         Rule1(n) \/ Rule2(n) \/ Rule3(n) \/ Rule4(n) \/ Rule5(n) \/ Rule6(n)
  PROVE  /\ Leaves(heap, T, D, heap') /\ TurnsRight(heap, n, heap')
         /\ SameObject(heap, heap')
<1>1. CASE Rule1(n)
  BY <1>1, Rule1Step
<1>2. CASE Rule2(n)
  <2>1. /\ Distribute(n, "intersection", "intersection") /\ heap[n].type = "intersection"
        /\ IsType(R(n), "union")
    BY <1>2 DEF Rule2, IsType, RightIs
  <2> QED
    BY <2>1, DistributeStep
<1>3. CASE Rule3(n)
  <2>1. /\ Distribute(n, "difference", "difference") /\ heap[n].type = "difference"
        /\ IsType(R(n), "intersection")
    BY <1>3 DEF Rule3, IsType, RightIs
  <2> QED
    BY <2>1, DistributeStep
<1>4. CASE Rule4(n)
  <2>1. Rotate(n) /\ IsType(n, "intersection") /\ heap[R(n)].type \in {"intersection", "difference"}
    BY <1>4 DEF Rule4, IsType, RightIs
  <2> QED
    BY <2>1, RotateStep
<1>5. CASE Rule5(n)
  <2>1. /\ Distribute(n, "difference", "intersection") /\ heap[n].type = "difference"
        /\ IsType(R(n), "difference")
    BY <1>5 DEF Rule5, IsType, RightIs
  <2> QED
    BY <2>1, DistributeStep
<1>6. CASE Rule6(n)
  <2>1. Rotate(n) /\ IsType(n, "intersection") /\ heap[R(n)].type \in {"intersection", "difference"}
    BY <1>6 DEF Rule6, IsType, RightIs
  <2> QED
    BY <2>1, RotateStep
<1> QED
  BY <1>1, <1>2, <1>3, <1>4, <1>5, <1>6

(* Rules 7 and 8, which come when rules 1 to 6 are done. *)
LEMMA LeftRuleStep ==
  ASSUME NEW T, NEW D, Sound(heap, T, D), NEW n \in DOMAIN heap \ (T \cup D),
         ~RightRuleMatches(n), Rule7(n) \/ Rule8(n)
  PROVE  /\ Leaves(heap, T, D, heap') /\ TurnsLeft(heap, n, heap')
         /\ heap'[L(n)] # heap[L(n)] /\ L(n) \in DOMAIN heap /\ L(n) # n
         /\ Owners(L(n)) = {n} => SameObject(heap, heap')
<1>1. /\ IsOp(heap, n) /\ IsType(L(n), "union") /\ IsPrimitive(R(n))
      /\ \E op : DistributeLeft(n, op) /\ op = heap[n].type
  BY DEF Rule7, Rule8, RightRuleMatches, IsOp, IsType, LeftIs
<1>2. L(n) # n
  BY <1>1 DEF IsOp, IsType
<1> QED
  BY <1>1, <1>2, DistributeLeftStep

-----------------------------------------------------------------------------
(* The heap at any time. *)

(* The activations of normalise() are of nodes that it has come to. *)
Frames(h, T, D) ==
  {frame \in [node : DOMAIN h \ (T \cup D), at : {"entry", "right rules", "left done"}] :
     frame.at # "entry" => ~Prim(h, frame.node)}

HeapInv == \E T, D : Sound(heap, T, D) /\ stack \in Seq(Frames(heap, T, D))

(* The activations stay what they are while nodes are come to. *)
LEMMA FramesStay ==
  ASSUME NEW h, NEW T, NEW D, NEW g, NEW U, NEW E, U \cup E \subseteq T \cup D,
         DOMAIN h \subseteq DOMAIN g, \A m \in DOMAIN h : Prim(g, m) <=> Prim(h, m)
  PROVE  Frames(h, T, D) \subseteq Frames(g, U, E)
<1> SUFFICES ASSUME NEW frame \in Frames(h, T, D)
             PROVE  frame \in Frames(g, U, E)
  OBVIOUS
<1>1. /\ frame \in [node : DOMAIN h \ (T \cup D), at : {"entry", "right rules", "left done"}]
      /\ frame.at # "entry" => ~Prim(h, frame.node)
  BY DEF Frames
<1>2. frame.node \in DOMAIN h \ (T \cup D)
  BY <1>1
<1>3. frame \in [node : DOMAIN g \ (U \cup E), at : {"entry", "right rules", "left done"}]
  BY <1>1
<1> QED
  BY <1>1, <1>2, <1>3 DEF Frames

(* A list of members of A is one of members of B. *)
LEMMA SeqOfMore ==
  ASSUME NEW A, NEW B, A \subseteq B, NEW s \in Seq(A)
  PROVE  s \in Seq(B)
  OBVIOUS

(* The call of normalise() for an operand of a node that it has come to. *)
LEMMA OperandCalled ==
  ASSUME NEW h, NEW T, NEW D, Sound(h, T, D), NEW n \in DOMAIN h \ (T \cup D), ~Prim(h, n),
         NEW c, Owns(h, n, c), IsOp(h, n) => c = h[n].left \/ Prim(h, c)
  PROVE  \E U : /\ Sound(h, U, D) /\ U \cup D \subseteq T \cup D
                /\ Call(c) \in Frames(h, U, D)
<1>1. Shaped(h, T, D) /\ \E r, b : Ranked(h, r, b)
  BY DEF Sound
<1>2. Shaped(h, T \ {c}, D)
  <2>1. CASE Prim(h, c)
    <3>1. T \ {c} = T
      BY <1>1, <2>1 DEF Shaped
    <3> QED
      BY <1>1, <3>1
  <2>2. CASE ~Prim(h, c)
    BY <1>1, <2>2, OperandLeavesTree
  <2> QED
    BY <2>1, <2>2
<1>3. c \in DOMAIN h
  BY <1>1 DEF Ranked
<1>4. c \notin D
  BY <1>1 DEF Shaped
<1>5. Sound(h, T \ {c}, D)
  BY <1>2 DEF Sound
<1>6. Call(c) \in Frames(h, T \ {c}, D)
  BY <1>3, <1>4 DEF Call, Frames
<1> QED
  BY <1>5, <1>6

(* The innermost activation, and the others. *)
LEMMA StackTop ==
  ASSUME NEW S, stack \in Seq(S), stack # <<>>
  PROVE  Top \in S /\ Caller \in Seq(S)
<1>1. Len(stack) \in Nat /\ Len(stack) > 0
  OBVIOUS
<1>2. Top \in S
  BY <1>1 DEF Top, Last
<1>3. Caller \in Seq(S)
  BY <1>1 DEF Caller, Front
<1> QED
  BY <1>2, <1>3

(* In the tree to start from, normalise() has come to the root only. *)
LEMMA InitHeap ==
  ASSUME TreesAssumption, Init
  PROVE  HeapInv
<1>1. heap \in Trees /\ stack = <<Call(1)>>
  BY DEF Init
<1> DEFINE Parents == {n \in DOMAIN heap : ~Prim(heap, n)}
<1>2. /\ heap \in Seq(Node) /\ heap # <<>>
      /\ \A n \in Parents :
           /\ heap[n].left \in (n + 1)..Len(heap) /\ heap[n].right \in (n + 1)..Len(heap)
           /\ heap[n].left # heap[n].right
           /\ \A m \in Parents \ {n} :
                {heap[m].left, heap[m].right} \cap {heap[n].left, heap[n].right} = {}
  <2>1. IsTree(heap)
    BY <1>1 DEF TreesAssumption
  <2> QED
    BY <2>1 DEF IsTree, Prim
<1>3. /\ Len(heap) \in Nat /\ DOMAIN heap = 1..Len(heap) /\ 1 \in DOMAIN heap
      /\ \A n \in DOMAIN heap : n \in Nat /\ 1 <= n /\ n <= Len(heap)
  BY <1>2, LenProperties
<1>4. \A m \in DOMAIN heap : \A c : Owns(heap, m, c) <=>
        m \in Parents /\ c \in {heap[m].left, heap[m].right}
  BY DEF Owns
<1>5. \A m \in DOMAIN heap : \A c : Owns(heap, m, c) =>
        c \in DOMAIN heap /\ c # 1 /\ m < c
  BY <1>2, <1>3, <1>4
<1>6. \A m, k \in DOMAIN heap : \A c :
        Owns(heap, m, c) /\ Owns(heap, k, c) => m = k /\ heap[m].left # heap[m].right
  BY <1>2, <1>4
<1> DEFINE r == [n \in DOMAIN heap |-> IF Prim(heap, n) THEN 0 ELSE Len(heap) + 1 - n]
           b == Len(heap)
           T == Parents \ {1}
           D == {}
<1>7. Ranked(heap, r, b)
  <2>1. \A n \in DOMAIN heap : r[n] \in 0..b
    BY <1>3
  <2>2. \A n \in DOMAIN heap : Prim(heap, n) => r[n] = 0
    OBVIOUS
  <2>3. ASSUME NEW n \in DOMAIN heap, NEW c, Owns(heap, n, c)
        PROVE  c \in DOMAIN heap /\ r[c] < r[n]
    <3>1. c \in DOMAIN heap /\ n < c /\ ~Prim(heap, n)
      BY <1>4, <1>5, <2>3
    <3>2. CASE Prim(heap, c)
      BY <1>3, <3>1, <3>2
    <3>3. CASE ~Prim(heap, c)
      BY <1>3, <3>1, <3>3
    <3> QED
      BY <3>2, <3>3
  <2>4. b \in Nat /\ r = [n \in DOMAIN heap |-> r[n]]
    BY <1>3
  <2> HIDE DEF r, b
  <2> QED
    BY <2>1, <2>2, <2>3, <2>4 DEF Ranked
<1>8. Shaped(heap, T, D)
  <2>1. \A t \in T : \A c : Owns(heap, t, c) => c \in T \/ Prim(heap, c)
    BY <1>5
  <2>2. \A t \in T : \A m, k \in DOMAIN heap \ D :
          Owns(heap, m, t) /\ Owns(heap, k, t) => m = k /\ heap[m].left # heap[m].right
    BY <1>6
  <2>3. \A m \in DOMAIN heap \ D : IsOp(heap, m) => heap[m].right \in T \/ Prim(heap, heap[m].right)
    <3>1. \A m \in DOMAIN heap : IsOp(heap, m) => Owns(heap, m, heap[m].right)
      BY DEF IsOp, Owns, Prim
    <3> QED
      BY <1>5, <3>1
  <2>4. T \subseteq DOMAIN heap /\ \A n \in T \cup D : ~Prim(heap, n)
    OBVIOUS
  <2> QED
    BY <2>1, <2>2, <2>3, <2>4 DEF Shaped
<1>9. Sound(heap, T, D)
  <2> HIDE DEF T, D, r, b
  <2> QED
    BY <1>2, <1>3, <1>7, <1>8 DEF Sound
<1>10. Call(1) \in Frames(heap, T, D)
  BY <1>3 DEF Call, Frames
<1> HIDE DEF T, D
<1>11. <<Call(1)>> \in Seq(Frames(heap, T, D))
  BY <1>10
<1> QED
  BY <1>1, <1>9, <1>11 DEF HeapInv

(* Each step leaves the heap sound. *)
LEMMA NextHeap ==
  ASSUME HeapInv, [Next]_csgVars
  PROVE  HeapInv'
<1>1. PICK T, D : Sound(heap, T, D) /\ stack \in Seq(Frames(heap, T, D))
  BY DEF HeapInv
<1>2. ASSUME NEW at, Running(at)
      PROVE  /\ Top \in Frames(heap, T, D) /\ Caller \in Seq(Frames(heap, T, D)) /\ Top.at = at
             /\ Top.node \in DOMAIN heap \ (T \cup D)
             /\ at # "entry" => ~Prim(heap, Top.node)
  <2>1. Top \in Frames(heap, T, D) /\ Caller \in Seq(Frames(heap, T, D)) /\ Top.at = at
    BY <1>1, <1>2, StackTop DEF Running
  <2> QED
    BY <2>1 DEF Frames
<1>3. \A frame \in Frames(heap, T, D) : \A at \in {"entry", "right rules", "left done"} :
        ~Prim(heap, frame.node) => [frame EXCEPT !.at = at] \in Frames(heap, T, D)
  BY DEF Frames
<1>4. CASE Enter
  <2>1. /\ Top \in Frames(heap, T, D) /\ Caller \in Seq(Frames(heap, T, D))
    BY <1>2, <1>4 DEF Enter
  <2>2. heap' = heap /\ (stack' = Caller \/ (~Prim(heap, Top.node) /\ GoOn("right rules")))
    BY <1>4 DEF Enter, IsPrimitive, Prim
  <2>3. CASE stack' = Caller
    BY <1>1, <2>1, <2>2, <2>3 DEF HeapInv
  <2>4. CASE ~Prim(heap, Top.node) /\ GoOn("right rules")
    <3>1. PICK frame \in Frames(heap, T, D) : frame = [Top EXCEPT !.at = "right rules"]
      BY <1>3, <2>1, <2>4
    <3>2. stack' = Append(Caller, frame)
      BY <2>4, <3>1 DEF GoOn
    <3>3. stack' \in Seq(Frames(heap, T, D))
      BY <2>1, <3>2
    <3> QED
      BY <1>1, <2>2, <3>3 DEF HeapInv
  <2> QED
    BY <2>2, <2>3, <2>4
<1>5. CASE ApplyRightRule
  <2>1. /\ Top.node \in DOMAIN heap \ (T \cup D)
        /\ stack' = stack
        /\ \/ Rule1(Top.node) \/ Rule2(Top.node) \/ Rule3(Top.node)
           \/ Rule4(Top.node) \/ Rule5(Top.node) \/ Rule6(Top.node)
    BY <1>2, <1>5 DEF ApplyRightRule
  <2>2. Leaves(heap, T, D, heap')
    BY <1>1, <2>1, RightRuleStep
  <2>3. PICK U, E : Sound(heap', U, E) /\ Frames(heap, T, D) \subseteq Frames(heap', U, E)
    BY <2>2, FramesStay DEF Leaves
  <2>4. stack' \in Seq(Frames(heap', U, E))
    BY <1>1, <2>1, <2>3, SeqOfMore
  <2> QED
    BY <2>3, <2>4 DEF HeapInv
<1>6. CASE ApplyLeftRule
  <2>1. /\ Top \in Frames(heap, T, D) /\ Caller \in Seq(Frames(heap, T, D))
        /\ Top.node \in DOMAIN heap \ (T \cup D) /\ ~Prim(heap, Top.node)
    <3>1. Running("right rules")
      BY <1>6 DEF ApplyLeftRule
    <3>2. \A at : Running(at) /\ at # "entry" =>
            /\ Top \in Frames(heap, T, D) /\ Caller \in Seq(Frames(heap, T, D))
            /\ Top.node \in DOMAIN heap \ (T \cup D) /\ ~Prim(heap, Top.node)
      BY <1>2
    <3> QED
      BY <3>1, <3>2
  <2>2. Leaves(heap, T, D, heap')
    <3>1. CASE Rule7(Top.node) \/ Rule8(Top.node)
      BY <1>1, <1>6, <2>1, <3>1, LeftRuleStep DEF ApplyLeftRule
    <3>2. CASE heap' = heap
      BY <1>1, <3>2 DEF Leaves
    <3> QED
      BY <1>6, <3>1, <3>2 DEF ApplyLeftRule
  <2>3. PICK V, E : Sound(heap', V, E) /\ V \cup E \subseteq T \cup D
    BY <2>2 DEF Leaves
  <2> DEFINE n == Top.node
             c == heap'[n].left
  <2>4. n \in DOMAIN heap' \ (V \cup E) /\ ~Prim(heap', n)
    BY <2>1, <2>2, <2>3 DEF Leaves
  <2>5. Owns(heap', n, c)
    BY <2>4 DEF Owns
  <2> HIDE DEF n, c
  <2>6. PICK U : /\ Sound(heap', U, E) /\ U \cup E \subseteq V \cup E
                 /\ Call(c) \in Frames(heap', U, E)
    BY <2>3, <2>4, <2>5, OperandCalled DEF c
  <2>7. Frames(heap, T, D) \subseteq Frames(heap', U, E)
    BY <2>2, <2>3, <2>6, FramesStay DEF Leaves
  <2>8. PICK frame \in Frames(heap, T, D) : frame = [Top EXCEPT !.at = "left done"]
    BY <1>3, <2>1
  <2>9. PICK two : two = <<frame, Call(c)>>
    OBVIOUS
  <2>10. two \in Seq(Frames(heap', U, E))
    BY <2>6, <2>7, <2>9
  <2>11. Caller \in Seq(Frames(heap', U, E))
    BY <2>1, <2>7, SeqOfMore
  <2>12. stack' = Caller \o two
    BY <1>6, <2>8, <2>9 DEF ApplyLeftRule, c, n
  <2>13. stack' \in Seq(Frames(heap', U, E))
    BY <2>10, <2>11, <2>12
  <2> QED
    BY <2>6, <2>13 DEF HeapInv
<1>7. CASE LeftDone
  <2>1. /\ Top \in Frames(heap, T, D) /\ Caller \in Seq(Frames(heap, T, D))
        /\ Top.node \in DOMAIN heap \ (T \cup D) /\ ~Prim(heap, Top.node)
        /\ heap' = heap
    <3>1. Running("left done") /\ heap' = heap
      BY <1>7 DEF LeftDone
    <3>2. \A at : Running(at) /\ at # "entry" =>
            /\ Top \in Frames(heap, T, D) /\ Caller \in Seq(Frames(heap, T, D))
            /\ Top.node \in DOMAIN heap \ (T \cup D) /\ ~Prim(heap, Top.node)
      BY <1>2
    <3> QED
      BY <3>1, <3>2
  <2>2. CASE LoopEnds(Top.node)
    <3> DEFINE n == Top.node
               c == R(n)
    <3>1. Owns(heap, n, c)
      BY <2>1 DEF Owns, R
    <3>2. IsOp(heap, n) => Prim(heap, c)
      BY <2>2 DEF LoopEnds, IsOp, Prim, IsPrimitive, IsType
    <3>3. stack' = Append(Caller, Call(c))
      BY <1>7, <2>2 DEF LeftDone
    <3>4. n \in DOMAIN heap \ (T \cup D) /\ ~Prim(heap, n)
      BY <2>1
    <3> HIDE DEF n, c
    <3>5. PICK U : /\ Sound(heap, U, D) /\ U \cup D \subseteq T \cup D
                   /\ Call(c) \in Frames(heap, U, D)
      BY <1>1, <3>1, <3>2, <3>4, OperandCalled
    <3>6. Frames(heap, T, D) \subseteq Frames(heap, U, D)
      BY <3>5, FramesStay
    <3>7. Caller \in Seq(Frames(heap, U, D))
      BY <2>1, <3>6, SeqOfMore
    <3>8. stack' \in Seq(Frames(heap, U, D))
      BY <3>3, <3>5, <3>7
    <3> QED
      BY <2>1, <3>5, <3>8 DEF HeapInv
  <2>3. CASE ~LoopEnds(Top.node)
    <3>1. PICK frame \in Frames(heap, T, D) : frame = [Top EXCEPT !.at = "right rules"]
      BY <1>3, <2>1
    <3>2. stack' = Append(Caller, frame)
      BY <1>7, <2>3, <3>1 DEF LeftDone, GoOn
    <3>3. stack' \in Seq(Frames(heap, T, D))
      BY <2>1, <3>2
    <3> QED
      BY <1>1, <2>1, <3>3 DEF HeapInv
  <2> QED
    BY <2>2, <2>3
<1>8. CASE heap' = heap /\ stack' = stack
  BY <1>1, <1>8 DEF HeapInv
<1> QED
  BY <1>4, <1>5, <1>6, <1>7, <1>8 DEF Next, ReadOff, OptimiseSum, csgVars

(* The heap is sound at any time: no node is below itself, whatever is       *)
(* shared, and the right operand that rules 1 to 6 rewrite has one owner.    *)
THEOREM HeapHolds == Spec => []HeapInv
<1>1. Init => HeapInv
  BY TreesAssumption, InitHeap
<1>2. HeapInv /\ [Next]_csgVars => HeapInv'
  BY NextHeap
<1> QED
  BY <1>1, <1>2, PTL DEF Spec

(* Each step keeps the object, as far as the property says. *)
LEMMA IdentityStep ==
  ASSUME HeapInv, [Next]_csgVars, ApplyRightRule \/ RewritesOwnOperands
  PROVE  Solid(heap', Points) = Solid(heap, Points)
<1>1. PICK T, D : Sound(heap, T, D) /\ stack \in Seq(Frames(heap, T, D))
  BY DEF HeapInv
<1>2. ASSUME Running("right rules")
      PROVE  Top.node \in DOMAIN heap \ (T \cup D)
  <2>1. Top \in Frames(heap, T, D)
    BY <1>1, <1>2, StackTop DEF Running
  <2> QED
    BY <2>1 DEF Frames
<1>3. CASE ApplyRightRule
  <2>1. /\ Top.node \in DOMAIN heap \ (T \cup D)
        /\ \/ Rule1(Top.node) \/ Rule2(Top.node) \/ Rule3(Top.node)
           \/ Rule4(Top.node) \/ Rule5(Top.node) \/ Rule6(Top.node)
    BY <1>2, <1>3 DEF ApplyRightRule
  <2>2. SameObject(heap, heap')
    BY <1>1, <2>1, RightRuleStep
  <2> QED
    BY <2>2 DEF SameObject
<1>4. CASE heap' = heap
  BY <1>4
<1>5. CASE ApplyLeftRule /\ ~ApplyRightRule /\ heap' # heap
  <2> DEFINE n == Top.node
  <2>1. n \in DOMAIN heap \ (T \cup D) /\ ~RightRuleMatches(n) /\ (Rule7(n) \/ Rule8(n))
    BY <1>2, <1>5 DEF ApplyLeftRule
  <2>2. /\ heap'[L(n)] # heap[L(n)] /\ L(n) \in DOMAIN heap /\ L(n) # n
        /\ Owners(L(n)) = {n} => SameObject(heap, heap')
    BY <1>1, <2>1, LeftRuleStep
  <2>3. Owners(L(n)) = {n}
    BY <1>5, <2>2 DEF RewritesOwnOperands
  <2> QED
    BY <2>2, <2>3 DEF SameObject
<1> QED
  BY <1>3, <1>4, <1>5 DEF Next, Enter, LeftDone, ReadOff, OptimiseSum, csgVars

(* Each of the eight rules is the identity its comment states, for every     *)
(* tree: rules 1 to 6 always, rules 7 and 8 whenever the operand they        *)
(* rewrite has no other owner.                                               *)
THEOREM RulesAlwaysIdentities == Spec => RulesAreIdentities
<1>1. HeapInv /\ [Next]_csgVars
        => [ApplyRightRule \/ RewritesOwnOperands
              => Solid(heap', Points) = Solid(heap, Points)]_csgVars
  BY IdentityStep
<1> QED
  BY <1>1, HeapHolds, PTL DEF Spec, RulesAreIdentities

-----------------------------------------------------------------------------
(* What is below a node. *)

Closed(h, S) == \A m \in S : \A x : Owns(h, m, x) => x \in S

(* The nodes that every closed set with k has. *)
Reach(h, k) ==
  {m \in DOMAIN h : \A S \in SUBSET DOMAIN h : k \in S /\ Closed(h, S) => m \in S}

(* It is the least of these sets. *)
LEMMA ReachIsLeast ==
  ASSUME NEW h, NEW r, NEW b, Ranked(h, r, b), NEW k \in DOMAIN h
  PROVE  /\ k \in Reach(h, k) /\ Reach(h, k) \subseteq DOMAIN h
         /\ Closed(h, Reach(h, k))
         /\ \A S \in SUBSET DOMAIN h : k \in S /\ Closed(h, S) => Reach(h, k) \subseteq S
<1>1. \A m \in DOMAIN h : \A x : Owns(h, m, x) => x \in DOMAIN h
  BY DEF Ranked
<1>2. Closed(h, Reach(h, k))
  <2> SUFFICES ASSUME NEW m \in Reach(h, k), NEW x, Owns(h, m, x)
               PROVE  x \in Reach(h, k)
    BY DEF Closed
  <2>1. x \in DOMAIN h /\ m \in DOMAIN h
    BY <1>1 DEF Reach
  <2>2. \A S \in SUBSET DOMAIN h : k \in S /\ Closed(h, S) => x \in S
    BY DEF Reach, Closed
  <2> QED
    BY <2>1, <2>2 DEF Reach
<1> QED
  BY <1>2 DEF Reach

(* Nothing below a node has a higher rank, and below it are the node and     *)
(* what is below its operands.                                               *)
LEMMA ReachOfOperands ==
  ASSUME NEW h, NEW r, NEW b, Ranked(h, r, b), NEW k \in DOMAIN h
  PROVE  /\ \A m \in Reach(h, k) : r[m] <= r[k]
         /\ Prim(h, k) => Reach(h, k) = {k}
         /\ ~Prim(h, k) => Reach(h, k)
              = {k} \cup Reach(h, h[k].left) \cup Reach(h, h[k].right)
<1>1. \A m \in DOMAIN h : r[m] \in Nat /\ \A x : Owns(h, m, x) => x \in DOMAIN h /\ r[x] < r[m]
  BY DEF Ranked
<1>2. k \in Reach(h, k) /\ Closed(h, Reach(h, k))
  BY ReachIsLeast
<1>3. \A S \in SUBSET DOMAIN h : k \in S /\ Closed(h, S) => Reach(h, k) \subseteq S
  BY ReachIsLeast
<1>4. \A m \in Reach(h, k) : r[m] <= r[k]
  <2> DEFINE S == {m \in DOMAIN h : r[m] <= r[k]}
  <2>1. Closed(h, S)
    BY <1>1 DEF Closed
  <2>2. k \in S
    BY <1>1
  <2> QED
    BY <1>3, <2>1, <2>2
<1>5. ASSUME Prim(h, k) PROVE Reach(h, k) = {k}
  <2>1. Closed(h, {k})
    BY <1>5 DEF Closed, Owns
  <2> QED
    BY <1>2, <1>3, <2>1
<1>6. ASSUME ~Prim(h, k)
      PROVE  Reach(h, k) = {k} \cup Reach(h, h[k].left) \cup Reach(h, h[k].right)
  <2> DEFINE l == h[k].left
             q == h[k].right
             S == {k} \cup Reach(h, l) \cup Reach(h, q)
  <2>1. Owns(h, k, l) /\ Owns(h, k, q) /\ l \in DOMAIN h /\ q \in DOMAIN h
    BY <1>1, <1>6 DEF Owns
  <2>2. \A x : Owns(h, k, x) => x \in {l, q}
    BY DEF Owns
  <2> HIDE DEF l, q
  <2>3. /\ l \in Reach(h, l) /\ Closed(h, Reach(h, l)) /\ Reach(h, l) \subseteq DOMAIN h
        /\ q \in Reach(h, q) /\ Closed(h, Reach(h, q)) /\ Reach(h, q) \subseteq DOMAIN h
    BY <2>1, ReachIsLeast
  <2>4. Closed(h, S) /\ S \subseteq DOMAIN h
    BY <2>2, <2>3 DEF Closed
  <2>5. Reach(h, k) \subseteq S
    BY <1>3, <2>4
  <2>6. l \in Reach(h, k) /\ q \in Reach(h, k) /\ Reach(h, k) \in SUBSET DOMAIN h
    BY <1>2, <2>1 DEF Closed, Reach
  <2>7. Reach(h, l) \subseteq Reach(h, k) /\ Reach(h, q) \subseteq Reach(h, k)
    BY <1>2, <2>1, <2>6, ReachIsLeast
  <2>8. Reach(h, k) = S
    BY <1>2, <2>5, <2>7
  <2> QED
    BY <2>8 DEF l, q
<1> QED
  BY <1>4, <1>5, <1>6

(* What is below a node below k is below k. *)
LEMMA ReachOn ==
  ASSUME NEW h, NEW r, NEW b, Ranked(h, r, b), NEW k \in DOMAIN h, NEW m \in Reach(h, k)
  PROVE  m \in DOMAIN h /\ Reach(h, m) \subseteq Reach(h, k)
<1>1. Closed(h, Reach(h, k)) /\ Reach(h, k) \in SUBSET DOMAIN h
  BY ReachIsLeast
<1> QED
  BY <1>1, ReachIsLeast

-----------------------------------------------------------------------------
(* Products. *)

(* A node that a product may have, and the node of a product: its right      *)
(* operands are primitives, and no union is below it.                        *)
Plain(h, x) == Prim(h, x) \/ (IsOp(h, x) /\ Prim(h, h[x].right))
Product(h, m) == \A x \in Reach(h, m) : Plain(h, x)

(* A rule on n and c, seen from A, which has all nodes that are in use.      *)
(* Either n is in no product and c nobody else's, or c is in no product and  *)
(* stays below n.                                                            *)
Changes(h, g, A, n, c) ==
  /\ A \subseteq DOMAIN h /\ Closed(h, A) /\ n \in A /\ c \in A /\ c # n
  /\ DOMAIN h \subseteq DOMAIN g
  /\ \A m \in DOMAIN h \ {n, c} : g[m] = h[m]
  /\ \A m \in DOMAIN h : Prim(g, m) <=> Prim(h, m)
  /\ Owns(h, n, c)
  /\ \A x : (Owns(h, n, x) \/ Owns(h, c, x)) /\ x # c => x \in Reach(g, n)
  /\ \/ ~Plain(h, n) /\ \A m \in A : Owns(h, m, c) => m = n
     \/ ~Plain(h, c) /\ c \in Reach(g, n)

(* Nodes that are not rewritten have the operands they had. *)
LEMMA SameOwns ==
  ASSUME NEW h, NEW g, NEW m, g[m] = h[m]
  PROVE  /\ \A x : Owns(g, m, x) <=> Owns(h, m, x)
         /\ IsOp(g, m) <=> IsOp(h, m)
BY DEF Owns, Prim, IsOp

(* A product stays one. *)
LEMMA ProductStays ==
  ASSUME NEW h, NEW r, NEW b, Ranked(h, r, b), NEW g, NEW q, NEW d, Ranked(g, q, d),
         NEW A, NEW n, NEW c, Changes(h, g, A, n, c),
         NEW m \in A, m # c, Product(h, m)
  PROVE  Product(g, m)
<1>1. /\ A \subseteq DOMAIN h /\ Closed(h, A) /\ Owns(h, n, c)
      /\ DOMAIN h \subseteq DOMAIN g /\ \A x \in DOMAIN h \ {n, c} : g[x] = h[x]
      /\ \A x \in DOMAIN h : Prim(g, x) <=> Prim(h, x)
      /\ \/ ~Plain(h, n) /\ \A x \in A : Owns(h, x, c) => x = n
         \/ ~Plain(h, c)
  BY DEF Changes
<1>2. m \in DOMAIN h /\ m \in DOMAIN g
  BY <1>1
<1>3. m \in Reach(h, m) /\ Closed(h, Reach(h, m)) /\ Reach(h, m) \subseteq DOMAIN h
  BY <1>2, ReachIsLeast
<1>4. Reach(h, m) \subseteq A
  BY <1>1, <1>2, ReachIsLeast
<1>5. n \notin Reach(h, m)
  BY <1>1, <1>3 DEF Product, Closed
<1>6. c \notin Reach(h, m)
  <2>1. CASE ~Plain(h, c)
    BY <2>1 DEF Product
  <2>2. CASE \A x \in A : Owns(h, x, c) => x = n
    <3> DEFINE S == Reach(h, m) \ {c}
    <3>1. Closed(h, S)
      BY <1>3, <1>4, <1>5, <2>2 DEF Closed
    <3>2. m \in S /\ S \in SUBSET DOMAIN h
      BY <1>3
    <3> QED
      BY <1>2, <3>1, <3>2, ReachIsLeast
  <2> QED
    BY <1>1, <2>1, <2>2
<1>7. \A x \in Reach(h, m) : g[x] = h[x]
  BY <1>1, <1>3, <1>5, <1>6
<1>8. Closed(g, Reach(h, m))
  BY <1>3, <1>7, SameOwns DEF Closed
<1>9. Reach(g, m) \subseteq Reach(h, m)
  BY <1>1, <1>2, <1>3, <1>8, ReachIsLeast
<1>10. ASSUME NEW x \in Reach(g, m) PROVE Plain(g, x)
  <2>1. x \in Reach(h, m) /\ g[x] = h[x] /\ Plain(h, x) /\ x \in DOMAIN h
    BY <1>3, <1>7, <1>9 DEF Product
  <2>2. CASE Prim(h, x)
    BY <1>1, <2>1, <2>2 DEF Plain
  <2>3. CASE ~Prim(h, x)
    <3>1. IsOp(h, x) /\ Prim(h, h[x].right)
      BY <2>1, <2>3 DEF Plain
    <3>2. h[x].right \in DOMAIN h
      BY <2>1, <2>3 DEF Ranked, Owns
    <3> QED
      BY <1>1, <2>1, <3>1, <3>2 DEF Plain, IsOp
  <2> QED
    BY <2>2, <2>3
<1> QED
  BY <1>10 DEF Product

(* What was below k is still below it, or below n; but c may be gone. *)
LEMMA ReachKept ==
  ASSUME NEW h, NEW r, NEW b, Ranked(h, r, b), NEW g, NEW q, NEW d, Ranked(g, q, d),
         NEW A, NEW n, NEW c, Changes(h, g, A, n, c),
         NEW k \in A, NEW m \in Reach(h, k), m # c
  PROVE  m \in Reach(g, k) \cup Reach(g, n)
<1>1. /\ A \subseteq DOMAIN h /\ n \in A /\ c \in A
      /\ DOMAIN h \subseteq DOMAIN g /\ \A x \in DOMAIN h \ {n, c} : g[x] = h[x]
      /\ \A x : (Owns(h, n, x) \/ Owns(h, c, x)) /\ x # c => x \in Reach(g, n)
  BY DEF Changes
<1>2. k \in DOMAIN h /\ k \in DOMAIN g /\ n \in DOMAIN g
  BY <1>1
<1> DEFINE S == {x \in DOMAIN h : x \in Reach(g, k) \cup Reach(g, n) \cup {c}}
<1>3. k \in Reach(g, k) /\ Closed(g, Reach(g, k)) /\ Closed(g, Reach(g, n))
  BY <1>2, ReachIsLeast
<1>4. ASSUME NEW x \in S, NEW y, Owns(h, x, y) PROVE y \in S
  <2>1. y \in DOMAIN h
    BY <1>4 DEF Ranked
  <2>2. CASE x \in {n, c}
    BY <1>1, <1>4, <2>1, <2>2
  <2>3. CASE x \notin {n, c}
    <3>1. Owns(g, x, y) /\ x \in Reach(g, k) \cup Reach(g, n)
      BY <1>1, <1>4, <2>3, SameOwns
    <3> QED
      BY <1>3, <2>1, <3>1 DEF Closed
  <2> QED
    BY <2>2, <2>3
<1>5. Closed(h, S)
  BY <1>4 DEF Closed
<1>6. k \in S /\ S \in SUBSET DOMAIN h
  BY <1>2, <1>3
<1> HIDE DEF S
<1>7. Reach(h, k) \subseteq S
  BY <1>2, <1>5, <1>6, ReachIsLeast
<1> QED
  BY <1>7 DEF S

(* What is below k was below it, or is below n. *)
LEMMA ReachNew ==
  ASSUME NEW h, NEW r, NEW b, Ranked(h, r, b), NEW g, NEW q, NEW d, Ranked(g, q, d),
         NEW A, NEW n, NEW c, Changes(h, g, A, n, c),
         NEW k \in A, k # c, NEW m \in Reach(g, k), m \notin Reach(g, n)
  PROVE  m \in Reach(h, k) \ {n, c} /\ m \in A
<1>1. /\ A \subseteq DOMAIN h /\ Closed(h, A) /\ n \in A /\ c \in A
      /\ DOMAIN h \subseteq DOMAIN g /\ \A x \in DOMAIN h \ {n, c} : g[x] = h[x]
      /\ c \in Reach(g, n) \/ \A x \in A : Owns(h, x, c) => x = n
  BY DEF Changes
<1>2. k \in DOMAIN h /\ k \in DOMAIN g /\ n \in DOMAIN g
  BY <1>1
<1>3. /\ n \in Reach(g, n) /\ Closed(g, Reach(g, n)) /\ Reach(g, n) \subseteq DOMAIN g
      /\ k \in Reach(h, k) /\ Closed(h, Reach(h, k)) /\ Reach(h, k) \subseteq DOMAIN h
  BY <1>2, ReachIsLeast
<1>4. Reach(h, k) \subseteq A
  BY <1>1, <1>2, ReachIsLeast
<1> DEFINE S == (Reach(h, k) \ {n, c}) \cup Reach(g, n)
<1>5. ASSUME NEW x \in S, NEW y, Owns(g, x, y) PROVE y \in S
  <2>1. CASE x \in Reach(g, n)
    BY <1>3, <1>5, <2>1 DEF Closed
  <2>2. CASE x \in Reach(h, k) \ {n, c}
    <3>1. Owns(h, x, y) /\ x \in A
      BY <1>1, <1>3, <1>4, <1>5, <2>2, SameOwns
    <3>2. y \in Reach(h, k)
      BY <1>3, <2>2, <3>1 DEF Closed
    <3>3. y = c => c \in Reach(g, n)
      BY <1>1, <2>2, <3>1
    <3> QED
      BY <1>3, <3>2, <3>3
  <2> QED
    BY <2>1, <2>2
<1>6. Closed(g, S)
  BY <1>5 DEF Closed
<1>7. k \in S /\ S \in SUBSET DOMAIN g
  BY <1>1, <1>3
<1> HIDE DEF S
<1>8. Reach(g, k) \subseteq S
  BY <1>2, <1>6, <1>7, ReachIsLeast
<1> QED
  BY <1>4, <1>8 DEF S

(* What was below k and does not rank below n still is. *)
LEMMA ReachStays ==
  ASSUME NEW h, NEW r, NEW b, Ranked(h, r, b), NEW g, NEW q, NEW d, Ranked(g, q, d),
         NEW A, NEW n, NEW c, Changes(h, g, A, n, c), NEW k \in A,
         NEW m \in Reach(h, k), ~(r[m] < r[n])
  PROVE  m \in Reach(g, k)
<1>1. /\ A \subseteq DOMAIN h /\ n \in A /\ c \in A /\ Owns(h, n, c)
      /\ DOMAIN h \subseteq DOMAIN g /\ \A x \in DOMAIN h \ {n, c} : g[x] = h[x]
  BY DEF Changes
<1>2. k \in DOMAIN h /\ k \in DOMAIN g
  BY <1>1
<1>3. \A x \in DOMAIN h : r[x] \in Nat /\ \A y : Owns(h, x, y) => y \in DOMAIN h /\ r[y] < r[x]
  BY DEF Ranked
<1> DEFINE S == {x \in DOMAIN h : x \in Reach(g, k) \/ r[x] < r[n]}
<1>4. k \in Reach(g, k) /\ Closed(g, Reach(g, k))
  BY <1>2, ReachIsLeast
<1>5. ASSUME NEW x \in S, NEW y, Owns(h, x, y) PROVE y \in S
  <2>1. y \in DOMAIN h /\ r[y] < r[x] /\ r[x] \in Nat /\ r[y] \in Nat /\ r[n] \in Nat /\ r[c] < r[n] /\ r[c] \in Nat
    BY <1>1, <1>3, <1>5
  <2>2. CASE r[x] < r[n] \/ x \in {n, c}
    <3>1. r[y] < r[n]
      BY <2>1, <2>2
    <3> QED
      BY <2>1, <3>1
  <2>3. CASE ~(r[x] < r[n]) /\ x \notin {n, c}
    <3>1. Owns(g, x, y) /\ x \in Reach(g, k)
      BY <1>1, <1>5, <2>3, SameOwns
    <3> QED
      BY <1>4, <2>1, <3>1 DEF Closed
  <2> QED
    BY <2>2, <2>3
<1>6. Closed(h, S)
  BY <1>5 DEF Closed
<1>7. k \in S /\ S \in SUBSET DOMAIN h
  BY <1>2, <1>4
<1> HIDE DEF S
<1>8. m \in S
  BY <1>2, <1>6, <1>7, ReachIsLeast
<1> QED
  BY <1>8 DEF S

-----------------------------------------------------------------------------
(* The rules are such changes. *)

(* What is below the operands of n is below n. *)
LEMMA BelowOperands ==
  ASSUME NEW g, NEW q, NEW d, Ranked(g, q, d), NEW n \in DOMAIN g
  PROVE  /\ n \in Reach(g, n)
         /\ \A x, y : x \in Reach(g, n) /\ Owns(g, x, y) => y \in Reach(g, n)
  BY ReachIsLeast DEF Closed

(* Rules 1 to 6 take a right operand apart, which nobody else has.           *)
LEMMA RightTurnChanges ==
  ASSUME NEW h, NEW T, NEW D, Shaped(h, T, D), NEW r, NEW b, Ranked(h, r, b),
         NEW g, NEW q, NEW d, Ranked(g, q, d), NEW n \in DOMAIN h \ (T \cup D),
         TurnsRight(h, n, g), \A m \in DOMAIN h : Prim(g, m) <=> Prim(h, m)
  PROVE  \E c : Changes(h, g, DOMAIN h \ D, n, c)
<1>1. PICK c, new : \/ Nests(h, n, c, new, g) \/ Distributes(h, n, c, new, g)
                    \/ Rotates(h, n, c, g)
  BY DEF TurnsRight
<1>2. /\ IsOp(h, n) /\ ~Prim(h, n) /\ c = h[n].right /\ ~Prim(h, c)
      /\ DOMAIN h \subseteq DOMAIN g
      /\ \A m \in DOMAIN h \ {n, c} : g[m] = h[m]
  BY <1>1 DEF Nests, Distributes, Rotates, IsOp, Prim
<1>3. /\ c \in DOMAIN h \ D /\ c # n /\ n \in DOMAIN h \ D /\ Owns(h, n, c)
      /\ \A m \in DOMAIN h \ D : Owns(h, m, c) => m = n
      /\ Closed(h, DOMAIN h \ D)
  BY <1>2, RightOperands DEF Closed, Owns
<1>4. ~Plain(h, n)
  BY <1>2 DEF Plain
<1>5. /\ n \in Reach(g, n)
      /\ \A x, y : x \in Reach(g, n) /\ Owns(g, x, y) => y \in Reach(g, n)
  BY <1>2, <1>3, BelowOperands
<1>6. \A x : (Owns(h, n, x) \/ Owns(h, c, x)) /\ x # c => x \in {h[n].left, h[c].left, h[c].right}
  BY <1>2 DEF Owns
<1>7. h[n].left \in Reach(g, n) /\ h[c].left \in Reach(g, n) /\ h[c].right \in Reach(g, n)
  <2>1. CASE Nests(h, n, c, new, g)
    <3>1. Owns(g, n, new) /\ Owns(g, n, h[c].right) /\ Owns(g, new, h[n].left) /\ Owns(g, new, h[c].left)
      BY <2>1 DEF Nests, Owns, Prim
    <3> QED
      BY <1>5, <3>1
  <2>2. CASE Distributes(h, n, c, new, g)
    <3>1. /\ Owns(g, n, new) /\ Owns(g, n, c) /\ Owns(g, new, h[n].left) /\ Owns(g, new, h[c].left)
          /\ Owns(g, c, h[c].right)
      BY <2>2 DEF Distributes, Owns, Prim
    <3> QED
      BY <1>5, <3>1
  <2>3. CASE Rotates(h, n, c, g)
    <3>1. /\ Owns(g, n, c) /\ Owns(g, n, h[c].right) /\ Owns(g, c, h[n].left) /\ Owns(g, c, h[c].left)
      BY <2>3 DEF Rotates, Owns, Prim, IsOp
    <3> QED
      BY <1>5, <3>1
  <2> QED
    BY <1>1, <2>1, <2>2, <2>3
<1>8. Changes(h, g, DOMAIN h \ D, n, c)
  BY <1>2, <1>3, <1>4, <1>6, <1>7 DEF Changes
<1> QED
  BY <1>8

(* Rules 7 and 8 take apart a union, which is in no product and stays below. *)
LEMMA LeftTurnChanges ==
  ASSUME NEW h, NEW T, NEW D, Shaped(h, T, D), NEW r, NEW b, Ranked(h, r, b),
         NEW g, NEW q, NEW d, Ranked(g, q, d), NEW n \in DOMAIN h \ (T \cup D),
         TurnsLeft(h, n, g), \A m \in DOMAIN h : Prim(g, m) <=> Prim(h, m)
  PROVE  \E c : Changes(h, g, DOMAIN h \ D, n, c)
<1>1. PICK c, new : DistributesLeft(h, n, c, new, g)
  BY DEF TurnsLeft
<1>2. /\ IsOp(h, n) /\ ~Prim(h, n) /\ c = h[n].left /\ h[c].type = "union" /\ ~Prim(h, c)
      /\ DOMAIN h \subseteq DOMAIN g
      /\ \A m \in DOMAIN h \ {n, c} : g[m] = h[m]
  BY <1>1 DEF DistributesLeft, IsOp, Prim
<1>3. \A m \in DOMAIN h \ D : \A x : Owns(h, m, x) => x \in DOMAIN h \ D /\ r[x] < r[m]
  BY DEF Shaped, Ranked
<1>4. /\ c \in DOMAIN h \ D /\ n \in DOMAIN h \ D /\ Owns(h, n, c) /\ Closed(h, DOMAIN h \ D)
  BY <1>2, <1>3 DEF Closed, Owns
<1>5. c # n
  BY <1>2 DEF IsOp
<1>6. /\ n \in Reach(g, n)
      /\ \A x, y : x \in Reach(g, n) /\ Owns(g, x, y) => y \in Reach(g, n)
  BY <1>2, <1>4, BelowOperands
<1>7. \A x : (Owns(h, n, x) \/ Owns(h, c, x)) /\ x # c => x \in {h[n].right, h[c].left, h[c].right}
  BY <1>2 DEF Owns
<1>8. /\ Owns(g, n, new) /\ Owns(g, n, c) /\ Owns(g, new, h[n].right) /\ Owns(g, new, h[c].right)
      /\ Owns(g, c, h[c].left)
  BY <1>1 DEF DistributesLeft, Owns, Prim, IsOp
<1>9. c \in Reach(g, n) /\ \A x \in {h[n].right, h[c].left, h[c].right} : x \in Reach(g, n)
  BY <1>6, <1>8
<1>10. ~Plain(h, c)
  BY <1>2 DEF Plain, IsOp
<1>11. Changes(h, g, DOMAIN h \ D, n, c)
  BY <1>2, <1>4, <1>5, <1>7, <1>9, <1>10 DEF Changes
<1> QED
  BY <1>11

-----------------------------------------------------------------------------
(* What the activations have yet to do. *)

(* Of a union whose left operand is done, the right one is left. *)
Todo(h, frame) ==
  IF frame.at = "left done" /\ h[frame.node].type = "union"
    THEN h[frame.node].right ELSE frame.node

(* An activation inside the i-th has it yet to do. *)
Ahead(h, s, i, m) == \E j \in DOMAIN s : i < j /\ m \in Reach(h, Todo(h, s[j]))

(* All below k is in products and unions, but for what is ahead. *)
Settled(h, s, i, k) ==
  \A m \in Reach(h, k) : IsOp(h, m) => Product(h, m) \/ Ahead(h, s, i, m)

(* The activations that wait for another, which works below their left       *)
(* operand; 0 is normalise()'s caller.                                       *)
Waiting(s) == {0} \cup {i \in DOMAIN s : s[i].at = "left done"}
Goal(h, s, i) == IF i = 0 THEN 1 ELSE h[s[i].node].left

SumsOf(h, s) ==
  /\ \A i \in Waiting(s) : Settled(h, s, i, Goal(h, s, i))
  /\ \A i \in 0..Len(s), j \in DOMAIN s :
       i < j => i \in Waiting(s) /\ s[j].node \in Reach(h, Goal(h, s, i))

(* The activations are of nodes in use, and of parents once they have begun. *)
Activations(h, A) ==
  {frame \in [node : A, at : {"entry", "right rules", "left done"}] :
     frame.at # "entry" => ~Prim(h, frame.node)}

(* What comes below a node has a lower rank.                                 *)
LEMMA RanksDescend ==
  ASSUME NEW h, NEW r, NEW b, Ranked(h, r, b)
  PROVE  \A m \in DOMAIN h : r[m] \in Nat /\ \A y : Owns(h, m, y) => y \in DOMAIN h /\ r[y] < r[m]
BY DEF Ranked

LeftDoneAt(frame) == frame.at = "left done"

(* A stack of activations. *)
IsStack(h, A, s) ==
  /\ Len(s) \in Nat /\ DOMAIN s = 1..Len(s)
  /\ \A j \in DOMAIN s : s[j] \in Activations(h, A)

(* The activations that wait are of parents whose left operand is worked on. *)
LEMMA StackOfActivations ==
  ASSUME NEW h, NEW A, NEW s, IsStack(h, A, s)
  PROVE  /\ Len(s) \in Nat /\ DOMAIN s = 1..Len(s)
         /\ \A j \in DOMAIN s : s[j].node \in A
         /\ Waiting(s) \subseteq 0..Len(s)
         /\ \A i \in Waiting(s) : i # 0 => /\ i \in DOMAIN s /\ ~Prim(h, s[i].node)
                                           /\ LeftDoneAt(s[i])
         /\ 0 \in Waiting(s)
<1>1. /\ Len(s) \in Nat /\ DOMAIN s = 1..Len(s)
  BY DEF IsStack
<1>2. \A j \in DOMAIN s : s[j].node \in A /\ (s[j].at # "entry" => ~Prim(h, s[j].node))
  BY DEF IsStack, Activations
<1>3. \A i \in Waiting(s) : i # 0 => i \in DOMAIN s /\ LeftDoneAt(s[i])
  BY DEF Waiting, LeftDoneAt
<1>4. 0 \in Waiting(s)
  BY DEF Waiting
<1>5. ASSUME NEW i \in Waiting(s) PROVE i \in 0..Len(s)
  <2>1. CASE i = 0
    BY <1>1, <2>1
  <2>2. CASE i # 0
    <3>1. i \in 1..Len(s)
      BY <1>1, <1>3, <2>2
    <3> QED
      BY <1>1, <3>1
  <2> QED
    BY <2>1, <2>2
<1>7. \A i \in Waiting(s) : i # 0 => ~Prim(h, s[i].node)
  BY <1>2, <1>3 DEF LeftDoneAt
<1> QED
  BY <1>1, <1>2, <1>3, <1>4, <1>5, <1>7

HasRoot(A) == 1 \in A

(* The innermost activation is at the rules, for n. *)
Innermost(s, n) == Len(s) > 0 /\ s[Len(s)].node = n /\ s[Len(s)].at = "right rules"

(* A rule has been applied for the innermost activation. *)
LEMMA SumsOfChange ==
  ASSUME NEW h, NEW r, NEW b, Ranked(h, r, b), NEW g, NEW q, NEW d, Ranked(g, q, d),
         NEW A, NEW n, NEW c, Changes(h, g, A, n, c), HasRoot(A),
         NEW s, IsStack(h, A, s), Innermost(s, n), SumsOf(h, s)
  PROVE  SumsOf(g, s)
<1>1. /\ A \subseteq DOMAIN h /\ Closed(h, A) /\ n \in A /\ c \in A /\ Owns(h, n, c)
      /\ DOMAIN h \subseteq DOMAIN g
      /\ \A m \in DOMAIN h \ {n, c} : g[m] = h[m]
  BY DEF Changes
<1>2. /\ \A m \in DOMAIN h : r[m] \in Nat
      /\ \A m \in DOMAIN h : \A y : Owns(h, m, y) => y \in DOMAIN h /\ r[y] < r[m]
  BY RanksDescend
<1>3. /\ Len(s) \in Nat /\ Len(s) > 0 /\ DOMAIN s = 1..Len(s) /\ Len(s) \in DOMAIN s
      /\ \A j \in DOMAIN s : s[j].node \in A
      /\ Waiting(s) \subseteq 0..Len(s)
      /\ \A i \in Waiting(s) : i # 0 => /\ i \in DOMAIN s /\ ~Prim(h, s[i].node)
                                        /\ LeftDoneAt(s[i])
  <2>1. Len(s) > 0
    BY DEF Innermost
  <2>2. /\ Len(s) \in Nat /\ DOMAIN s = 1..Len(s)
        /\ \A j \in DOMAIN s : s[j].node \in A
        /\ Waiting(s) \subseteq 0..Len(s)
        /\ \A i \in Waiting(s) : i # 0 => /\ i \in DOMAIN s /\ ~Prim(h, s[i].node)
                                          /\ LeftDoneAt(s[i])
    BY StackOfActivations
  <2>3. Len(s) \in DOMAIN s
    BY <2>1, <2>2
  <2> QED
    BY <2>1, <2>2, <2>3
<1>4. ASSUME NEW i \in Waiting(s)
      PROVE  /\ i < Len(s)
             /\ i # 0 => s[i].node \in A /\ Owns(h, s[i].node, Goal(h, s, i))
             /\ Goal(h, s, i) \in A /\ n \in Reach(h, Goal(h, s, i))
  <2>1. i \in 0..Len(s) /\ i < Len(s)
    <3>1. i \in 0..Len(s)
      BY <1>3
    <3>2. ASSUME i = Len(s) PROVE FALSE
      <4>1. i # 0
        BY <1>3, <3>2
      <4>2. LeftDoneAt(s[Len(s)])
        BY <1>3, <3>2, <4>1
      <4> QED
        BY <4>2 DEF Innermost, LeftDoneAt
    <3>3. Len(s) \in Nat /\ i # Len(s)
      BY <1>3, <3>2
    <3> QED
      BY <3>1, <3>3
  <2>2. i # 0 => s[i].node \in A /\ Owns(h, s[i].node, h[s[i].node].left)
    BY <1>3 DEF Owns
  <2>3. Goal(h, s, i) \in A
    BY <1>1, <2>2 DEF Goal, Closed, HasRoot
  <2>4. n \in Reach(h, Goal(h, s, i))
    BY <1>3, <2>1 DEF SumsOf, Innermost
  <2> QED
    BY <2>1, <2>2, <2>3, <2>4 DEF Goal
<1>5. ASSUME NEW i \in Waiting(s)
      PROVE  Goal(h, s, i) # c /\ (i # 0 => s[i].node \notin {n, c} /\ r[n] < r[s[i].node])
  <2> DEFINE k == Goal(h, s, i)
             p == s[i].node
  <2>1. k \in DOMAIN h /\ c \in DOMAIN h /\ n \in DOMAIN h /\ n \in Reach(h, k)
    BY <1>1, <1>4
  <2>2. i # 0 => p \in DOMAIN h /\ Owns(h, p, k)
    BY <1>1, <1>4
  <2> HIDE DEF k, p
  <2>3. r[n] <= r[k] /\ r[c] < r[n]
    BY <1>1, <1>2, <2>1, ReachOfOperands
  <2>4. r[n] \in Nat /\ r[c] \in Nat /\ r[k] \in Nat
    BY <1>2, <2>1
  <2>5. r[k] # r[c]
    BY <2>3, <2>4
  <2>6. ASSUME i # 0 PROVE r[n] < r[p] /\ p \notin {n, c}
    <3>1. r[k] < r[p] /\ r[p] \in Nat
      BY <1>2, <2>2, <2>6
    <3>2. r[n] < r[p] /\ r[p] # r[n] /\ r[p] # r[c]
      BY <2>3, <2>4, <3>1
    <3> QED
      BY <3>2
  <2> QED
    BY <2>5, <2>6 DEF k, p
<1>6. \A i \in Waiting(s) : Goal(g, s, i) = Goal(h, s, i)
  BY <1>1, <1>4, <1>5 DEF Goal
<1>7. \A j \in DOMAIN s : Todo(h, s[j]) \in A /\ (j # Len(s) => Todo(g, s[j]) = Todo(h, s[j]))
  <2> SUFFICES ASSUME NEW j \in DOMAIN s
               PROVE  Todo(h, s[j]) \in A /\ (j # Len(s) => Todo(g, s[j]) = Todo(h, s[j]))
    OBVIOUS
  <2>1. CASE s[j].at = "left done"
    <3>1. j \in Waiting(s)
      BY <2>1 DEF Waiting
    <3>4. j # 0
      BY <1>3
    <3>2. /\ ~Prim(h, s[j].node) /\ s[j].node \in A /\ g[s[j].node] = h[s[j].node]
      BY <1>1, <1>3, <1>4, <1>5, <3>1, <3>4
    <3>3. h[s[j].node].right \in A
      BY <1>1, <3>2 DEF Closed, Owns
    <3> QED
      BY <3>2, <3>3 DEF Todo
  <2>2. CASE s[j].at # "left done"
    BY <1>3, <2>2 DEF Todo
  <2> QED
    BY <2>1, <2>2
<1>8. Todo(h, s[Len(s)]) = n /\ Todo(g, s[Len(s)]) = n
  BY DEF Todo, Innermost
<1>9. ASSUME NEW i \in Waiting(s), NEW m \in Reach(g, Goal(g, s, i)), IsOp(g, m)
      PROVE  Product(g, m) \/ Ahead(g, s, i, m)
  <2>1. CASE m \in Reach(g, n)
    BY <1>3, <1>4, <1>8, <2>1 DEF Ahead
  <2>2. CASE m \notin Reach(g, n)
    <3>1. m \in Reach(h, Goal(h, s, i)) \ {n, c} /\ m \in A
      <4>1. PICK k : k = Goal(h, s, i)
        OBVIOUS
      <4>2. k \in A /\ k # c /\ m \in Reach(g, k)
        BY <1>4, <1>5, <1>6, <1>9, <4>1
      <4> QED
        BY <2>2, <4>1, <4>2, ReachNew
    <3>2. IsOp(h, m)
      BY <1>1, <1>9, <3>1, SameOwns
    <3>3. Product(h, m) \/ Ahead(h, s, i, m)
      BY <3>1, <3>2 DEF SumsOf, Settled
    <3>4. CASE Product(h, m)
      <4>1. m \in A /\ m # c
        BY <3>1
      <4> QED
        BY <3>4, <4>1, ProductStays
    <3>5. CASE Ahead(h, s, i, m)
      <4>1. PICK j \in DOMAIN s : i < j /\ m \in Reach(h, Todo(h, s[j]))
        BY <3>5 DEF Ahead
      <4>2. m \in Reach(g, Todo(h, s[j])) /\ m # c
        <5>1. PICK k : k = Todo(h, s[j])
          OBVIOUS
        <5>2. k \in A /\ m \in Reach(h, k) /\ m # c
          BY <1>7, <3>1, <4>1, <5>1
        <5>3. m \in Reach(g, k) \cup Reach(g, n)
          BY <5>2, ReachKept
        <5> QED
          BY <2>2, <5>1, <5>2, <5>3
      <4>3. j # Len(s)
        BY <1>8, <2>2, <4>2
      <4>4. Todo(g, s[j]) = Todo(h, s[j])
        BY <1>7, <4>3
      <4> QED
        BY <4>1, <4>2, <4>4 DEF Ahead
    <3> QED
      BY <3>3, <3>4, <3>5
  <2> QED
    BY <2>1, <2>2
<1>10. ASSUME NEW i \in 0..Len(s), NEW j \in DOMAIN s, i < j
       PROVE  i \in Waiting(s) /\ s[j].node \in Reach(g, Goal(g, s, i))
  <2>1. i \in Waiting(s) /\ s[j].node \in Reach(h, Goal(h, s, i))
    BY <1>10 DEF SumsOf
  <2>2. ~(r[s[j].node] < r[n])
    <3>1. r[n] \in Nat /\ r[s[j].node] \in Nat
      BY <1>1, <1>2, <1>3
    <3>2. CASE j = Len(s)
      <4>1. s[j].node = n
        BY <3>2 DEF Innermost
      <4> QED
        BY <3>1, <4>1
    <3>3. CASE j # Len(s)
      <4>1. j \in 0..Len(s) /\ j < Len(s) /\ j # 0
        <5>1. j \in 1..Len(s)
          BY <1>3
        <5> QED
          BY <1>3, <3>3, <5>1
      <4>2. j \in Waiting(s)
        BY <1>3, <4>1 DEF SumsOf
      <4>3. r[n] < r[s[j].node]
        BY <1>5, <4>1, <4>2
      <4> QED
        BY <3>1, <4>3
    <3> QED
      BY <3>2, <3>3
  <2>3. PICK k, m : k = Goal(h, s, i) /\ m = s[j].node
    OBVIOUS
  <2>4. k \in A /\ m \in Reach(h, k) /\ ~(r[m] < r[n])
    BY <1>4, <2>1, <2>2, <2>3
  <2>5. m \in Reach(g, k)
    BY <2>4, ReachStays
  <2> QED
    BY <1>6, <2>1, <2>3, <2>5
<1> QED
  BY <1>9, <1>10 DEF SumsOf, Settled

(* The nodes in use. *)
InUse(h, A) ==
  /\ A \subseteq DOMAIN h /\ Closed(h, A) /\ HasRoot(A)
  /\ \E r, b : Ranked(h, r, b)

(* The stack t has the activations of s but the innermost, and perhaps more. *)
Follows(s, t) ==
  /\ Len(s) > 0 /\ Len(t) >= Len(s) - 1
  /\ \A j \in DOMAIN t : j < Len(s) => t[j] = s[j]

(* What that one had to do is in products or unions, or is left to these.    *)
Handed(h, s, t) ==
  \A m \in Reach(h, Todo(h, s[Len(s)])) : IsOp(h, m) =>
    \/ Product(h, m)
    \/ \E j \in DOMAIN t : j >= Len(s) /\ m \in Reach(h, Todo(h, t[j]))

(* Those that wait for the innermost one can wait on. *)
LEMMA WaitersStay ==
  ASSUME NEW h, NEW A, InUse(h, A), NEW s, IsStack(h, A, s), NEW B, NEW t, IsStack(h, B, t),
         Follows(s, t), Handed(h, s, t), SumsOf(h, s),
         NEW i \in 0..Len(s), i < Len(s)
  PROVE  /\ i \in Waiting(t) /\ Goal(h, t, i) \in DOMAIN h
         /\ Settled(h, t, i, Goal(h, t, i))
         /\ s[Len(s)].node \in Reach(h, Goal(h, t, i))
         /\ \A j \in DOMAIN t : i < j /\ j < Len(s) => t[j].node \in Reach(h, Goal(h, t, i))
<1>1. /\ Len(s) \in Nat /\ DOMAIN s = 1..Len(s) /\ \A j \in DOMAIN s : s[j].node \in A
      /\ \A k \in Waiting(s) : k # 0 => k \in DOMAIN s /\ ~Prim(h, s[k].node) /\ LeftDoneAt(s[k])
      /\ Len(t) \in Nat /\ DOMAIN t = 1..Len(t)
  BY StackOfActivations
<1>2. Len(s) > 0 /\ Len(t) >= Len(s) - 1 /\ \A j \in DOMAIN t : j < Len(s) => t[j] = s[j]
  BY DEF Follows
<1>3. Len(s) \in DOMAIN s /\ i \in Nat /\ i <= Len(t)
  BY <1>1, <1>2
<1>4. i \in Waiting(s) /\ \A j \in DOMAIN s : i < j => s[j].node \in Reach(h, Goal(h, s, i))
  BY <1>3 DEF SumsOf
<1>5. i # 0 => i \in DOMAIN t /\ t[i] = s[i] /\ LeftDoneAt(t[i]) /\ ~Prim(h, s[i].node)
               /\ s[i].node \in A
  <2> SUFFICES ASSUME i # 0
               PROVE  i \in DOMAIN t /\ t[i] = s[i] /\ LeftDoneAt(t[i]) /\ ~Prim(h, s[i].node)
                      /\ s[i].node \in A
    OBVIOUS
  <2>1. i \in DOMAIN t
    BY <1>1, <1>3
  <2> QED
    BY <1>1, <1>2, <1>4, <2>1
<1>6. i \in Waiting(t)
  BY <1>5 DEF Waiting, LeftDoneAt
<1>7. Goal(h, t, i) = Goal(h, s, i)
  BY <1>5 DEF Goal
<1>8. Goal(h, s, i) \in DOMAIN h
  BY <1>5 DEF Goal, InUse, HasRoot, Closed, Owns
<1>9. ASSUME NEW m \in Reach(h, Goal(h, s, i)), IsOp(h, m)
      PROVE  Product(h, m) \/ Ahead(h, t, i, m)
  <2>1. CASE Product(h, m)
    BY <2>1
  <2>2. CASE Ahead(h, s, i, m)
    <3>1. PICK j \in DOMAIN s : i < j /\ m \in Reach(h, Todo(h, s[j]))
      BY <2>2 DEF Ahead
    <3>2. CASE j = Len(s)
      <4>1. ASSUME NEW k \in DOMAIN t, k >= Len(s), m \in Reach(h, Todo(h, t[k]))
            PROVE  Ahead(h, t, i, m)
        <5>1. i < k
          BY <1>1, <1>3, <4>1
        <5> QED
          BY <4>1, <5>1 DEF Ahead
      <4> QED
        BY <1>9, <3>1, <3>2, <4>1 DEF Handed
    <3>3. CASE j # Len(s)
      <4>1. j \in DOMAIN t /\ j < Len(s)
        BY <1>1, <1>2, <3>1, <3>3
      <4>2. t[j] = s[j]
        BY <1>2, <4>1
      <4> QED
        BY <3>1, <4>1, <4>2 DEF Ahead
    <3> QED
      BY <3>2, <3>3
  <2> QED
    BY <1>4, <1>9, <2>1, <2>2 DEF SumsOf, Settled
<1>10. Settled(h, t, i, Goal(h, s, i))
  BY <1>9 DEF Settled
<1>11. ASSUME NEW j \in DOMAIN t, i < j, j < Len(s)
       PROVE  t[j].node \in Reach(h, Goal(h, s, i))
  <2>1. j \in DOMAIN s /\ t[j] = s[j]
    BY <1>1, <1>2, <1>11
  <2> QED
    BY <1>4, <1>11, <2>1
<1> QED
  BY <1>3, <1>4, <1>6, <1>7, <1>8, <1>10, <1>11

(* It ends. *)
LEMMA SumsOfEnd ==
  ASSUME NEW h, NEW A, InUse(h, A), NEW s, IsStack(h, A, s), NEW B, NEW t, IsStack(h, B, t),
         Follows(s, t), Handed(h, s, t), SumsOf(h, s), Len(t) = Len(s) - 1
  PROVE  SumsOf(h, t)
<1>1. /\ Len(s) \in Nat /\ Len(t) \in Nat /\ DOMAIN t = 1..Len(t)
      /\ Waiting(t) \subseteq 0..Len(t)
  BY StackOfActivations
<1>2. \A i \in 0..Len(t) : i \in 0..Len(s) /\ i < Len(s)
  BY <1>1
<1>3. \A i \in Waiting(t) : Settled(h, t, i, Goal(h, t, i))
  BY <1>1, <1>2, WaitersStay
<1>4. \A j \in DOMAIN t : j < Len(s)
  BY <1>1
<1>5. \A i \in 0..Len(t), j \in DOMAIN t :
        i < j => i \in Waiting(t) /\ t[j].node \in Reach(h, Goal(h, t, i))
  BY <1>2, <1>4, WaitersStay
<1> QED
  BY <1>3, <1>5 DEF SumsOf

(* It goes on, perhaps with the right operand of its node. *)
LEMMA SumsOfGoingOn ==
  ASSUME NEW h, NEW A, InUse(h, A), NEW s, IsStack(h, A, s), NEW B, NEW t, IsStack(h, B, t),
         Follows(s, t), Handed(h, s, t), SumsOf(h, s), Len(t) = Len(s),
         ~LeftDoneAt(t[Len(s)]), t[Len(s)].node \in Reach(h, s[Len(s)].node)
  PROVE  SumsOf(h, t)
<1>1. /\ Len(s) \in Nat /\ DOMAIN t = 1..Len(t)
      /\ Waiting(t) \subseteq 0..Len(t)
      /\ \A i \in Waiting(t) : i # 0 => LeftDoneAt(t[i])
  BY StackOfActivations
<1>2. Len(s) > 0 /\ \E r, b : Ranked(h, r, b)
  BY DEF Follows, InUse
<1>3. \A i \in Waiting(t) : i \in 0..Len(s) /\ i # Len(s)
  BY <1>1, <1>2
<1>4. \A i \in 0..Len(s) : i # Len(s) => i < Len(s)
  <2>1. Len(s) \in Nat
    BY <1>1
  <2> QED
    BY <2>1
<1>5. \A i \in Waiting(t) : Settled(h, t, i, Goal(h, t, i))
  BY <1>3, <1>4, WaitersStay
<1>6. ASSUME NEW i \in 0..Len(t), NEW j \in DOMAIN t, i < j
      PROVE  i \in Waiting(t) /\ t[j].node \in Reach(h, Goal(h, t, i))
  <2>1. i \in 0..Len(s) /\ i < Len(s) /\ (j < Len(s) \/ j = Len(s))
    BY <1>1, <1>6
  <2>2. CASE j < Len(s)
    BY <1>6, <2>1, <2>2, WaitersStay
  <2>3. CASE j = Len(s)
    <3>1. /\ i \in Waiting(t) /\ Goal(h, t, i) \in DOMAIN h
          /\ s[Len(s)].node \in Reach(h, Goal(h, t, i))
      BY <2>1, WaitersStay
    <3>2. Reach(h, s[Len(s)].node) \subseteq Reach(h, Goal(h, t, i))
      BY <1>2, <3>1, ReachOn
    <3> QED
      BY <2>3, <3>1, <3>2
  <2> QED
    BY <2>1, <2>2, <2>3
<1> QED
  BY <1>5, <1>6 DEF SumsOf

(* It calls normalise() for its left operand, and waits. *)
LEMMA SumsOfCall ==
  ASSUME NEW h, NEW A, InUse(h, A), NEW s, IsStack(h, A, s), NEW B, NEW t, IsStack(h, B, t),
         Follows(s, t), Handed(h, s, t), SumsOf(h, s), NEW N, N = Len(s), Len(t) = N + 1,
         LeftDoneAt(t[N]), t[N].node = s[N].node, ~Prim(h, s[N].node),
         ~LeftDoneAt(t[N + 1]), t[N + 1].node = h[s[N].node].left
  PROVE  SumsOf(h, t)
<1>1. /\ N \in Nat /\ DOMAIN t = 1..Len(t) /\ DOMAIN s = 1..Len(s)
      /\ Waiting(t) \subseteq 0..Len(t)
      /\ \A i \in Waiting(t) : i # 0 => LeftDoneAt(t[i])
      /\ \A j \in DOMAIN s : s[j].node \in A
  BY StackOfActivations
<1>2. N > 0 /\ N \in DOMAIN s /\ N \in DOMAIN t /\ N + 1 \in DOMAIN t
  <2>1. N > 0
    BY DEF Follows
  <2> QED
    BY <1>1, <2>1
<1>3. PICK r, b : Ranked(h, r, b)
  BY DEF InUse
<1> DEFINE n == s[N].node
           l == h[n].left
<1>4. n \in DOMAIN h /\ l \in DOMAIN h /\ l \in Reach(h, l) /\ l \in Reach(h, n)
  <2>1. n \in DOMAIN h /\ Owns(h, n, l)
    BY <1>1, <1>2 DEF InUse, Owns
  <2>2. l \in DOMAIN h
    BY <1>3, <2>1 DEF Ranked
  <2>3. l \in Reach(h, l)
    BY <1>3, <2>2, ReachIsLeast
  <2>4. n \in Reach(h, n) /\ Closed(h, Reach(h, n))
    BY <1>3, <2>1, ReachIsLeast
  <2> QED
    BY <2>1, <2>2, <2>3, <2>4 DEF Closed
<1> HIDE DEF n, l
<1>5. N \in Waiting(t) /\ Goal(h, t, N) = l
  <2>1. N \in Waiting(t)
    BY <1>2 DEF Waiting, LeftDoneAt
  <2>2. N # 0
    BY <1>2
  <2>3. Goal(h, t, N) = l
    BY <2>2 DEF Goal, l, n
  <2> QED
    BY <2>1, <2>3
<1>6. Todo(h, t[N + 1]) = l
  BY DEF Todo, LeftDoneAt, l, n
<1>7. Settled(h, t, N, l)
  <2>1. N < N + 1
    BY <1>1
  <2> QED
    BY <1>2, <1>6, <2>1 DEF Settled, Ahead
<1>8. \A i \in Waiting(t) : i \in 0..N
  <2> SUFFICES ASSUME NEW i \in Waiting(t) PROVE i \in 0..N
    OBVIOUS
  <2>1. i \in 0..(N + 1) /\ i # N + 1
    BY <1>1
  <2> QED
    BY <1>1, <2>1
<1>9. \A i \in 0..N : i # N => i \in 0..Len(s) /\ i < Len(s)
  BY <1>1
<1>10. \A i \in Waiting(t) : Settled(h, t, i, Goal(h, t, i))
  BY <1>5, <1>7, <1>8, <1>9, WaitersStay
<1>11. ASSUME NEW i \in 0..Len(t), NEW j \in DOMAIN t, i < j
       PROVE  i \in Waiting(t) /\ t[j].node \in Reach(h, Goal(h, t, i))
  <2>1. i \in 0..N /\ (j < N \/ j = N \/ j = N + 1) /\ (i = N => j = N + 1)
    BY <1>1, <1>11
  <2>2. CASE i = N
    BY <1>4, <1>5, <2>1, <2>2 DEF l, n
  <2>3. CASE i # N
    <3>1. i \in 0..Len(s) /\ i < Len(s)
      BY <1>9, <2>1, <2>3
    <3>2. /\ i \in Waiting(t) /\ Goal(h, t, i) \in DOMAIN h
          /\ n \in Reach(h, Goal(h, t, i))
          /\ j < N => t[j].node \in Reach(h, Goal(h, t, i))
      BY <1>11, <3>1, WaitersStay DEF n
    <3>3. Reach(h, n) \subseteq Reach(h, Goal(h, t, i))
      BY <1>3, <3>2, ReachOn
    <3>4. t[N].node = n /\ t[N + 1].node = l
      BY DEF n, l
    <3> QED
      BY <1>4, <2>1, <3>2, <3>3, <3>4
  <2> QED
    BY <2>2, <2>3
<1> QED
  BY <1>10, <1>11 DEF SumsOf

-----------------------------------------------------------------------------
(* The sums at any time. *)

(* The stack without its innermost activation, and with others instead. *)
LEMMA StackFollows ==
  ASSUME NEW S, stack \in Seq(S), stack # <<>>, NEW f, NEW e, NEW N, N = Len(stack)
  PROVE  /\ N \in Nat /\ N > 0 /\ stack[N] = Top
         /\ Follows(stack, Caller) /\ Len(Caller) = N - 1
         /\ Follows(stack, Append(Caller, f)) /\ Len(Append(Caller, f)) = N
         /\ Append(Caller, f)[N] = f
         /\ Follows(stack, Caller \o <<f, e>>) /\ Len(Caller \o <<f, e>>) = N + 1
         /\ (Caller \o <<f, e>>)[N] = f /\ (Caller \o <<f, e>>)[N + 1] = e
<1>1. N \in Nat /\ N > 0
  OBVIOUS
<1>2. stack[N] = Top
  BY DEF Top, Last
<1>3. Caller \in Seq(S) /\ Len(Caller) = N - 1 /\ \A j \in 1..(N - 1) : Caller[j] = stack[j]
  BY <1>1 DEF Caller, Front
<1>4. Follows(stack, Caller)
  BY <1>1, <1>3 DEF Follows
<1> HIDE DEF Caller
<1>5. /\ Len(Append(Caller, f)) = N /\ Append(Caller, f)[N] = f
      /\ \A j \in 1..(N - 1) : Append(Caller, f)[j] = stack[j]
      /\ DOMAIN Append(Caller, f) = 1..N
  BY <1>1, <1>3
<1>6. Follows(stack, Append(Caller, f))
  BY <1>1, <1>5 DEF Follows
<1>7. /\ Len(Caller \o <<f, e>>) = N + 1
      /\ (Caller \o <<f, e>>)[N] = f /\ (Caller \o <<f, e>>)[N + 1] = e
      /\ \A j \in 1..(N - 1) : (Caller \o <<f, e>>)[j] = stack[j]
      /\ DOMAIN (Caller \o <<f, e>>) = 1..(N + 1)
  BY <1>1, <1>3
<1>8. Follows(stack, Caller \o <<f, e>>)
  BY <1>1, <1>7 DEF Follows
<1> QED
  BY <1>1, <1>2, <1>3, <1>4, <1>5, <1>6, <1>7, <1>8

(* The heap and stack of the program. *)
LEMMA HeapInUse ==
  ASSUME NEW h, NEW T, NEW D, Sound(h, T, D), NEW s \in Seq(Frames(h, T, D))
  PROVE  InUse(h, DOMAIN h \ D) /\ IsStack(h, DOMAIN h \ D, s)
<1>1. /\ 1 \in DOMAIN h /\ 1 \notin D /\ \E r, b : Ranked(h, r, b)
      /\ \A m \in DOMAIN h \ D : \A x : Owns(h, m, x) => x \notin D
  BY DEF Sound, Shaped
<1>2. Closed(h, DOMAIN h \ D)
  BY <1>1 DEF Closed, Ranked
<1>3. InUse(h, DOMAIN h \ D)
  BY <1>1, <1>2 DEF InUse, HasRoot
<1>4. Frames(h, T, D) \subseteq Activations(h, DOMAIN h \ D)
  BY DEF Frames, Activations
<1>5. Len(s) \in Nat /\ DOMAIN s = 1..Len(s) /\ \A j \in DOMAIN s : s[j] \in Frames(h, T, D)
  OBVIOUS
<1>6. IsStack(h, DOMAIN h \ D, s)
  BY <1>4, <1>5 DEF IsStack
<1> QED
  BY <1>3, <1>6

(* A node whose operands are primitives is in a product, or a union. *)
LEMMA PrimitiveOperands ==
  ASSUME NEW h, NEW r, NEW b, Ranked(h, r, b), NEW n \in DOMAIN h,
         Prim(h, n) \/ (Prim(h, h[n].left) /\ Prim(h, h[n].right)),
         NEW m \in Reach(h, n), IsOp(h, m)
  PROVE  Product(h, m)
<1>1. CASE Prim(h, n)
  <2>1. m = n
    BY <1>1, ReachOfOperands
  <2> QED
    BY <1>1, <2>1 DEF Prim, IsOp
<1>2. CASE ~Prim(h, n)
  <2> DEFINE l == h[n].left
             q == h[n].right
  <2>1. l \in DOMAIN h /\ q \in DOMAIN h /\ Prim(h, l) /\ Prim(h, q)
    BY <1>2 DEF Ranked, Owns
  <2>2. Reach(h, n) = {n} \cup Reach(h, l) \cup Reach(h, q)
    BY <1>2, ReachOfOperands
  <2> HIDE DEF l, q
  <2>3. Reach(h, l) = {l} /\ Reach(h, q) = {q}
    BY <2>1, ReachOfOperands
  <2>4. m = n
    BY <2>1, <2>2, <2>3 DEF Prim, IsOp
  <2>5. \A x \in {n, l, q} : Plain(h, x)
    BY <2>1, <2>4 DEF Plain, q
  <2> QED
    BY <2>2, <2>3, <2>4, <2>5 DEF Product
<1> QED
  BY <1>1, <1>2

(* A node at the end of the loop is in a product, too, if it is no union. *)
LEMMA ProductDone ==
  ASSUME NEW h, NEW r, NEW b, Ranked(h, r, b), NEW n \in DOMAIN h, h[n] \in Node,
         ~Prim(h, n), h[n].type # "union", Prim(h, h[n].right), IsOp(h, h[n].left),
         \A m \in Reach(h, h[n].left) : IsOp(h, m) => Product(h, m),
         NEW m \in Reach(h, n), IsOp(h, m)
  PROVE  Product(h, m)
<1> DEFINE l == h[n].left
           q == h[n].right
<1>1. l \in DOMAIN h /\ q \in DOMAIN h
  BY DEF Ranked, Owns
<1>2. Reach(h, n) = {n} \cup Reach(h, l) \cup Reach(h, q)
  BY ReachOfOperands
<1>3. IsOp(h, l) /\ Prim(h, q) /\ \A k \in Reach(h, l) : IsOp(h, k) => Product(h, k)
  OBVIOUS
<1>4. IsOp(h, n)
  BY DEF Node, IsOp, Prim
<1>5. Plain(h, n)
  BY <1>4 DEF Plain
<1> HIDE DEF l, q
<1>6. Reach(h, q) = {q} /\ l \in Reach(h, l)
  BY <1>1, <1>3, ReachOfOperands, ReachIsLeast
<1>7. Product(h, l)
  BY <1>3, <1>6
<1>8. Product(h, n)
  BY <1>2, <1>3, <1>5, <1>6, <1>7 DEF Product, Plain
<1>9. CASE m = n
  BY <1>8, <1>9
<1>10. CASE m \in Reach(h, l)
  BY <1>3, <1>10
<1>11. CASE m = q
  BY <1>3, <1>11 DEF IsOp, Prim
<1> QED
  BY <1>2, <1>6, <1>9, <1>10, <1>11

(* What the activations are, and the innermost one. *)
LEMMA TopOfStack ==
  ASSUME HeapInv
  PROVE  \E A : /\ InUse(heap, A) /\ IsStack(heap, A, stack)
                /\ stack # <<>> => /\ Top.node \in A /\ heap[Top.node] \in Node
                                   /\ Top.at # "entry" => ~Prim(heap, Top.node)
                                   /\ \E S : stack \in Seq(S)
<1>1. PICK T, D : Sound(heap, T, D) /\ stack \in Seq(Frames(heap, T, D))
  BY DEF HeapInv
<1>2. InUse(heap, DOMAIN heap \ D) /\ IsStack(heap, DOMAIN heap \ D, stack)
  BY <1>1, HeapInUse
<1>3. ASSUME stack # <<>>
      PROVE  /\ Top.node \in DOMAIN heap \ D /\ heap[Top.node] \in Node
             /\ Top.at # "entry" => ~Prim(heap, Top.node)
  <2>1. Top \in Frames(heap, T, D)
    BY <1>1, <1>3, StackTop
  <2>2. Top.node \in DOMAIN heap \ D /\ (Top.at # "entry" => ~Prim(heap, Top.node))
    BY <2>1 DEF Frames
  <2>3. heap[Top.node] \in Node
    BY <1>1, <2>2, HeapOperands
  <2> QED
    BY <2>2, <2>3
<1> QED
  BY <1>1, <1>2, <1>3

(* The stack after a step. *)
LEMMA NextStack ==
  ASSUME HeapInv'
  PROVE  \E B : InUse(heap', B) /\ IsStack(heap', B, stack')
<1>1. PICK T, D : Sound(heap', T, D) /\ stack' \in Seq(Frames(heap', T, D))
  BY DEF HeapInv
<1> QED
  BY <1>1, HeapInUse

(* The innermost activation is one of them.                                  *)
LEMMA TopIsActivation ==
  ASSUME NEW A, IsStack(heap, A, stack), stack # <<>>, \E S : stack \in Seq(S)
  PROVE  Top \in Activations(heap, A)
<1>1. PICK N : N = Len(stack)
  OBVIOUS
<1>2. N \in Nat /\ N > 0 /\ stack[N] = Top
  BY <1>1, StackFollows
<1> QED
  BY <1>1, <1>2 DEF IsStack

(* The innermost activation goes on as f. *)
LEMMA GoOnSums ==
  ASSUME HeapInv, HeapInv', SumsOf(heap, stack), heap' = heap, stack # <<>>,
         NEW f, stack' = Append(Caller, f), ~LeftDoneAt(f),
         f.node \in Reach(heap, Top.node),
         \A m \in Reach(heap, Todo(heap, Top)) :
           IsOp(heap, m) => Product(heap, m) \/ m \in Reach(heap, f.node)
  PROVE  SumsOf(heap, stack)'
<1>1. PICK A : InUse(heap, A) /\ IsStack(heap, A, stack) /\ \E S : stack \in Seq(S)
  BY TopOfStack
<1>2. PICK B : IsStack(heap, B, stack')
  BY NextStack
<1> DEFINE N == Len(stack)
<1>3. /\ N \in Nat /\ N > 0 /\ stack[N] = Top
      /\ Follows(stack, stack') /\ Len(stack') = N /\ stack'[N] = f
  BY <1>1, StackFollows
<1>4. Todo(heap, f) = f.node
  BY DEF Todo, LeftDoneAt
<1>5. N \in DOMAIN stack' /\ N >= N
  <2>1. DOMAIN stack' = 1..Len(stack')
    BY <1>2 DEF IsStack
  <2> QED
    BY <1>3, <2>1
<1>6. Handed(heap, stack, stack')
  BY <1>3, <1>4, <1>5 DEF Handed
<1>7. SumsOf(heap, stack')
  BY <1>1, <1>2, <1>3, <1>6, SumsOfGoingOn
<1> QED
  BY <1>7

(* A primitive has nothing to do; all of a parent is still ahead.            *)
LEMMA EnterSums ==
  ASSUME HeapInv, HeapInv', SumsOf(heap, stack), Enter
  PROVE  SumsOf(heap, stack)'
<1> DEFINE N == Len(stack)
           n == Top.node
<1>1. PICK A : /\ InUse(heap, A) /\ IsStack(heap, A, stack) /\ stack # <<>>
               /\ n \in A /\ \E S : stack \in Seq(S)
  BY TopOfStack DEF Enter, Running
<1>2. heap' = heap
  BY DEF Enter
<1>3. PICK B : IsStack(heap, B, stack')
  BY <1>2, NextStack
<1>4. PICK r, b : Ranked(heap, r, b)
  BY <1>1 DEF InUse
<1>5. Todo(heap, Top) = n /\ n \in DOMAIN heap
  BY <1>1 DEF Todo, Enter, Running, InUse
<1>6. CASE IsPrimitive(n) \/ (IsPrimitive(L(n)) /\ IsPrimitive(R(n)))
  <2>1. Prim(heap, n) \/ (Prim(heap, heap[n].left) /\ Prim(heap, heap[n].right))
    BY <1>6 DEF IsPrimitive, Prim, L, R
  <2>2. /\ N \in Nat /\ N > 0 /\ stack[N] = Top
        /\ Follows(stack, Caller) /\ Len(Caller) = N - 1
    BY <1>1, StackFollows
  <2>3. stack' = Caller
    BY <1>6 DEF Enter
  <2>4. Handed(heap, stack, stack')
    BY <1>4, <1>5, <2>1, <2>2, PrimitiveOperands DEF Handed
  <2>5. SumsOf(heap, stack')
    BY <1>1, <1>3, <2>2, <2>3, <2>4, SumsOfEnd
  <2> QED
    BY <1>2, <2>5
<1>7. CASE ~(IsPrimitive(n) \/ (IsPrimitive(L(n)) /\ IsPrimitive(R(n))))
  <2>1. PICK f : f = [Top EXCEPT !.at = "right rules"]
    OBVIOUS
  <2>2. stack' = Append(Caller, f)
    BY <1>7, <2>1 DEF Enter, GoOn
  <2>3. f.node = n /\ ~LeftDoneAt(f)
    <3>1. Top \in Activations(heap, A)
      BY <1>1, TopIsActivation
    <3> QED
      BY <2>1, <3>1 DEF LeftDoneAt, Activations
  <2>4. n \in Reach(heap, n)
    BY <1>4, <1>5, ReachIsLeast
  <2> QED
    BY <1>1, <1>2, <1>5, <2>2, <2>3, <2>4, GoOnSums
<1> QED
  BY <1>6, <1>7

(* The left operand is done: the node is a product, or the right operand of  *)
(* a union is ahead, or the node once more.                                  *)
LEMMA LeftDoneSums ==
  ASSUME HeapInv, HeapInv', SumsOf(heap, stack), LeftDone
  PROVE  SumsOf(heap, stack)'
<1> DEFINE N == Len(stack)
           n == Top.node
           l == heap[n].left
           q == heap[n].right
<1>1. PICK A : /\ InUse(heap, A) /\ IsStack(heap, A, stack) /\ stack # <<>>
               /\ n \in A /\ heap[n] \in Node /\ ~Prim(heap, n)
               /\ \E S : stack \in Seq(S)
  BY TopOfStack DEF LeftDone, Running
<1>2. heap' = heap /\ LeftDoneAt(Top)
  BY DEF LeftDone, Running, LeftDoneAt
<1>4. PICK r, b : Ranked(heap, r, b)
  BY <1>1 DEF InUse
<1>5. n \in DOMAIN heap /\ l \in DOMAIN heap /\ q \in DOMAIN heap /\ n \in Reach(heap, n)
      /\ l \in Reach(heap, n) /\ q \in Reach(heap, n)
  <2>1. n \in DOMAIN heap /\ Owns(heap, n, l) /\ Owns(heap, n, q)
    BY <1>1 DEF InUse, Owns
  <2>2. n \in Reach(heap, n) /\ Closed(heap, Reach(heap, n))
    BY <1>4, <2>1, ReachIsLeast
  <2> QED
    BY <1>4, <2>1, <2>2 DEF Closed, Ranked
<1>6. CASE LoopEnds(n)
  <2>1. PICK f : f = Call(q)
    OBVIOUS
  <2>2. stack' = Append(Caller, f)
    BY <1>6, <2>1 DEF LeftDone, R
  <2>3. f.node = q /\ ~LeftDoneAt(f)
    BY <2>1 DEF Call, LeftDoneAt
  <2>4. CASE heap[n].type = "union"
    <3>1. Todo(heap, Top) = q
      BY <1>2, <2>4 DEF Todo, LeftDoneAt
    <3> QED
      BY <1>1, <1>2, <1>5, <2>2, <2>3, <3>1, GoOnSums
  <2>5. CASE heap[n].type # "union"
    <3>1. Prim(heap, q) /\ IsOp(heap, l)
      <4>1. Prim(heap, q) /\ ~Prim(heap, l) /\ heap[l].type # "union"
        BY <1>6, <2>5 DEF LoopEnds, IsType, IsPrimitive, Prim, L, R
      <4>2. heap[l] \in Node
        <5>1. PICK T, D : Sound(heap, T, D)
          BY DEF HeapInv
        <5> QED
          BY <1>5, <5>1, HeapOperands
      <4> QED
        BY <4>1, <4>2 DEF Node, IsOp, Prim
    <3>2. \A m \in Reach(heap, l) : IsOp(heap, m) => Product(heap, m)
      <4>1. N \in Nat /\ N > 0 /\ stack[N] = Top /\ DOMAIN stack = 1..N
        BY <1>1, StackFollows DEF IsStack
      <4>2. N \in Waiting(stack) /\ N # 0
        <5>1. N \in DOMAIN stack /\ N # 0
          BY <4>1
        <5>2. LeftDoneAt(stack[N])
          BY <1>2, <4>1
        <5> QED
          BY <5>1, <5>2 DEF Waiting, LeftDoneAt
      <4>3. Goal(heap, stack, N) = l
        BY <4>1, <4>2 DEF Goal
      <4>4. Settled(heap, stack, N, l)
        BY <4>2, <4>3 DEF SumsOf
      <4>5. \A m : ~Ahead(heap, stack, N, m)
        BY <4>1 DEF Ahead
      <4> QED
        BY <4>4, <4>5 DEF Settled
    <3>3. Todo(heap, Top) = n
      BY <2>5 DEF Todo
    <3>4. \A m \in Reach(heap, n) : IsOp(heap, m) => Product(heap, m)
      BY <1>1, <1>4, <1>5, <2>5, <3>1, <3>2, ProductDone
    <3> QED
      BY <1>1, <1>2, <1>5, <2>2, <2>3, <3>3, <3>4, GoOnSums
  <2> QED
    BY <2>4, <2>5
<1>7. CASE ~LoopEnds(n)
  <2>1. PICK f : f = [Top EXCEPT !.at = "right rules"]
    OBVIOUS
  <2>2. stack' = Append(Caller, f)
    BY <1>7, <2>1 DEF LeftDone, GoOn
  <2>3. f.node = n /\ ~LeftDoneAt(f)
    <3>1. Top \in Activations(heap, A)
      BY <1>1, TopIsActivation
    <3> QED
      BY <2>1, <3>1 DEF LeftDoneAt, Activations
  <2>4. Todo(heap, Top) = n
    BY <1>7 DEF LoopEnds, IsType, Todo
  <2> QED
    BY <1>1, <1>2, <1>5, <2>2, <2>3, <2>4, GoOnSums
<1> QED
  BY <1>6, <1>7

(* A rule has been applied to the node of the innermost activation. *)
LEMMA RuleSums ==
  ASSUME NEW T, NEW D, Sound(heap, T, D), stack \in Seq(Frames(heap, T, D)),
         SumsOf(heap, stack), Running("right rules"), Leaves(heap, T, D, heap'),
         TurnsRight(heap, Top.node, heap') \/ TurnsLeft(heap, Top.node, heap')
  PROVE  SumsOf(heap', stack)
<1> DEFINE n == Top.node
           A == DOMAIN heap \ D
<1>1. /\ Shaped(heap, T, D) /\ HasRoot(A)
      /\ InUse(heap, A) /\ IsStack(heap, A, stack)
  BY HeapInUse DEF Sound, InUse
<1>2. PICK r, b : Ranked(heap, r, b)
  BY DEF Sound
<1>3. PICK q, d : Ranked(heap', q, d)
  BY DEF Leaves, Sound
<1>4. \A m \in DOMAIN heap : Prim(heap', m) <=> Prim(heap, m)
  BY DEF Leaves
<1>5. n \in DOMAIN heap \ (T \cup D) /\ Innermost(stack, n)
  <2>1. stack # <<>> /\ Top.at = "right rules"
    BY DEF Running
  <2>2. Top \in Frames(heap, T, D)
    BY <2>1, StackTop
  <2>3. Len(stack) > 0 /\ stack[Len(stack)] = Top
    BY <2>1, StackFollows
  <2> QED
    BY <2>1, <2>2, <2>3 DEF Frames, Innermost
<1>6. PICK c : Changes(heap, heap', A, n, c)
  BY <1>1, <1>2, <1>3, <1>4, <1>5, RightTurnChanges, LeftTurnChanges
<1> HIDE DEF n, A
<1> QED
  BY <1>1, <1>2, <1>3, <1>5, <1>6, SumsOfChange

(* After one of rules 1 to 6 the node, with all below it, is still ahead.    *)
LEMMA RightRuleSums ==
  ASSUME HeapInv, SumsOf(heap, stack), ApplyRightRule
  PROVE  SumsOf(heap, stack)'
<1>1. PICK T, D : Sound(heap, T, D) /\ stack \in Seq(Frames(heap, T, D))
  BY DEF HeapInv
<1>2. Running("right rules") /\ stack' = stack
  BY DEF ApplyRightRule
<1>3. Top.node \in DOMAIN heap \ (T \cup D)
  <2>1. stack # <<>>
    BY <1>2 DEF Running
  <2>2. Top \in Frames(heap, T, D)
    BY <1>1, <2>1, StackTop
  <2> QED
    BY <2>2 DEF Frames
<1>4. Leaves(heap, T, D, heap') /\ TurnsRight(heap, Top.node, heap')
  BY <1>1, <1>3, RightRuleStep DEF ApplyRightRule
<1>5. SumsOf(heap', stack)
  BY <1>1, <1>2, <1>4, RuleSums
<1> QED
  BY <1>2, <1>5

(* After rule 7 or 8, or none, the left operand is ahead, and what is left   *)
(* of the node.                                                              *)
LEMMA LeftRuleSums ==
  ASSUME HeapInv, HeapInv', SumsOf(heap, stack), ApplyLeftRule
  PROVE  SumsOf(heap, stack)'
<1> DEFINE N == Len(stack)
           n == Top.node
           l == heap'[n].left
           q == heap'[n].right
<1>1. PICK T, D : Sound(heap, T, D) /\ stack \in Seq(Frames(heap, T, D))
  BY DEF HeapInv
<1>2. Running("right rules") /\ stack # <<>> /\ Top.at = "right rules"
  BY DEF ApplyLeftRule, Running
<1>3. n \in DOMAIN heap \ (T \cup D) /\ ~Prim(heap, n)
  <2>1. Top \in Frames(heap, T, D)
    BY <1>1, <1>2, StackTop
  <2> QED
    BY <1>2, <2>1 DEF Frames
<1>4. Leaves(heap, T, D, heap') /\ SumsOf(heap', stack)
  <2>1. CASE Rule7(n) \/ Rule8(n)
    <3>1. Leaves(heap, T, D, heap') /\ TurnsLeft(heap, n, heap')
      BY <1>1, <1>3, <2>1, LeftRuleStep DEF ApplyLeftRule
    <3> QED
      BY <1>1, <1>2, <3>1, RuleSums
  <2>2. CASE heap' = heap
    BY <1>1, <2>2 DEF Leaves
  <2> QED
    BY <2>1, <2>2 DEF ApplyLeftRule
<1>5. PICK U, E : Sound(heap', U, E) /\ stack \in Seq(Frames(heap', U, E))
  <2>1. PICK U, E : Sound(heap', U, E) /\ Frames(heap, T, D) \subseteq Frames(heap', U, E)
    BY <1>4, FramesStay DEF Leaves
  <2>2. stack \in Seq(Frames(heap', U, E))
    BY <1>1, <2>1, SeqOfMore
  <2> QED
    BY <2>1, <2>2
<1>6. PICK A : InUse(heap', A) /\ IsStack(heap', A, stack)
  BY <1>5, HeapInUse
<1>7. PICK B : IsStack(heap', B, stack')
  BY NextStack
<1>8. PICK f, e : f = [Top EXCEPT !.at = "left done"] /\ e = Call(l)
  OBVIOUS
<1>9. stack' = Caller \o <<f, e>>
  BY <1>8 DEF ApplyLeftRule
<1>10. /\ N \in Nat /\ N > 0 /\ stack[N] = Top /\ Follows(stack, stack')
       /\ Len(stack') = N + 1 /\ stack'[N] = f /\ stack'[N + 1] = e
  <2>1. PICK S : stack \in Seq(S) /\ stack # <<>>
    BY <1>1, <1>2
  <2> QED
    BY <1>9, <2>1, StackFollows
<1>11. /\ f.node = n /\ LeftDoneAt(f) /\ e.node = l /\ ~LeftDoneAt(e)
  <2>1. Top \in Frames(heap, T, D)
    BY <1>1, <1>2, StackTop
  <2> QED
    BY <1>8, <2>1 DEF Frames, LeftDoneAt, Call
<1>12. ~Prim(heap', n) /\ n \in DOMAIN heap'
  BY <1>3, <1>4 DEF Leaves
<1>13. PICK r, b : Ranked(heap', r, b)
  BY <1>5 DEF Sound
<1>14. Reach(heap', n) = {n} \cup Reach(heap', l) \cup Reach(heap', q)
  BY <1>12, <1>13, ReachOfOperands
<1>15. Todo(heap', Top) = n /\ Todo(heap', e) = l
  BY <1>2, <1>11 DEF Todo, LeftDoneAt
<1>16. ASSUME NEW m \in Reach(heap', n), IsOp(heap', m)
       PROVE  m \in Reach(heap', Todo(heap', f)) \cup Reach(heap', Todo(heap', e))
  <2>1. CASE heap'[n].type = "union"
    <3>1. Todo(heap', f) = q
      BY <1>11, <2>1 DEF Todo, LeftDoneAt
    <3>2. m # n
      BY <1>16, <2>1 DEF IsOp
    <3> QED
      BY <1>14, <1>15, <1>16, <3>1, <3>2
  <2>2. CASE heap'[n].type # "union"
    <3>1. Todo(heap', f) = n
      BY <1>11, <2>2 DEF Todo
    <3> QED
      BY <1>16, <3>1
  <2> QED
    BY <2>1, <2>2
<1> HIDE DEF N, n, l, q
<1>17. N \in DOMAIN stack' /\ N + 1 \in DOMAIN stack' /\ N >= N /\ N + 1 >= N
  <2>1. DOMAIN stack' = 1..Len(stack')
    BY <1>7 DEF IsStack
  <2> QED
    BY <1>10, <2>1
<1>18. Handed(heap', stack, stack')
  BY <1>10, <1>15, <1>16, <1>17 DEF Handed, N
<1>19. SumsOf(heap', stack')
  <2>1. /\ LeftDoneAt(stack'[N]) /\ stack'[N].node = stack[N].node /\ ~Prim(heap', stack[N].node)
        /\ ~LeftDoneAt(stack'[N + 1]) /\ stack'[N + 1].node = heap'[stack[N].node].left
        /\ N = Len(stack) /\ Len(stack') = N + 1
    BY <1>10, <1>11, <1>12 DEF N, n, l
  <2> QED
    BY <1>4, <1>6, <1>7, <1>10, <1>18, <2>1, SumsOfCall
<1> QED
  BY <1>19

(* The tree to start from is all yet to do. *)
LEMMA InitSums ==
  ASSUME HeapInv, Init
  PROVE  SumsOf(heap, stack)
<1> DEFINE f == Call(1)
<1>1. stack = <<f>> /\ Len(stack) = 1 /\ DOMAIN stack = {1} /\ stack[1] = f
  BY DEF Init
<1>2. f.node = 1 /\ ~LeftDoneAt(f)
  BY DEF Call, LeftDoneAt
<1>3. Waiting(stack) = {0}
  BY <1>1, <1>2 DEF Waiting, LeftDoneAt
<1>4. Goal(heap, stack, 0) = 1 /\ Todo(heap, f) = 1
  BY <1>2 DEF Goal, Todo, LeftDoneAt
<1>5. 1 \in Reach(heap, 1)
  <2>1. PICK A : InUse(heap, A)
    BY TopOfStack
  <2> QED
    BY <2>1, ReachIsLeast DEF InUse, HasRoot
<1> HIDE DEF f
<1>6. Settled(heap, stack, 0, 1)
  BY <1>1, <1>4 DEF Settled, Ahead
<1>7. \A i \in 0..Len(stack), j \in DOMAIN stack :
        i < j => i \in Waiting(stack) /\ stack[j].node \in Reach(heap, Goal(heap, stack, i))
  <2> SUFFICES ASSUME NEW i \in 0..1, i < 1
               PROVE  i \in Waiting(stack) /\ f.node \in Reach(heap, Goal(heap, stack, i))
    BY <1>1
  <2>1. i = 0
    OBVIOUS
  <2> QED
    BY <1>2, <1>3, <1>4, <1>5, <2>1
<1> QED
  BY <1>3, <1>4, <1>6, <1>7 DEF SumsOf

(* Each step. *)
LEMMA NextSums ==
  ASSUME HeapInv, HeapInv', SumsOf(heap, stack), [Next]_csgVars
  PROVE  SumsOf(heap, stack)'
<1>1. CASE heap' = heap /\ stack' = stack
  BY <1>1
<1> QED
  BY <1>1, EnterSums, RightRuleSums, LeftRuleSums, LeftDoneSums
     DEF Next, ReadOff, OptimiseSum, csgVars

(* ReachableFrom counts the nodes below a node in another way. *)
LEMMA ReachableIsReach ==
  ASSUME heap \in Seq(Node), NEW r, NEW b, Ranked(heap, r, b)
  PROVE  \A m \in DOMAIN heap : ReachableFrom(m) \subseteq Reach(heap, m)
<1> DEFINE f == CHOOSE f : f = [m \in DOMAIN heap |-> Spread(f, m)]
<1>1. f = [m \in DOMAIN heap |-> Spread(f, m)]
  BY BelowExists
<1>2. \A m : ReachableFrom(m) = f[m]
  BY DEF ReachableFrom, Spread
<1> HIDE DEF f
<1>3. \A m \in DOMAIN heap : f[m] = Spread(f, m)
  BY <1>1
<1> DEFINE Bad == {k \in Nat : \E m \in DOMAIN heap : r[m] = k /\ ~(f[m] \subseteq Reach(heap, m))}
<1>4. /\ \A m \in DOMAIN heap : r[m] \in Nat
      /\ \A m \in DOMAIN heap : \A x : Owns(heap, m, x) => x \in DOMAIN heap /\ r[x] < r[m]
  BY RanksDescend
<1>5. Bad = {}
  <2>1. SUFFICES ASSUME Bad # {} PROVE FALSE
    OBVIOUS
  <2>2. PICK k \in Bad : \A j \in Bad : k <= j
    BY <2>1, LeastOf
  <2>3. PICK m \in DOMAIN heap : r[m] = k /\ ~(f[m] \subseteq Reach(heap, m))
    BY <2>2
  <2>4. \A x \in DOMAIN heap : r[x] < r[m] => f[x] \subseteq Reach(heap, x)
    <3> SUFFICES ASSUME NEW x \in DOMAIN heap, r[x] < r[m], ~(f[x] \subseteq Reach(heap, x))
                 PROVE  FALSE
      OBVIOUS
    <3>1. r[x] \in Bad /\ r[x] \in Nat /\ r[m] \in Nat
      BY <1>4
    <3> QED
      BY <2>2, <2>3, <3>1
  <2>5. CASE IsPrimitive(m)
    <3>1. f[m] = {m} /\ m \in Reach(heap, m)
      BY <1>3, <2>5, ReachIsLeast DEF Spread
    <3> QED
      BY <2>3, <3>1
  <2>6. CASE ~IsPrimitive(m)
    <3>1. f[m] = {m} \cup f[L(m)] \cup f[R(m)]
      BY <1>3, <2>6 DEF Spread
    <3>2. /\ Owns(heap, m, L(m)) /\ Owns(heap, m, R(m))
          /\ Reach(heap, m) = {m} \cup Reach(heap, L(m)) \cup Reach(heap, R(m))
      BY <2>6, ReachOfOperands DEF Owns, Prim, IsPrimitive, L, R
    <3>3. f[L(m)] \subseteq Reach(heap, L(m)) /\ f[R(m)] \subseteq Reach(heap, R(m))
      BY <1>4, <2>4, <3>2
    <3> QED
      BY <2>3, <3>1, <3>2, <3>3
  <2> QED
    BY <2>5, <2>6
<1> QED
  BY <1>2, <1>4, <1>5

(* At the end nothing is ahead, so all is in products and unions. *)
LEMMA SumsAtTheEnd ==
  ASSUME HeapInv, SumsOf(heap, stack)
  PROVE  EndsInASum
<1> SUFFICES ASSUME stack = <<>> PROVE IsSumOfProducts(1)
  BY DEF EndsInASum
<1>1. PICK r, b : Ranked(heap, r, b) /\ heap \in Seq(Node) /\ 1 \in DOMAIN heap
  BY DEF HeapInv, Sound
<1>2. \A m \in Reach(heap, 1) : IsOp(heap, m) => Product(heap, m)
  <2>1. 0 \in Waiting(stack) /\ Goal(heap, stack, 0) = 1 /\ DOMAIN stack = {}
    BY DEF Waiting, Goal
  <2>2. Settled(heap, stack, 0, 1)
    BY <2>1 DEF SumsOf
  <2> QED
    BY <2>1, <2>2 DEF Settled, Ahead
<1>3. \A m \in DOMAIN heap : ReachableFrom(m) \subseteq Reach(heap, m)
  BY <1>1, ReachableIsReach
<1>4. ASSUME NEW m \in ReachableFrom(1), IsOp(heap, m), NEW k \in ReachableFrom(m)
      PROVE  heap[k].type # "union"
  <2>1. m \in Reach(heap, 1) /\ m \in DOMAIN heap
    BY <1>1, <1>3 DEF Reach
  <2>2. k \in Reach(heap, m) /\ Product(heap, m)
    BY <1>2, <1>3, <1>4, <2>1
  <2>3. Plain(heap, k)
    BY <2>2 DEF Product
  <2> QED
    BY <2>3 DEF Plain, Prim, IsOp
<1> QED
  BY <1>4 DEF IsSumOfProducts, IsOp, IsType

SumInv == HeapInv /\ SumsOf(heap, stack)

(* When normalise() returns, its tree is a sum of products, as normalised()  *)
(* asserts: for every tree, whatever operands have come to be shared.        *)
THEOREM AlwaysEndsInASum == Spec => []EndsInASum
<1>1. Init => SumInv
  BY TreesAssumption, InitHeap, InitSums DEF SumInv
<1>2. SumInv /\ [Next]_csgVars => SumInv'
  BY NextHeap, NextSums DEF SumInv
<1>3. SumInv => EndsInASum
  BY SumsAtTheEnd DEF SumInv
<1> QED
  BY <1>1, <1>2, <1>3, PTL DEF Spec

(* A step that rewrites no shared operand by rule 7 or 8 keeps the object. *)
LEMMA KeepsStep ==
  ASSUME KeepsTheObject, HeapInv, [Next]_csgVars,
         [ApplyLeftRule => RewritesOwnOperands]_csgVars
  PROVE  KeepsTheObject'
<1>1. origin' = origin
  BY DEF Next, Enter, ApplyRightRule, ApplyLeftRule, LeftDone, ReadOff, OptimiseSum, csgVars
<1>2. Points' = Points
  BY <1>1 DEF Points
<1>3. Solid(heap', Points) = Solid(heap, Points)
  <2>1. CASE heap' = heap
    BY <2>1
  <2>2. CASE ApplyRightRule
    BY <2>2, IdentityStep
  <2>3. CASE ApplyLeftRule /\ heap' # heap
    BY <2>3, IdentityStep DEF csgVars
  <2> QED
    BY <2>1, <2>2, <2>3 DEF Next, Enter, LeftDone, ReadOff, OptimiseSum, csgVars
<1> QED
  BY <1>1, <1>2, <1>3 DEF KeepsTheObject

(* As long as rules 7 and 8 rewrite no shared operand, normalise() keeps the *)
(* object of its tree.                                                       *)
THEOREM UnsharedKeepsTheObject ==
  Spec /\ [][ApplyLeftRule => RewritesOwnOperands]_csgVars => []KeepsTheObject
<1>1. Init => KeepsTheObject
  BY DEF Init, KeepsTheObject, Points
<1>2. KeepsTheObject /\ HeapInv /\ [Next]_csgVars
        /\ [ApplyLeftRule => RewritesOwnOperands]_csgVars => KeepsTheObject'
  BY KeepsStep
<1> QED
  BY <1>1, <1>2, HeapHolds, PTL DEF Spec

=============================================================================
