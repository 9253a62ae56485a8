------------------------------ MODULE ListLemmas ------------------------------
(***************************************************************************)
(* What the proofs of several modules need of numbers and lists.           *)
(***************************************************************************)
EXTENDS Integers, SequencesExt, ListRemoval, SequenceTheorems, FiniteSetTheorems,
        WellFoundedInduction, TLAPS

(* A set of natural numbers has a least element.  It is used for proofs by   *)
(* the least counterexample, where a theorem on induction would need the     *)
(* formula to be proved as a parameter.                                      *)
LEMMA LeastOf ==
  ASSUME NEW T \in SUBSET Nat, T # {}
  PROVE  \E n \in T : \A m \in T : n <= m
<1> DEFINE Less == {ss \in Nat \X Nat : ss[1] < ss[2]}
<1>1. IsWellFoundedOn(Less, Nat)
  BY NatLessThanWellFounded DEF OpToRel
<1>2. \A m, n \in Nat : m < n => <<m, n>> \in Less
  OBVIOUS
<1> HIDE DEF Less
<1>3. PICK n \in T : \A m \in T : <<m, n>> \notin Less
  BY <1>1, WFMin
<1>4. ASSUME NEW m \in T
      PROVE  n <= m
  <2>1. m \in Nat /\ n \in Nat
    OBVIOUS
  <2>2. ~(m < n)
    BY <1>2, <1>3, <2>1
  <2> QED
    BY <2>1, <2>2
<1> QED
  BY <1>4

-----------------------------------------------------------------------------
(* Lemmas about lists. *)

(* An item put in front of a list. *)
LEMMA InFront ==
  ASSUME NEW S, NEW x \in S, NEW s \in Seq(S)
  PROVE  /\ <<x>> \o s \in Seq(S)
         /\ Len(<<x>> \o s) = Len(s) + 1
         /\ (<<x>> \o s)[1] = x
         /\ \A p \in 1..Len(s) : (<<x>> \o s)[p + 1] = s[p]
<1> DEFINE one == <<x>>
<1>1. one \in Seq(S) /\ Len(one) = 1 /\ one[1] = x
  OBVIOUS
<1> HIDE DEF one
<1>2. /\ one \o s \in Seq(S)
      /\ Len(one \o s) = Len(s) + 1
      /\ \A i \in 1..(Len(s) + 1) :
           (one \o s)[i] = IF i <= 1 THEN one[i] ELSE s[i - 1]
  <2>1. /\ one \o s \in Seq(S)
        /\ Len(one \o s) = Len(one) + Len(s)
        /\ \A i \in 1..(Len(one) + Len(s)) :
             (one \o s)[i] = IF i <= Len(one) THEN one[i] ELSE s[i - Len(one)]
    BY <1>1, ConcatProperties
  <2>2. Len(s) \in Nat /\ Len(one) + Len(s) = Len(s) + 1
    BY <1>1, LenProperties
  <2> QED
    BY <1>1, <2>1, <2>2
<1>3. (one \o s)[1] = x
  BY <1>1, <1>2, LenProperties
<1>4. ASSUME NEW p \in 1..Len(s)
      PROVE  (one \o s)[p + 1] = s[p]
  <2>1. p + 1 \in 1..(Len(s) + 1) /\ ~(p + 1 <= 1) /\ (p + 1) - 1 = p
    BY LenProperties
  <2> QED
    BY <1>2, <2>1
<1> QED
  BY <1>2, <1>3, <1>4 DEF one

(* RemoveAt closes the gap at p and keeps the rest in order. *)
LEMMA RemoveAtProperties ==
  ASSUME NEW S, NEW s \in Seq(S), NEW p \in 1..Len(s)
  PROVE  /\ RemoveAt(s, p) \in Seq(S)
         /\ Len(RemoveAt(s, p)) = Len(s) - 1
         /\ \A k \in 1..(Len(s) - 1) :
              RemoveAt(s, p)[k] = IF k < p THEN s[k] ELSE s[k + 1]
<1> DEFINE before == SubSeq(s, 1, p - 1)
           after  == SubSeq(s, p + 1, Len(s))
<1>1. /\ before \in Seq(S)
      /\ Len(before) = p - 1
      /\ \A k \in 1..(p - 1) : before[k] = s[k]
  BY SubSeqProperties, LenProperties
<1>2. /\ after \in Seq(S)
      /\ Len(after) = Len(s) - p
      /\ \A k \in 1..(Len(s) - p) : after[k] = s[p + k]
  BY SubSeqProperties, LenProperties
<1>3. RemoveAt(s, p) = before \o after
  BY DEF RemoveAt
<1> HIDE DEF before, after
<1>4. /\ before \o after \in Seq(S)
      /\ Len(before \o after) = Len(s) - 1
  BY <1>1, <1>2, ConcatProperties, LenProperties
<1>5. ASSUME NEW k \in 1..(Len(s) - 1)
      PROVE  (before \o after)[k] = IF k < p THEN s[k] ELSE s[k + 1]
  <2>1. (before \o after)[k] = IF k <= p - 1 THEN before[k] ELSE after[k - (p - 1)]
    BY <1>1, <1>2, ConcatProperties, LenProperties
  <2>2. CASE k < p
    BY <1>1, <2>1, <2>2, LenProperties
  <2>3. CASE ~(k < p)
    <3>1. k - (p - 1) \in 1..(Len(s) - p)
      BY <2>3, LenProperties
    <3>2. after[k - (p - 1)] = s[k + 1]
      BY <3>1, <1>2, LenProperties
    <3> QED
      BY <2>1, <2>3, <3>2, LenProperties
  <2> QED
    BY <2>2, <2>3
<1> QED
  BY <1>3, <1>4, <1>5

(* The greatest member of a set of numbers up to n. *)
LEMMA GreatestOf ==
  ASSUME NEW n \in Nat, NEW T \in SUBSET (0..n), T # {}
  PROVE  Max(T) \in T /\ \A t \in T : t <= Max(T)
<1> DEFINE Rest == {n - t : t \in T}
<1>1. Rest \in SUBSET Nat /\ Rest # {}
  <2>1. \A t \in T : n - t \in Nat
    OBVIOUS
  <2>2. PICK t \in T : TRUE
    OBVIOUS
  <2>3. n - t \in Rest
    OBVIOUS
  <2> QED
    BY <2>1, <2>3
<1>2. PICK r \in Rest : \A q \in Rest : r <= q
  BY <1>1, LeastOf
<1>3. PICK g \in T : r = n - g
  BY <1>2
<1>4. \A t \in T : g >= t
  <2> SUFFICES ASSUME NEW t \in T PROVE g >= t
    OBVIOUS
  <2>1. r <= n - t
    BY <1>2
  <2> QED
    BY <1>3, <2>1
<1>5. Max(T) \in T /\ \A t \in T : Max(T) >= t
  BY <1>4 DEF Max
<1> QED
  BY <1>5

-----------------------------------------------------------------------------
(* Removal from a list. *)

(* The count of those that stay, place by place. *)
LEMMA StayingSteps ==
  ASSUME NEW list, NEW x
  PROVE  /\ Staying(list, x, 0) = 0
         /\ \A p \in Nat : Staying(list, x, p) \in Nat
<1> DEFINE S(p) == {q \in 1..p : list[q] # x}
<1>1. \A p \in Nat : IsFiniteSet(S(p)) /\ Cardinality(S(p)) \in Nat
  <2> SUFFICES ASSUME NEW p \in Nat
               PROVE  IsFiniteSet(S(p)) /\ Cardinality(S(p)) \in Nat
    OBVIOUS
  <2>1. IsFiniteSet(1..p)
    BY FS_Interval
  <2>2. S(p) \in SUBSET (1..p)
    OBVIOUS
  <2>3. IsFiniteSet(S(p))
    BY <2>1, <2>2, FS_Subset
  <2> QED
    BY <2>3, FS_CardinalityType
<1>2. S(0) = {} /\ Cardinality(S(0)) = 0
  <2>1. S(0) = {}
    OBVIOUS
  <2> QED
    BY <2>1, FS_EmptySet
<1> QED
  BY <1>1, <1>2 DEF Staying

(* The count of those that stay, from one place to the next. *)
LEMMA StayingStep ==
  ASSUME NEW list, NEW x, NEW p \in Nat, NEW q \in Nat, q = p + 1
  PROVE  Staying(list, x, q) =
           IF list[q] # x THEN Staying(list, x, p) + 1 ELSE Staying(list, x, p)
<1> DEFINE S == {r \in 1..p : list[r] # x}
           T == {r \in 1..q : list[r] # x}
<1>1. IsFiniteSet(S)
  <2>1. IsFiniteSet(1..p) /\ S \in SUBSET (1..p)
    BY FS_Interval
  <2> QED
    BY <2>1, FS_Subset
<1>2. CASE list[q] # x
  <2>1. T = S \cup {q}
    BY <1>2
  <2>2. q \notin S
    OBVIOUS
  <2> HIDE DEF S, T
  <2>3. Cardinality(T) = Cardinality(S) + 1
    BY <1>1, <2>1, <2>2, FS_AddElement
  <2> QED
    BY <1>2, <2>3 DEF S, T, Staying
<1>3. CASE list[q] = x
  <2>1. S = T
    BY <1>3
  <2> QED
    BY <1>3, <2>1 DEF Staying
<1> QED
  BY <1>2, <1>3

(* The count never falls, and is at most the number of places. *)
LEMMA StayingGrows ==
  ASSUME NEW list, NEW x, NEW p \in Nat, NEW q \in Nat, p <= q
  PROVE  /\ Staying(list, x, p) <= Staying(list, x, q)
         /\ Staying(list, x, p) <= p
<1>1. IsFiniteSet(1..p) /\ IsFiniteSet(1..q) /\ Cardinality(1..p) = p
  BY FS_Interval
<1>2. {r \in 1..p : list[r] # x} \in SUBSET {r \in 1..q : list[r] # x}
  OBVIOUS
<1>3. IsFiniteSet({r \in 1..q : list[r] # x})
  <2>1. {r \in 1..q : list[r] # x} \in SUBSET (1..q)
    OBVIOUS
  <2> QED
    BY <1>1, <2>1, FS_Subset
<1>4. Staying(list, x, p) <= Staying(list, x, q)
  BY <1>2, <1>3, FS_Subset DEF Staying
<1>5. {r \in 1..p : list[r] # x} \in SUBSET (1..p)
  OBVIOUS
<1>6. Staying(list, x, p) <= p
  BY <1>1, <1>5, FS_Subset DEF Staying
<1> QED
  BY <1>4, <1>6

(* Two that stay keep their order. *)
LEMMA StayingInOrder ==
  ASSUME NEW list, NEW x, NEW p \in Nat, NEW q \in Nat, p < q, list[q] # x
  PROVE  Staying(list, x, p) < Staying(list, x, q)
<1>1. PICK r \in Nat : q = r + 1 /\ p <= r
  <2>1. q - 1 \in Nat /\ q = (q - 1) + 1 /\ p <= q - 1
    OBVIOUS
  <2> QED
    BY <2>1
<1>2. Staying(list, x, q) = Staying(list, x, r) + 1
  <2>1. Staying(list, x, q) =
          IF list[q] # x THEN Staying(list, x, r) + 1 ELSE Staying(list, x, r)
    BY <1>1, StayingStep
  <2> QED
    BY <2>1
<1>3. Staying(list, x, p) <= Staying(list, x, r)
  BY <1>1, StayingGrows
<1>4. Staying(list, x, p) \in Nat /\ Staying(list, x, r) \in Nat
  BY StayingSteps
<1> QED
  BY <1>2, <1>3, <1>4

(* Every place of the new list has one that stayed. *)
LEMMA PlaceIsTaken ==
  ASSUME NEW list, NEW x, NEW m \in Nat, NEW n \in 1..Staying(list, x, m)
  PROVE  \E p \in 1..m : list[p] # x /\ Staying(list, x, p) = n
<1> DEFINE T == {p \in Nat : p <= m /\ n <= Staying(list, x, p)}
<1>1. \A p \in Nat : Staying(list, x, p) \in Nat
  BY StayingSteps
<1>2. m \in T /\ T \in SUBSET Nat
  BY <1>1
<1>3. PICK p \in T : \A q \in T : p <= q
  <2> HIDE DEF T
  <2> QED
    BY <1>2, LeastOf
<1>4. p # 0
  BY <1>1, StayingSteps
<1>5. PICK r \in Nat : p = r + 1
  <2>1. p - 1 \in Nat /\ p = (p - 1) + 1
    BY <1>4
  <2> QED
    BY <2>1
<1>6. Staying(list, x, r) < n
  <2>1. r \notin T
    BY <1>3, <1>5
  <2> QED
    BY <1>1, <1>5, <2>1
<1>7. Staying(list, x, p) =
        IF list[p] # x THEN Staying(list, x, r) + 1 ELSE Staying(list, x, r)
  BY <1>5, StayingStep
<1>8. list[p] # x /\ Staying(list, x, p) = n
  BY <1>1, <1>6, <1>7
<1>9. p \in 1..m
  BY <1>4
<1> QED
  BY <1>8, <1>9

(* What Without returns: those that stay, at the places counted for them.    *)
LEMMA WithoutProperties ==
  ASSUME NEW S, NEW list \in Seq(S), NEW x
  PROVE  /\ Without(list, x) \in Seq(S)
         /\ Len(Without(list, x)) = Staying(list, x, Len(list))
         /\ Staying(list, x, Len(list)) \in 0..Len(list)
         /\ \A p \in 1..Len(list) : list[p] # x =>
              /\ Staying(list, x, p) \in 1..Len(Without(list, x))
              /\ Without(list, x)[Staying(list, x, p)] = list[p]
         /\ \A n \in 1..Len(Without(list, x)) : \E p \in 1..Len(list) :
              /\ list[p] # x
              /\ Staying(list, x, p) = n
              /\ Without(list, x)[n] = list[p]
<1> DEFINE size == Staying(list, x, Len(list))
           At(n) == CHOOSE p \in DOMAIN list : list[p] # x /\ Staying(list, x, p) = n
<1>1. Len(list) \in Nat /\ DOMAIN list = 1..Len(list)
      /\ \A p \in 1..Len(list) : list[p] \in S
  BY LenProperties, ElementOfSeq
<1>2. size \in Nat /\ size <= Len(list)
  <2>1. size \in Nat
    BY <1>1, StayingSteps
  <2>2. size <= Len(list)
    BY <1>1, StayingGrows
  <2> QED
    BY <2>1, <2>2
<1>3. ASSUME NEW n \in 1..size
      PROVE  At(n) \in 1..Len(list) /\ list[At(n)] # x /\ Staying(list, x, At(n)) = n
  <2>1. \E p \in 1..Len(list) : list[p] # x /\ Staying(list, x, p) = n
    BY <1>1, PlaceIsTaken
  <2> QED
    BY <1>1, <2>1
<1>4. ASSUME NEW p \in 1..Len(list), list[p] # x
      PROVE  Staying(list, x, p) \in 1..size /\ At(Staying(list, x, p)) = p
  <2>1. Staying(list, x, 0) = 0 /\ Staying(list, x, p) \in Nat
    <3>1. p \in Nat
      BY <1>1
    <3> QED
      BY <3>1, StayingSteps
  <2>2. 0 < Staying(list, x, p)
    <3>1. p \in Nat /\ 0 \in Nat /\ 0 < p
      BY <1>1
    <3> QED
      BY <1>4, <2>1, <3>1, StayingInOrder
  <2>3. Staying(list, x, p) <= size
    BY <1>1, StayingGrows
  <2>4. Staying(list, x, p) \in 1..size
    BY <1>2, <2>1, <2>2, <2>3
  <2>5. PICK q : q = At(Staying(list, x, p))
    OBVIOUS
  <2>6. q \in 1..Len(list) /\ list[q] # x /\ Staying(list, x, q) = Staying(list, x, p)
    BY <1>3, <2>4, <2>5
  <2>7. p \in Nat /\ q \in Nat
    BY <1>1, <2>6
  <2>8. ~(p < q)
    <3> SUFFICES ASSUME p < q PROVE FALSE
      OBVIOUS
    <3>1. Staying(list, x, p) < Staying(list, x, q)
      BY <2>6, <2>7, StayingInOrder
    <3> QED
      BY <2>1, <2>6, <3>1
  <2>9. ~(q < p)
    <3> SUFFICES ASSUME q < p PROVE FALSE
      OBVIOUS
    <3>1. Staying(list, x, q) < Staying(list, x, p)
      BY <1>4, <2>7, StayingInOrder
    <3> QED
      BY <2>1, <2>6, <3>1
  <2>10. p = q
    BY <2>7, <2>8, <2>9
  <2> QED
    BY <2>4, <2>5, <2>10
<1>5. Without(list, x) = [n \in 1..size |-> list[At(n)]]
  BY DEF Without
<1> HIDE DEF size, At
<1>6. /\ Without(list, x) \in Seq(S)
      /\ Len(Without(list, x)) = size
      /\ \A n \in 1..size : Without(list, x)[n] = list[At(n)]
  <2>1. \A n \in 1..size : list[At(n)] \in S
    BY <1>1, <1>3
  <2>2. [n \in 1..size |-> list[At(n)]] \in [1..size -> S]
    BY <2>1
  <2>3. [n \in 1..size |-> list[At(n)]] \in Seq(S)
    BY <1>2, <2>2
  <2>4. Len([n \in 1..size |-> list[At(n)]]) = size
    BY <1>2
  <2> QED
    BY <1>5, <2>3, <2>4
<1>7. size \in 0..Len(list)
  BY <1>1, <1>2
<1>8. ASSUME NEW p \in 1..Len(list), list[p] # x
      PROVE  /\ Staying(list, x, p) \in 1..Len(Without(list, x))
             /\ Without(list, x)[Staying(list, x, p)] = list[p]
  BY <1>4, <1>6, <1>8
<1>9. ASSUME NEW n \in 1..Len(Without(list, x))
      PROVE  \E p \in 1..Len(list) : /\ list[p] # x
                                     /\ Staying(list, x, p) = n
                                     /\ Without(list, x)[n] = list[p]
  BY <1>3, <1>6
<1> QED
  BY <1>6, <1>7, <1>8, <1>9 DEF size

(* What is left in the list is everything but x. *)
LEMMA WithoutSet ==
  ASSUME NEW S, NEW list \in Seq(S), NEW x
  PROVE  ToSet(Without(list, x)) = ToSet(list) \ {x}
<1>1. /\ DOMAIN list = 1..Len(list)
      /\ Without(list, x) \in Seq(S)
  BY WithoutProperties, LenProperties
<1>2. DOMAIN Without(list, x) = 1..Len(Without(list, x))
  BY <1>1, LenProperties
<1> DEFINE rest == Without(list, x)
<1>3. /\ \A p \in DOMAIN list : list[p] # x => \E n \in DOMAIN rest : rest[n] = list[p]
      /\ \A n \in DOMAIN rest : \E p \in DOMAIN list : list[p] # x /\ rest[n] = list[p]
  <2>1. /\ \A p \in 1..Len(list) : list[p] # x =>
             /\ Staying(list, x, p) \in 1..Len(rest)
             /\ rest[Staying(list, x, p)] = list[p]
        /\ \A n \in 1..Len(rest) : \E p \in 1..Len(list) :
             /\ list[p] # x
             /\ Staying(list, x, p) = n
             /\ rest[n] = list[p]
    BY WithoutProperties
  <2>2. DOMAIN list = 1..Len(list) /\ DOMAIN rest = 1..Len(rest)
    BY <1>1, <1>2
  <2> HIDE DEF rest
  <2>3. ASSUME NEW p \in DOMAIN list, list[p] # x
        PROVE  \E n \in DOMAIN rest : rest[n] = list[p]
    BY <2>1, <2>2, <2>3
  <2>4. ASSUME NEW n \in DOMAIN rest
        PROVE  \E p \in DOMAIN list : list[p] # x /\ rest[n] = list[p]
    BY <2>1, <2>2
  <2> QED
    BY <2>3, <2>4
<1> HIDE DEF rest
<1>4. ToSet(rest) = ToSet(list) \ {x}
  BY <1>3 DEF ToSet
<1> QED
  BY <1>4 DEF rest

(* A list without repetition stays one. *)
LEMMA WithoutTwins ==
  ASSUME NEW S, NEW list \in Seq(S), NEW x,
         \A p, q \in DOMAIN list : list[p] = list[q] => p = q
  PROVE  \A m, n \in DOMAIN Without(list, x) :
           Without(list, x)[m] = Without(list, x)[n] => m = n
<1>1. /\ DOMAIN list = 1..Len(list)
      /\ Without(list, x) \in Seq(S)
  BY WithoutProperties, LenProperties
<1>2. DOMAIN Without(list, x) = 1..Len(Without(list, x))
  BY <1>1, LenProperties
<1>3. \A n \in DOMAIN Without(list, x) : \E p \in DOMAIN list :
        Staying(list, x, p) = n /\ Without(list, x)[n] = list[p]
  <2>1. \A n \in 1..Len(Without(list, x)) : \E p \in 1..Len(list) :
          /\ list[p] # x
          /\ Staying(list, x, p) = n
          /\ Without(list, x)[n] = list[p]
    BY WithoutProperties
  <2> QED
    BY <1>1, <1>2, <2>1
<1> QED
  BY <1>3

(* An item is 0 times in the list exactly if it is not there. *)
LEMMA TimesProperties ==
  ASSUME NEW S, NEW list \in Seq(S), NEW x
  PROVE  /\ IsFiniteSet({p \in DOMAIN list : list[p] = x})
         /\ Times(list, x) \in Nat
         /\ Times(list, x) = 0 <=> x \notin ToSet(list)
<1> DEFINE T == {p \in DOMAIN list : list[p] = x}
<1>1. IsFiniteSet(T)
  <2>1. DOMAIN list = 1..Len(list) /\ Len(list) \in Nat
    BY LenProperties
  <2>2. IsFiniteSet(1..Len(list)) /\ T \in SUBSET (1..Len(list))
    BY <2>1, FS_Interval
  <2> QED
    BY <2>2, FS_Subset
<1>2. T = {} <=> x \notin ToSet(list)
  BY DEF ToSet
<1>3. Cardinality(T) \in Nat /\ (Cardinality(T) = 0 <=> T = {})
  <2> HIDE DEF T
  <2> QED
    BY <1>1, FS_CardinalityType, FS_EmptySet
<1> QED
  BY <1>1, <1>2, <1>3 DEF Times

(* Appending y makes y one more. *)
LEMMA TimesAppend ==
  ASSUME NEW S, NEW list \in Seq(S), NEW y \in S, NEW x
  PROVE  Times(Append(list, y), x) = IF x = y THEN Times(list, x) + 1 ELSE Times(list, x)
<1> DEFINE T == {p \in DOMAIN list : list[p] = x}
           U == {p \in DOMAIN Append(list, y) : Append(list, y)[p] = x}
<1>1. /\ DOMAIN list = 1..Len(list) /\ Len(list) \in Nat
      /\ DOMAIN Append(list, y) = 1..(Len(list) + 1)
      /\ Append(list, y)[Len(list) + 1] = y
      /\ \A p \in 1..Len(list) : Append(list, y)[p] = list[p]
  BY LenProperties
<1>2. IsFiniteSet(T)
  BY TimesProperties
<1>3. CASE x = y
  <2>1. U = T \cup {Len(list) + 1} /\ Len(list) + 1 \notin T
    BY <1>1, <1>3
  <2> HIDE DEF T, U
  <2>2. Cardinality(U) = Cardinality(T) + 1
    BY <1>2, <2>1, FS_AddElement
  <2> QED
    BY <1>3, <2>2 DEF T, U, Times
<1>4. CASE x # y
  <2>1. U = T
    BY <1>1, <1>4
  <2> QED
    BY <1>4, <2>1 DEF Times
<1> QED
  BY <1>3, <1>4

(* Removing x leaves no x and all of the others. *)
LEMMA WithoutTimes ==
  ASSUME NEW S, NEW list \in Seq(S), NEW x, NEW y
  PROVE  Times(Without(list, x), y) = IF y = x THEN 0 ELSE Times(list, y)
<1> DEFINE rest == Without(list, x)
           T == {p \in DOMAIN list : list[p] = y}
           U == {n \in DOMAIN rest : rest[n] = y}
<1>1. /\ DOMAIN list = 1..Len(list) /\ Len(list) \in Nat
      /\ rest \in Seq(S)
  BY WithoutProperties, LenProperties
<1>2. DOMAIN rest = 1..Len(rest)
  BY <1>1, LenProperties
<1>3. CASE y = x
  <2>1. y \notin ToSet(rest)
    BY <1>3, WithoutSet
  <2> HIDE DEF rest
  <2>2. Times(rest, y) = 0
    BY <1>1, <2>1, TimesProperties
  <2> QED
    BY <1>3, <2>2 DEF rest
<1>4. CASE y # x
  <2>1. /\ \A p \in T : Staying(list, x, p) \in U
        /\ \A n \in U : \E p \in T : Staying(list, x, p) = n
    <3>1. ASSUME NEW p \in T
          PROVE  Staying(list, x, p) \in U
      <4>1. p \in 1..Len(list) /\ list[p] # x
        BY <1>1, <1>4
      <4>2. Staying(list, x, p) \in 1..Len(rest) /\ rest[Staying(list, x, p)] = list[p]
        BY <4>1, WithoutProperties
      <4> QED
        BY <1>2, <4>2
    <3>2. ASSUME NEW n \in U
          PROVE  \E p \in T : Staying(list, x, p) = n
      <4>1. PICK p \in 1..Len(list) : Staying(list, x, p) = n /\ rest[n] = list[p]
        BY <1>2, WithoutProperties
      <4> QED
        BY <1>1, <4>1
    <3> QED
      BY <3>1, <3>2
  <2>2. \A p, q \in T : Staying(list, x, p) = Staying(list, x, q) => p = q
    <3> SUFFICES ASSUME NEW p \in T, NEW q \in T,
                        Staying(list, x, p) = Staying(list, x, q)
                 PROVE  p = q
      OBVIOUS
    <3>1. p \in Nat /\ q \in Nat /\ list[p] # x /\ list[q] # x
      BY <1>1, <1>4
    <3>2. Staying(list, x, p) \in Nat /\ Staying(list, x, q) \in Nat
      BY <3>1, StayingSteps
    <3>3. p < q => Staying(list, x, p) < Staying(list, x, q)
      BY <3>1, StayingInOrder
    <3>4. q < p => Staying(list, x, q) < Staying(list, x, p)
      BY <3>1, StayingInOrder
    <3> QED
      BY <3>1, <3>2, <3>3, <3>4
  <2>3. IsFiniteSet(T)
    BY TimesProperties
  <2> DEFINE f == [p \in T |-> Staying(list, x, p)]
  <2> HIDE DEF T, U
  <2>4. f \in [T -> U] /\ \A p \in T : f[p] = Staying(list, x, p)
    BY <2>1
  <2> HIDE DEF f
  <2>5. f \in Bijection(T, U)
    <3>1. \A p, q \in T : f[p] = f[q] => p = q
      BY <2>2, <2>4
    <3>2. \A n \in U : \E p \in T : f[p] = n
      BY <2>1, <2>4
    <3> QED
      BY <2>4, <3>1, <3>2 DEF Bijection, Injection, Surjection, IsInjective
  <2>6. Cardinality(U) = Cardinality(T)
    BY <2>3, <2>5, FS_Bijection DEF ExistsBijection
  <2> QED
    BY <1>4, <2>6 DEF T, U, Times
<1> QED
  BY <1>3, <1>4

=============================================================================
