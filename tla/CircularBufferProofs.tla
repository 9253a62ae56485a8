------------------------- MODULE CircularBufferProofs -------------------------
(***************************************************************************)
(* Proofs about CircularBuffer, for any items and any bound on the         *)
(* capacity: the bookkeeping agrees, and the buffer is a bounded deque but *)
(* for the three calls that ImplementsDeque names.                         *)
(***************************************************************************)
EXTENDS CircularBuffer, ListLemmas, SequenceTheorems

-----------------------------------------------------------------------------
(* The inductive invariant. *)

(* The end is "size" steps behind the beginning, once around or not.  (After *)
(* a resize() the end may be behind the storage, and the beginning come      *)
(* round before it.)                                                         *)
Closes(b, e, s) == e = b + s \/ e = b + s - cap \/ e = b + s + cap

RingAgrees ==
  cap > 0 =>
    /\ begin < cap
    /\ full <=> size = cap
    /\ Closes(begin, end, size)

IInv == TypeOK /\ RingAgrees

(* The position i steps behind the beginning.                                *)
Wrap(i) == IF begin + i < cap THEN begin + i ELSE begin + i - cap

-----------------------------------------------------------------------------
(* Lemmas about the operators. *)

(* Counting modulo c.                                                        *)
LEMMA NextRemainder ==
  ASSUME NEW c \in Nat \ {0}, NEW n \in Nat
  PROVE  (n + 1) % c = IF (n % c) + 1 = c THEN 0 ELSE (n % c) + 1
<1> DEFINE r == n % c
           q == n \div c
<1>1. r \in 0..(c - 1) /\ q \in Int /\ n = q * c + r
  OBVIOUS
<1>2. ASSUME NEW x \in Nat, NEW y \in 0..(c - 1), NEW k \in Int, x = k * c + y
      PROVE  x % c = y
  BY <1>2
<1> HIDE DEF r, q
<1>3. CASE r + 1 = c
  <2>1. n + 1 = (q + 1) * c + 0
    BY <1>1, <1>3
  <2>2. q + 1 \in Int /\ 0 \in 0..(c - 1) /\ n + 1 \in Nat
    BY <1>1
  <2>3. (n + 1) % c = 0
    BY <1>2, <2>1, <2>2
  <2> QED
    BY <1>3, <2>3 DEF r
<1>4. CASE r + 1 # c
  <2>1. n + 1 = q * c + (r + 1) /\ r + 1 \in 0..(c - 1)
    BY <1>1, <1>4
  <2>2. (n + 1) % c = r + 1
    BY <1>1, <1>2, <2>1
  <2> QED
    BY <1>4, <2>2 DEF r
<1> QED
  BY <1>3, <1>4

(* operator[] counts from the beginning around the end of the storage.       *)
LEMMA AtWraps ==
  ASSUME IInv, NEW i \in 0..(size - 1)
  PROVE  /\ At(i) = Wrap(i)
         /\ At(i) \in 0..(cap - 1)
BY DEF IInv, TypeOK, RingAgrees, Closes, At, Wrap

(* So does the iterator of resize().                                         *)
LEMMA SourceWraps ==
  ASSUME IInv, NEW i \in 0..(size - 1)
  PROVE  Source(i) = Wrap(i)
<1> DEFINE after == CHOOSE f : f = [k \in Nat |-> IF k = 0 THEN begin ELSE Increment(f[k - 1])]
<1>1. Source(i) = after[i]
  BY DEF Source
<1> DEFINE Way == [k \in Nat |-> (begin + k) % cap]
<1>2. /\ cap \in Nat \ {0} /\ begin \in 0..(cap - 1)
      /\ i \in 0..(cap - 1)
  BY DEF IInv, TypeOK, RingAgrees
<1>3. ASSUME NEW k \in Nat \ {0}
      PROVE  (begin + k) % cap = Increment((begin + (k - 1)) % cap)
  <2>1. PICK n \in Nat : n = begin + (k - 1)
    BY <1>2
  <2>2. (n + 1) % cap = IF (n % cap) + 1 = cap THEN 0 ELSE (n % cap) + 1
    BY <1>2, NextRemainder
  <2> QED
    BY <1>2, <2>1, <2>2 DEF Increment
<1>4. Way = [k \in Nat |-> IF k = 0 THEN begin ELSE Increment(Way[k - 1])]
  <2>1. (begin + 0) % cap = begin
    BY <1>2
  <2>2. ASSUME NEW k \in Nat \ {0}
        PROVE  (begin + k) % cap = Increment(Way[k - 1])
    BY <1>3
  <2> HIDE DEF Way
  <2>3. ASSUME NEW k \in Nat
        PROVE  (begin + k) % cap = IF k = 0 THEN begin ELSE Increment(Way[k - 1])
    BY <2>1, <2>2
  <2> QED
    BY <2>3 DEF Way
<1>5. after = [k \in Nat |-> IF k = 0 THEN begin ELSE Increment(after[k - 1])]
  BY <1>4
<1> HIDE DEF after
<1> DEFINE Wrong == {k \in Nat : after[k] # Way[k]}
<1>6. Wrong = {}
  <2> SUFFICES ASSUME Wrong # {}
               PROVE  FALSE
    OBVIOUS
  <2>1. PICK k \in Wrong : \A m \in Wrong : k <= m
    BY LeastOf
  <2>2. k # 0
    BY <1>2, <1>5
  <2>3. k - 1 \in Nat /\ k - 1 \notin Wrong
    BY <2>1, <2>2
  <2> QED
    BY <1>4, <1>5, <2>2, <2>3, ZenonT(60)
<1>7. after[i] = (begin + i) % cap
  <2>1. i \in Nat
    BY <1>2
  <2>2. after[i] = Way[i]
    <3> SUFFICES ASSUME after[i] # Way[i]
                 PROVE  FALSE
      OBVIOUS
    <3>1. i \in Wrong
      BY <2>1
    <3> QED
      BY <1>6, <3>1
  <2> QED
    BY <2>1, <2>2
<1>8. CASE begin + i < cap
  <2>1. (begin + i) % cap = begin + i
    BY <1>2, <1>8
  <2> QED
    BY <1>1, <1>7, <1>8, <2>1 DEF Wrap
<1>9. CASE ~(begin + i < cap)
  <2>1. PICK n \in 0..(cap - 1) : n = begin + i - cap
    BY <1>2, <1>9
  <2>2. (n + cap) % cap = n
    BY <1>2
  <2>3. (begin + i) % cap = begin + i - cap
    BY <1>2, <2>1, <2>2
  <2> QED
    BY <1>1, <1>2, <1>7, <1>9, <2>3 DEF Wrap
<1> QED
  BY <1>2, <1>8, <1>9

-----------------------------------------------------------------------------
(* The invariant. *)

(* An empty buffer is in order. *)
LEMMA InitInvariant == Init => IInv
<1> SUFFICES ASSUME Init
             PROVE  TypeOK /\ RingAgrees
  BY DEF IInv
<1>1. /\ cap \in 0..MaxCapacity /\ cap \in Nat
      /\ cells \in Storage(cap)
      /\ begin = 0 /\ end = 0 /\ size = 0 /\ full = FALSE
  BY BufferAssumption DEF Init, Storage
<1>2. TypeOK
  <2>1. 0 \in 0..cap
    BY <1>1
  <2>2. fault \in BOOLEAN
    BY DEF Init
  <2> QED
    BY <1>1, <2>1, <2>2 DEF TypeOK
<1>3. cap > 0 => (full <=> size = cap)
  BY <1>1
<1>4. cap > 0 => begin < cap /\ Closes(begin, end, size)
  BY <1>1 DEF Closes
<1> QED
  BY <1>2, <1>3, <1>4 DEF RingAgrees

(* Size and iterators are what they should be after each operation.          *)
LEMMA PushInvariant ==
  ASSUME IInv, NEW x \in Vals, PushFront(x) \/ (cap > 0 /\ PushBackInside(x))
  PROVE  IInv'
<1>1. /\ cap \in Nat \ {0} /\ cap' = cap
      /\ cells' \in Storage(cap)
      /\ begin \in 0..(cap - 1) /\ end \in 0..cap /\ size \in 0..cap /\ full \in BOOLEAN
      /\ cap \in 0..MaxCapacity
  BY BufferAssumption DEF IInv, TypeOK, RingAgrees, Storage, PushFront, PushBackInside
<1>0. fault' \in BOOLEAN
  BY DEF PushFront, PushBackInside, Called
<1>2. /\ full <=> size = cap
      /\ Closes(begin, end, size)
  BY <1>1 DEF IInv, RingAgrees
<1>3. /\ size' = IF full THEN size ELSE size + 1
      /\ full' = (full \/ size + 1 = cap)
  BY DEF PushFront, PushBackInside, Grow
<1>4. size' \in 0..cap /\ full' \in BOOLEAN /\ (full' <=> size' = cap)
  <2>1. CASE full
    <3>1. size' = cap /\ full' = TRUE
      BY <1>2, <1>3, <2>1
    <3> QED
      BY <1>1, <3>1
  <2>2. CASE ~full
    <3>1. size' = size + 1 /\ full' = (size + 1 = cap) /\ size # cap
      BY <1>2, <1>3, <2>2
    <3>2. size' \in 0..cap
      BY <1>1, <3>1
    <3> QED
      BY <3>1, <3>2
  <2> QED
    BY <2>1, <2>2
<1>5. /\ begin' \in 0..(cap - 1) /\ end' \in 0..cap
      /\ Closes(begin', end', size')
  <2>1. CASE PushFront(x)
    BY <1>1, <1>2, <1>3, <2>1 DEF PushFront, Decrement, Closes
  <2>2. CASE PushBackInside(x)
    BY <1>1, <1>2, <1>3, <2>2 DEF PushBackInside, Increment, EndIsOutside, Closes
  <2> QED
    BY <2>1, <2>2
<1>6. TypeOK'
  BY <1>0, <1>1, <1>4, <1>5 DEF TypeOK, Storage
<1>7. RingAgrees'
  <2>1. /\ cap' > 0 => begin' < cap'
        /\ Closes(begin, end, size)'
    BY <1>1, <1>5 DEF Closes
  <2>2. full' <=> size' = cap'
    BY <1>1, <1>4
  <2> QED
    BY <2>1, <2>2 DEF RingAgrees
<1> QED
  BY <1>6, <1>7 DEF IInv

(* Taking items away keeps the buffer in order. *)
LEMMA PopInvariant ==
  ASSUME IInv, NEW c, PopFront \/ PopBack \/ StepBack(c) \/ Clear
  PROVE  IInv'
<1>1. /\ cap \in 0..MaxCapacity /\ cap \in Nat
      /\ begin \in 0..cap /\ end \in 0..cap /\ size \in 0..cap /\ full \in BOOLEAN
      /\ cap > 0 => begin < cap /\ Closes(begin, end, size)
      /\ cells \in Storage(cap)
  BY BufferAssumption DEF IInv, TypeOK, RingAgrees
<1>2. UNCHANGED <<cap, cells>> /\ fault' = FALSE
  BY DEF PopFront, PopBack, StepBack, Clear, Called
<1>3. /\ begin' \in 0..cap /\ end' \in 0..cap /\ size' \in 0..cap
      /\ cap > 0 => begin' < cap /\ Closes(begin', end', size')
  <2>1. CASE PopFront
    BY <1>1, <2>1 DEF PopFront, Increment, Closes
  <2>2. CASE PopBack
    BY <1>1, <2>2 DEF PopBack, Decrement, Closes
  <2>3. CASE StepBack(c)
    BY <1>1, <2>3 DEF StepBack, Decrement, Closes
  <2>4. CASE Clear
    BY <1>1, <2>4 DEF Clear, Closes
  <2> QED
    BY <2>1, <2>2, <2>3, <2>4
<1>4. full' \in BOOLEAN /\ (cap > 0 => (full' <=> size' = cap))
  <2>1. CASE PopFront \/ PopBack \/ Clear
    <3>1. full' = FALSE /\ (cap > 0 => size' # cap)
      BY <1>1, <2>1 DEF PopFront, PopBack, Clear
    <3> QED
      BY <3>1
  <2>2. CASE StepBack(c)
    BY <1>1, <2>2 DEF StepBack, IInv, RingAgrees
  <2> QED
    BY <2>1, <2>2
<1>5. TypeOK'
  BY <1>1, <1>2, <1>3, <1>4 DEF TypeOK, Storage
<1>6. RingAgrees'
  <2>1. cap' > 0 => (full' <=> size' = cap')
    BY <1>2, <1>4
  <2>2. cap' > 0 => begin' < cap' /\ Closes(begin, end, size)'
    BY <1>2, <1>3 DEF Closes
  <2> QED
    BY <2>1, <2>2 DEF RingAgrees
<1> QED
  BY <1>5, <1>6 DEF IInv

(* Where the code leaves the storage, the buffer is as it was.               *)
LEMMA FaultInvariant ==
  ASSUME IInv, NEW c, Fault(c)
  PROVE  IInv'
<1>1. UNCHANGED ring /\ fault' = TRUE
  BY DEF Fault
<1> QED
  BY <1>1 DEF IInv, TypeOK, RingAgrees, Closes, Storage, ring

(* The smaller of two numbers.                                               *)
LEMMA MinOfTwo ==
  ASSUME NEW m \in Nat, NEW n \in Nat
  PROVE  Min({m, n}) = IF m <= n THEN m ELSE n
BY DEF Min

(* resize(), which moves the items to a new storage, keeps the buffer in *)
(* order. *)
LEMMA ResizeInvariant ==
  ASSUME IInv, NEW c \in 0..MaxCapacity, Resize(c)
  PROVE  IInv'
<1>1. /\ size' = IF size <= c THEN size ELSE c
      /\ size \in Nat /\ c \in Nat
  BY MinOfTwo, BufferAssumption DEF IInv, TypeOK, Resize
<1>2. cells' \in Storage(c)
  <2>1. ASSUME NEW j \in 0..(c - 1), j < size'
        PROVE  cells[Source(j)] \in Vals \cup {Default}
    <3>1. j \in 0..(size - 1)
      BY <1>1, <2>1
    <3>2. Source(j) \in 0..(cap - 1)
      BY <3>1, SourceWraps, AtWraps
    <3> QED
      BY <3>2 DEF IInv, TypeOK, Storage
  <2> QED
    BY <2>1 DEF Resize, Storage
<1>3. /\ cap' = c /\ begin' = 0 /\ end' = size' /\ size' \in 0..c
      /\ full' = (size' = c) /\ fault' = FALSE
  BY <1>1 DEF Resize, Called
<1>4. TypeOK'
  <2>1. full' \in BOOLEAN /\ fault' \in BOOLEAN
    BY <1>3
  <2> QED
    BY <1>1, <1>2, <1>3, <2>1 DEF TypeOK
<1>5. RingAgrees'
  <2>1. cap' > 0 => begin' < cap' /\ end' = begin' + size'
    BY <1>1, <1>3
  <2>2. full' <=> size' = cap'
    BY <1>3
  <2>3. cap' > 0 => begin' < cap' /\ Closes(begin, end, size)'
    BY <2>1 DEF Closes
  <2> QED
    BY <2>2, <2>3 DEF RingAgrees
<1> QED
  BY <1>4, <1>5 DEF IInv

(* The invariant is inductive. *)
LEMMA NextInvariant == IInv /\ [Next]_vars => IInv'
<1>1. IInv /\ UNCHANGED vars => IInv'
  BY DEF IInv, TypeOK, RingAgrees, Closes, Storage, vars, ring
<1>2. ASSUME IInv, NEW x \in Vals, PushFront(x) \/ PushBack(x)
      PROVE  IInv'
  BY <1>2, PushInvariant, FaultInvariant DEF PushBack
<1>3. ASSUME IInv, LeftShift \/ RightShift
      PROVE  IInv'
  BY <1>3, PopInvariant, FaultInvariant DEF LeftShift, RightShift, Shift
<1> QED
  BY <1>1, <1>2, <1>3, PopInvariant, ResizeInvariant DEF Next

(* In every reachable state the iterators are in the storage and their *)
(* distance is the number of items. *)
THEOREM InvariantHolds == Spec => []IInv
BY InitInvariant, NextInvariant, PTL DEF Spec

(* The storage, the iterators and the counts keep their types.               *)
THEOREM TypeCorrect == Spec => []TypeOK
<1>1. IInv => TypeOK
  BY DEF IInv
<1> QED
  BY <1>1, InvariantHolds, PTL

(* full(), empty(), size() and the iterators tell one story after any        *)
(* history of pushes, pops, shifts and resizes, for every capacity.          *)
THEOREM BookkeepingAlwaysAgrees == Spec => []BookkeepingAgrees
<1>1. IInv => BookkeepingAgrees
  <2> SUFFICES ASSUME IInv, cap > 0
               PROVE  /\ full <=> size = cap
                      /\ begin < cap
                      /\ (end % cap) = (begin + size) % cap
                      /\ ~EndIsOutside => (Empty <=> size = 0)
    BY DEF BookkeepingAgrees
  <2>1. /\ cap \in Nat \ {0}
        /\ begin \in 0..(cap - 1) /\ end \in 0..cap /\ size \in 0..cap
        /\ full <=> size = cap
        /\ Closes(begin, end, size)
    BY BufferAssumption DEF IInv, TypeOK, RingAgrees
  <2>2. (end % cap) = (begin + size) % cap
    <3>1. CASE end = begin + size
      BY <3>1
    <3>2. CASE end = begin + size - cap
      <4>1. (end + cap) % cap = end % cap
        <5>1. CASE end = cap
          BY <2>1, <5>1
        <5>2. CASE end \in 0..(cap - 1)
          BY <2>1, <5>2
        <5> QED
          BY <2>1, <5>1, <5>2
      <4> QED
        BY <2>1, <3>2, <4>1
    <3>3. CASE end = begin + size + cap
      <4>1. begin + size = 0 /\ end = cap
        BY <2>1, <3>3
      <4> QED
        BY <2>1, <4>1
    <3> QED
      BY <2>1, <3>1, <3>2, <3>3 DEF Closes
  <2>3. ~EndIsOutside => (Empty <=> size = 0)
    BY <2>1 DEF EndIsOutside, Empty, Closes
  <2> QED
    BY <2>1, <2>2, <2>3
<1> QED
  BY <1>1, InvariantHolds, PTL

-----------------------------------------------------------------------------
(* The refinement. *)

(* What the storage holds, and so what the items are.                        *)
Cell == Vals \cup {Default}

ItemsLie ==
  /\ Items \in Seq(Cell)
  /\ Len(Items) = size
  /\ \A i \in 1..size : Items[i] = cells[Wrap(i - 1)]

(* Item i of the buffer lies i - 1 places after _begin, round the edge. *)
LEMMA ItemsAre == IInv => ItemsLie
<1> SUFFICES ASSUME IInv
             PROVE  ItemsLie
  OBVIOUS
<1>1. size \in Nat
  BY BufferAssumption DEF IInv, TypeOK
<1>2. ASSUME NEW i \in 1..size
      PROVE  /\ cells[At(i - 1)] \in Cell
             /\ At(i - 1) = Wrap(i - 1)
  <2>1. i - 1 \in 0..(size - 1)
    BY <1>1
  <2> QED
    BY <2>1, AtWraps DEF IInv, TypeOK, Storage, Cell
<1> QED
  BY <1>1, <1>2 DEF Items, ItemsLie

(* The same after a step. *)
LEMMA ItemsAreAfter == IInv' => ItemsLie'
BY ItemsAre, PTL

(* Two lists are the same when their items are.                              *)
LEMMA SameItems ==
  ASSUME NEW S, NEW s \in Seq(S), NEW t \in Seq(S), Len(s) = Len(t),
         \A i \in 1..Len(s) : s[i] = t[i]
  PROVE  s = t
BY SeqEqual

(* The first n items of a list, and the last ones.                           *)
LEMMA FirstItems ==
  ASSUME NEW S, NEW s \in Seq(S), NEW n \in Nat
  PROVE  /\ Deque!First(s, n) \in Seq(S)
         /\ Len(Deque!First(s, n)) = IF Len(s) <= n THEN Len(s) ELSE n
         /\ \A i \in 1..Len(Deque!First(s, n)) : Deque!First(s, n)[i] = s[i]
<1>1. CASE Len(s) <= n
  BY <1>1 DEF Deque!First
<1>2. CASE ~(Len(s) <= n)
  BY <1>2, SubSeqProperties DEF Deque!First
<1> QED
  BY <1>1, <1>2

(* The items of the deque that a resize keeps are the last ones. *)
LEMMA FinalItems ==
  ASSUME NEW S, NEW s \in Seq(S), NEW n \in Nat
  PROVE  /\ Deque!Final(s, n) \in Seq(S)
         /\ Len(Deque!Final(s, n)) = IF Len(s) <= n THEN Len(s) ELSE n
         /\ \A i \in 1..Len(Deque!Final(s, n)) :
              Deque!Final(s, n)[i] = s[i + (Len(s) - Len(Deque!Final(s, n)))]
<1>1. CASE Len(s) <= n
  BY <1>1 DEF Deque!Final
<1>2. CASE ~(Len(s) <= n)
  <2>1. /\ Len(s) - n + 1 \in 1..(Len(s) + 1)
        /\ Len(s) - n + 1 <= Len(s) + 1
    BY <1>2
  <2>2. /\ SubSeq(s, Len(s) - n + 1, Len(s)) \in Seq(S)
        /\ Len(SubSeq(s, Len(s) - n + 1, Len(s))) = n
        /\ \A i \in 1..n : SubSeq(s, Len(s) - n + 1, Len(s))[i] = s[Len(s) - n + i]
    BY <2>1, SubSeqProperties
  <2> QED
    BY <1>2, <2>2 DEF Deque!Final
<1> QED
  BY <1>1, <1>2

(* What the steps need of the ring.                                          *)
LEMMA RingFacts ==
  ASSUME IInv
  PROVE  /\ cap \in Nat /\ size \in 0..cap /\ begin \in 0..cap /\ end \in 0..cap
         /\ full \in BOOLEAN
         /\ cells \in Storage(cap)
         /\ cap > 0 => begin < cap /\ (full <=> size = cap) /\ Closes(begin, end, size)
BY BufferAssumption DEF IInv, TypeOK, RingAgrees

-----------------------------------------------------------------------------
(* Every operation of the buffer is one of the deque. *)

(* push_front() is the deque's. *)
LEMMA PushFrontRefines ==
  ASSUME IInv, IInv', NEW x \in Vals, PushFront(x)
  PROVE  Deque!PushFront(x)
<1>1. ItemsLie /\ ItemsLie'
  BY ItemsAre, ItemsAreAfter
<1>2. /\ cap \in Nat \ {0} /\ size \in 0..cap /\ begin \in 0..(cap - 1)
      /\ full <=> size = cap
      /\ cells \in Storage(cap)
  BY RingFacts DEF PushFront
<1>3. /\ cap' = cap
      /\ begin' = Decrement(begin) /\ begin' \in 0..(cap - 1)
      /\ cells' = [cells EXCEPT ![begin'] = x]
      /\ size' = IF size = cap THEN cap ELSE size + 1
  BY <1>2 DEF PushFront, Grow, Decrement
<1> DEFINE Longer == <<x>> \o Items
<1>4. /\ Longer \in Seq(Cell)
      /\ Len(Longer) = size + 1
      /\ Longer[1] = x
      /\ \A i \in 2..(size + 1) : Longer[i] = Items[i - 1]
  <2>1. <<x>> \in Seq(Cell) /\ Len(<<x>>) = 1 /\ <<x>>[1] = x
    BY DEF Cell
  <2> QED
    BY <1>1, <1>2, <2>1, ConcatProperties DEF ItemsLie
<1> HIDE DEF Longer
<1> DEFINE Now == Deque!First(Longer, cap)
<1>5. /\ Now \in Seq(Cell) /\ Len(Now) = size'
      /\ \A i \in 1..size' : Now[i] = Longer[i]
  <2>1. /\ Now \in Seq(Cell)
        /\ Len(Now) = IF Len(Longer) <= cap THEN Len(Longer) ELSE cap
        /\ \A i \in 1..Len(Now) : Now[i] = Longer[i]
    BY <1>2, <1>4, FirstItems
  <2>2. Len(Now) = size'
    BY <1>2, <1>3, <1>4, <2>1
  <2> QED
    BY <2>1, <2>2
<1> HIDE DEF Now
<1>6. ASSUME NEW i \in 1..size'
      PROVE  Items'[i] = Now[i]
  <2>1. Items'[i] = cells'[Wrap(i - 1)']
    BY <1>1 DEF ItemsLie
  <2>2. CASE i = 1
    <3>1. Wrap(i - 1)' = begin'
      BY <1>2, <1>3, <2>2 DEF Wrap
    <3>2. cells'[begin'] = x
      BY <1>2, <1>3 DEF Storage
    <3> QED
      BY <1>4, <1>5, <2>1, <2>2, <3>1, <3>2
  <2>3. CASE i # 1
    <3>1. Wrap(i - 1)' = Wrap(i - 2) /\ Wrap(i - 2) # begin' /\ Wrap(i - 2) \in 0..(cap - 1)
      BY <1>2, <1>3, <2>3 DEF Wrap, Decrement
    <3>2. cells'[Wrap(i - 2)] = cells[Wrap(i - 2)]
      BY <1>2, <1>3, <3>1 DEF Storage
    <3>3. i - 1 \in 1..size /\ i \in 2..(size + 1) /\ (i - 1) - 1 = i - 2
      BY <1>2, <1>3, <2>3
    <3>4. Items[i - 1] = cells[Wrap(i - 2)]
      BY <1>1, <3>3 DEF ItemsLie
    <3> QED
      BY <1>4, <1>5, <2>1, <3>1, <3>2, <3>3, <3>4
  <2> QED
    BY <2>2, <2>3
<1>7. Items' = Now
  BY <1>1, <1>5, <1>6, SameItems DEF ItemsLie
<1> QED
  BY <1>3, <1>7 DEF Now, Longer, Deque!PushFront, PushFront, Called

(* push_back() is the deque's. *)
LEMMA PushBackRefines ==
  ASSUME IInv, IInv', NEW x \in Vals, cap > 0, PushBackInside(x)
  PROVE  Deque!PushBack(x)
<1>1. ItemsLie /\ ItemsLie'
  BY ItemsAre, ItemsAreAfter
<1>2. /\ cap \in Nat \ {0} /\ size \in 0..cap /\ begin \in 0..(cap - 1)
      /\ full <=> size = cap
      /\ cells \in Storage(cap)
      /\ end \in 0..cap /\ Closes(begin, end, size)
  BY RingFacts
<1>3. /\ cap' = cap
      /\ begin' = IF size = cap THEN Increment(begin) ELSE begin
      /\ cells' = [cells EXCEPT ![end] = x]
      /\ size' = IF size = cap THEN cap ELSE size + 1
  BY <1>2 DEF PushBackInside, Grow
<1>4. end \in 0..(cap - 1) /\ end = IF size = cap THEN begin ELSE Wrap(size)
  BY <1>2 DEF PushBackInside, EndIsOutside, Closes, Wrap
<1> DEFINE Longer == Append(Items, x)
<1>5. /\ Longer \in Seq(Cell)
      /\ Len(Longer) = size + 1
      /\ Longer[size + 1] = x
      /\ \A i \in 1..size : Longer[i] = Items[i]
  <2>1. x \in Cell
    BY DEF Cell
  <2> QED
    BY <1>1, <1>2, <2>1, AppendProperties DEF ItemsLie
<1> HIDE DEF Longer
<1> DEFINE Now == Deque!Final(Longer, cap)
<1>6. /\ Now \in Seq(Cell) /\ Len(Now) = size'
      /\ \A i \in 1..size' : Now[i] = Longer[i + ((size + 1) - size')]
  <2>1. /\ Now \in Seq(Cell)
        /\ Len(Now) = IF Len(Longer) <= cap THEN Len(Longer) ELSE cap
        /\ \A i \in 1..Len(Now) : Now[i] = Longer[i + (Len(Longer) - Len(Now))]
    BY <1>2, <1>5, FinalItems
  <2> HIDE DEF Now
  <2>2. Len(Now) = size' /\ Len(Longer) = size + 1
    BY <1>2, <1>3, <1>5, <2>1
  <2> QED
    BY <2>1, <2>2
<1> HIDE DEF Now
<1>7. ASSUME NEW i \in 1..size'
      PROVE  Items'[i] = Now[i]
  <2> DEFINE k == i + ((size + 1) - size')
  <2>1. Items'[i] = cells'[Wrap(i - 1)'] /\ Now[i] = Longer[k]
    BY <1>1, <1>6 DEF ItemsLie
  <2>2. k \in 1..(size + 1) /\ k = IF size = cap THEN i + 1 ELSE i
    BY <1>2, <1>3
  <2>3. CASE k = size + 1
    <3>1. Wrap(i - 1)' = end
      BY <1>2, <1>3, <1>4, <2>2, <2>3 DEF Wrap, Increment
    <3>2. cells'[end] = x
      BY <1>2, <1>3, <1>4 DEF Storage
    <3> QED
      BY <1>5, <2>1, <2>3, <3>1, <3>2
  <2>4. CASE k # size + 1
    <3>1. /\ Wrap(i - 1)' = Wrap(k - 1) /\ Wrap(k - 1) # end
          /\ Wrap(k - 1) \in 0..(cap - 1) /\ k \in 1..size
      BY <1>2, <1>3, <1>4, <2>2, <2>4 DEF Wrap, Increment
    <3>2. cells'[Wrap(k - 1)] = cells[Wrap(k - 1)]
      BY <1>2, <1>3, <1>4, <3>1 DEF Storage
    <3>3. Items[k] = cells[Wrap(k - 1)]
      BY <1>1, <3>1 DEF ItemsLie
    <3> HIDE DEF k
    <3> QED
      BY <1>5, <2>1, <3>1, <3>2, <3>3
  <2> QED
    BY <2>3, <2>4
<1>8. Items' = Now
  BY <1>1, <1>6, <1>7, SameItems DEF ItemsLie
<1> QED
  BY <1>3, <1>8 DEF Now, Longer, Deque!PushBack, PushBackInside, Called

(* pop_front() is the deque's. *)
LEMMA PopFrontRefines ==
  ASSUME IInv, IInv', PopFront
  PROVE  Deque!PopFront
<1>1. ItemsLie /\ ItemsLie'
  BY ItemsAre, ItemsAreAfter
<1>2. /\ cap \in Nat \ {0} /\ size \in 1..cap /\ begin \in 0..(cap - 1)
  BY RingFacts DEF PopFront
<1>3. /\ cap' = cap /\ cells' = cells
      /\ begin' = Increment(begin) /\ size' = size - 1
  BY DEF PopFront
<1>4. /\ Items # <<>>
      /\ Tail(Items) \in Seq(Cell) /\ Len(Tail(Items)) = size'
      /\ \A i \in 1..size' : Tail(Items)[i] = Items[i + 1]
  BY <1>1, <1>2, <1>3 DEF ItemsLie
<1>5. ASSUME NEW i \in 1..size'
      PROVE  Items'[i] = Tail(Items)[i]
  <2>1. Items'[i] = cells'[Wrap(i - 1)']
    BY <1>1 DEF ItemsLie
  <2>2. Wrap(i - 1)' = Wrap(i)
    BY <1>2, <1>3 DEF Wrap, Increment
  <2>3. i + 1 \in 1..size /\ (i + 1) - 1 = i
    BY <1>2, <1>3
  <2>4. Items[i + 1] = cells[Wrap(i)]
    BY <1>1, <2>3 DEF ItemsLie
  <2> QED
    BY <1>3, <1>4, <2>1, <2>2, <2>4
<1>6. Items' = Tail(Items)
  BY <1>1, <1>4, <1>5, SameItems DEF ItemsLie
<1> QED
  BY <1>3, <1>4, <1>6 DEF Deque!PopFront, PopFront, Called

(* pop_back() is the deque's. *)
LEMMA PopBackRefines ==
  ASSUME IInv, IInv', PopBack
  PROVE  Deque!PopBack
<1>1. ItemsLie /\ ItemsLie'
  BY ItemsAre, ItemsAreAfter
<1>2. /\ cap \in Nat \ {0} /\ size \in 1..cap /\ begin \in 0..(cap - 1)
  BY RingFacts DEF PopBack
<1>3. /\ cap' = cap /\ cells' = cells
      /\ begin' = begin /\ size' = size - 1
  BY DEF PopBack
<1> DEFINE Now == Deque!First(Items, size - 1)
<1>4. /\ Items # <<>> /\ Len(Items) = size
      /\ Now \in Seq(Cell) /\ Len(Now) = size'
      /\ \A i \in 1..size' : Now[i] = Items[i]
  <2>1. Items \in Seq(Cell) /\ Len(Items) = size /\ size - 1 \in Nat
    BY <1>1, <1>2 DEF ItemsLie
  <2>2. /\ Now \in Seq(Cell)
        /\ Len(Now) = IF Len(Items) <= size - 1 THEN Len(Items) ELSE size - 1
        /\ \A i \in 1..Len(Now) : Now[i] = Items[i]
    BY <2>1, FirstItems
  <2>3. Len(Now) = size'
    BY <1>2, <1>3, <2>1, <2>2
  <2> QED
    BY <1>2, <2>1, <2>2, <2>3
<1> HIDE DEF Now
<1>5. ASSUME NEW i \in 1..size'
      PROVE  Items'[i] = Now[i]
  <2>1. i \in 1..size /\ Wrap(i - 1)' = Wrap(i - 1)
    BY <1>2, <1>3 DEF Wrap
  <2> QED
    BY <1>1, <1>3, <1>4, <2>1 DEF ItemsLie
<1>6. Items' = Now
  BY <1>1, <1>4, <1>5, SameItems DEF ItemsLie
<1> QED
  BY <1>3, <1>4, <1>6 DEF Now, Deque!PopBack, PopBack, Called

(* Stepping back is the shift to the right, if the buffer is full: the cell  *)
(* in front of the first item is that of the last.                           *)
LEMMA FullShiftsRight ==
  ASSUME IInv, IInv', NEW c, StepBack(c), size = cap
  PROVE  Items' = Deque!ShiftedRight
<1>1. ItemsLie /\ ItemsLie'
  BY ItemsAre, ItemsAreAfter
<1>2. /\ cap \in Nat \ {0} /\ size = cap /\ begin \in 0..(cap - 1)
  BY RingFacts DEF StepBack
<1>3. /\ cap' = cap /\ cells' = cells
      /\ begin' = Decrement(begin) /\ size' = size
  BY DEF StepBack
<1> DEFINE Rest == Deque!First(Items, size - 1)
<1>4. /\ Items # <<>> /\ Items \in Seq(Cell) /\ Len(Items) = size
      /\ Rest \in Seq(Cell) /\ Len(Rest) = size - 1
      /\ \A i \in 1..(size - 1) : Rest[i] = Items[i]
  <2>1. Items \in Seq(Cell) /\ Len(Items) = size /\ size - 1 \in Nat
    BY <1>1, <1>2 DEF ItemsLie
  <2>2. /\ Rest \in Seq(Cell)
        /\ Len(Rest) = IF Len(Items) <= size - 1 THEN Len(Items) ELSE size - 1
        /\ \A i \in 1..Len(Rest) : Rest[i] = Items[i]
    BY <2>1, FirstItems
  <2>3. Len(Rest) = size - 1
    BY <1>2, <2>1, <2>2
  <2> QED
    BY <1>2, <2>1, <2>2, <2>3
<1> HIDE DEF Rest
<1> DEFINE Now == <<Items[size]>> \o Rest
<1>5. /\ Now \in Seq(Cell) /\ Len(Now) = size
      /\ Now[1] = Items[size]
      /\ \A i \in 2..size : Now[i] = Items[i - 1]
  <2>1. Items[size] \in Cell
    BY <1>2, <1>4
  <2>2. /\ <<Items[size]>> \in Seq(Cell) /\ Len(<<Items[size]>>) = 1
        /\ <<Items[size]>>[1] = Items[size]
    BY <2>1
  <2> QED
    BY <1>2, <1>4, <2>2, ConcatProperties
<1> HIDE DEF Now
<1>6. ASSUME NEW i \in 1..size'
      PROVE  Items'[i] = Now[i]
  <2>1. Items'[i] = cells[Wrap(i - 1)']
    BY <1>1, <1>3 DEF ItemsLie
  <2>2. CASE i = 1
    <3>1. Wrap(i - 1)' = Wrap(size - 1) /\ size \in 1..size
      BY <1>2, <1>3, <2>2 DEF Wrap, Decrement
    <3> QED
      BY <1>1, <1>5, <2>1, <2>2, <3>1 DEF ItemsLie
  <2>3. CASE i # 1
    <3>1. /\ Wrap(i - 1)' = Wrap(i - 2) /\ i \in 2..size
          /\ i - 1 \in 1..size /\ (i - 1) - 1 = i - 2
      BY <1>2, <1>3, <2>3 DEF Wrap, Decrement
    <3>2. Items[i - 1] = cells[Wrap(i - 2)]
      BY <1>1, <3>1 DEF ItemsLie
    <3> QED
      BY <1>5, <2>1, <3>1, <3>2
  <2> QED
    BY <2>2, <2>3
<1>7. Items' = Now
  BY <1>1, <1>3, <1>5, <1>6, SameItems DEF ItemsLie
<1> QED
  BY <1>4, <1>7 DEF Now, Rest, Deque!ShiftedRight

(* If it is not, the items but the last have moved one place to the right.   *)
LEMMA PartlyShiftsRight ==
  ASSUME IInv, IInv', NEW c, StepBack(c), size # 0
  PROVE  Tail(Items') = Deque!First(Items, size - 1)
<1>1. ItemsLie /\ ItemsLie'
  BY ItemsAre, ItemsAreAfter
<1>2. /\ cap \in Nat \ {0} /\ size \in 1..cap /\ begin \in 0..(cap - 1)
  BY RingFacts DEF StepBack
<1>3. /\ cap' = cap /\ cells' = cells
      /\ begin' = Decrement(begin) /\ size' = size
  BY DEF StepBack
<1> DEFINE Rest == Deque!First(Items, size - 1)
<1>4. /\ Rest \in Seq(Cell) /\ Len(Rest) = size - 1
      /\ \A i \in 1..(size - 1) : Rest[i] = Items[i]
  <2>1. Items \in Seq(Cell) /\ Len(Items) = size /\ size - 1 \in Nat
    BY <1>1, <1>2 DEF ItemsLie
  <2>2. /\ Rest \in Seq(Cell)
        /\ Len(Rest) = IF Len(Items) <= size - 1 THEN Len(Items) ELSE size - 1
        /\ \A i \in 1..Len(Rest) : Rest[i] = Items[i]
    BY <2>1, FirstItems
  <2>3. Len(Rest) = size - 1
    BY <1>2, <2>1, <2>2
  <2> QED
    BY <2>1, <2>2, <2>3
<1> HIDE DEF Rest
<1>5. /\ Tail(Items') \in Seq(Cell) /\ Len(Tail(Items')) = size - 1
      /\ \A i \in 1..(size - 1) : Tail(Items')[i] = Items'[i + 1]
  <2>1. Items' \in Seq(Cell) /\ Len(Items') = size /\ size \in Nat \ {0}
    BY <1>1, <1>2, <1>3 DEF ItemsLie, Cell
  <2>2. Items' # <<>>
    BY <2>1
  <2> QED
    BY <2>1, <2>2, HeadTailProperties
<1>6. ASSUME NEW i \in 1..(size - 1)
      PROVE  Tail(Items')[i] = Rest[i]
  <2>1. i + 1 \in 1..size' /\ (i + 1) - 1 = i /\ i \in 1..size
    BY <1>2, <1>3
  <2>2. Items'[i + 1] = cells'[Wrap(i)']
    BY <1>1, <2>1 DEF ItemsLie
  <2>3. Wrap(i)' = Wrap(i - 1)
    BY <1>2, <1>3, <2>1 DEF Wrap, Decrement
  <2>4. Items[i] = cells[Wrap(i - 1)]
    BY <1>1, <2>1 DEF ItemsLie
  <2> QED
    BY <1>3, <1>4, <1>5, <2>2, <2>3, <2>4
<1>7. Tail(Items') = Rest
  BY <1>4, <1>5, <1>6, SameItems
<1> QED
  BY <1>7 DEF Rest

(* Of one or two items, the shifts to both sides are the same.               *)
LEMMA ShortShiftsAgree ==
  ASSUME ItemsLie, size \in 1..2
  PROVE  Deque!ShiftedRight = Deque!ShiftedLeft
<1>1. Items \in Seq(Cell) /\ Len(Items) = size /\ Items # <<>>
  BY DEF ItemsLie
<1> DEFINE Rest == Deque!First(Items, size - 1)
           Right == <<Items[size]>> \o Rest
           Left == Append(Tail(Items), Items[1])
<1>2. /\ Rest \in Seq(Cell) /\ Len(Rest) = size - 1
      /\ \A i \in 1..(size - 1) : Rest[i] = Items[i]
  BY <1>1, FirstItems
<1>3. /\ Tail(Items) \in Seq(Cell) /\ Len(Tail(Items)) = size - 1
      /\ \A i \in 1..(size - 1) : Tail(Items)[i] = Items[i + 1]
  BY <1>1, HeadTailProperties
<1>4. Items[size] \in Cell /\ Items[1] \in Cell
  BY <1>1
<1> HIDE DEF Rest
<1>5. /\ Right \in Seq(Cell) /\ Len(Right) = size
      /\ Right[1] = Items[size] /\ \A i \in 2..size : Right[i] = Items[i - 1]
  <2>1. <<Items[size]>> \in Seq(Cell) /\ Len(<<Items[size]>>) = 1 /\ <<Items[size]>>[1] = Items[size]
    BY <1>4
  <2> QED
    BY <1>2, <2>1, ConcatProperties
<1>6. /\ Left \in Seq(Cell) /\ Len(Left) = size
      /\ Left[size] = Items[1] /\ \A i \in 1..(size - 1) : Left[i] = Items[i + 1]
  BY <1>3, <1>4, AppendProperties
<1> HIDE DEF Right, Left
<1>7. ASSUME NEW i \in 1..size
      PROVE  Right[i] = Left[i]
  BY <1>5, <1>6
<1>8. Right = Left
  BY <1>5, <1>6, <1>7, SameItems
<1> QED
  BY <1>1, <1>8 DEF Right, Left, Rest, Deque!ShiftedRight, Deque!ShiftedLeft

(* An empty buffer shifted is empty.                                         *)
LEMMA EmptyShifts ==
  ASSUME IInv, IInv', NEW c, Shift(c), size = 0
  PROVE  Items' = <<>> /\ Items = <<>> /\ cap' = cap
<1>1. size' = 0 /\ cap' = cap
  BY DEF Shift, StepBack, Fault, ring
<1> QED
  BY <1>1, ItemsAre, ItemsAreAfter DEF ItemsLie

(* What either shift does: nothing to an empty buffer, the right shift to a  *)
(* full one, and rubbish comes in otherwise.                                 *)
LEMMA ShiftCases ==
  ASSUME IInv, IInv', NEW c, Shift(c)
  PROVE  /\ call' = c /\ cap' = cap
         /\ \/ Items = <<>> /\ Items' = <<>>
            \/ size = cap /\ size # 0 /\ Items' = Deque!ShiftedRight
            \/ size \in 1..(cap - 1) /\ Tail(Items') = Deque!First(Items, size - 1)
<1>1. call' = c /\ cap' = cap
  BY DEF Shift, StepBack, Fault, Called, ring
<1>2. cap \in Nat /\ size \in 0..cap
  BY RingFacts
<1>3. CASE size = 0
  BY <1>1, <1>3, EmptyShifts
<1>4. CASE size # 0
  <2>1. StepBack(c)
    BY <1>2, <1>4 DEF Shift
  <2>2. CASE size = cap
    BY <1>1, <1>4, <2>1, <2>2, FullShiftsRight
  <2>3. CASE size # cap
    BY <1>1, <1>2, <1>4, <2>1, <2>3, PartlyShiftsRight
  <2> QED
    BY <2>2, <2>3
<1> QED
  BY <1>3, <1>4

(* What leftShift() does, exceptions included. *)
LEMMA LeftShiftDoes ==
  ASSUME IInv, IInv', LeftShift
  PROVE  Deque!LeftShift \/ ShiftsRight \/ TakesInRubbish
<1>1. ItemsLie /\ cap \in Nat /\ size \in 0..cap /\ (cap > 0 => (full <=> size = cap))
  BY ItemsAre, RingFacts
<1>2. /\ call' = <<"leftShift">> /\ cap' = cap
      /\ \/ Items = <<>> /\ Items' = <<>>
         \/ size = cap /\ size # 0 /\ Items' = Deque!ShiftedRight
         \/ size \in 1..(cap - 1) /\ Tail(Items') = Deque!First(Items, size - 1)
  BY ShiftCases DEF LeftShift
<1>3. CASE Items = <<>> /\ Items' = <<>>
  BY <1>2, <1>3 DEF Deque!LeftShift, Deque!ShiftedLeft
<1>4. CASE size = cap /\ size # 0 /\ Items' = Deque!ShiftedRight
  <2>1. CASE size \in 1..2
    BY <1>1, <1>2, <1>4, <2>1, ShortShiftsAgree DEF Deque!LeftShift
  <2>2. CASE size > 2
    <3>1. full
      BY <1>1, <1>4, <2>2
    <3> QED
      BY <1>2, <1>4, <2>2, <3>1 DEF ShiftsRight
  <2> QED
    BY <1>1, <1>4, <2>1, <2>2
<1>5. CASE size \in 1..(cap - 1) /\ Tail(Items') = Deque!First(Items, size - 1)
  BY <1>2, <1>5 DEF TakesInRubbish
<1> QED
  BY <1>2, <1>3, <1>4, <1>5

(* What rightShift() does. *)
LEMMA RightShiftDoes ==
  ASSUME IInv, IInv', RightShift
  PROVE  Deque!RightShift \/ TakesInRubbish
<1>1. /\ call' = <<"rightShift">> /\ cap' = cap
      /\ \/ Items = <<>> /\ Items' = <<>>
         \/ size = cap /\ size # 0 /\ Items' = Deque!ShiftedRight
         \/ size \in 1..(cap - 1) /\ Tail(Items') = Deque!First(Items, size - 1)
  BY ShiftCases DEF RightShift
<1>2. CASE Items = <<>> /\ Items' = <<>>
  BY <1>1, <1>2 DEF Deque!RightShift, Deque!ShiftedRight
<1>3. CASE size = cap /\ size # 0 /\ Items' = Deque!ShiftedRight
  BY <1>1, <1>3 DEF Deque!RightShift
<1>4. CASE size \in 1..(cap - 1) /\ Tail(Items') = Deque!First(Items, size - 1)
  BY <1>1, <1>4 DEF TakesInRubbish
<1> QED
  BY <1>1, <1>2, <1>3, <1>4

(* A list without items is the empty one.                                    *)
LEMMA NoItems ==
  ASSUME ItemsLie, size = 0
  PROVE  Items = <<>>
BY DEF ItemsLie

(* clear() is the deque's. *)
LEMMA ClearRefines ==
  ASSUME IInv, IInv', Clear
  PROVE  Deque!Clear
<1>1. ItemsLie' /\ size' = 0 /\ cap' = cap
  BY ItemsAreAfter DEF Clear
<1>2. Items' = <<>>
  BY <1>1 DEF ItemsLie
<1> QED
  BY <1>1, <1>2 DEF Deque!Clear, Clear, Called

(* resize() is the deque's: the items that do not fit are lost in front. *)
LEMMA ResizeRefines ==
  ASSUME IInv, IInv', NEW c \in 0..MaxCapacity, Resize(c)
  PROVE  Deque!Resize(c)
<1>1. ItemsLie /\ ItemsLie'
  BY ItemsAre, ItemsAreAfter
<1>2. /\ c \in Nat /\ size \in Nat
      /\ cap' = c /\ begin' = 0
      /\ size' = IF size <= c THEN size ELSE c
  BY RingFacts, BufferAssumption, MinOfTwo DEF Resize
<1> DEFINE Now == Deque!First(Items, c)
<1>3. /\ Now \in Seq(Cell) /\ Len(Now) = size'
      /\ \A i \in 1..size' : Now[i] = Items[i]
  <2>1. Items \in Seq(Cell) /\ Len(Items) = size
    BY <1>1 DEF ItemsLie
  <2>2. /\ Now \in Seq(Cell)
        /\ Len(Now) = IF Len(Items) <= c THEN Len(Items) ELSE c
        /\ \A i \in 1..Len(Now) : Now[i] = Items[i]
    BY <1>2, <2>1, FirstItems
  <2>3. Len(Now) = size'
    BY <1>2, <2>1, <2>2
  <2> QED
    BY <2>2, <2>3
<1> HIDE DEF Now
<1>4. ASSUME NEW i \in 1..size'
      PROVE  Items'[i] = Now[i]
  <2>1. Items'[i] = cells'[Wrap(i - 1)'] /\ Wrap(i - 1)' = i - 1
    <3>1. Wrap(i - 1)' = i - 1
      BY <1>2 DEF Wrap
    <3> QED
      BY <1>1, <3>1 DEF ItemsLie
  <2>2. /\ i - 1 \in 0..(c - 1) /\ i - 1 < size'
        /\ i - 1 \in 0..(size - 1) /\ i \in 1..size
    BY <1>2
  <2>3. cells'[i - 1] = cells[Source(i - 1)]
    BY <2>2 DEF Resize
  <2>4. Source(i - 1) = Wrap(i - 1)
    BY <2>2, SourceWraps
  <2> QED
    BY <1>1, <1>3, <2>1, <2>2, <2>3, <2>4 DEF ItemsLie
<1>5. Items' = Now
  BY <1>1, <1>3, <1>4, SameItems DEF ItemsLie
<1> QED
  BY <1>2, <1>5 DEF Now, Deque!Resize, Resize, Called

(* Every call, in any history, is the deque's on what operator[] reads, but  *)
(* for the three that ImplementsDeque names: a left shift of more than two   *)
(* items, a shift of a buffer partly filled, and push_back() after a         *)
(* resize() that cut the buffer to what it held.                             *)
THEOREM BufferIsADeque == Spec => ImplementsDeque
<1>1. Init => Deque!Init
  <2> SUFFICES ASSUME Init
               PROVE  Deque!Init
    OBVIOUS
  <2>1. ItemsLie /\ size = 0 /\ cap \in 0..MaxCapacity /\ call = <<"cbuffer">>
    BY InitInvariant, ItemsAre DEF Init
  <2>2. Items = <<>>
    BY <2>1, NoItems
  <2> QED
    BY <2>1, <2>2 DEF Deque!Init
<1> DEFINE Does == Deque!Next \/ ShiftsRight \/ TakesInRubbish \/ WritesBehind
<1>2. IInv /\ IInv' /\ [Next]_vars => [Does]_(Deque!dequeVars)
  <2> SUFFICES ASSUME IInv, IInv', [Next]_vars
               PROVE  Does \/ UNCHANGED Deque!dequeVars
    OBVIOUS
  <2>1. ASSUME NEW x \in Vals, PushFront(x)
        PROVE  Does
    BY <2>1, PushFrontRefines DEF Deque!Next
  <2>2. ASSUME NEW x \in Vals, PushBack(x)
        PROVE  Does
    <3>1. CASE PushBackInside(x)
      BY <2>2, <3>1, PushBackRefines DEF Deque!Next, PushBack
    <3>2. CASE ~PushBackInside(x)
      BY <2>2, <3>2 DEF PushBack, Fault, WritesBehind
    <3> QED
      BY <3>1, <3>2
  <2>3. CASE PopFront
    BY <2>3, PopFrontRefines DEF Deque!Next
  <2>4. CASE PopBack
    BY <2>4, PopBackRefines DEF Deque!Next
  <2>5. CASE LeftShift \/ RightShift
    BY <2>5, LeftShiftDoes, RightShiftDoes DEF Deque!Next
  <2>6. CASE Clear
    BY <2>6, ClearRefines DEF Deque!Next
  <2>7. ASSUME NEW c \in 0..MaxCapacity, Resize(c)
        PROVE  Does
    BY <2>7, ResizeRefines DEF Deque!Next
  <2>8. CASE UNCHANGED vars
    BY <2>8 DEF vars, ring, Deque!dequeVars, Items, At
  <2> QED
    BY <2>1, <2>2, <2>3, <2>4, <2>5, <2>6, <2>7, <2>8 DEF Next
<1> QED
  BY <1>1, <1>2, InvariantHolds, PTL DEF Spec, ImplementsDeque

(* A client that makes none of the three has a bounded deque, whole and      *)
(* entire.                                                                   *)
COROLLARY CarefulClientHasADeque ==
  Spec /\ [][~(ShiftsRight \/ TakesInRubbish \/ WritesBehind)]_vars => Deque!DequeSpec
<1>1. [~(ShiftsRight \/ TakesInRubbish \/ WritesBehind)]_vars
      /\ [Deque!Next \/ ShiftsRight \/ TakesInRubbish \/ WritesBehind]_(Deque!dequeVars)
      => [Deque!Next]_(Deque!dequeVars)
  BY DEF vars, ring, Deque!dequeVars, Items, At
<1> QED
  BY <1>1, BufferIsADeque, PTL DEF ImplementsDeque, Deque!DequeSpec

=============================================================================
