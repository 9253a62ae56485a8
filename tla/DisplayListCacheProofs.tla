------------------------ MODULE DisplayListCacheProofs ------------------------
(***************************************************************************)
(* Proofs about DisplayListCache, for any objects, any ages, any capacity  *)
(* and any number of frames before the frame number comes round.           *)
(***************************************************************************)
EXTENDS DisplayListCache, ListLemmas

-----------------------------------------------------------------------------
(* The inductive invariant: the three safety properties need each other.  An *)
(* object of the previous frame is found because its item is young, and the  *)
(* young items are kept because those behind them are older.                 *)
IInv ==
  /\ TypeOK
  /\ CacheOwnsItsLists
  /\ OldestAtTheBack
  /\ PreviousFrameStays

-----------------------------------------------------------------------------
(* Lemmas about numbers that come round. *)

(* Within one round the counter is its own remainder, and so is the round after it. *)
LEMMA Round ==
  ASSUME NEW m \in Nat \ {0}, NEW a \in 0..(m - 1)
  PROVE  /\ a % m = a
         /\ (a + m) % m = a
BY SMT

(* In the second round the remainder is what exceeds the first. *)
LEMMA RoundOnce ==
  ASSUME NEW m \in Nat \ {0}, NEW a \in m..(m + m - 1)
  PROVE  a % m = a - m
BY SMT

(* An age counted round: the stamp may be ahead of the frame number. *)
LEMMA AgeCases ==
  ASSUME NEW m \in Nat \ {0}, NEW f \in 0..(m - 1), NEW s \in 0..(m - 1)
  PROVE  (f + m - s) % m = IF s <= f THEN f - s ELSE f + m - s
<1>1. CASE s <= f
  <2>1. f - s \in 0..(m - 1) /\ f + m - s = (f - s) + m
    BY <1>1
  <2>2. ((f - s) + m) % m = f - s
    BY <2>1, Round
  <2> QED
    BY <1>1, <2>1, <2>2
<1>2. CASE ~(s <= f)
  <2>1. f + m - s \in 0..(m - 1)
    BY <1>2
  <2>2. (f + m - s) % m = f + m - s
    BY <2>1, Round
  <2> QED
    BY <1>2, <2>2
<1> QED
  BY <1>1, <1>2

(* The next frame makes everything one frame older. *)
LEMMA OneFrameOlder ==
  ASSUME NEW m \in Nat \ {0}, m >= 2, NEW f \in 0..(m - 1), NEW s \in 0..(m - 1),
         (f + m - s) % m < m - 1
  PROVE  /\ (f + 1) % m \in 0..(m - 1)
         /\ (((f + 1) % m) + m - s) % m = ((f + m - s) % m) + 1
<1>1. CASE f < m - 1
  <2>1. f + 1 \in 0..(m - 1)
    BY <1>1
  <2>2. (f + 1) % m = f + 1
    BY <2>1, Round
  <2> QED
    BY SMTT(30), <2>1, <2>2, AgeCases
<1>2. CASE f = m - 1
  <2>1. (f + 1) % m = 0
    <3>1. f + 1 = 0 + m /\ 0 \in 0..(m - 1)
      BY <1>2
    <3> QED
      BY <3>1, Round
  <2>2. (f + m - s) % m = f - s
    BY <1>2, AgeCases
  <2>3. 0 \in 0..(m - 1) /\ (0 + m - s) % m = IF s <= 0 THEN 0 ELSE m - s
    BY SMTT(30), AgeCases
  <2>4. s # 0
    BY <1>2, <2>2
  <2> QED
    BY <1>2, <2>1, <2>2, <2>3, <2>4
<1> QED
  BY <1>1, <1>2

(* An age is a number of frames, and that of an item just stamped is 0. *)
LEMMA AgeIsANumber ==
  ASSUME CacheAssumption, frame \in 0..(Modulus - 1), NEW e \in Entry
  PROVE  /\ Age(e) \in 0..(Modulus - 1)
         /\ e.stamp = frame => Age(e) = 0
<1>1. Modulus \in Nat \ {0} /\ e.stamp \in 0..(Modulus - 1)
  BY DEF CacheAssumption, Entry
<1>2. Age(e) = IF e.stamp <= frame THEN frame - e.stamp ELSE frame + Modulus - e.stamp
  BY <1>1, AgeCases DEF Age
<1> QED
  BY <1>1, <1>2

-----------------------------------------------------------------------------
(* Lemmas about the operators. *)

(* The list that is kept is the front of the list, and everything behind it  *)
(* is older than an item may be.                                             *)
LEMMA KeptIsTheFront ==
  ASSUME CacheAssumption, TypeOK
  PROVE  /\ Kept \in Seq(Entry)
         /\ Len(Kept) \in 0..Len(lru)
         /\ \A p \in 1..Len(Kept) : Kept[p] = lru[p]
         /\ \A p \in 1..Len(lru) : ~(p <= Len(Kept)) => Age(lru[p]) > MaxAge
<1> DEFINE young == {p \in DOMAIN lru : Age(lru[p]) <= MaxAge}
           T == young \cup {0}
           last == Max(T)
<1>1. lru \in Seq(Entry) /\ Len(lru) \in Nat /\ DOMAIN lru = 1..Len(lru)
  BY LenProperties DEF TypeOK
<1>2. T \in SUBSET (0..Len(lru)) /\ T # {}
  <2>1. young \in SUBSET (1..Len(lru))
    BY <1>1
  <2> HIDE DEF young
  <2>2. 1..Len(lru) \subseteq 0..Len(lru) /\ 0 \in 0..Len(lru)
    BY <1>1
  <2> QED
    BY <2>1, <2>2
<1>3. last \in T /\ \A t \in T : t <= last
  <2> HIDE DEF T
  <2> QED
    BY <1>1, <1>2, GreatestOf
<1>4. last \in 0..Len(lru)
  BY <1>2, <1>3
<1>5. \A p \in 1..Len(lru) : ~(p <= last) => Age(lru[p]) > MaxAge
  <2> SUFFICES ASSUME NEW p \in 1..Len(lru), ~(p <= last)
               PROVE  Age(lru[p]) > MaxAge
    OBVIOUS
  <2>1. p \notin young
    BY <1>3
  <2>2. ~(Age(lru[p]) <= MaxAge)
    BY <1>1, <2>1
  <2>3. lru[p] \in Entry
    BY <1>1, ElementOfSeq
  <2>4. Age(lru[p]) \in 0..(Modulus - 1)
    BY <2>3, AgeIsANumber DEF TypeOK
  <2>5. MaxAge \in Nat /\ Modulus \in Nat
    BY DEF CacheAssumption
  <2> HIDE DEF young, T, last
  <2> QED
    BY <2>2, <2>4, <2>5
<1>6. Kept = SubSeq(lru, 1, last)
  BY DEF Kept
<1> HIDE DEF young, T, last
<1>7. /\ SubSeq(lru, 1, last) \in Seq(Entry)
      /\ Len(SubSeq(lru, 1, last)) = last
      /\ \A p \in 1..last : SubSeq(lru, 1, last)[p] = lru[p]
  BY <1>1, <1>4, SubSeqProperties
<1> QED
  BY <1>4, <1>5, <1>6, <1>7

(* The items that are flushed are those behind the kept ones: a kept item    *)
(* shares its display list and its object with no other.                     *)
LEMMA WhatIsFlushed ==
  ASSUME CacheAssumption, TypeOK, CacheOwnsItsLists
  PROVE  /\ \A e, f \in Entries(lru) : e.list = f.list => e = f
         /\ \A e, f \in Entries(lru) : e.key = f.key => e = f
         /\ Entries(Kept) \subseteq Entries(lru)
         /\ Entries(lru) \subseteq Entry
         /\ \A e \in Flushed : Age(e) > MaxAge
<1>1. /\ lru \in Seq(Entry) /\ DOMAIN lru = 1..Len(lru)
      /\ Len(lru) \in Nat
  BY LenProperties DEF TypeOK
<1>2. Entries(lru) \subseteq Entry
  <2> SUFFICES ASSUME NEW p \in 1..Len(lru) PROVE lru[p] \in Entry
    BY <1>1 DEF Entries
  <2> QED
    BY <1>1, ElementOfSeq
<1>3. ASSUME NEW e \in Entries(lru), NEW f \in Entries(lru), e.list = f.list
      PROVE  e = f
  BY <1>3 DEF Entries, CacheOwnsItsLists
<1>4. ASSUME NEW e \in Entries(lru), NEW f \in Entries(lru), e.key = f.key
      PROVE  e = f
  <2>1. e.key \in Keys /\ e.list \in Lists /\ f.key \in Keys /\ f.list \in Lists
    BY <1>2 DEF Entry
  <2>2. index[e.key] = e.list
    BY <2>1 DEF CacheOwnsItsLists
  <2>3. index[f.key] = f.list
    BY <2>1 DEF CacheOwnsItsLists
  <2> QED
    BY <1>3, <1>4, <2>2, <2>3
<1>5. Entries(Kept) \subseteq Entries(lru)
  <2>1. DOMAIN Kept = 1..Len(Kept)
    BY KeptIsTheFront, LenProperties
  <2>2. \A p \in 1..Len(Kept) : p \in DOMAIN lru /\ Kept[p] = lru[p]
    BY <1>1, KeptIsTheFront
  <2> QED
    BY <2>1, <2>2 DEF Entries
<1>6. ASSUME NEW e \in Flushed
      PROVE  Age(e) > MaxAge
  <2>1. PICK p \in 1..Len(lru) : e = lru[p]
    BY <1>1 DEF Flushed, Entries
  <2>2. e \notin Entries(Kept)
    BY DEF Flushed
  <2>3. ~(p <= Len(Kept))
    <3> SUFFICES ASSUME p <= Len(Kept) PROVE FALSE
      OBVIOUS
    <3>1. DOMAIN Kept = 1..Len(Kept) /\ Len(Kept) \in Nat
      BY KeptIsTheFront, LenProperties
    <3>2. p \in 1..Len(Kept)
      BY <1>1, <3>1
    <3>3. Kept[p] = lru[p]
      BY <3>2, KeptIsTheFront
    <3> QED
      BY <2>1, <2>2, <3>1, <3>2, <3>3 DEF Entries
  <2> QED
    BY <2>1, <2>3, KeptIsTheFront
<1> QED
  BY <1>2, <1>3, <1>4, <1>5, <1>6

(* What draw() does to the list, however it finds the item to draw with: the *)
(* item "now" comes in front of "rest", which is the list without the items  *)
(* that are flushed, taken or moved.  "from" says where the rest was; what is *)
(* lost is either the item of the same object or not of the last two frames. *)
DrawsWith(rest, now, from) ==
  /\ rest \in Seq(Entry) /\ now \in Entry
  /\ from \in [1..Len(rest) -> 1..Len(lru)]
  /\ \A p, q \in 1..Len(rest) : p < q => from[p] < from[q]
  /\ \A p \in 1..Len(rest) : /\ rest[p] = lru[from[p]]
                             /\ rest[p].key # now.key
                             /\ rest[p].list # now.list
  /\ now.stamp = frame
  /\ \A e \in Entries(lru) :
       e \notin Entries(rest) => e.key = now.key \/ ~Recent(Age(e))
  /\ lru' = <<now>> \o rest
  /\ frame' = frame
  /\ index' \in [Keys -> Lists \cup {NoList}]
  /\ index'[now.key] = now.list
  /\ \A e \in Entries(rest) : index'[e.key] = index[e.key]
  /\ \A k \in Keys : k # now.key /\ (\A e \in Entries(rest) : e.key # k)
                       => index'[k] = NoList
  /\ DOMAIN content' = {e.list : e \in Entries(rest)} \cup {now.list}
  /\ unused' = [unused EXCEPT ![now.key] = 0]

(* Then the list has the new item in front and the rest behind it. *)
LEMMA TheNewList ==
  ASSUME CacheAssumption, IInv, NEW rest, NEW now, NEW from, DrawsWith(rest, now, from)
  PROVE  /\ lru' \in Seq(Entry)
         /\ Len(rest) \in Nat
         /\ DOMAIN lru' = 1..(Len(rest) + 1)
         /\ lru'[1] = now
         /\ \A p \in 1..(Len(rest) + 1) : p # 1 => lru'[p] = rest[p - 1]
         /\ Entries(lru)' = Entries(rest) \cup {now}
         /\ Entries(rest) \subseteq Entries(lru)
         /\ \A e \in Entries(rest) : e.key # now.key /\ e.list # now.list
         /\ \A e \in Entry : Age(e)' = Age(e)
<1>1. /\ rest \in Seq(Entry) /\ now \in Entry
      /\ lru' = <<now>> \o rest
      /\ from \in [1..Len(rest) -> 1..Len(lru)]
      /\ \A p \in 1..Len(rest) : /\ rest[p] = lru[from[p]]
                                 /\ rest[p].key # now.key
                                 /\ rest[p].list # now.list
  BY DEF DrawsWith
<1>2. Len(rest) \in Nat /\ DOMAIN rest = 1..Len(rest)
  BY <1>1, LenProperties
<1>3. /\ lru' \in Seq(Entry)
      /\ Len(lru') = Len(rest) + 1
      /\ lru'[1] = now
      /\ \A p \in 1..Len(rest) : lru'[p + 1] = rest[p]
  BY <1>1, InFront
<1>4. DOMAIN lru' = 1..(Len(rest) + 1)
  BY <1>3, LenProperties
<1>5. ASSUME NEW p \in 1..(Len(rest) + 1), p # 1
      PROVE  lru'[p] = rest[p - 1]
  <2>1. p - 1 \in 1..Len(rest) /\ (p - 1) + 1 = p
    BY <1>2, <1>5
  <2> QED
    BY <1>3, <2>1
<1>6. Entries(lru)' = Entries(rest) \cup {now}
  <2>1. Entries(lru)' = {lru'[p] : p \in 1..(Len(rest) + 1)}
    BY <1>4 DEF Entries
  <2>2. Entries(rest) = {rest[p] : p \in 1..Len(rest)}
    BY <1>2 DEF Entries
  <2>3. ASSUME NEW p \in 1..(Len(rest) + 1)
        PROVE  lru'[p] \in Entries(rest) \cup {now}
    <3>1. CASE p = 1
      BY <1>3, <3>1
    <3>2. CASE p # 1
      <4>1. p - 1 \in 1..Len(rest)
        BY <1>2, <3>2
      <4> QED
        BY <1>5, <2>2, <3>2, <4>1
    <3> QED
      BY <3>1, <3>2
  <2>4. ASSUME NEW p \in 1..Len(rest)
        PROVE  rest[p] \in Entries(lru)'
    <3>1. p + 1 \in 1..(Len(rest) + 1)
      BY <1>2
    <3> QED
      BY <1>3, <2>1, <3>1
  <2>5. now \in Entries(lru)'
    <3>1. 1 \in 1..(Len(rest) + 1)
      BY <1>2
    <3> QED
      BY <1>3, <2>1, <3>1
  <2> QED
    BY <2>1, <2>2, <2>3, <2>4, <2>5
<1>7. Entries(rest) \subseteq Entries(lru)
  <2>1. DOMAIN lru = 1..Len(lru)
    BY LenProperties DEF IInv, TypeOK
  <2> QED
    BY <1>1, <1>2, <2>1 DEF Entries
<1>8. \A e \in Entries(rest) : e.key # now.key /\ e.list # now.list
  BY <1>1, <1>2 DEF Entries
<1>9. \A e \in Entry : Age(e)' = Age(e)
  BY DEF DrawsWith, Age
<1> QED
  BY <1>2, <1>3, <1>4, <1>5, <1>6, <1>7, <1>8, <1>9

(* draw() keeps list, index and OpenGL's lists in agreement. *)
LEMMA DrawKeepsTheBooks ==
  ASSUME CacheAssumption, IInv, NEW rest, NEW now, NEW from, DrawsWith(rest, now, from)
  PROVE  CacheOwnsItsLists'
<1>1. Entries(lru)' = Entries(rest) \cup {now}
  BY TheNewList
<1>2. {e.list : e \in Entries(lru)'} = DOMAIN content'
  BY <1>1 DEF DrawsWith
<1>3. ASSUME NEW p \in DOMAIN lru', NEW q \in DOMAIN lru', lru'[p].list = lru'[q].list
      PROVE  p = q
  <2>1. /\ DOMAIN lru' = 1..(Len(rest) + 1) /\ Len(rest) \in Nat
        /\ lru'[1] = now
        /\ \A r \in 1..(Len(rest) + 1) : r # 1 => lru'[r] = rest[r - 1]
    BY TheNewList
  <2>2. \A r \in 1..(Len(rest) + 1) :
          r # 1 => r - 1 \in 1..Len(rest) /\ lru'[r].list # now.list
    <3> SUFFICES ASSUME NEW r \in 1..(Len(rest) + 1), r # 1
                 PROVE  r - 1 \in 1..Len(rest) /\ lru'[r].list # now.list
      OBVIOUS
    <3>1. r - 1 \in 1..Len(rest)
      BY <2>1
    <3> QED
      BY <2>1, <3>1 DEF DrawsWith
  <2>3. CASE p = 1 \/ q = 1
    BY <1>3, <2>1, <2>2, <2>3
  <2>4. CASE p # 1 /\ q # 1
    <3>1. PICK i : i = p - 1
      OBVIOUS
    <3>2. PICK j : j = q - 1
      OBVIOUS
    <3>3. i \in 1..Len(rest) /\ j \in 1..Len(rest)
      BY <2>1, <2>2, <2>4, <3>1, <3>2
    <3>4. rest[i].list = rest[j].list
      BY <1>3, <2>1, <2>4, <3>1, <3>2
    <3>5. /\ rest[i] = lru[from[i]] /\ rest[j] = lru[from[j]]
          /\ from[i] \in 1..Len(lru) /\ from[j] \in 1..Len(lru)
      BY <3>3 DEF DrawsWith
    <3>6. DOMAIN lru = 1..Len(lru)
      BY LenProperties DEF IInv, TypeOK
    <3>7. from[i] = from[j]
      BY <3>4, <3>5, <3>6 DEF IInv, CacheOwnsItsLists
    <3>8. ~(i < j) /\ ~(j < i)
      <4>1. (i < j => from[i] < from[j]) /\ (j < i => from[j] < from[i])
        BY <3>3 DEF DrawsWith
      <4> QED
        BY <3>5, <3>7, <4>1
    <3>9. i = j
      BY <2>1, <3>3, <3>8
    <3> QED
      BY <2>1, <3>1, <3>2, <3>9
  <2> QED
    BY <2>3, <2>4
<1>4. ASSUME NEW k \in Keys, NEW l \in Lists
      PROVE  index'[k] = l <=> \E e \in Entries(lru)' : e.key = k /\ e.list = l
  <2>1. /\ \A e \in Entries(rest) : e \in Entries(lru) /\ e.key # now.key
        /\ Entries(lru) \subseteq Entry
    BY TheNewList, WhatIsFlushed DEF IInv
  <2>2. CASE k = now.key
    <3>1. index'[k] = now.list
      BY <2>2 DEF DrawsWith
    <3> QED
      BY <1>1, <2>1, <2>2, <3>1
  <2>3. CASE k # now.key /\ \E e \in Entries(rest) : e.key = k
    <3>1. PICK e \in Entries(rest) : e.key = k
      BY <2>3
    <3>2. index'[k] = index[k]
      BY <3>1 DEF DrawsWith
    <3>3. e \in Entries(lru) /\ e.list \in Lists
      BY <2>1 DEF Entry
    <3>4. index[k] = e.list
      BY <3>1, <3>3 DEF IInv, CacheOwnsItsLists
    <3>5. \A f \in Entries(rest) : f.key = k => f = e
      BY <2>1, <3>1, WhatIsFlushed DEF IInv
    <3> QED
      BY <1>1, <2>3, <3>1, <3>2, <3>4, <3>5
  <2>4. CASE k # now.key /\ \A e \in Entries(rest) : e.key # k
    <3>1. index'[k] = NoList
      BY <2>4 DEF DrawsWith
    <3>2. l # NoList
      BY DEF CacheAssumption
    <3> QED
      BY <1>1, <2>4, <3>1, <3>2
  <2> QED
    BY <2>2, <2>3, <2>4
<1> QED
  BY <1>2, <1>3, <1>4 DEF CacheOwnsItsLists, Entries

(* draw() keeps the list in the order of last use. *)
LEMMA DrawKeepsTheOrder ==
  ASSUME CacheAssumption, IInv, NEW rest, NEW now, NEW from, DrawsWith(rest, now, from)
  PROVE  OldestAtTheBack'
<1>1. /\ Entries(lru)' = Entries(rest) \cup {now}
      /\ Entries(rest) \subseteq Entries(lru)
      /\ \A e \in Entries(rest) : e.key # now.key
      /\ \A e \in Entry : Age(e)' = Age(e)
      /\ DOMAIN lru' = 1..(Len(rest) + 1) /\ Len(rest) \in Nat
      /\ lru'[1] = now
      /\ \A r \in 1..(Len(rest) + 1) : r # 1 => lru'[r] = rest[r - 1]
  BY TheNewList
<1>2. Entries(lru) \subseteq Entry /\ now \in Entry
  BY WhatIsFlushed DEF IInv, DrawsWith
<1>3. Age(now) = 0 /\ \A e \in Entry : Age(e) \in 0..(Modulus - 1)
  BY <1>2, AgeIsANumber DEF IInv, TypeOK, DrawsWith
<1>4. ASSUME NEW e \in Entries(lru)'
      PROVE  Age(e)' = unused'[e.key]
  <2>1. unused \in [Keys -> 0..Modulus] /\ unused' = [unused EXCEPT ![now.key] = 0]
    BY DEF IInv, TypeOK, DrawsWith
  <2>2. e \in Entry /\ e.key \in Keys /\ now.key \in Keys
    BY <1>1, <1>2 DEF Entry
  <2>3. CASE e = now
    BY <1>1, <1>3, <2>1, <2>2, <2>3
  <2>4. CASE e \in Entries(rest)
    <3>1. Age(e) = unused[e.key]
      BY <1>1, <2>4 DEF IInv, OldestAtTheBack
    <3>2. unused'[e.key] = unused[e.key]
      BY <1>1, <2>1, <2>2, <2>4
    <3> QED
      BY <1>1, <2>2, <3>1, <3>2
  <2> QED
    BY <1>1, <2>3, <2>4
<1>5. ASSUME NEW p \in DOMAIN lru', NEW q \in DOMAIN lru', p < q
      PROVE  Age(lru[p])' <= Age(lru[q])'
  <2>1. p \in 1..(Len(rest) + 1) /\ q \in 1..(Len(rest) + 1) /\ q # 1
    BY <1>1, <1>5
  <2>2. PICK j : j = q - 1
    OBVIOUS
  <2>3. j \in 1..Len(rest) /\ lru'[q] = rest[j]
    BY <1>1, <2>1, <2>2
  <2>4. /\ \A r \in 1..Len(rest) : rest[r] = lru[from[r]] /\ from[r] \in DOMAIN lru
        /\ \A r, s \in 1..Len(rest) : r < s => from[r] < from[s]
    <3>1. DOMAIN lru = 1..Len(lru)
      BY LenProperties DEF IInv, TypeOK
    <3> QED
      BY <3>1 DEF DrawsWith
  <2>5. \A r \in 1..Len(rest) : rest[r] \in Entry
    BY ElementOfSeq DEF DrawsWith
  <2>6. CASE p = 1
    <3>1. Age(now)' = 0 /\ Age(rest[j])' \in 0..(Modulus - 1)
      BY <1>1, <1>2, <1>3, <2>3, <2>5
    <3>2. Age(now)' <= Age(rest[j])'
      BY <3>1 DEF CacheAssumption
    <3>3. Age(lru[p])' = Age(now)' /\ Age(lru[q])' = Age(rest[j])'
      BY <1>1, <2>3, <2>6 DEF Age
    <3> QED
      BY <3>2, <3>3
  <2>7. CASE p # 1
    <3>1. PICK i : i = p - 1
      OBVIOUS
    <3>2. i \in 1..Len(rest) /\ lru'[p] = rest[i] /\ i < j
      BY <1>1, <1>5, <2>1, <2>2, <2>7, <3>1
    <3>3. Age(lru[from[i]]) <= Age(lru[from[j]])
      BY <2>3, <2>4, <3>2 DEF IInv, OldestAtTheBack
    <3>4. Age(rest[i])' = Age(lru[from[i]]) /\ Age(rest[j])' = Age(lru[from[j]])
      BY <1>1, <2>3, <2>4, <2>5, <3>2
    <3>5. Age(lru[p])' = Age(rest[i])' /\ Age(lru[q])' = Age(rest[j])'
      BY <2>3, <3>2 DEF Age
    <3> QED
      BY <3>3, <3>4, <3>5
  <2> QED
    BY <2>6, <2>7
<1> QED
  BY <1>4, <1>5 DEF OldestAtTheBack, Entries

(* draw() keeps in the cache what the last frame used. *)
LEMMA DrawKeepsThePreviousFrame ==
  ASSUME CacheAssumption, IInv, NEW rest, NEW now, NEW from, DrawsWith(rest, now, from)
  PROVE  PreviousFrameStays'
<1> SUFFICES ASSUME NEW k \in Keys, Recent(unused'[k])
             PROVE  index'[k] # NoList
  BY DEF PreviousFrameStays
<1>1. now \in Entry /\ unused' = [unused EXCEPT ![now.key] = 0]
  BY DEF DrawsWith
<1>2. unused \in [Keys -> 0..Modulus] /\ index \in [Keys -> Lists \cup {NoList}]
  BY DEF IInv, TypeOK
<1>3. CASE k = now.key
  <2>1. index'[k] = now.list /\ now.list \in Lists
    BY <1>1, <1>3 DEF DrawsWith, Entry
  <2> QED
    BY <2>1 DEF CacheAssumption
<1>4. CASE k # now.key
  <2>1. Recent(unused[k])
    BY <1>1, <1>2, <1>4
  <2>2. index[k] # NoList
    BY <2>1 DEF IInv, PreviousFrameStays
  <2>3. index[k] \in Lists
    BY <1>2, <2>2
  <2>4. PICK e \in Entries(lru) : e.key = k
    BY <2>3 DEF IInv, CacheOwnsItsLists
  <2>5. Age(e) = unused[k]
    BY <2>4 DEF IInv, OldestAtTheBack
  <2>6. Recent(Age(e))
    BY <2>1, <2>5
  <2>7. e \in Entries(rest)
    BY <1>4, <2>4, <2>6 DEF DrawsWith
  <2>8. index'[k] = index[k]
    BY <2>4, <2>7 DEF DrawsWith
  <2> QED
    BY <2>2, <2>8
<1> QED
  BY <1>3, <1>4

-----------------------------------------------------------------------------
(* Lemmas about the operators that draw() is made of. *)

(* The contents of the display lists, for the type of content. *)
ListsOf(c) ==
  /\ DOMAIN c \subseteq Lists
  /\ \A l \in DOMAIN c : c[l] \in Seq(Commands)

(* A command recorded into a list makes no other list. *)
LEMMA RecordProperties ==
  ASSUME NEW c, ListsOf(c), NEW l, NEW command \in Commands
  PROVE  DOMAIN Record(c, l, command) = DOMAIN c /\ ListsOf(Record(c, l, command))
<1>1. CASE l = NoList
  BY <1>1 DEF Record
<1>2. CASE l # NoList
  <2>1. PICK d : d = [c EXCEPT ![l] = Append(@, command)]
    OBVIOUS
  <2>2. DOMAIN d = DOMAIN c
    BY <2>1
  <2>3. ASSUME NEW m \in DOMAIN d
        PROVE  d[m] \in Seq(Commands)
    <3>1. CASE m = l
      <4>1. c[l] \in Seq(Commands) /\ d[m] = Append(c[l], command)
        BY <2>1, <2>2, <3>1 DEF ListsOf
      <4> QED
        BY <4>1, AppendProperties
    <3>2. CASE m # l
      BY <2>1, <2>2, <3>2 DEF ListsOf
    <3> QED
      BY <3>1, <3>2
  <2>4. Record(c, l, command) = d
    BY <1>2, <2>1 DEF Record
  <2> QED
    BY <2>2, <2>3, <2>4 DEF ListsOf
<1> QED
  BY <1>1, <1>2

(* glDeleteLists deletes exactly the lists named. *)
LEMMA DeleteProperties ==
  ASSUME NEW c, ListsOf(c), NEW ls
  PROVE  DOMAIN Delete(c, ls) = DOMAIN c \ ls /\ ListsOf(Delete(c, ls))
BY DEF Delete, ListsOf

(* The commands that draw() gives. *)
LEMMA CommandsOfDraw ==
  ASSUME NEW k \in Keys, NEW l \in Lists
  PROVE  Drawn(k) \in Commands /\ Called(k, l) \in Commands
BY DEF Drawn, Called, Commands

(* After the flush the display lists are those of the kept items. *)
LEMMA AfterTheFlush ==
  ASSUME CacheAssumption, TypeOK, CacheOwnsItsLists,
         NEW c, c = Delete(content, {f.list : f \in Flushed})
  PROVE  /\ ListsOf(c)
         /\ DOMAIN c = {e.list : e \in Entries(Kept)}
<1>1. ListsOf(content)
  BY DEF TypeOK, ListsOf
<1>2. DOMAIN c = DOMAIN content \ {f.list : f \in Flushed} /\ ListsOf(c)
  BY <1>1, DeleteProperties
<1>3. DOMAIN content = {e.list : e \in Entries(lru)}
  BY DEF CacheOwnsItsLists
<1>4. \A e, f \in Entries(lru) : e.list = f.list => e = f
  BY WhatIsFlushed
<1>5. Entries(Kept) \subseteq Entries(lru) /\ Flushed = Entries(lru) \ Entries(Kept)
  BY WhatIsFlushed DEF Flushed
<1> DEFINE K == Entries(Kept)
           L == Entries(lru)
<1>6. /\ DOMAIN content = {e.list : e \in L}
      /\ DOMAIN c = DOMAIN content \ {f.list : f \in L \ K}
      /\ \A e, f \in L : e.list = f.list => e = f
      /\ K \subseteq L
  BY <1>2, <1>3, <1>4, <1>5
<1> HIDE DEF K, L
<1>7. ASSUME NEW l \in DOMAIN c
      PROVE  l \in {e.list : e \in K}
  BY <1>6
<1>8. ASSUME NEW e \in K
      PROVE  e.list \in DOMAIN c
  <2>1. e \in L /\ e.list \in DOMAIN content
    BY <1>6
  <2>2. \A f \in L \ K : f.list # e.list
    BY <1>6, <2>1
  <2> QED
    BY <1>6, <2>1, <2>2
<1>9. DOMAIN c = {e.list : e \in K}
  BY <1>7, <1>8
<1> QED
  BY <1>2, <1>9 DEF K

(* _index leads to the item of the object. *)
LEMMA NodeIsTheItem ==
  ASSUME CacheAssumption, TypeOK, CacheOwnsItsLists, NEW k \in Keys, index[k] # NoList
  PROVE  /\ Node(k) \in 1..Len(lru)
         /\ lru[Node(k)].key = k
         /\ lru[Node(k)].list = index[k]
<1>1. index[k] \in Lists
  BY DEF TypeOK
<1>2. PICK e \in Entries(lru) : e.key = k /\ e.list = index[k]
  BY ZenonT(60), <1>1 DEF CacheOwnsItsLists
<1>3. PICK p \in DOMAIN lru : e = lru[p]
  BY DEF Entries
<1>4. \E q \in DOMAIN lru : lru[q].list = index[k]
  BY <1>2, <1>3
<1>5. Node(k) \in DOMAIN lru /\ lru[Node(k)].list = index[k]
  BY <1>4 DEF Node
<1>6. Node(k) = p
  BY <1>2, <1>3, <1>5 DEF CacheOwnsItsLists
<1>7. DOMAIN lru = 1..Len(lru)
  BY LenProperties DEF TypeOK
<1> QED
  BY <1>2, <1>3, <1>5, <1>6, <1>7

(* What draw() has to compile is not among the kept items. *)
LEMMA NotCachedIsNotKept ==
  ASSUME CacheAssumption, TypeOK, CacheOwnsItsLists, NEW k \in Keys, NotCached(k)
  PROVE  \A e \in Entries(Kept) : e.key # k
<1> SUFFICES ASSUME NEW e \in Entries(Kept), e.key = k
             PROVE  FALSE
  OBVIOUS
<1>1. DOMAIN Kept = 1..Len(Kept) /\ DOMAIN lru = 1..Len(lru) /\ Len(Kept) \in 0..Len(lru)
      /\ Len(lru) \in Nat
  BY KeptIsTheFront, LenProperties DEF TypeOK
<1>2. PICK p \in 1..Len(Kept) : e = Kept[p]
  BY <1>1 DEF Entries
<1>3. p \in DOMAIN lru /\ e = lru[p] /\ e \in Entries(lru)
  BY <1>1, <1>2, KeptIsTheFront, WhatIsFlushed
<1>4. e \in Entry
  BY <1>3, WhatIsFlushed
<1>5. index[k] = e.list /\ e.list \in Lists
  BY <1>3, <1>4 DEF CacheOwnsItsLists, Entry
<1>6. index[k] # NoList
  BY <1>5 DEF CacheAssumption
<1>7. Node(k) \in 1..Len(lru) /\ lru[Node(k)].list = index[k]
  BY <1>6, NodeIsTheItem
<1>8. Node(k) = p
  BY <1>1, <1>3, <1>5, <1>7 DEF CacheOwnsItsLists
<1>9. Node(k) \notin DOMAIN Kept
  BY <1>6 DEF NotCached
<1> QED
  BY <1>1, <1>8, <1>9

(* The items of rest, in the order they have in the list. *)
ComesFrom(rest, from) ==
  /\ from \in [1..Len(rest) -> 1..Len(lru)]
  /\ \A q, r \in 1..Len(rest) : q < r => from[q] < from[r]
  /\ \A q \in 1..Len(rest) : rest[q] = lru[from[q]]

(* The kept items without the one at p. *)
LEMMA KeptWithoutOne ==
  ASSUME CacheAssumption, TypeOK, CacheOwnsItsLists, NEW p \in 1..Len(Kept),
         NEW rest, rest = RemoveAt(Kept, p)
  PROVE  /\ rest \in Seq(Entry)
         /\ Kept[p] \in Entries(lru) /\ Kept[p] \in Entries(Kept) /\ Kept[p] \in Entry
         /\ Entries(rest) = Entries(Kept) \ {Kept[p]}
         /\ \A q \in 1..Len(rest) : rest[q] \in Entries(rest)
         /\ \E from : ComesFrom(rest, from)
<1>1. /\ Kept \in Seq(Entry)
      /\ Len(Kept) \in 0..Len(lru) /\ Len(lru) \in Nat
      /\ DOMAIN Kept = 1..Len(Kept) /\ DOMAIN lru = 1..Len(lru)
      /\ \A q \in 1..Len(Kept) : Kept[q] = lru[q]
  BY KeptIsTheFront, LenProperties DEF TypeOK
<1>2. /\ rest \in Seq(Entry)
      /\ Len(rest) = Len(Kept) - 1
      /\ \A q \in 1..(Len(Kept) - 1) :
           rest[q] = IF q < p THEN Kept[q] ELSE Kept[q + 1]
  BY <1>1, RemoveAtProperties
<1>3. DOMAIN rest = 1..Len(rest)
  BY <1>2, LenProperties
<1>4. \A q \in 1..Len(rest) : rest[q] \in Entries(rest)
  BY <1>3 DEF Entries
<1>5. /\ \A e \in Entries(Kept) : \E q \in 1..Len(Kept) : e = Kept[q]
      /\ \A q \in 1..Len(Kept) : Kept[q] \in Entries(Kept)
      /\ \A e \in Entries(rest) : \E q \in 1..Len(rest) : e = rest[q]
  BY <1>1, <1>3 DEF Entries
<1>6. \A q \in 1..Len(Kept) : Kept[q] = Kept[p] => q = p
  <2> SUFFICES ASSUME NEW q \in 1..Len(Kept), Kept[q] = Kept[p] PROVE q = p
    OBVIOUS
  <2>1. q \in DOMAIN lru /\ p \in DOMAIN lru /\ lru[q].list = lru[p].list
    BY <1>1
  <2> QED
    BY <2>1 DEF CacheOwnsItsLists
<1>7. Entries(rest) = Entries(Kept) \ {Kept[p]}
  <2>1. ASSUME NEW e \in Entries(rest)
        PROVE  e \in Entries(Kept) /\ e # Kept[p]
    <3>1. PICK q \in 1..Len(rest) : e = rest[q]
      BY <1>5
    <3>2. PICK r \in 1..Len(Kept) : r # p /\ e = Kept[r]
      <4>1. CASE q < p
        BY <1>1, <1>2, <3>1, <4>1
      <4>2. CASE ~(q < p)
        <5>1. q + 1 \in 1..Len(Kept) /\ q + 1 # p /\ e = Kept[q + 1]
          BY <1>1, <1>2, <3>1, <4>2
        <5> QED
          BY <5>1
      <4> QED
        BY <4>1, <4>2
    <3> QED
      BY <1>5, <1>6, <3>2
  <2>2. ASSUME NEW e \in Entries(Kept), e # Kept[p]
        PROVE  e \in Entries(rest)
    <3>1. PICK r \in 1..Len(Kept) : e = Kept[r]
      BY <1>5
    <3>2. \E q \in 1..Len(rest) : e = rest[q]
      <4>1. CASE r < p
        <5>1. r \in 1..Len(rest) /\ rest[r] = Kept[r]
          BY <1>1, <1>2, <4>1
        <5> QED
          BY <3>1, <5>1
      <4>2. CASE ~(r < p)
        <5>1. r # p
          BY <2>2, <3>1
        <5>2. PICK q : q = r - 1
          OBVIOUS
        <5>3. q \in 1..Len(rest) /\ ~(q < p) /\ q + 1 = r
          BY <1>1, <1>2, <4>2, <5>1, <5>2
        <5>4. rest[q] = Kept[r]
          BY <1>2, <5>3
        <5> QED
          BY <3>1, <5>3, <5>4
      <4> QED
        BY <4>1, <4>2
    <3> QED
      BY <1>4, <3>2
  <2> QED
    BY <2>1, <2>2
<1>8. Kept[p] \in Entries(lru) /\ Kept[p] \in Entries(Kept) /\ Kept[p] \in Entry
  BY <1>5, WhatIsFlushed
<1>9. \E from : ComesFrom(rest, from)
  <2>1. PICK from : from = [q \in 1..Len(rest) |-> IF q < p THEN q ELSE q + 1]
    OBVIOUS
  <2>2. \A q \in 1..Len(rest) : from[q] = IF q < p THEN q ELSE q + 1
    BY <2>1
  <2>3. \A q \in 1..Len(rest) : from[q] \in 1..Len(Kept) /\ from[q] \in 1..Len(lru)
    BY <1>1, <1>2, <2>2
  <2>4. \A q, r \in 1..Len(rest) : q < r => from[q] < from[r]
    BY <1>1, <1>2, <2>2
  <2>5. ASSUME NEW q \in 1..Len(rest)
        PROVE  rest[q] = lru[from[q]]
    <3>1. rest[q] = Kept[from[q]]
      BY <1>2, <2>2
    <3> QED
      BY <1>1, <2>3, <3>1
  <2>6. from \in [1..Len(rest) -> 1..Len(lru)]
    BY <2>1, <2>3
  <2> QED
    BY <2>4, <2>5, <2>6 DEF ComesFrom
<1> QED
  BY <1>2, <1>4, <1>7, <1>8, <1>9

(* What is lost with the flush is older than the previous frame. *)
LEMMA FlushedAreOld ==
  ASSUME CacheAssumption, TypeOK, CacheOwnsItsLists, NEW e \in Flushed
  PROVE  ~Recent(Age(e))
<1>1. e \in Entry
  BY WhatIsFlushed DEF Flushed
<1>2. Age(e) \in 0..(Modulus - 1) /\ Age(e) > MaxAge
  BY <1>1, AgeIsANumber, WhatIsFlushed DEF TypeOK
<1> QED
  BY <1>2 DEF CacheAssumption, Recent

-----------------------------------------------------------------------------
(* The three ways of draw() to draw with a display list. *)

(* How many frames old an item may be at least when it is recycled. *)
LEMMA RecycledIsOld ==
  ASSUME CacheAssumption, TypeOK, Recycles(Kept)
  PROVE  /\ Len(Kept) \in 1..Len(Kept)
         /\ Last(Kept) = Kept[Len(Kept)]
         /\ ~Recent(Age(Kept[Len(Kept)]))
<1>1. Kept \in Seq(Entry) /\ Len(Kept) \in Nat /\ Kept # <<>>
  BY KeptIsTheFront, LenProperties DEF Recycles
<1>2. Len(Kept) \in 1..Len(Kept)
  <2>1. Len(Kept) # 0
    BY <1>1, EmptySeq
  <2> QED
    BY <1>1, <2>1
<1>3. Last(Kept) = Kept[Len(Kept)]
  BY DEF Last
<1>4. Kept[Len(Kept)] \in Entry
  BY <1>1, <1>2, ElementOfSeq
<1>5. Age(Kept[Len(Kept)]) \in 0..(Modulus - 1)
  BY <1>4, AgeIsANumber DEF TypeOK
<1>6. Age(Last(Kept)) > MinAge \/ Age(Last(Kept)) > 1
  BY DEF Recycles
<1> QED
  BY <1>2, <1>3, <1>5, <1>6 DEF CacheAssumption, Recent

(* Drawing an object that is cached moves its item to the front with a new *)
(* stamp. *)
LEMMA CachedDrawsWith ==
  ASSUME CacheAssumption, IInv, NEW k \in Keys, DrawCached(k)
  PROVE  \E rest, now, from : DrawsWith(rest, now, from)
<1>1. PICK p : p = Node(k)
  OBVIOUS
<1>2. TypeOK /\ CacheOwnsItsLists
  BY DEF IInv
<1>3. DOMAIN Kept = 1..Len(Kept)
  BY <1>2, KeptIsTheFront, LenProperties
<1>4. p \in 1..Len(Kept) /\ index[k] # NoList
  BY <1>1, <1>3 DEF DrawCached
<1>5. Kept[p].key = k /\ Kept[p].list = index[k]
  <2>1. lru[p].key = k /\ lru[p].list = index[k]
    BY <1>1, <1>2, <1>4, NodeIsTheItem
  <2> QED
    BY <1>2, <1>4, <2>1, KeptIsTheFront
<1>6. PICK rest : rest = RemoveAt(Kept, p)
  OBVIOUS
<1>7. PICK e : e = Kept[p]
  OBVIOUS
<1>8. PICK now : now = [e EXCEPT !.stamp = frame]
  OBVIOUS
<1>9. /\ rest \in Seq(Entry) /\ e \in Entries(lru) /\ e \in Entries(Kept) /\ e \in Entry
      /\ Entries(rest) = Entries(Kept) \ {e}
      /\ \A q \in 1..Len(rest) : rest[q] \in Entries(rest)
  BY <1>2, <1>4, <1>6, <1>7, KeptWithoutOne
<1>10. PICK from : ComesFrom(rest, from)
  BY <1>2, <1>4, <1>6, KeptWithoutOne
<1>11. /\ now \in Entry /\ now.key = k /\ now.list = e.list /\ now.stamp = frame
       /\ e.key = k /\ e.list = index[k]
  <2>1. frame \in 0..(Modulus - 1)
    BY <1>2 DEF TypeOK
  <2> QED
    BY <1>5, <1>7, <1>8, <1>9, <2>1 DEF Entry
<1>12. /\ \A f, g \in Entries(lru) : f.list = g.list => f = g
       /\ \A f, g \in Entries(lru) : f.key = g.key => f = g
       /\ Entries(Kept) \subseteq Entries(lru)
       /\ Entries(lru) \subseteq Entry
       /\ Flushed = Entries(lru) \ Entries(Kept)
  BY <1>2, WhatIsFlushed DEF Flushed
<1>13. \A f \in Entries(rest) : f.key # k /\ f.list # now.list
  BY <1>9, <1>11, <1>12
<1>14. \A f \in Entries(lru) : f \notin Entries(rest) => f.key = k \/ ~Recent(Age(f))
  <2> SUFFICES ASSUME NEW f \in Entries(lru), f \notin Entries(rest), f # e
               PROVE  ~Recent(Age(f))
    BY <1>11
  <2>1. f \in Flushed
    BY <1>9, <1>12
  <2> QED
    BY <1>2, <2>1, FlushedAreOld
<1>15. lru' = <<now>> \o rest /\ frame' = frame /\ unused' = [unused EXCEPT ![k] = 0]
  BY <1>1, <1>6, <1>7, <1>8 DEF DrawCached, Touch, Used
<1>16. index' = Unindex({f.key : f \in Flushed})
  BY DEF DrawCached
<1>17. /\ index' \in [Keys -> Lists \cup {NoList}]
       /\ \A f \in Entries(lru) : f \notin Flushed => index'[f.key] = index[f.key]
       /\ \A f \in Flushed : index'[f.key] = NoList
       /\ \A j \in Keys : index[j] = NoList => index'[j] = NoList
  <2>1. PICK gone : gone = {f.key : f \in Flushed}
    OBVIOUS
  <2>2. /\ index' \in [Keys -> Lists \cup {NoList}]
        /\ \A j \in Keys : index'[j] = IF j \in gone THEN NoList ELSE index[j]
    BY <1>2, <1>16, <2>1 DEF Unindex, TypeOK
  <2>3. ASSUME NEW f \in Entries(lru)
        PROVE  f.key \in Keys /\ (f \notin Flushed => f.key \notin gone)
    <3>1. f.key \in Keys
      BY <1>12 DEF Entry
    <3>2. ASSUME f \notin Flushed, f.key \in gone
          PROVE  FALSE
      <4>1. PICK g \in Flushed : g.key = f.key
        BY <2>1, <3>2
      <4> QED
        BY <1>12, <3>2, <4>1
    <3> QED
      BY <3>1, <3>2
  <2>4. \A f \in Flushed : f.key \in gone /\ f.key \in Keys
    BY <1>12, <2>1, <2>3
  <2> QED
    BY <2>2, <2>3, <2>4
<1>18. index'[k] = now.list /\ \A f \in Entries(rest) : index'[f.key] = index[f.key]
  BY <1>9, <1>11, <1>12, <1>17
<1>19. ASSUME NEW j \in Keys, j # k, \A f \in Entries(rest) : f.key # j
       PROVE  index'[j] = NoList
  <2>1. CASE index[j] = NoList
    BY <1>17, <2>1
  <2>2. CASE index[j] # NoList
    <3>1. index[j] \in Lists
      BY <1>2, <2>2 DEF TypeOK
    <3>2. PICK f \in Entries(lru) : f.key = j
      BY <1>2, <3>1 DEF CacheOwnsItsLists
    <3>3. f \in Flushed
      BY <1>9, <1>11, <1>12, <1>19, <3>2
    <3> QED
      BY <1>17, <3>2, <3>3
  <2> QED
    BY <2>1, <2>2
<1>20. DOMAIN content' = {f.list : f \in Entries(rest)} \cup {now.list}
  <2>1. PICK c : c = Delete(content, {f.list : f \in Flushed})
    OBVIOUS
  <2>2. ListsOf(c) /\ DOMAIN c = {f.list : f \in Entries(Kept)}
    BY <1>2, <2>1, AfterTheFlush
  <2>3. content' = Record(c, compiling, Called(k, e.list))
    BY <1>1, <1>7, <2>1 DEF DrawCached
  <2>4. Called(k, e.list) \in Commands
    BY <1>9, CommandsOfDraw DEF Entry
  <2>5. DOMAIN content' = DOMAIN c
    BY <2>2, <2>3, <2>4, RecordProperties
  <2>6. {f.list : f \in Entries(Kept)} = {f.list : f \in Entries(rest)} \cup {e.list}
    BY <1>9
  <2> QED
    BY <1>11, <2>2, <2>5, <2>6
<1>21. DrawsWith(rest, now, from)
  BY <1>9, <1>10, <1>11, <1>13, <1>14, <1>15, <1>17, <1>18, <1>19, <1>20
     DEF DrawsWith, ComesFrom
<1> QED
  BY <1>21

(* Drawing with a recycled list takes the item off the back and puts it in *)
(* front. *)
LEMMA RecycledDrawsWith ==
  ASSUME CacheAssumption, IInv, NEW k \in Keys, DrawRecycled(k)
  PROVE  \E rest, now, from : DrawsWith(rest, now, from)
<1>1. PICK p : p = Len(Kept)
  OBVIOUS
<1>2. TypeOK /\ CacheOwnsItsLists
  BY DEF IInv
<1>3. p \in 1..Len(Kept) /\ Last(Kept) = Kept[p] /\ ~Recent(Age(Kept[p]))
  BY <1>1, <1>2, RecycledIsOld DEF DrawRecycled
<1>4. PICK rest : rest = RemoveAt(Kept, p)
  OBVIOUS
<1>5. PICK e : e = Kept[p]
  OBVIOUS
<1>6. PICK now : now = [key |-> k, list |-> e.list, stamp |-> frame]
  OBVIOUS
<1>7. /\ rest \in Seq(Entry) /\ e \in Entries(lru) /\ e \in Entries(Kept) /\ e \in Entry
      /\ Entries(rest) = Entries(Kept) \ {e}
      /\ \A q \in 1..Len(rest) : rest[q] \in Entries(rest)
  BY <1>2, <1>3, <1>4, <1>5, KeptWithoutOne
<1>8. PICK from : ComesFrom(rest, from)
  <2>1. p \in 1..Len(Kept)
    BY <1>3
  <2> QED
    BY <1>2, <1>4, <2>1, KeptWithoutOne
<1>9. /\ now \in Entry /\ now.key = k /\ now.list = e.list /\ now.stamp = frame
      /\ e.key \in Keys
  <2>1. frame \in 0..(Modulus - 1)
    BY <1>2 DEF TypeOK
  <2> QED
    BY <1>6, <1>7, <2>1 DEF Entry
<1>10. /\ \A f, g \in Entries(lru) : f.list = g.list => f = g
       /\ \A f, g \in Entries(lru) : f.key = g.key => f = g
       /\ Entries(Kept) \subseteq Entries(lru)
       /\ Entries(lru) \subseteq Entry
       /\ Flushed = Entries(lru) \ Entries(Kept)
  BY <1>2, WhatIsFlushed DEF Flushed
<1>11. \A f \in Entries(Kept) : f.key # k
  BY <1>2, NotCachedIsNotKept DEF DrawRecycled
<1>12. \A f \in Entries(rest) : f.key # k /\ f.list # now.list
  BY <1>7, <1>9, <1>10, <1>11
<1>13. \A f \in Entries(lru) : f \notin Entries(rest) => f.key = k \/ ~Recent(Age(f))
  <2> SUFFICES ASSUME NEW f \in Entries(lru), f \notin Entries(rest), f # e
               PROVE  ~Recent(Age(f))
    BY <1>3, <1>5
  <2>1. f \in Flushed
    BY <1>7, <1>10
  <2> QED
    BY <1>2, <2>1, FlushedAreOld
<1>14. lru' = <<now>> \o rest /\ frame' = frame /\ unused' = [unused EXCEPT ![k] = 0]
  BY <1>1, <1>3, <1>4, <1>5, <1>6 DEF DrawRecycled, Touch, Used
<1>15. index' = [Unindex({f.key : f \in Flushed} \cup {e.key}) EXCEPT ![k] = e.list]
  BY <1>1, <1>3, <1>5 DEF DrawRecycled
<1>16. /\ index' \in [Keys -> Lists \cup {NoList}]
       /\ index'[k] = e.list
       /\ \A f \in Entries(lru) :
            f \notin Flushed /\ f # e /\ f.key # k => index'[f.key] = index[f.key]
       /\ \A f \in Flushed : f.key # k => index'[f.key] = NoList
       /\ e.key # k /\ index'[e.key] = NoList
       /\ \A j \in Keys : j # k /\ index[j] = NoList => index'[j] = NoList
  <2>1. PICK gone : gone = {f.key : f \in Flushed} \cup {e.key}
    OBVIOUS
  <2>2. index' = [Unindex(gone) EXCEPT ![k] = e.list]
    BY <1>15, <2>1
  <2>3. /\ Unindex(gone) \in [Keys -> Lists \cup {NoList}]
        /\ \A j \in Keys : Unindex(gone)[j] = IF j \in gone THEN NoList ELSE index[j]
    BY <1>2 DEF Unindex, TypeOK
  <2>4. e.list \in Lists /\ e.key # k
    BY <1>7, <1>11 DEF Entry
  <2>5. /\ index' \in [Keys -> Lists \cup {NoList}]
        /\ \A j \in Keys : index'[j] = IF j = k THEN e.list
                                       ELSE IF j \in gone THEN NoList ELSE index[j]
    BY <2>2, <2>3, <2>4
  <2>6. ASSUME NEW f \in Entries(lru), f \notin Flushed, f # e
        PROVE  f.key \notin gone
    <3>1. \A g \in Flushed : g.key # f.key
      BY <1>10, <2>6
    <3>2. e.key # f.key
      BY <1>7, <1>10, <2>6
    <3> QED
      BY <2>1, <3>1, <3>2
  <2>7. \A f \in Entries(lru) : f.key \in Keys
    BY <1>10 DEF Entry
  <2>8. \A f \in Flushed : f.key \in gone /\ f.key \in Keys
    BY <1>10, <2>1, <2>7
  <2>9. e.key \in gone
    BY <2>1
  <2> QED
    BY <1>9, <2>4, <2>5, <2>6, <2>7, <2>8, <2>9
<1>17. index'[k] = now.list /\ \A f \in Entries(rest) : index'[f.key] = index[f.key]
  BY <1>7, <1>9, <1>10, <1>12, <1>16
<1>18. ASSUME NEW j \in Keys, j # k, \A f \in Entries(rest) : f.key # j
       PROVE  index'[j] = NoList
  <2>1. CASE index[j] = NoList
    BY <1>16, <1>18, <2>1
  <2>2. CASE index[j] # NoList
    <3>1. index[j] \in Lists
      BY <1>2, <2>2 DEF TypeOK
    <3>2. PICK f \in Entries(lru) : f.key = j
      BY <1>2, <3>1 DEF CacheOwnsItsLists
    <3>3. f \in Flushed \/ f = e
      BY <1>7, <1>10, <1>18, <3>2
    <3> QED
      BY <1>16, <1>18, <3>2, <3>3
  <2> QED
    BY <2>1, <2>2
<1>19. DOMAIN content' = {f.list : f \in Entries(rest)} \cup {now.list}
  <2>1. PICK c : c = Delete(content, {f.list : f \in Flushed})
    OBVIOUS
  <2>2. ListsOf(c) /\ DOMAIN c = {f.list : f \in Entries(Kept)}
    BY <1>2, <2>1, AfterTheFlush
  <2>3. Compile(k, e.list, c)
    BY <1>1, <1>3, <1>5, <2>1 DEF DrawRecycled
  <2>4. PICK d : d = IF compiling = NoList THEN [c EXCEPT ![e.list] = <<>>] ELSE c
    OBVIOUS
  <2>5. DOMAIN d = DOMAIN c /\ ListsOf(d)
    BY <2>2, <2>4 DEF ListsOf
  <2>6. content' = Record(d, compiling', Drawn(k))
    BY <2>3, <2>4 DEF Compile
  <2>7. Drawn(k) \in Commands
    BY <1>7, CommandsOfDraw DEF Entry
  <2>8. DOMAIN content' = DOMAIN c
    BY <2>5, <2>6, <2>7, RecordProperties
  <2>9. {f.list : f \in Entries(Kept)} = {f.list : f \in Entries(rest)} \cup {e.list}
    BY <1>7
  <2> QED
    BY <1>9, <2>2, <2>8, <2>9
<1>20. DrawsWith(rest, now, from)
  BY <1>7, <1>8, <1>9, <1>12, <1>13, <1>14, <1>16, <1>17, <1>18, <1>19
     DEF DrawsWith, ComesFrom
<1> QED
  BY <1>20

(* Drawing with a new list puts an item in front of all others. *)
LEMMA NewDrawsWith ==
  ASSUME CacheAssumption, IInv, NEW k \in Keys, DrawNew(k)
  PROVE  \E rest, now, from : DrawsWith(rest, now, from)
<1>1. TypeOK /\ CacheOwnsItsLists
  BY DEF IInv
<1>2. PICK c : c = Delete(content, {f.list : f \in Flushed})
  OBVIOUS
<1>3. PICK l \in Lists \ DOMAIN c :
        /\ lru' = <<[key |-> k, list |-> l, stamp |-> frame]>> \o Kept
        /\ index' = [Unindex({f.key : f \in Flushed}) EXCEPT ![k] = l]
        /\ Compile(k, l, [m \in DOMAIN c \cup {l} |-> IF m = l THEN <<>> ELSE c[m]])
  BY <1>2 DEF DrawNew
<1>4. PICK rest : rest = Kept
  OBVIOUS
<1>5. PICK now : now = [key |-> k, list |-> l, stamp |-> frame]
  OBVIOUS
<1>6. /\ rest \in Seq(Entry)
      /\ Len(rest) \in 0..Len(lru) /\ Len(lru) \in Nat
      /\ DOMAIN rest = 1..Len(rest)
      /\ \A q \in 1..Len(rest) : rest[q] = lru[q]
  BY <1>1, <1>4, KeptIsTheFront, LenProperties DEF TypeOK
<1>7. \A q \in 1..Len(rest) : rest[q] \in Entries(rest)
  BY <1>6 DEF Entries
<1>8. PICK from : ComesFrom(rest, from)
  <2>1. PICK same : same = [q \in 1..Len(rest) |-> q]
    OBVIOUS
  <2>2. same \in [1..Len(rest) -> 1..Len(lru)]
    BY <1>6, <2>1
  <2>3. \A q, r \in 1..Len(rest) : q < r => same[q] < same[r]
    BY <2>1
  <2>4. \A q \in 1..Len(rest) : rest[q] = lru[same[q]]
    BY <1>6, <2>1
  <2>5. ComesFrom(rest, same)
    BY <2>2, <2>3, <2>4 DEF ComesFrom
  <2> QED
    BY <2>5
<1>9. now \in Entry /\ now.key = k /\ now.list = l /\ now.stamp = frame
  <2>1. frame \in 0..(Modulus - 1)
    BY <1>1 DEF TypeOK
  <2> QED
    BY <1>3, <1>5, <2>1 DEF Entry
<1>10. /\ \A f, g \in Entries(lru) : f.key = g.key => f = g
       /\ Entries(rest) \subseteq Entries(lru)
       /\ Entries(lru) \subseteq Entry
       /\ Flushed = Entries(lru) \ Entries(rest)
  BY <1>1, <1>4, WhatIsFlushed DEF Flushed
<1>11. ListsOf(c) /\ DOMAIN c = {f.list : f \in Entries(rest)}
  BY <1>1, <1>2, <1>4, AfterTheFlush
<1>12. \A f \in Entries(rest) : f.key # k /\ f.list # now.list
  <2>1. \A f \in Entries(rest) : f.key # k
    BY <1>1, <1>4, NotCachedIsNotKept DEF DrawNew
  <2>2. \A f \in Entries(rest) : f.list # l
    BY <1>3, <1>11
  <2> QED
    BY <1>9, <2>1, <2>2
<1>13. \A f \in Entries(lru) : f \notin Entries(rest) => f.key = k \/ ~Recent(Age(f))
  BY <1>1, <1>10, FlushedAreOld
<1>14. lru' = <<now>> \o rest /\ frame' = frame /\ unused' = [unused EXCEPT ![k] = 0]
  BY <1>3, <1>4, <1>5 DEF DrawNew, Used
<1>15. /\ index' \in [Keys -> Lists \cup {NoList}]
       /\ index'[k] = now.list
       /\ \A f \in Entries(rest) : index'[f.key] = index[f.key]
       /\ \A j \in Keys : j # k /\ index[j] = NoList => index'[j] = NoList
       /\ \A f \in Flushed : f.key # k => index'[f.key] = NoList
  <2>1. PICK gone : gone = {f.key : f \in Flushed}
    OBVIOUS
  <2>2. index' = [Unindex(gone) EXCEPT ![k] = l]
    BY <1>3, <2>1
  <2>3. /\ Unindex(gone) \in [Keys -> Lists \cup {NoList}]
        /\ \A j \in Keys : Unindex(gone)[j] = IF j \in gone THEN NoList ELSE index[j]
    BY <1>1 DEF Unindex, TypeOK
  <2>4. /\ index' \in [Keys -> Lists \cup {NoList}]
        /\ \A j \in Keys : index'[j] = IF j = k THEN l
                                       ELSE IF j \in gone THEN NoList ELSE index[j]
    BY <1>3, <2>2, <2>3
  <2>5. ASSUME NEW f \in Entries(rest)
        PROVE  f.key \in Keys /\ f.key # k /\ f.key \notin gone
    <3>1. f.key \in Keys /\ f.key # k /\ f \notin Flushed
      BY <1>10, <1>12 DEF Entry
    <3>2. \A g \in Flushed : g.key # f.key
      BY <1>10, <3>1
    <3> QED
      BY <2>1, <3>1, <3>2
  <2>6. \A f \in Flushed : f.key \in gone /\ f.key \in Keys
    BY <1>10, <2>1 DEF Entry
  <2> QED
    BY <1>9, <2>4, <2>5, <2>6
<1>16. ASSUME NEW j \in Keys, j # k, \A f \in Entries(rest) : f.key # j
       PROVE  index'[j] = NoList
  <2>1. CASE index[j] = NoList
    BY <1>15, <1>16, <2>1
  <2>2. CASE index[j] # NoList
    <3>1. index[j] \in Lists
      BY <1>1, <2>2 DEF TypeOK
    <3>2. PICK f \in Entries(lru) : f.key = j
      BY <1>1, <3>1 DEF CacheOwnsItsLists
    <3>3. f \in Flushed
      BY <1>10, <1>16, <3>2
    <3> QED
      BY <1>15, <1>16, <3>2, <3>3
  <2> QED
    BY <2>1, <2>2
<1>17. DOMAIN content' = {f.list : f \in Entries(rest)} \cup {now.list}
  <2>1. PICK b : b = [m \in DOMAIN c \cup {l} |-> IF m = l THEN <<>> ELSE c[m]]
    OBVIOUS
  <2>2. Compile(k, l, b)
    BY <1>3, <2>1
  <2>3. DOMAIN b = DOMAIN c \cup {l} /\ ListsOf(b)
    BY <1>3, <1>11, <2>1 DEF ListsOf
  <2>4. PICK d : d = IF compiling = NoList THEN [b EXCEPT ![l] = <<>>] ELSE b
    OBVIOUS
  <2>5. DOMAIN d = DOMAIN b /\ ListsOf(d)
    BY <2>3, <2>4 DEF ListsOf
  <2>6. content' = Record(d, compiling', Drawn(k))
    BY <2>2, <2>4 DEF Compile
  <2>7. Drawn(k) \in Commands
    BY <1>3, CommandsOfDraw
  <2>8. DOMAIN content' = DOMAIN b
    BY <2>5, <2>6, <2>7, RecordProperties
  <2> QED
    BY <1>9, <1>11, <2>3, <2>8
<1>18. \A q \in 1..Len(rest) : rest[q].key # now.key /\ rest[q].list # now.list
  BY <1>7, <1>9, <1>12
<1>19. DrawsWith(rest, now, from)
  BY <1>6, <1>8, <1>9, <1>13, <1>14, <1>15, <1>16, <1>17, <1>18
     DEF DrawsWith, ComesFrom
<1> QED
  BY <1>19

-----------------------------------------------------------------------------
(* The types of the calls in progress and of the contents. *)

Calls == [list : Lists \cup {NoList}, todo : Seq(Keys)]

(* The stack of calls keeps its type when the caller notes what it draws. *)
LEMMA CallerIsACall ==
  ASSUME CacheAssumption, TypeOK, NEW k \in Keys, MayDraw(k)
  PROVE  Caller \in Seq(Calls)
<1>1. stack \in Seq(Calls)
  BY DEF TypeOK, Calls
<1>2. CASE stack = <<>>
  BY <1>2 DEF Caller
<1>3. CASE stack # <<>>
  <2>1. Head(stack) \in Calls /\ Tail(stack) \in Seq(Calls)
    BY <1>1, <1>3, HeadTailProperties
  <2>2. Head(stack).todo # <<>> /\ Head(stack).todo \in Seq(Keys)
    BY <1>3, <2>1 DEF MayDraw, Calls
  <2>3. Tail(Head(stack).todo) \in Seq(Keys)
    BY <2>2, HeadTailProperties
  <2>4. PICK top : top = [Head(stack) EXCEPT !.todo = Tail(@)]
    OBVIOUS
  <2>5. top \in Calls
    BY <2>1, <2>3, <2>4 DEF Calls
  <2>6. Caller = <<top>> \o Tail(stack)
    BY <1>3, <2>4 DEF Caller
  <2> QED
    BY <2>1, <2>5, <2>6, InFront
<1> QED
  BY <1>2, <1>3

(* The stack of calls keeps its type when OnDraw is entered. *)
LEMMA EnteredIsACall ==
  ASSUME CacheAssumption, TypeOK, NEW k \in Keys, MayDraw(k),
         NEW l \in Lists \cup {NoList}, EnterOnDraw(k, l)
  PROVE  stack' \in Seq(Calls)
<1>1. PICK s : s = Caller
  OBVIOUS
<1>2. s \in Seq(Calls)
  BY <1>1, CallerIsACall
<1>3. PICK call : call = [list |-> l, todo |-> IF nested THEN Parts[k] ELSE <<>>]
  OBVIOUS
<1>4. PICK todo : todo = IF nested THEN Parts[k] ELSE <<>>
  OBVIOUS
<1>5. todo \in Seq(Keys)
  <2>1. Parts[k] \in Seq(Keys) /\ <<>> \in Seq(Keys)
    BY DEF CacheAssumption
  <2> QED
    BY <1>4, <2>1
<1>6. call \in Calls
  BY <1>3, <1>4, <1>5 DEF Calls
<1>7. stack' = <<call>> \o s
  BY <1>1, <1>3 DEF EnterOnDraw
<1> QED
  BY <1>2, <1>6, <1>7, InFront

(* Whatever list is compiled, its contents are commands. *)
LEMMA CompileKeepsTheTypes ==
  ASSUME CacheAssumption, TypeOK, NEW k \in Keys, NEW l \in Lists, NEW c, ListsOf(c),
         Compile(k, l, c)
  PROVE  ListsOf(content)' /\ compiling' \in Lists \cup {NoList}
<1>1. compiling' \in Lists \cup {NoList}
  BY DEF Compile, TypeOK
<1>2. PICK d : d = IF compiling = NoList THEN [c EXCEPT ![l] = <<>>] ELSE c
  OBVIOUS
<1>3. ListsOf(d)
  <2>1. CASE compiling = NoList
    <3>1. d = [c EXCEPT ![l] = <<>>]
      BY <1>2, <2>1
    <3>2. DOMAIN d = DOMAIN c /\ \A m \in DOMAIN d : d[m] = IF m = l THEN <<>> ELSE c[m]
      BY <3>1
    <3>3. \A m \in DOMAIN d : d[m] = <<>> \/ d[m] = c[m]
      BY <3>2
    <3>4. <<>> \in Seq(Commands)
      OBVIOUS
    <3> QED
      BY <3>2, <3>3, <3>4 DEF ListsOf
  <2>2. CASE compiling # NoList
    BY <1>2, <2>2
  <2> QED
    BY <2>1, <2>2
<1>4. content' = Record(d, compiling', Drawn(k)) /\ Drawn(k) \in Commands
  BY <1>2, CommandsOfDraw DEF Compile
<1>5. PICK e : e = Record(d, compiling', Drawn(k))
  OBVIOUS
<1>6. ListsOf(e)
  BY <1>3, <1>4, <1>5, RecordProperties
<1> QED
  BY <1>1, <1>4, <1>5, <1>6 DEF ListsOf

(* The types of the list and of what follows it, for a draw with a list. *)
LEMMA DrawKeepsTheTypes ==
  ASSUME CacheAssumption, IInv, NEW rest, NEW now, NEW from, DrawsWith(rest, now, from),
         UNCHANGED <<enable, nested>>,
         stack' \in Seq(Calls), ListsOf(content)', compiling' \in Lists \cup {NoList}
  PROVE  TypeOK'
<1>1. lru' \in Seq(Entry)
  BY TheNewList
<1>2. unused' \in [Keys -> 0..Modulus]
  <2>1. now.key \in Keys /\ unused \in [Keys -> 0..Modulus] /\ 0 \in 0..Modulus
    BY DEF DrawsWith, Entry, IInv, TypeOK, CacheAssumption
  <2>2. unused' = [unused EXCEPT ![now.key] = 0]
    BY DEF DrawsWith
  <2> QED
    BY <2>1, <2>2
<1>3. frame' \in 0..(Modulus - 1) /\ index' \in [Keys -> Lists \cup {NoList}]
  BY DEF DrawsWith, IInv, TypeOK
<1>4. enable' \in BOOLEAN /\ nested' \in BOOLEAN
  BY DEF IInv, TypeOK
<1> QED
  BY <1>1, <1>2, <1>3, <1>4 DEF TypeOK, Calls, ListsOf

-----------------------------------------------------------------------------
(* Every action keeps the invariant. *)

(* What a draw with a list has in common. *)
LEMMA DrawKeepsInvariant ==
  ASSUME CacheAssumption, IInv, \E rest, now, from : DrawsWith(rest, now, from),
         UNCHANGED <<enable, nested>>,
         stack' \in Seq(Calls), ListsOf(content)', compiling' \in Lists \cup {NoList}
  PROVE  IInv'
<1>1. PICK rest, now, from : DrawsWith(rest, now, from)
  OBVIOUS
<1>2. TypeOK'
  BY <1>1, DrawKeepsTheTypes
<1>3. CacheOwnsItsLists'
  BY <1>1, DrawKeepsTheBooks
<1>4. OldestAtTheBack'
  BY <1>1, DrawKeepsTheOrder
<1>5. PreviousFrameStays'
  BY <1>1, DrawKeepsThePreviousFrame
<1> QED
  BY <1>2, <1>3, <1>4, <1>5 DEF IInv

(* draw() of a cached object preserves the invariant. *)
LEMMA CachedKeepsInvariant ==
  ASSUME CacheAssumption, IInv, NEW k \in Keys, DrawCached(k)
  PROVE  IInv'
<1>1. TypeOK /\ CacheOwnsItsLists
  BY DEF IInv
<1>2. \E rest, now, from : DrawsWith(rest, now, from)
  BY CachedDrawsWith
<1>3. stack' \in Seq(Calls)
  BY <1>1, CallerIsACall DEF DrawCached
<1>4. ListsOf(content)'
  <2>1. PICK c : c = Delete(content, {f.list : f \in Flushed})
    OBVIOUS
  <2>2. ListsOf(c)
    BY <1>1, <2>1, AfterTheFlush
  <2>3. PICK l : l = Kept[Node(k)].list
    OBVIOUS
  <2>4. l \in Lists
    <3>1. DOMAIN Kept = 1..Len(Kept) /\ Kept \in Seq(Entry)
      BY <1>1, KeptIsTheFront, LenProperties
    <3>2. Node(k) \in 1..Len(Kept)
      BY <3>1 DEF DrawCached
    <3>3. Kept[Node(k)] \in Entry
      BY <3>1, <3>2, ElementOfSeq
    <3> QED
      BY <2>3, <3>3 DEF Entry
  <2>5. Called(k, l) \in Commands
    BY <2>4, CommandsOfDraw
  <2>6. content' = Record(c, compiling, Called(k, l))
    BY <2>1, <2>3 DEF DrawCached
  <2>7. PICK e : e = Record(c, compiling, Called(k, l))
    OBVIOUS
  <2>8. ListsOf(e)
    BY <2>2, <2>5, <2>7, RecordProperties
  <2> QED
    BY <2>6, <2>7, <2>8 DEF ListsOf
<1>5. UNCHANGED <<enable, nested, compiling>>
  BY DEF DrawCached
<1>6. compiling' \in Lists \cup {NoList}
  BY <1>1, <1>5 DEF TypeOK
<1> QED
  BY <1>2, <1>3, <1>4, <1>5, <1>6, DrawKeepsInvariant

(* draw() with a recycled list preserves the invariant. *)
LEMMA RecycledKeepsInvariant ==
  ASSUME CacheAssumption, IInv, NEW k \in Keys, DrawRecycled(k)
  PROVE  IInv'
<1>1. TypeOK /\ CacheOwnsItsLists
  BY DEF IInv
<1>2. \E rest, now, from : DrawsWith(rest, now, from)
  BY RecycledDrawsWith
<1>3. PICK c : c = Delete(content, {f.list : f \in Flushed})
  OBVIOUS
<1>4. ListsOf(c)
  BY <1>1, <1>3, AfterTheFlush
<1>5. PICK l : l = Last(Kept).list
  OBVIOUS
<1>6. l \in Lists
  <2>1. Len(Kept) \in 1..Len(Kept) /\ Last(Kept) = Kept[Len(Kept)]
    BY <1>1, RecycledIsOld DEF DrawRecycled
  <2>2. Kept \in Seq(Entry)
    BY <1>1, KeptIsTheFront
  <2>3. Kept[Len(Kept)] \in Entry
    BY <2>1, <2>2, ElementOfSeq
  <2> QED
    BY <1>5, <2>1, <2>3 DEF Entry
<1>7. Compile(k, l, c) /\ MayDraw(k) /\ UNCHANGED <<enable, nested>>
  BY <1>3, <1>5 DEF DrawRecycled
<1>8. ListsOf(content)' /\ compiling' \in Lists \cup {NoList}
  BY <1>1, <1>4, <1>6, <1>7, CompileKeepsTheTypes
<1>9. stack' \in Seq(Calls)
  <2>1. EnterOnDraw(k, l) /\ l \in Lists \cup {NoList}
    BY <1>6, <1>7 DEF Compile
  <2> QED
    BY <1>1, <1>7, <2>1, EnteredIsACall
<1> QED
  BY <1>2, <1>7, <1>8, <1>9, DrawKeepsInvariant

(* draw() with a new list preserves the invariant. *)
LEMMA NewKeepsInvariant ==
  ASSUME CacheAssumption, IInv, NEW k \in Keys, DrawNew(k)
  PROVE  IInv'
<1>1. TypeOK /\ CacheOwnsItsLists
  BY DEF IInv
<1>2. \E rest, now, from : DrawsWith(rest, now, from)
  BY NewDrawsWith
<1>3. PICK c : c = Delete(content, {f.list : f \in Flushed})
  OBVIOUS
<1>4. ListsOf(c)
  BY <1>1, <1>3, AfterTheFlush
<1>5. PICK l \in Lists \ DOMAIN c :
        Compile(k, l, [m \in DOMAIN c \cup {l} |-> IF m = l THEN <<>> ELSE c[m]])
  BY <1>3 DEF DrawNew
<1>6. PICK b : b = [m \in DOMAIN c \cup {l} |-> IF m = l THEN <<>> ELSE c[m]]
  OBVIOUS
<1>7. ListsOf(b)
  BY <1>4, <1>5, <1>6 DEF ListsOf
<1>8. Compile(k, l, b) /\ MayDraw(k) /\ UNCHANGED <<enable, nested>>
  BY <1>5, <1>6 DEF DrawNew
<1>9. ListsOf(content)' /\ compiling' \in Lists \cup {NoList}
  BY <1>1, <1>7, <1>8, CompileKeepsTheTypes
<1>10. stack' \in Seq(Calls)
  <2>1. EnterOnDraw(k, l) /\ l \in Lists \cup {NoList}
    BY <1>8 DEF Compile
  <2> QED
    BY <1>1, <1>8, <2>1, EnteredIsACall
<1> QED
  BY <1>2, <1>8, <1>9, <1>10, DrawKeepsInvariant

(* clear() deletes every list, the item of each and its place in the index. *)
LEMMA ClearKeepsInvariant ==
  ASSUME CacheAssumption, IInv, ClearCache, ListsOf(content)',
         DOMAIN content' = DOMAIN ClearedAll(content),
         UNCHANGED <<enable, nested, compiling>>, stack' \in Seq(Calls)
  PROVE  IInv'
<1>1. TypeOK'
  <2>1. TypeOK
    BY DEF IInv
  <2>2. frame' \in 0..(Modulus - 1)
    BY <2>1 DEF ClearCache, TypeOK, CacheAssumption
  <2>3. unused' \in [Keys -> 0..Modulus] /\ index' \in [Keys -> Lists \cup {NoList}]
    BY DEF ClearCache, CacheAssumption
  <2>4. lru' \in Seq(Entry)
    BY DEF ClearCache
  <2>5. enable' \in BOOLEAN /\ nested' \in BOOLEAN /\ compiling' \in Lists \cup {NoList}
    BY <2>1 DEF TypeOK
  <2> QED
    BY <2>2, <2>3, <2>4, <2>5 DEF TypeOK, Calls, ListsOf
<1>2. Entries(lru)' = {} /\ DOMAIN lru' = {} /\ \A k \in Keys : index'[k] = NoList
  BY DEF ClearCache, Entries
<1>3. DOMAIN content' = {}
  <2>1. DOMAIN ClearedAll(content) = DOMAIN content \ {e.list : e \in Entries(lru)}
    BY DEF ClearedAll, Delete
  <2> QED
    BY <2>1 DEF IInv, CacheOwnsItsLists
<1>4. CacheOwnsItsLists'
  <2>1. {e.list : e \in Entries(lru)'} = DOMAIN content'
    BY <1>2, <1>3
  <2>2. \A k \in Keys, l \in Lists : index'[k] # l
    BY <1>2 DEF CacheAssumption
  <2> QED
    BY <1>2, <2>1, <2>2 DEF CacheOwnsItsLists
<1>5. OldestAtTheBack'
  BY <1>2 DEF OldestAtTheBack
<1>6. PreviousFrameStays'
  <2>1. \A k \in Keys : unused'[k] = Modulus
    BY DEF ClearCache
  <2> QED
    BY <2>1 DEF PreviousFrameStays, Recent, CacheAssumption
<1> QED
  BY <1>1, <1>4, <1>5, <1>6 DEF IInv

(* With the next frame every item is one frame older. *)
LEMMA NextFrameKeepsInvariant ==
  ASSUME CacheAssumption, IInv, NextFrame
  PROVE  IInv'
<1>1. /\ TypeOK /\ CacheOwnsItsLists /\ OldestAtTheBack /\ PreviousFrameStays
      /\ UNCHANGED <<lru, index, enable, nested, stack, content, compiling>>
      /\ unused' = [k \in Keys |-> IF unused[k] < Modulus THEN unused[k] + 1 ELSE Modulus]
  BY DEF IInv, NextFrame, glVars
<1>2. Modulus \in Nat \ {0} /\ Modulus >= 2 /\ frame \in 0..(Modulus - 1)
  BY <1>1 DEF CacheAssumption, TypeOK
<1>3. unused \in [Keys -> 0..Modulus] /\ Entries(lru) \subseteq Entry
  BY <1>1, WhatIsFlushed DEF TypeOK
<1>4. \A k \in Keys : /\ unused'[k] \in 0..Modulus
                      /\ unused[k] < Modulus => unused'[k] = unused[k] + 1
                      /\ unused'[k] > 0
                      /\ Recent(unused'[k]) => Recent(unused[k])
  <2> SUFFICES ASSUME NEW k \in Keys
               PROVE  /\ unused'[k] \in 0..Modulus
                      /\ unused[k] < Modulus => unused'[k] = unused[k] + 1
                      /\ unused'[k] > 0
                      /\ Recent(unused'[k]) => Recent(unused[k])
    OBVIOUS
  <2>1. unused[k] \in 0..Modulus
    BY <1>3
  <2>2. unused'[k] = IF unused[k] < Modulus THEN unused[k] + 1 ELSE Modulus
    BY <1>1
  <2>3. Modulus \in Nat /\ MinAge \in Nat /\ MaxAge \in Nat
    BY DEF CacheAssumption
  <2>4. unused[k] <= unused'[k] /\ unused'[k] \in 0..Modulus
    BY <2>1, <2>2, <2>3
  <2> QED
    BY <1>2, <2>1, <2>2, <2>3, <2>4 DEF Recent
<1>5. ASSUME NEW e \in Entries(lru)
      PROVE  /\ Age(e) \in 0..(Modulus - 1) /\ Age(e) < Modulus - 1
             /\ Age(e)' = Age(e) + 1
  <2>1. e \in Entry /\ e.stamp \in 0..(Modulus - 1) /\ Age(e) < Modulus - 1
    BY <1>3 DEF Entry, NextFrame
  <2>2. Age(e) \in 0..(Modulus - 1)
    BY <1>2, <2>1, AgeIsANumber
  <2>3. frame' = (frame + 1) % Modulus
    BY DEF NextFrame
  <2>4. Age(e)' = (frame' + Modulus - e.stamp) % Modulus
    BY DEF Age
  <2>5. (((frame + 1) % Modulus) + Modulus - e.stamp) % Modulus
          = ((frame + Modulus - e.stamp) % Modulus) + 1
    BY <1>2, <2>1, OneFrameOlder DEF Age
  <2> QED
    BY <2>1, <2>2, <2>3, <2>4, <2>5 DEF Age
<1>6. TypeOK'
  <2>1. frame' \in 0..(Modulus - 1)
    <3>1. frame + 1 \in Nat /\ frame' = (frame + 1) % Modulus
      BY <1>2 DEF NextFrame
    <3> QED
      BY <1>2, <3>1
  <2>2. unused' \in [Keys -> 0..Modulus]
    BY <1>1, <1>4
  <2> QED
    BY <1>1, <2>1, <2>2 DEF TypeOK
<1>7. CacheOwnsItsLists'
  BY <1>1 DEF CacheOwnsItsLists, Entries
<1>8. OldestAtTheBack'
  <2>1. ASSUME NEW e \in Entries(lru)
        PROVE  Age(e)' = unused'[e.key]
    <3>1. Age(e) = unused[e.key] /\ e.key \in Keys
      BY <1>1, <1>3 DEF OldestAtTheBack, Entry
    <3>2. unused[e.key] < Modulus
      BY <1>2, <1>5, <3>1
    <3> QED
      BY <1>4, <1>5, <3>1, <3>2
  <2>2. ASSUME NEW p \in DOMAIN lru, NEW q \in DOMAIN lru, p < q
        PROVE  Age(lru[p])' <= Age(lru[q])'
    <3>1. lru[p] \in Entries(lru) /\ lru[q] \in Entries(lru)
      BY DEF Entries
    <3>2. Age(lru[p]) <= Age(lru[q])
      BY <1>1, <2>2 DEF OldestAtTheBack
    <3>3. PICK x \in Entries(lru) : x = lru[p]
      BY <3>1
    <3>4. PICK y \in Entries(lru) : y = lru[q]
      BY <3>1
    <3>5. Age(x)' <= Age(y)'
      BY <1>2, <1>5, <3>2, <3>3, <3>4
    <3>6. Age(lru[p])' = Age(x)' /\ Age(lru[q])' = Age(y)'
      BY <1>1, <3>3, <3>4 DEF Age
    <3> QED
      BY <3>5, <3>6
  <2>3. Entries(lru)' = Entries(lru) /\ DOMAIN lru' = DOMAIN lru
    BY <1>1 DEF Entries
  <2> QED
    BY <2>1, <2>2, <2>3 DEF OldestAtTheBack
<1>9. PreviousFrameStays'
  BY <1>1, <1>4 DEF PreviousFrameStays
<1> QED
  BY <1>6, <1>7, <1>8, <1>9 DEF IInv

(* The cache starts empty. *)
LEMMA InitInvariant ==
  ASSUME CacheAssumption, Init
  PROVE  IInv
<1>1. TypeOK
  BY DEF Init, TypeOK, CacheAssumption
<1>2. Entries(lru) = {} /\ DOMAIN lru = {}
  BY DEF Init, Entries
<1>3. CacheOwnsItsLists
  <2>1. DOMAIN content = {}
    BY DEF Init
  <2>2. \A k \in Keys, l \in Lists : index[k] # l
    BY DEF Init, CacheAssumption
  <2> QED
    BY <1>2, <2>1, <2>2 DEF CacheOwnsItsLists
<1>4. OldestAtTheBack
  BY <1>2 DEF OldestAtTheBack
<1>5. PreviousFrameStays
  BY DEF Init, PreviousFrameStays, Recent, CacheAssumption
<1> QED
  BY <1>1, <1>3, <1>4, <1>5 DEF IInv

(* The actions that leave the list, the index, the lists and the frame alone. *)
LEMMA BooksUntouched ==
  ASSUME IInv, TypeOK', UNCHANGED <<lru, index, frame, unused>>,
         DOMAIN content' = DOMAIN content
  PROVE  IInv'
<1>1. CacheOwnsItsLists'
  BY DEF IInv, CacheOwnsItsLists, Entries
<1>2. OldestAtTheBack'
  BY DEF IInv, OldestAtTheBack, Entries, Age
<1>3. PreviousFrameStays'
  BY DEF IInv, PreviousFrameStays
<1> QED
  BY <1>1, <1>2, <1>3 DEF IInv

(* Every step keeps the invariant. *)
LEMMA NextInvariant ==
  ASSUME CacheAssumption, IInv, [Next]_vars
  PROVE  IInv'
<1>1. TypeOK
  BY DEF IInv
<1>2. ASSUME NEW k \in Keys, DrawDisabled(k)
      PROVE  IInv'
  <2>1. ListsOf(content)
    BY <1>1 DEF TypeOK, ListsOf
  <2>2. PICK c : c = ClearedAll(content)
    OBVIOUS
  <2>3. ListsOf(c)
    BY <2>1, <2>2, DeleteProperties DEF ClearedAll
  <2>4. content' = Record(c, compiling, Drawn(k)) /\ Drawn(k) \in Commands
    BY <1>2, <2>2 DEF DrawDisabled, Drawn, Commands
  <2>5. PICK d : d = Record(c, compiling, Drawn(k))
    OBVIOUS
  <2>6. DOMAIN d = DOMAIN c /\ ListsOf(d)
    BY <2>3, <2>4, <2>5, RecordProperties
  <2>7. ListsOf(content)' /\ DOMAIN content' = DOMAIN ClearedAll(content)
    BY <2>2, <2>4, <2>5, <2>6 DEF ListsOf
  <2>8. MayDraw(k) /\ EnterOnDraw(k, NoList) /\ ClearCache
        /\ UNCHANGED <<enable, nested, compiling>>
    BY <1>2 DEF DrawDisabled
  <2>9. stack' \in Seq(Calls)
    BY <1>1, <2>8, EnteredIsACall
  <2> QED
    BY <2>7, <2>8, <2>9, ClearKeepsInvariant
<1>3. ASSUME NEW k \in Keys, DrawCached(k)
      PROVE  IInv'
  BY <1>3, CachedKeepsInvariant
<1>4. ASSUME NEW k \in Keys, DrawRecycled(k)
      PROVE  IInv'
  BY <1>4, RecycledKeepsInvariant
<1>5. ASSUME NEW k \in Keys, DrawNew(k)
      PROVE  IInv'
  BY <1>5, NewKeepsInvariant
<1>6. CASE ReturnFromOnDraw
  <2>1. Tail(stack) \in Seq(Calls)
    BY <1>1, <1>6, HeadTailProperties DEF ReturnFromOnDraw, TypeOK, Calls
  <2>2. UNCHANGED <<lru, index, frame, enable, nested, content, unused>>
    BY <1>6 DEF ReturnFromOnDraw, cacheVars
  <2>3. stack' \in Seq(Calls) /\ compiling' \in Lists \cup {NoList}
    BY <1>1, <1>6, <2>1 DEF ReturnFromOnDraw, TypeOK
  <2>4. TypeOK'
    BY <1>1, <2>2, <2>3 DEF TypeOK, Calls
  <2> QED
    BY <2>2, <2>4, BooksUntouched
<1>7. CASE Clear
  <2>1. ListsOf(content)
    BY <1>1 DEF TypeOK, ListsOf
  <2>2. PICK c : c = ClearedAll(content)
    OBVIOUS
  <2>3. ListsOf(c)
    BY <2>1, <2>2, DeleteProperties DEF ClearedAll
  <2>4. content' = c /\ ClearCache /\ UNCHANGED <<enable, nested, stack, compiling>>
    BY <1>7, <2>2 DEF Clear
  <2>5. ListsOf(content)' /\ DOMAIN content' = DOMAIN ClearedAll(content)
    BY <2>2, <2>3, <2>4 DEF ListsOf
  <2>6. stack' \in Seq(Calls)
    BY <1>1, <2>4 DEF TypeOK, Calls
  <2> QED
    BY <2>4, <2>5, <2>6, ClearKeepsInvariant
<1>8. ASSUME NEW e \in BOOLEAN, SetEnable(e)
      PROVE  IInv'
  <2>1. /\ UNCHANGED <<lru, index, frame, nested, stack, content, compiling, unused>>
        /\ enable' = e
    BY <1>8 DEF SetEnable, cacheVars, glVars
  <2>2. TypeOK'
    BY <1>1, <2>1 DEF TypeOK
  <2> QED
    BY <2>1, <2>2, BooksUntouched
<1>9. CASE NextFrame
  BY <1>9, NextFrameKeepsInvariant
<1>10. CASE UNCHANGED vars
  <2>1. UNCHANGED <<lru, index, frame, enable, nested, stack, content, compiling, unused>>
    BY <1>10 DEF vars
  <2>2. TypeOK'
    BY <1>1, <2>1 DEF TypeOK
  <2> QED
    BY <2>1, <2>2, BooksUntouched
<1> QED
  BY <1>2, <1>3, <1>4, <1>5, <1>6, <1>7, <1>8, <1>9, <1>10 DEF Next

(* The cache grows over its capacity only by DrawNew, which found nothing to *)
(* recycle: then the last item is not older than one frame, and so is none.  *)
LEMMA GrowthIsNeeded ==
  ASSUME CacheAssumption, IInv, [Next]_vars,
         Len(lru') > Len(lru), Len(lru) >= Capacity,
         NEW e \in Entries(lru)
  PROVE  unused[e.key] <= 1
<1>1. TypeOK /\ CacheOwnsItsLists /\ OldestAtTheBack
  BY DEF IInv
<1>2. /\ Kept \in Seq(Entry)
      /\ Len(Kept) \in 0..Len(lru) /\ Len(lru) \in Nat
      /\ DOMAIN Kept = 1..Len(Kept) /\ DOMAIN lru = 1..Len(lru)
      /\ \A q \in 1..Len(Kept) : Kept[q] = lru[q]
      /\ lru \in Seq(Entry)
  BY <1>1, KeptIsTheFront, LenProperties DEF TypeOK
<1>3. PICK k \in Keys : DrawNew(k)
  <2>1. ASSUME NEW k \in Keys, DrawDisabled(k) \/ Clear
        PROVE  FALSE
    <3>1. lru' = <<>>
      BY <2>1 DEF DrawDisabled, Clear, ClearCache
    <3>2. Len(lru') = 0
      BY <3>1
    <3> QED
      BY <1>2, <3>2
  <2>2. ASSUME NEW k \in Keys, NEW p \in 1..Len(Kept), NEW now \in Entry,
               lru' = Touch(Kept, p, now)
        PROVE  FALSE
    <3>1. PICK rest : rest = RemoveAt(Kept, p)
      OBVIOUS
    <3>2. rest \in Seq(Entry) /\ Len(rest) = Len(Kept) - 1
      BY <1>2, <3>1, RemoveAtProperties
    <3>3. lru' = <<now>> \o rest
      BY <2>2, <3>1 DEF Touch
    <3>4. Len(lru') = Len(rest) + 1
      BY <3>2, <3>3, InFront
    <3> QED
      BY <1>2, <3>2, <3>4
  <2>3. ASSUME NEW k \in Keys, DrawCached(k)
        PROVE  FALSE
    <3>1. PICK p : p = Node(k)
      OBVIOUS
    <3>2. p \in 1..Len(Kept)
      BY <1>2, <2>3, <3>1 DEF DrawCached
    <3>3. PICK now : now = [Kept[p] EXCEPT !.stamp = frame]
      OBVIOUS
    <3>4. Kept[p] \in Entry /\ frame \in 0..(Modulus - 1)
      BY <1>1, <1>2, <3>2, ElementOfSeq DEF TypeOK
    <3>5. now \in Entry
      BY <3>3, <3>4 DEF Entry
    <3>6. lru' = Touch(Kept, p, now)
      BY <2>3, <3>1, <3>3 DEF DrawCached
    <3> QED
      BY <2>2, <3>2, <3>5, <3>6
  <2>4. ASSUME NEW k \in Keys, DrawRecycled(k)
        PROVE  FALSE
    <3>1. PICK p : p = Len(Kept)
      OBVIOUS
    <3>2. p \in 1..Len(Kept) /\ Last(Kept) = Kept[p]
      BY <1>1, <2>4, <3>1, RecycledIsOld DEF DrawRecycled
    <3>3. PICK now : now = [key |-> k, list |-> Kept[p].list, stamp |-> frame]
      OBVIOUS
    <3>4. Kept[p] \in Entry /\ frame \in 0..(Modulus - 1)
      BY <1>1, <1>2, <3>2, ElementOfSeq DEF TypeOK
    <3>5. now \in Entry
      BY <3>3, <3>4 DEF Entry
    <3>6. lru' = Touch(Kept, p, now)
      BY <2>4, <3>1, <3>2, <3>3 DEF DrawRecycled
    <3> QED
      BY <2>2, <3>2, <3>5, <3>6
  <2>5. ~(UNCHANGED lru)
    BY <1>2
  <2>6. ~ReturnFromOnDraw /\ ~NextFrame /\ ~(UNCHANGED vars)
    BY <2>5 DEF ReturnFromOnDraw, NextFrame, vars, cacheVars
  <2>7. ~(\E b \in BOOLEAN : SetEnable(b))
    BY <2>5 DEF SetEnable, cacheVars
  <2>8. e.key \in Keys
    BY <1>1, WhatIsFlushed DEF Entry
  <2> QED
    BY <2>1, <2>3, <2>4, <2>6, <2>7, <2>8 DEF Next
<1>4. Len(Kept) = Len(lru)
  <2>1. PICK now \in Entry : lru' = <<now>> \o Kept
    <3>1. PICK l \in Lists : lru' = <<[key |-> k, list |-> l, stamp |-> frame]>> \o Kept
      BY <1>3 DEF DrawNew
    <3>2. PICK now : now = [key |-> k, list |-> l, stamp |-> frame]
      OBVIOUS
    <3>3. now \in Entry
      BY <1>1, <3>2 DEF Entry, TypeOK
    <3> QED
      BY <3>1, <3>2, <3>3
  <2>2. Len(lru') = Len(Kept) + 1
    BY <1>2, <2>1, InFront
  <2>3. PICK m : m = Len(Kept)
    OBVIOUS
  <2>4. PICK n : n = Len(lru)
    OBVIOUS
  <2>5. n \in Nat /\ m \in 0..n /\ m + 1 > n
    BY <1>2, <2>2, <2>3, <2>4
  <2>6. m = n
    BY <2>5
  <2> QED
    BY <2>3, <2>4, <2>6
<1>5. PICK p \in 1..Len(lru) : e = lru[p]
  BY <1>2 DEF Entries
<1>6. PICK n : n = Len(lru)
  OBVIOUS
<1>7. n \in 1..Len(Kept) /\ n \in DOMAIN lru /\ Last(Kept) = lru[n]
  BY <1>2, <1>4, <1>5, <1>6 DEF Last
<1>8. Age(lru[n]) \in 0..(Modulus - 1) /\ Age(lru[p]) \in 0..(Modulus - 1)
  <2>1. lru[n] \in Entry /\ lru[p] \in Entry
    BY <1>2, <1>5, <1>7, ElementOfSeq
  <2> QED
    BY <1>1, <2>1, AgeIsANumber DEF TypeOK
<1>9. ~(Age(lru[n]) > 1)
  <2>1. Kept # <<>>
    BY <1>2, <1>7, EmptySeq
  <2>2. ~Recycles(Kept) /\ Len(Kept) >= Capacity
    BY <1>3, <1>4 DEF DrawNew
  <2> QED
    BY <1>7, <2>1, <2>2 DEF Recycles
<1>10. Age(lru[p]) <= Age(lru[n])
  <2>1. CASE p = n
    BY <1>8, <2>1
  <2>2. CASE p # n
    <3>1. p < n /\ p \in DOMAIN lru
      BY <1>2, <1>5, <1>6, <2>2
    <3> QED
      BY <1>1, <1>7, <3>1 DEF OldestAtTheBack
  <2> QED
    BY <2>1, <2>2
<1>11. unused[e.key] = Age(lru[p])
  BY <1>1, <1>5 DEF OldestAtTheBack
<1> QED
  BY <1>8, <1>9, <1>10, <1>11

-----------------------------------------------------------------------------
(* Screen: what a list that draws one object shows. *)

(* Flattening a sequence of one sequence gives that sequence. *)
LEMMA FlattenOne ==
  ASSUME NEW s
  PROVE  FlattenSeq(<<s>>) = s
<1> DEFINE Step(g) == [i \in 1..Len(<<s>>) |->
                         IF i = 1 THEN <<s>>[i] ELSE g[i-1] \o <<s>>[i]]
           flatten == CHOOSE g : g = Step(g)
<1>1. Len(<<s>>) = 1 /\ <<s>>[1] = s
  OBVIOUS
<1>2. \E g : g = Step(g)
  <2>1. PICK g : g = [i \in 1..1 |-> s]
    OBVIOUS
  <2>2. \A i \in 1..1 : (IF i = 1 THEN <<s>>[i] ELSE g[i-1] \o <<s>>[i]) = s
    BY <1>1
  <2>3. Step(g) = [i \in 1..1 |-> s]
    BY <1>1, <2>2
  <2> QED
    BY <2>1, <2>3
<1>3. flatten = Step(flatten)
  BY <1>2
<1>4. Step(flatten)[1] = s
  BY <1>1
<1>5. FlattenSeq(<<s>>) = flatten[1]
  BY <1>1 DEF FlattenSeq
<1> QED
  BY <1>3, <1>4, <1>5

(* One level of Screen: what the commands t show, when f says what those of  *)
(* the lists called do.                                                      *)
Shows(c, f, depth) ==
  [t \in Seq(Commands) |->
     FlattenSeq([p \in DOMAIN t |->
       IF t[p].list = NoList THEN <<t[p].object>>
       ELSE IF depth = 0 \/ t[p].list \notin DOMAIN c THEN <<>>
       ELSE f[depth - 1][c[t[p].list]]])]

(* A level depends on the one below and on nothing else. *)
LEMMA ShowsFromBelow ==
  ASSUME NEW c, NEW f, NEW g, NEW depth \in Nat,
         depth # 0 => f[depth - 1] = g[depth - 1]
  PROVE  Shows(c, f, depth) = Shows(c, g, depth)
<1> DEFINE Shown(h, t) == [p \in DOMAIN t |->
              IF t[p].list = NoList THEN <<t[p].object>>
              ELSE IF depth = 0 \/ t[p].list \notin DOMAIN c THEN <<>>
              ELSE h[depth - 1][c[t[p].list]]]
<1>1. \A t : Shown(f, t) = Shown(g, t)
  <2> TAKE t
  <2>1. CASE depth = 0
    BY <2>1
  <2>2. CASE depth # 0
    BY <2>2
  <2> QED
    BY <2>1, <2>2
<1>2. \A h : Shows(c, h, depth) = [t \in Seq(Commands) |-> FlattenSeq(Shown(h, t))]
  BY DEF Shows
<1> HIDE DEF Shown
<1>3. [t \in Seq(Commands) |-> FlattenSeq(Shown(f, t))] = [t \in Seq(Commands) |-> FlattenSeq(Shown(g, t))]
  BY <1>1
<1> QED
  BY <1>2, <1>3

(* The levels up to any depth exist. *)
LEMMA LevelsExist ==
  ASSUME NEW c, NEW n \in Nat
  PROVE  \E f : f = [depth \in 0..n |-> Shows(c, f, depth)]
<1> DEFINE Failing == {m \in Nat : ~ \E f : f = [depth \in 0..m |-> Shows(c, f, depth)]}
<1>1. SUFFICES Failing = {}
  OBVIOUS
<1>2. SUFFICES ASSUME Failing # {} PROVE FALSE
  OBVIOUS
<1>3. PICK m \in Failing : \A i \in Failing : m <= i
  BY <1>2, LeastOf
<1>4. m \in Nat /\ ~ \E f : f = [depth \in 0..m |-> Shows(c, f, depth)]
  OBVIOUS
<1>5. \E f : /\ DOMAIN f = 0..m
             /\ f = [depth \in 0..m |-> f[depth]]
             /\ \A depth \in 0..m : f[depth] = Shows(c, f, depth)
  <2>1. CASE m = 0
    <3>1. PICK f : f = [depth \in 0..0 |-> Shows(c, <<>>, 0)]
      OBVIOUS
    <3>2. f[0] = Shows(c, f, 0)
      BY <3>1, ShowsFromBelow
    <3> QED
      BY <2>1, <3>1, <3>2
  <2>2. CASE m # 0
    <3>1. m - 1 \in Nat /\ ~(m <= m - 1)
      BY <1>4, <2>2
    <3>2. m - 1 \notin Failing
      BY <1>3, <3>1
    <3>3. PICK f : f = [depth \in 0..(m - 1) |-> Shows(c, f, depth)]
      BY <3>1, <3>2
    <3>4. PICK g : g = [depth \in 0..m |-> Shows(c, f, depth)]
      OBVIOUS
    <3>5. \A depth \in 0..(m - 1) : f[depth] = g[depth]
      <4>1. \A depth \in 0..(m - 1) : f[depth] = Shows(c, f, depth)
        BY <3>3
      <4>2. \A depth \in 0..(m - 1) : depth \in 0..m
        BY <1>4
      <4> QED
        BY <3>4, <4>1, <4>2
    <3>6. ASSUME NEW depth \in 0..m
          PROVE  g[depth] = Shows(c, g, depth)
      <4>1. depth \in Nat /\ (depth # 0 => depth - 1 \in 0..(m - 1))
        BY <1>4
      <4>2. Shows(c, f, depth) = Shows(c, g, depth)
        BY <3>5, <4>1, ShowsFromBelow
      <4> QED
        BY <3>4, <4>2
    <3> QED
      BY <3>4, <3>6
  <2> QED
    BY <2>1, <2>2
<1>6. PICK f : /\ DOMAIN f = 0..m
             /\ f = [depth \in 0..m |-> f[depth]]
             /\ \A depth \in 0..m : f[depth] = Shows(c, f, depth)
  BY <1>5
<1>7. f = [depth \in 0..m |-> Shows(c, f, depth)]
  BY <1>6
<1> QED
  BY <1>4, <1>7

(* A list that holds the drawing of one object shows that object. *)
LEMMA ScreenOfOne ==
  ASSUME CacheAssumption, NEW c, NEW k \in Keys
  PROVE  Screen(c, <<Drawn(k)>>) = <<k>>
<1> DEFINE n == Cardinality(Keys)
           shows == CHOOSE f : f = [depth \in 0..n |-> Shows(c, f, depth)]
<1>1. n \in Nat
  BY FS_CardinalityType DEF CacheAssumption
<1>2. PICK t : t = <<Drawn(k)>>
  OBVIOUS
<1>3. Screen(c, t) = shows[n][t]
  BY DEF Screen, Shows
<1>4. shows = [depth \in 0..n |-> Shows(c, shows, depth)]
  BY <1>1, LevelsExist
<1> HIDE DEF shows
<1>5. shows[n] = Shows(c, shows, n)
  <2>1. \A f, d : d \in 0..n /\ f = [depth \in 0..n |-> Shows(c, shows, depth)]
                    => f[d] = Shows(c, shows, d)
    OBVIOUS
  <2>2. n \in 0..n
    BY <1>1
  <2> HIDE DEF n
  <2> QED
    BY <1>4, <2>1, <2>2
<1>6. t \in Seq(Commands) /\ DOMAIN t = 1..1 /\ t[1].list = NoList /\ t[1].object = k
  BY <1>2 DEF Drawn, Commands
<1>7. PICK u : u = [p \in DOMAIN t |->
                 IF t[p].list = NoList THEN <<t[p].object>>
                 ELSE IF n = 0 \/ t[p].list \notin DOMAIN c THEN <<>>
                 ELSE shows[n - 1][c[t[p].list]]]
  OBVIOUS
<1>8. Shows(c, shows, n)[t] = FlattenSeq(u)
  BY <1>6, <1>7 DEF Shows
<1>9. u = <<<<k>>>>
  BY <1>6, <1>7
<1> QED
  BY <1>2, <1>3, <1>5, <1>8, <1>9, FlattenOne

-----------------------------------------------------------------------------
(* What the lists draw, when OnDraw does not draw through the cache. *)

(* There is one call of draw() at most, it draws nothing more, and a list is *)
(* compiled only during that call.                                           *)
OneCall ==
  IF stack = <<>> THEN compiling = NoList
  ELSE /\ Head(stack).todo = <<>> /\ Tail(stack) = <<>>
       /\ Head(stack).list = NoList => compiling = NoList

(* The list that the index leads to holds the object and nothing else. *)
ListsHoldTheirObject ==
  \A k \in Keys : index[k] # NoList => content[index[k]] = <<Drawn(k)>>

ObjectInv == ~nested => OneCall /\ ListsHoldTheirObject

(* So a draw() comes at the top, and one that calls OnDraw is then the only one. *)
LEMMA DrawnAtTheTop ==
  ASSUME ObjectInv, ~nested, NEW k \in Keys, MayDraw(k)
  PROVE  /\ stack = <<>> /\ compiling = NoList
         /\ \A l : EnterOnDraw(k, l) => /\ stack' # <<>>
                                        /\ Head(stack') = [list |-> l, todo |-> <<>>]
                                        /\ Tail(stack') = <<>>
<1>1. stack = <<>> /\ compiling = NoList
  BY DEF ObjectInv, OneCall, MayDraw
<1>2. Caller = <<>>
  BY <1>1 DEF Caller
<1>3. ASSUME NEW l, EnterOnDraw(k, l)
      PROVE  stack' = <<[list |-> l, todo |-> <<>>]>>
  <2>1. PICK call : call = [list |-> l, todo |-> <<>>]
    OBVIOUS
  <2>2. stack' = <<call>> \o <<>>
    BY <1>2, <1>3, <2>1 DEF EnterOnDraw
  <2> QED
    BY <2>1, <2>2
<1>4. \A call : <<call>> # <<>> /\ Head(<<call>>) = call /\ Tail(<<call>>) = <<>>
  OBVIOUS
<1>5. ASSUME NEW l, EnterOnDraw(k, l)
      PROVE  /\ stack' # <<>>
             /\ Head(stack') = [list |-> l, todo |-> <<>>]
             /\ Tail(stack') = <<>>
  BY <1>3, <1>4, <1>5
<1> QED
  BY <1>1, <1>5

(* An object that has a list has one of its own, and that exists. *)
ListsAreOwn ==
  \A k \in Keys : index[k] # NoList =>
    /\ index[k] \in DOMAIN content
    /\ \A j \in Keys : index[j] = index[k] => j = k

(* The items have one list each, and the index leads to them. *)
LEMMA ListsAreAlwaysOwn == CacheAssumption /\ IInv => ListsAreOwn
<1> SUFFICES ASSUME CacheAssumption, IInv, NEW k \in Keys, index[k] # NoList
             PROVE  /\ index[k] \in DOMAIN content
                    /\ \A j \in Keys : index[j] = index[k] => j = k
  BY DEF ListsAreOwn
<1>1. TypeOK /\ CacheOwnsItsLists
  BY DEF IInv
<1>2. index[k] \in Lists
  BY <1>1 DEF TypeOK
<1>3. PICK e \in Entries(lru) : e.key = k /\ e.list = index[k]
  BY <1>1, <1>2, ZenonT(60) DEF CacheOwnsItsLists
<1>4. index[k] \in DOMAIN content
  BY <1>1, <1>3 DEF CacheOwnsItsLists
<1>5. ASSUME NEW j \in Keys, index[j] = index[k]
      PROVE  j = k
  <2>1. PICK f \in Entries(lru) : f.key = j /\ f.list = index[k]
    BY <1>1, <1>2, <1>5 DEF CacheOwnsItsLists
  <2>2. PICK p \in DOMAIN lru, q \in DOMAIN lru : e = lru[p] /\ f = lru[q]
    BY DEF Entries
  <2>3. p = q
    BY <1>1, <1>3, <2>1, <2>2 DEF CacheOwnsItsLists
  <2> QED
    BY <1>3, <2>1, <2>2, <2>3
<1> QED
  BY <1>4, <1>5

(* Compiling a list for k at the top leaves k's drawing in it, and the other *)
(* lists alone.                                                              *)
LEMMA CompileDrawsTheObject ==
  ASSUME CacheAssumption, ObjectInv, ~nested, ~nested', NEW k \in Keys, MayDraw(k),
         NEW l \in Lists, NEW c, l \in DOMAIN c, Compile(k, l, c)
  PROVE  /\ OneCall'
         /\ DOMAIN content' = DOMAIN c
         /\ content'[l] = <<Drawn(k)>>
         /\ \A m \in DOMAIN c : m # l => content'[m] = c[m]
<1>1. compiling = NoList /\ l # NoList
  BY DrawnAtTheTop DEF CacheAssumption
<1>2. compiling' = l /\ EnterOnDraw(k, l)
  BY <1>1 DEF Compile
<1>3. OneCall'
  BY <1>1, <1>2, DrawnAtTheTop DEF OneCall
<1>4. PICK d : d = [c EXCEPT ![l] = <<>>]
  OBVIOUS
<1>5. content' = [d EXCEPT ![l] = Append(@, Drawn(k))]
  BY <1>1, <1>2, <1>4 DEF Compile, Record
<1>6. Append(<<>>, Drawn(k)) = <<Drawn(k)>>
  OBVIOUS
<1>7. DOMAIN d = DOMAIN c /\ d[l] = <<>> /\ \A m \in DOMAIN c : m # l => d[m] = c[m]
  BY <1>4
<1>8. /\ DOMAIN content' = DOMAIN d /\ content'[l] = <<Drawn(k)>>
      /\ \A m \in DOMAIN c : m # l => content'[m] = d[m]
  BY <1>5, <1>6, <1>7
<1> QED
  BY <1>3, <1>7, <1>8

(* What the flush leaves of a list: what it held. *)
LEMMA FlushLeavesObjects ==
  ASSUME ListsHoldTheirObject, NEW k \in Keys, NEW ks, NEW c,
         c = Delete(content, {f.list : f \in Flushed}),
         Unindex(ks)[k] # NoList, Unindex(ks)[k] \in DOMAIN c
  PROVE  c[Unindex(ks)[k]] = <<Drawn(k)>>
<1>1. Unindex(ks)[k] = index[k]
  BY DEF Unindex
<1>2. c[index[k]] = content[index[k]]
  BY <1>1 DEF Delete
<1> QED
  BY <1>1, <1>2 DEF ListsHoldTheirObject

(* draw() of a cached object changes no list. *)
LEMMA CachedKeepsObjects ==
  ASSUME CacheAssumption, IInv', ListsAreOwn', ObjectInv, NEW k \in Keys, DrawCached(k)
  PROVE  ObjectInv'
<1> SUFFICES ASSUME ~nested
             PROVE  OneCall' /\ ListsHoldTheirObject'
  BY DEF ObjectInv, DrawCached
<1>1. stack = <<>> /\ compiling = NoList /\ ListsHoldTheirObject
  BY DrawnAtTheTop DEF DrawCached, ObjectInv
<1>2. OneCall'
  BY <1>1 DEF DrawCached, Caller, OneCall
<1>3. PICK c : c = Delete(content, {f.list : f \in Flushed})
  OBVIOUS
<1>4. PICK ks : ks = {f.key : f \in Flushed}
  OBVIOUS
<1>5. content' = c /\ index' = Unindex(ks)
  BY <1>1, <1>3, <1>4 DEF DrawCached, Record
<1>6. ASSUME NEW j \in Keys, index'[j] # NoList
      PROVE  content'[index'[j]] = <<Drawn(j)>>
  <2>1. index'[j] \in DOMAIN c
    BY <1>5, <1>6 DEF ListsAreOwn
  <2> QED
    BY <1>1, <1>3, <1>5, <1>6, <2>1, FlushLeavesObjects
<1> QED
  BY <1>2, <1>6 DEF ListsHoldTheirObject

(* draw() that compiles a list, be it recycled or new: it holds the object,  *)
(* and those of the others hold what they held.                              *)
LEMMA CompileKeepsObjects ==
  ASSUME CacheAssumption, ListsAreOwn', ObjectInv, ~nested, ~nested',
         NEW k \in Keys, MayDraw(k), NEW l \in Lists, NEW ks,
         index \in [Keys -> Lists \cup {NoList}],
         index' = [Unindex(ks) EXCEPT ![k] = l],
         NEW c, c = Delete(content, {f.list : f \in Flushed}),
         NEW b, l \in DOMAIN b, DOMAIN b \subseteq DOMAIN c \cup {l},
         \A m \in DOMAIN b : m # l => b[m] = c[m],
         Compile(k, l, b)
  PROVE  OneCall' /\ ListsHoldTheirObject'
<1>1. /\ OneCall' /\ DOMAIN content' = DOMAIN b
      /\ content'[l] = <<Drawn(k)>>
      /\ \A m \in DOMAIN b : m # l => content'[m] = b[m]
  BY CompileDrawsTheObject
<1>2. ListsHoldTheirObject
  BY DEF ObjectInv
<1>3. index'[k] = l /\ \A j \in Keys : j # k => index'[j] = Unindex(ks)[j]
  BY DEF Unindex
<1>4. l # NoList
  BY DEF CacheAssumption
<1>5. ASSUME NEW j \in Keys, index'[j] # NoList
      PROVE  content'[index'[j]] = <<Drawn(j)>>
  <2>1. CASE j = k
    BY <1>1, <1>3, <2>1
  <2>2. CASE j # k
    <3>1. index'[j] \in DOMAIN b /\ index'[j] # l
      BY <1>1, <1>3, <1>4, <1>5, <2>2 DEF ListsAreOwn
    <3>2. index'[j] \in DOMAIN c /\ content'[index'[j]] = c[index'[j]]
      BY <1>1, <3>1
    <3>3. Unindex(ks)[j] = index'[j]
      BY <1>3, <2>2
    <3>4. c[Unindex(ks)[j]] = <<Drawn(j)>>
      BY <1>2, <1>5, <3>2, <3>3, FlushLeavesObjects
    <3> QED
      BY <3>2, <3>3, <3>4
  <2> QED
    BY <2>1, <2>2
<1> QED
  BY <1>1, <1>5 DEF ListsHoldTheirObject

(* The list recycled is one that the flush has left. *)
LEMMA RecycledKeepsObjects ==
  ASSUME CacheAssumption, IInv, ListsAreOwn', ObjectInv, NEW k \in Keys, DrawRecycled(k)
  PROVE  ObjectInv'
<1> SUFFICES ASSUME ~nested
             PROVE  OneCall' /\ ListsHoldTheirObject'
  BY DEF ObjectInv, DrawRecycled
<1>1. TypeOK /\ CacheOwnsItsLists /\ MayDraw(k) /\ ~nested'
      /\ index \in [Keys -> Lists \cup {NoList}]
  BY DEF IInv, DrawRecycled, TypeOK
<1>2. PICK c : c = Delete(content, {f.list : f \in Flushed})
  OBVIOUS
<1>3. PICK l : l = Last(Kept).list
  OBVIOUS
<1>4. PICK ks : ks = {f.key : f \in Flushed} \cup {Last(Kept).key}
  OBVIOUS
<1>5. Compile(k, l, c) /\ index' = [Unindex(ks) EXCEPT ![k] = l]
  BY <1>2, <1>3, <1>4 DEF DrawRecycled
<1>6. l \in Lists /\ l \in DOMAIN c
  <2>1. Len(Kept) \in 1..Len(Kept) /\ Last(Kept) = Kept[Len(Kept)]
    BY <1>1, RecycledIsOld DEF DrawRecycled
  <2>2. Kept \in Seq(Entry) /\ DOMAIN Kept = 1..Len(Kept)
    BY <1>1, KeptIsTheFront, LenProperties
  <2>3. Kept[Len(Kept)] \in Entry /\ Kept[Len(Kept)] \in Entries(Kept)
    BY <2>1, <2>2, ElementOfSeq DEF Entries
  <2>4. DOMAIN c = {e.list : e \in Entries(Kept)}
    BY <1>1, <1>2, AfterTheFlush
  <2> QED
    BY <1>3, <2>1, <2>3, <2>4 DEF Entry
<1>7. DOMAIN c \subseteq DOMAIN c \cup {l} /\ \A m \in DOMAIN c : m # l => c[m] = c[m]
  OBVIOUS
<1> QED
  BY <1>1, <1>2, <1>5, <1>6, <1>7, CompileKeepsObjects

(* The new list is none of those that the flush has left. *)
LEMMA NewKeepsObjects ==
  ASSUME CacheAssumption, IInv, ListsAreOwn', ObjectInv, NEW k \in Keys, DrawNew(k)
  PROVE  ObjectInv'
<1> SUFFICES ASSUME ~nested
             PROVE  OneCall' /\ ListsHoldTheirObject'
  BY DEF ObjectInv, DrawNew
<1>1. MayDraw(k) /\ ~nested' /\ index \in [Keys -> Lists \cup {NoList}]
  BY DEF IInv, DrawNew, TypeOK
<1>2. PICK c : c = Delete(content, {f.list : f \in Flushed})
  OBVIOUS
<1>3. PICK ks : ks = {f.key : f \in Flushed}
  OBVIOUS
<1>4. PICK l \in Lists \ DOMAIN c :
        /\ index' = [Unindex(ks) EXCEPT ![k] = l]
        /\ Compile(k, l, [m \in DOMAIN c \cup {l} |-> IF m = l THEN <<>> ELSE c[m]])
  BY <1>2, <1>3 DEF DrawNew
<1>5. PICK b : b = [m \in DOMAIN c \cup {l} |-> IF m = l THEN <<>> ELSE c[m]]
  OBVIOUS
<1>6. /\ l \in Lists /\ l \in DOMAIN b /\ DOMAIN b \subseteq DOMAIN c \cup {l}
      /\ \A m \in DOMAIN b : m # l => b[m] = c[m]
  BY <1>5
<1>7. Compile(k, l, b)
  BY <1>4, <1>5
<1> QED
  BY <1>1, <1>2, <1>4, <1>6, <1>7, CompileKeepsObjects

(* Every step keeps what the lists hold. *)
LEMMA NextKeepsObjects ==
  ASSUME CacheAssumption, IInv, IInv', ListsAreOwn', ObjectInv, [Next]_vars
  PROVE  ObjectInv'
<1>1. ASSUME NEW k \in Keys, DrawDisabled(k)
      PROVE  ObjectInv'
  <2> SUFFICES ASSUME ~nested
               PROVE  OneCall' /\ ListsHoldTheirObject'
    BY <1>1 DEF ObjectInv, DrawDisabled
  <2>1. MayDraw(k) /\ EnterOnDraw(k, NoList) /\ compiling' = compiling
    BY <1>1 DEF DrawDisabled
  <2>2. OneCall'
    BY <2>1, DrawnAtTheTop DEF OneCall
  <2>3. \A j \in Keys : index'[j] = NoList
    BY <1>1 DEF DrawDisabled, ClearCache
  <2> QED
    BY <2>2, <2>3 DEF ListsHoldTheirObject
<1>2. CASE ReturnFromOnDraw
  <2>1. UNCHANGED <<index, nested, content>>
    BY <1>2 DEF ReturnFromOnDraw, cacheVars
  <2>2. ASSUME OneCall PROVE OneCall'
    BY <1>2, <2>2 DEF ReturnFromOnDraw, OneCall
  <2> QED
    BY <2>1, <2>2 DEF ObjectInv, ListsHoldTheirObject
<1>3. CASE Clear
  <2>1. UNCHANGED <<nested, stack, compiling>> /\ \A j \in Keys : index'[j] = NoList
    BY <1>3 DEF Clear, ClearCache
  <2> QED
    BY <2>1 DEF ObjectInv, ListsHoldTheirObject, OneCall
<1>4. CASE (\E e \in BOOLEAN : SetEnable(e)) \/ NextFrame \/ UNCHANGED vars
  <2>1. UNCHANGED <<index, nested, stack, content, compiling>>
    BY <1>4 DEF SetEnable, NextFrame, vars, cacheVars, glVars
  <2> QED
    BY <2>1 DEF ObjectInv, ListsHoldTheirObject, OneCall
<1> QED
  BY <1>1, <1>2, <1>3, <1>4, CachedKeepsObjects, RecycledKeepsObjects, NewKeepsObjects
     DEF Next

-----------------------------------------------------------------------------
(* The theorems. *)

(* In every state draw() and clear() reach the four parts hold together.     *)
THEOREM InvariantHolds == Spec => []IInv
<1>1. Init => IInv
  BY CacheAssumption, InitInvariant
<1>2. IInv /\ [Next]_vars => IInv'
  BY CacheAssumption, NextInvariant
<1> QED
  BY <1>1, <1>2, PTL DEF Spec

(* The items, the index, the calls of draw() in progress and the contents of *)
(* the display lists keep their types.                                       *)
THEOREM TypeCorrect == Spec => []TypeOK
<1>1. IInv => TypeOK
  BY DEF IInv
<1> QED
  BY <1>1, InvariantHolds, PTL

(* No display list leaks and none is shared: OpenGL holds the lists of the   *)
(* items and no other, and the index leads from each object to its own -     *)
(* also when an OnDraw draws through the cache while its list is compiled.   *)
THEOREM NoListLeaks == Spec => []CacheOwnsItsLists
<1>1. IInv => CacheOwnsItsLists
  BY DEF IInv
<1> QED
  BY <1>1, InvariantHolds, PTL

(* The age that draw() computes from a time stamp is the true one, although  *)
(* the frame number comes round, and the items are ordered by it: the loop   *)
(* that flushes from the back, and stops at the first young item, misses none. *)
THEOREM OldestIsLast == Spec => []OldestAtTheBack
<1>1. IInv => OldestAtTheBack
  BY DEF IInv
<1> QED
  BY <1>1, InvariantHolds, PTL

(* What was drawn in this frame or the previous one, and no more than        *)
(* _minAge or _maxAge frames ago, is still cached, unless the cache was      *)
(* cleared: neither the flush nor recycling takes it.                        *)
THEOREM PreviousFrameIsCached == Spec => []PreviousFrameStays
<1>1. IInv => PreviousFrameStays
  BY DEF IInv
<1> QED
  BY <1>1, InvariantHolds, PTL

(* With ages of at least one frame this is what the documentation promises.  *)
(* The constructor does not ask for such ages.                               *)
COROLLARY DocumentedForPositiveAges ==
  MinAge >= 1 /\ MaxAge >= 1 => (Spec => []PreviousFrameAlwaysStays)
<1> SUFFICES ASSUME MinAge >= 1, MaxAge >= 1
             PROVE  Spec => []PreviousFrameAlwaysStays
  OBVIOUS
<1>1. IInv => PreviousFrameAlwaysStays
  <2> SUFFICES ASSUME IInv, NEW k \in Keys, unused[k] <= 1
               PROVE  index[k] # NoList
    BY DEF PreviousFrameAlwaysStays
  <2>1. unused[k] \in Nat /\ MinAge \in Nat /\ MaxAge \in Nat
    BY CacheAssumption DEF IInv, TypeOK, CacheAssumption
  <2>2. Recent(unused[k])
    BY <2>1 DEF Recent
  <2> QED
    BY <2>2 DEF IInv, PreviousFrameStays
<1> QED
  BY <1>1, InvariantHolds, PTL

(* The cache grows over its capacity only when every list was drawn in this  *)
(* frame or the previous one.                                                *)
THEOREM GrowthOnlyWhenNeeded == Spec => GrowsOnlyForRecentFrames
<1>1. IInv /\ [Next]_vars
        => [Len(lru') > Len(lru) /\ Len(lru) >= Capacity
              => \A e \in Entries(lru) : unused[e.key] <= 1]_vars
  BY CacheAssumption, GrowthIsNeeded
<1> QED
  BY <1>1, InvariantHolds, PTL DEF Spec, GrowsOnlyForRecentFrames

(* Whatever was flushed or recycled, the list that draw() finds for an       *)
(* object shows that object and nothing else, when OnDraw does not draw      *)
(* through the cache: no list is taken from under another object's item.     *)
THEOREM ListsAlwaysDrawTheirObject == Spec => []ListsDrawTheirObject
<1>1. CacheAssumption /\ IInv => ListsAreOwn
  BY ListsAreAlwaysOwn
<1>2. Init => ObjectInv
  BY DEF Init, ObjectInv, OneCall, ListsHoldTheirObject
<1>3. IInv /\ IInv' /\ ListsAreOwn' /\ ObjectInv /\ [Next]_vars => ObjectInv'
  BY CacheAssumption, NextKeepsObjects
<1>4. ListsAreOwn /\ ObjectInv => ListsDrawTheirObject
  BY CacheAssumption, ScreenOfOne
     DEF ListsAreOwn, ObjectInv, ListsHoldTheirObject, ListsDrawTheirObject
<1>5. IInv => ListsAreOwn
  BY <1>1, CacheAssumption
<1> QED
  BY <1>2, <1>3, <1>4, <1>5, InvariantHolds, PTL DEF Spec

=============================================================================
