---------------------------- MODULE ObserverProofs ----------------------------
(***************************************************************************)
(* Proofs about Observer, for any objects, any handlers - careful or not - *)
(* and loops of notify() nested to any depth.                              *)
(***************************************************************************)
EXTENDS Observer, ListLemmas

-----------------------------------------------------------------------------
(* The inductive invariant. *)

(* A loop whose node is still there stands in the list, and all it has passed *)
(* was told.                                                                 *)
InPlace(l, lists) ==
  l.at # 0 => /\ l.at \in 1..Len(lists[l.subject])
              /\ \A p \in 1..l.at : lists[l.subject][p] \in l.told

LoopsInPlace == \A n \in DOMAIN loops : InPlace(loops[n], observers)

IInv ==
  /\ TypeOK
  /\ ListsAreMutual
  /\ LoopsInPlace
  /\ LoopsStandOnTheirObserver

-----------------------------------------------------------------------------
(* Lemmas about the lists. *)

(* The lists and loops of a well-typed state, as facts about each object. *)
LEMMA ListTypes ==
  ASSUME TypeOK
  PROVE  /\ \A s \in Objects : /\ observers[s] \in Seq(Objects)
                               /\ Len(observers[s]) \in Nat
                               /\ DOMAIN observers[s] = 1..Len(observers[s])
         /\ \A o \in Objects : /\ subjects[o] \in Seq(Objects)
                               /\ Len(subjects[o]) \in Nat
                               /\ DOMAIN subjects[o] = 1..Len(subjects[o])
         /\ Len(loops) \in Nat /\ DOMAIN loops = 1..Len(loops)
         /\ \A n \in DOMAIN loops : loops[n] \in Loop
<1>1. ASSUME NEW s \in Objects
      PROVE  /\ observers[s] \in Seq(Objects)
             /\ Len(observers[s]) \in Nat
             /\ DOMAIN observers[s] = 1..Len(observers[s])
  <2>1. observers[s] \in Seq(Objects)
    BY DEF TypeOK
  <2> QED
    BY <2>1, LenProperties
<1>2. ASSUME NEW o \in Objects
      PROVE  /\ subjects[o] \in Seq(Objects)
             /\ Len(subjects[o]) \in Nat
             /\ DOMAIN subjects[o] = 1..Len(subjects[o])
  <2>1. subjects[o] \in Seq(Objects)
    BY DEF TypeOK
  <2> QED
    BY <2>1, LenProperties
<1>3. Len(loops) \in Nat /\ DOMAIN loops = 1..Len(loops)
  BY LenProperties DEF TypeOK
<1>4. \A n \in DOMAIN loops : loops[n] \in Loop
  BY <1>3, ElementOfSeq DEF TypeOK
<1> QED
  BY <1>1, <1>2, <1>3, <1>4

(* Who is in the list of a subject has the subject in its own. *)
LEMMA MutualSets ==
  ASSUME TypeOK, ListsAreMutual, NEW o \in Objects, NEW s \in Objects
  PROVE  /\ o \in ToSet(observers[s]) <=> s \in ToSet(subjects[o])
         /\ o \in ToSet(observers[s]) => o \in alive /\ s \in alive
<1>1. /\ Times(observers[s], o) \in Nat
      /\ Times(observers[s], o) = 0 <=> o \notin ToSet(observers[s])
  BY ListTypes, TimesProperties
<1>2. Times(subjects[o], s) = 0 <=> s \notin ToSet(subjects[o])
  BY ListTypes, TimesProperties
<1>3. /\ Times(observers[s], o) = Times(subjects[o], s)
      /\ Times(observers[s], o) > 0 => {o, s} \subseteq alive
  BY DEF ListsAreMutual
<1>4. Times(observers[s], o) # 0 => Times(observers[s], o) > 0
  BY <1>1
<1> QED
  BY <1>1, <1>2, <1>3, <1>4

(* A list in which nobody is, is empty. *)
LEMMA NobodyIsEmpty ==
  ASSUME NEW list \in Seq(Objects), \A x \in Objects : x \notin ToSet(list)
  PROVE  list = <<>>
<1>1. Len(list) \in Nat /\ DOMAIN list = 1..Len(list)
  BY LenProperties
<1>2. CASE Len(list) # 0
  <2>1. 1 \in 1..Len(list)
    BY <1>1, <1>2
  <2>2. list[1] \in Objects /\ list[1] \in ToSet(list)
    BY <1>1, <2>1, ElementOfSeq DEF ToSet
  <2> QED
    BY <2>2
<1>3. CASE Len(list) = 0
  BY <1>3, EmptySeq
<1> QED
  BY <1>2, <1>3

(* Nobody is registered with the dead, nor the dead with anybody. *)
LEMMA TheDeadAreAlone ==
  ASSUME TypeOK, ListsAreMutual, NEW o \in Objects, o \notin alive
  PROVE  observers[o] = <<>> /\ subjects[o] = <<>>
<1>1. \A x \in Objects : x \notin ToSet(observers[o])
  BY MutualSets
<1>2. \A x \in Objects : x \notin ToSet(subjects[o])
  BY MutualSets
<1> QED
  BY <1>1, <1>2, ListTypes, NobodyIsEmpty

-----------------------------------------------------------------------------
(* A loop when an observer leaves the list it stands in. *)

(* The loop m is l after all o have left the list, of which rest remains.    *)
Moved(l, m, o, list, rest) ==
  /\ m \in Loop
  /\ m.subject = l.subject /\ m.called = l.called /\ m.told = l.told
  /\ m.at # 0 => /\ m.at \in 1..Len(rest)
                 /\ \A p \in 1..m.at : rest[p] \in l.told /\ rest[p] # o
  /\ l.at # 0 /\ list[l.at] # o => m.at # 0 /\ rest[m.at] = list[l.at]

(* A loop on a subject's list stands, after a removal, where its observer *)
(* went, or on an erased node. *)
LEMMA AfterRemovalProperties ==
  ASSUME TypeOK, NEW l \in Loop, InPlace(l, observers), NEW o,
         NEW m, m = AfterRemoval(l, l.subject, o),
         NEW list, list = observers[l.subject],
         NEW rest, rest = Without(list, o)
  PROVE  Moved(l, m, o, list, rest)
<1>1. l.subject \in Objects /\ l.at \in Nat
  BY DEF Loop
<1>2. list \in Seq(Objects) /\ Len(list) \in Nat
  BY <1>1, ListTypes
<1>3. CASE l.at = 0
  <2>1. m = l
    BY <1>3 DEF AfterRemoval
  <2> QED
    BY <1>3, <2>1 DEF Moved
<1>4. CASE l.at # 0 /\ list[l.at] = o
  <2>1. m = [l EXCEPT !.at = 0]
    BY <1>4 DEF AfterRemoval
  <2>2. m \in Loop /\ m.at = 0
        /\ m.subject = l.subject /\ m.called = l.called /\ m.told = l.told
    BY <2>1 DEF Loop
  <2> QED
    BY <1>4, <2>2 DEF Moved
<1>5. CASE l.at # 0 /\ list[l.at] # o
  <2>1. m = [l EXCEPT !.at = Staying(list, o, l.at)]
    BY <1>5 DEF AfterRemoval
  <2>2. l.at \in 1..Len(list) /\ \A p \in 1..l.at : list[p] \in l.told
    BY <1>5 DEF InPlace
  <2>3. /\ Staying(list, o, l.at) \in 1..Len(rest)
        /\ rest[Staying(list, o, l.at)] = list[l.at]
        /\ Staying(list, o, l.at) \in Nat
    <3>1. /\ Staying(list, o, l.at) \in 1..Len(rest)
          /\ rest[Staying(list, o, l.at)] = list[l.at]
      BY <1>2, <1>5, <2>2, WithoutProperties
    <3>2. Staying(list, o, l.at) \in Nat
      BY <1>1, StayingSteps
    <3> QED
      BY <3>1, <3>2
  <2>4. m.at = Staying(list, o, l.at) /\ m \in Loop
        /\ m.subject = l.subject /\ m.called = l.called /\ m.told = l.told
    BY <2>1, <2>3 DEF Loop
  <2>5. m.at # 0
    BY <2>3, <2>4
  <2>6. ASSUME NEW n \in 1..m.at
        PROVE  rest[n] \in l.told /\ rest[n] # o
    <3>1. n \in 1..Len(rest)
      <4>1. n <= m.at /\ m.at <= Len(rest) /\ n \in Nat /\ 1 <= n /\ m.at \in Nat
        BY <2>3, <2>4
      <4>2. rest \in Seq(Objects)
        BY <1>2, WithoutProperties
      <4>3. Len(rest) \in Nat
        BY <4>2, LenProperties
      <4> QED
        BY <4>1, <4>3
    <3>2. PICK p \in 1..Len(list) :
            list[p] # o /\ Staying(list, o, p) = n /\ rest[n] = list[p]
      BY <1>2, <3>1, WithoutProperties
    <3>3. p <= l.at
      <4> SUFFICES ASSUME l.at < p PROVE FALSE
        BY <1>1, <1>2
      <4>1. p \in Nat
        BY <1>2
      <4>2. Staying(list, o, l.at) < Staying(list, o, p)
        BY <1>1, <3>2, <4>1, StayingInOrder
      <4>3. m.at < n /\ n <= m.at /\ m.at \in Nat /\ n \in Nat
        BY <2>3, <2>4, <3>2, <4>2
      <4> QED
        BY <4>3
    <3>4. p \in 1..l.at
      BY <1>1, <1>2, <3>3
    <3> QED
      BY <2>2, <3>2, <3>4
  <2> QED
    BY <1>5, <2>3, <2>4, <2>5, <2>6 DEF Moved
<1> QED
  BY <1>3, <1>4, <1>5

-----------------------------------------------------------------------------
(* Every action keeps the invariant. *)

(* The part about the lists follows from how often who is in whose. *)
LEMMA CreateKeepsInvariant ==
  ASSUME ObserverAssumption, IInv, NEW o \in Objects, Create(o)
  PROVE  IInv'
<1>1. TypeOK /\ ListsAreMutual /\ o \notin alive
  BY DEF IInv, Create
<1>2. observers[o] = <<>> /\ subjects[o] = <<>>
  BY <1>1, TheDeadAreAlone
<1>3. observers' = observers /\ subjects' = subjects /\ loops' = loops
  BY <1>1, <1>2 DEF Create, TypeOK
<1>4. TypeOK'
  BY <1>1, <1>3 DEF TypeOK, Create
<1>5. ListsAreMutual'
  BY <1>1, <1>3 DEF ListsAreMutual, Create
<1>6. LoopsInPlace'
  BY <1>3 DEF IInv, LoopsInPlace
<1>7. LoopsStandOnTheirObserver'
  BY <1>3 DEF IInv, LoopsStandOnTheirObserver
<1> QED
  BY <1>4, <1>5, <1>6, <1>7 DEF IInv

(* observe() preserves the invariant. *)
LEMMA ObserveKeepsInvariant ==
  ASSUME ObserverAssumption, IInv, NEW o \in Objects, NEW s \in Objects, Observe(o, s)
  PROVE  IInv'
<1>1. /\ TypeOK /\ ListsAreMutual /\ {o, s} \subseteq alive
      /\ observers' = [observers EXCEPT ![s] = Append(@, o)]
      /\ subjects' = [subjects EXCEPT ![o] = Append(@, s)]
      /\ alive' = alive /\ loops' = loops
  BY DEF IInv, Observe
<1>2. /\ \A b \in Objects : observers'[b] = IF b = s THEN Append(observers[b], o)
                                                     ELSE observers[b]
      /\ \A a \in Objects : subjects'[a] = IF a = o THEN Append(subjects[a], s)
                                                    ELSE subjects[a]
  BY <1>1 DEF TypeOK
<1>3. TypeOK'
  <2>1. Append(observers[s], o) \in Seq(Objects) /\ Append(subjects[o], s) \in Seq(Objects)
    BY <1>1, ListTypes, AppendProperties
  <2>2. observers' \in [Objects -> Seq(Objects)] /\ subjects' \in [Objects -> Seq(Objects)]
    BY <1>1, <2>1 DEF TypeOK
  <2> QED
    BY <1>1, <2>2 DEF TypeOK
<1>4. ASSUME NEW a \in Objects, NEW b \in Objects
      PROVE  /\ Times(observers'[b], a) = Times(subjects'[a], b)
             /\ Times(observers'[b], a) > 0 => {a, b} \subseteq alive'
  <2>1. /\ Times(observers[b], a) = Times(subjects[a], b)
        /\ Times(observers[b], a) > 0 => {a, b} \subseteq alive
    BY <1>1 DEF ListsAreMutual
  <2>2. Times(observers'[b], a) =
          IF b = s /\ a = o THEN Times(observers[b], a) + 1 ELSE Times(observers[b], a)
    BY <1>1, <1>2, ListTypes, TimesAppend
  <2>3. Times(subjects'[a], b) =
          IF a = o /\ b = s THEN Times(subjects[a], b) + 1 ELSE Times(subjects[a], b)
    BY <1>1, <1>2, ListTypes, TimesAppend
  <2>4. CASE a = o /\ b = s
    BY <1>1, <2>1, <2>2, <2>3, <2>4
  <2>5. CASE ~(a = o /\ b = s)
    BY <1>1, <2>1, <2>2, <2>3, <2>5
  <2> QED
    BY <2>4, <2>5
<1>5. ListsAreMutual'
  BY <1>4 DEF ListsAreMutual
<1>6. \A b \in Objects : /\ Len(observers[b]) <= Len(observers'[b])
                         /\ DOMAIN observers[b] \subseteq DOMAIN observers'[b]
                         /\ Len(observers'[b]) \in Nat
                         /\ \A p \in 1..Len(observers[b]) :
                              observers'[b][p] = observers[b][p]
  <2> SUFFICES ASSUME NEW b \in Objects
               PROVE  /\ Len(observers[b]) <= Len(observers'[b])
                      /\ DOMAIN observers[b] \subseteq DOMAIN observers'[b]
                      /\ Len(observers'[b]) \in Nat
                      /\ \A p \in 1..Len(observers[b]) :
                           observers'[b][p] = observers[b][p]
    OBVIOUS
  <2>1. /\ observers[b] \in Seq(Objects) /\ Len(observers[b]) \in Nat
        /\ DOMAIN observers[b] = 1..Len(observers[b])
    BY <1>1, ListTypes
  <2>2. CASE b = s
    <3>1. observers'[b] = Append(observers[b], o)
      BY <1>2, <2>2
    <3>2. /\ Len(Append(observers[b], o)) = Len(observers[b]) + 1
          /\ DOMAIN Append(observers[b], o) = 1..(Len(observers[b]) + 1)
          /\ \A p \in 1..Len(observers[b]) :
               Append(observers[b], o)[p] = observers[b][p]
      BY <2>1
    <3> QED
      BY <2>1, <3>1, <3>2
  <2>3. CASE b # s
    BY <1>2, <2>1, <2>3
  <2> QED
    BY <2>2, <2>3
<1>7. LoopsInPlace'
  <2> SUFFICES ASSUME NEW n \in DOMAIN loops
               PROVE  InPlace(loops[n], observers')
    BY <1>1 DEF LoopsInPlace
  <2>1. loops[n].subject \in Objects /\ loops[n].at \in Nat
    BY <1>1, ListTypes DEF Loop
  <2>2. InPlace(loops[n], observers)
    BY DEF IInv, LoopsInPlace
  <2>3. Len(observers[loops[n].subject]) \in Nat
    BY <1>1, <2>1, ListTypes
  <2> QED
    BY SMTT(30), <1>6, <2>1, <2>2, <2>3 DEF InPlace
<1>8. LoopsStandOnTheirObserver'
  <2> SUFFICES ASSUME Careful, NEW n \in DOMAIN loops
               PROVE  /\ loops[n].at \in DOMAIN observers'[loops[n].subject]
                      /\ observers'[loops[n].subject][loops[n].at] = loops[n].called
    BY <1>1 DEF LoopsStandOnTheirObserver
  <2>1. loops[n].subject \in Objects
    BY <1>1, ListTypes DEF Loop
  <2>2. /\ loops[n].at \in DOMAIN observers[loops[n].subject]
        /\ observers[loops[n].subject][loops[n].at] = loops[n].called
    BY DEF IInv, LoopsStandOnTheirObserver
  <2>3. DOMAIN observers[loops[n].subject] = 1..Len(observers[loops[n].subject])
    BY <1>1, <2>1, ListTypes
  <2> QED
    BY <1>6, <2>1, <2>2, <2>3
<1> QED
  BY <1>3, <1>5, <1>7, <1>8 DEF IInv

(* What Forget does to the count of each pair. *)
LEMMA ForgetKeepsInvariant ==
  ASSUME ObserverAssumption, IInv, NEW o \in Objects, NEW s \in Objects, Forget(o, s)
  PROVE  IInv'
<1>1. /\ TypeOK /\ ListsAreMutual
      /\ observers' = [observers EXCEPT ![s] = Without(@, o)]
      /\ subjects' = [subjects EXCEPT ![o] = Without(@, s)]
      /\ alive' = alive /\ loops' = LoopsWithout(o, {s})
  BY DEF IInv, Forget
<1>2. /\ \A b \in Objects : observers'[b] = IF b = s THEN Without(observers[b], o)
                                                     ELSE observers[b]
      /\ \A a \in Objects : subjects'[a] = IF a = o THEN Without(subjects[a], s)
                                                    ELSE subjects[a]
  BY <1>1 DEF TypeOK
<1>3. observers' \in [Objects -> Seq(Objects)] /\ subjects' \in [Objects -> Seq(Objects)]
  <2>1. Without(observers[s], o) \in Seq(Objects) /\ Without(subjects[o], s) \in Seq(Objects)
    BY <1>1, ListTypes, WithoutProperties
  <2> QED
    BY <1>1, <2>1 DEF TypeOK
<1>4. ASSUME NEW a \in Objects, NEW b \in Objects
      PROVE  /\ Times(observers'[b], a) = Times(subjects'[a], b)
             /\ Times(observers'[b], a) > 0 => {a, b} \subseteq alive'
  <2>1. /\ Times(observers[b], a) = Times(subjects[a], b)
        /\ Times(observers[b], a) > 0 => {a, b} \subseteq alive
    BY <1>1 DEF ListsAreMutual
  <2>2. Times(observers'[b], a) =
          IF b = s /\ a = o THEN 0 ELSE Times(observers[b], a)
    BY <1>1, <1>2, ListTypes, WithoutTimes
  <2>3. Times(subjects'[a], b) =
          IF a = o /\ b = s THEN 0 ELSE Times(subjects[a], b)
    BY <1>1, <1>2, ListTypes, WithoutTimes
  <2>4. CASE a = o /\ b = s
    BY <1>1, <2>2, <2>3, <2>4
  <2>5. CASE ~(a = o /\ b = s)
    BY <1>1, <2>1, <2>2, <2>3, <2>5
  <2> QED
    BY <2>4, <2>5
<1>5. ListsAreMutual'
  BY <1>4 DEF ListsAreMutual
<1>6. /\ DOMAIN loops' = DOMAIN loops
      /\ \A n \in DOMAIN loops :
           loops'[n] = IF loops[n].subject = s
                         THEN AfterRemoval(loops[n], loops[n].subject, o) ELSE loops[n]
  BY <1>1 DEF LoopsWithout
<1>7. ASSUME NEW n \in DOMAIN loops
      PROVE  /\ loops'[n] \in Loop
             /\ InPlace(loops'[n], observers')
             /\ Careful => /\ loops'[n].at \in DOMAIN observers'[loops'[n].subject]
                           /\ observers'[loops'[n].subject][loops'[n].at] = loops'[n].called
  <2>1. PICK l : l = loops[n]
    OBVIOUS
  <2>2. PICK m : m = loops'[n]
    OBVIOUS
  <2>3. l \in Loop /\ l.subject \in Objects
    BY <1>1, <2>1, ListTypes DEF Loop
  <2>4. InPlace(l, observers)
    BY <2>1 DEF IInv, LoopsInPlace
  <2>5. Careful => /\ l.at \in DOMAIN observers[l.subject]
                   /\ observers[l.subject][l.at] = l.called
    BY <2>1 DEF IInv, LoopsStandOnTheirObserver
  <2>6. CASE l.subject # s
    <3>1. m = l /\ observers'[l.subject] = observers[l.subject]
      BY <1>2, <1>6, <2>1, <2>2, <2>3, <2>6
    <3> QED
      BY <2>1, <2>2, <2>3, <2>4, <2>5, <3>1 DEF InPlace
  <2>7. CASE l.subject = s
    <3>1. PICK list : list = observers[l.subject]
      OBVIOUS
    <3>2. PICK rest : rest = Without(list, o)
      OBVIOUS
    <3>3. m = AfterRemoval(l, l.subject, o)
      BY <1>6, <2>1, <2>2, <2>7
    <3>4. /\ m \in Loop
          /\ m.subject = l.subject /\ m.called = l.called /\ m.told = l.told
          /\ m.at # 0 => /\ m.at \in 1..Len(rest)
                         /\ \A p \in 1..m.at : rest[p] \in l.told /\ rest[p] # o
          /\ l.at # 0 /\ list[l.at] # o => m.at # 0 /\ rest[m.at] = list[l.at]
      <4>1. Moved(l, m, o, list, rest)
        BY <1>1, <2>3, <2>4, <3>1, <3>2, <3>3, AfterRemovalProperties
      <4> QED
        BY <4>1 DEF Moved
    <3>5. observers'[m.subject] = rest
      BY <1>2, <2>3, <2>7, <3>1, <3>2, <3>4
    <3>6. InPlace(m, observers')
      BY <3>4, <3>5 DEF InPlace
    <3>7. ASSUME Careful
          PROVE  /\ m.at \in DOMAIN rest
                 /\ rest[m.at] = m.called
      <4>1. l.called # o
        <5>1. <<l.called, l.subject>> # <<o, s>>
          BY <2>1, <3>7 DEF Forget, MayForget
        <5> QED
          BY <2>7, <5>1
      <4>2. l.at \in DOMAIN list /\ list[l.at] = l.called
        BY <2>5, <3>1, <3>7
      <4>3. l.at # 0
        BY <1>1, <2>3, <3>1, <4>2, ListTypes
      <4>4. m.at # 0 /\ rest[m.at] = m.called
        BY <3>4, <4>1, <4>2, <4>3
      <4>5. DOMAIN rest = 1..Len(rest)
        <5>1. rest \in Seq(Objects)
          BY <1>1, <2>3, <3>1, <3>2, ListTypes, WithoutProperties
        <5> QED
          BY <5>1, LenProperties
      <4> QED
        BY <3>4, <4>4, <4>5
    <3> QED
      BY <2>2, <3>4, <3>5, <3>6, <3>7
  <2> QED
    BY <2>6, <2>7
<1>8. loops' \in Seq(Loop)
  <2>1. DOMAIN loops = 1..Len(loops) /\ Len(loops) \in Nat
    BY <1>1, ListTypes
  <2>2. loops' = [n \in 1..Len(loops) |->
                    IF loops[n].subject \in {s}
                      THEN AfterRemoval(loops[n], loops[n].subject, o) ELSE loops[n]]
    BY <1>1, <2>1 DEF LoopsWithout
  <2>3. loops' \in [1..Len(loops) -> Loop]
    BY <1>7, <2>1, <2>2
  <2> QED
    BY <2>1, <2>3
<1>9. TypeOK'
  BY <1>1, <1>3, <1>8 DEF TypeOK
<1>10. LoopsInPlace'
  BY <1>6, <1>7 DEF LoopsInPlace
<1>11. LoopsStandOnTheirObserver'
  BY <1>6, <1>7 DEF LoopsStandOnTheirObserver
<1> QED
  BY <1>5, <1>9, <1>10, <1>11 DEF IInv

(* The destructors leave the lists of the others, by the lists of the object  *)
(* itself: whoever is not in them does not hold the object anyway.           *)
LEMMA DestroyKeepsInvariant ==
  ASSUME ObserverAssumption, IInv, NEW o \in Objects, Destroy(o)
  PROVE  IInv'
<1>1. /\ TypeOK /\ ListsAreMutual
      /\ observers' = [LeaveSubjects(o) EXCEPT ![o] = <<>>]
      /\ subjects' = [LeaveObservers(o) EXCEPT ![o] = <<>>]
      /\ alive' = alive \ {o}
  BY DEF IInv, Destroy
<1>2. /\ \A b \in Objects : observers'[b] =
           IF b = o THEN <<>>
           ELSE IF b \in ToSet(subjects[o]) THEN Without(observers[b], o)
           ELSE observers[b]
      /\ \A a \in Objects : subjects'[a] =
           IF a = o THEN <<>>
           ELSE IF a \in ToSet(observers[o]) THEN Without(subjects[a], o)
           ELSE subjects[a]
  BY <1>1 DEF LeaveSubjects, LeaveObservers
<1>3. observers' \in [Objects -> Seq(Objects)] /\ subjects' \in [Objects -> Seq(Objects)]
  <2>1. \A b \in Objects : /\ Without(observers[b], o) \in Seq(Objects)
                           /\ Without(subjects[b], o) \in Seq(Objects)
                           /\ observers[b] \in Seq(Objects)
                           /\ subjects[b] \in Seq(Objects)
    BY <1>1, ListTypes, WithoutProperties
  <2>2. LeaveSubjects(o) \in [Objects -> Seq(Objects)]
    BY <2>1 DEF LeaveSubjects
  <2>3. LeaveObservers(o) \in [Objects -> Seq(Objects)]
    BY <2>1 DEF LeaveObservers
  <2>4. <<>> \in Seq(Objects)
    OBVIOUS
  <2> HIDE DEF LeaveSubjects, LeaveObservers
  <2> QED
    BY <1>1, <2>2, <2>3, <2>4
<1>4. ASSUME NEW a \in Objects, NEW b \in Objects
      PROVE  /\ Times(observers'[b], a) = Times(subjects'[a], b)
             /\ Times(observers'[b], a) > 0 => {a, b} \subseteq alive'
  <2>1. /\ Times(observers[b], a) = Times(subjects[a], b)
        /\ Times(observers[b], a) > 0 => {a, b} \subseteq alive
    BY <1>1 DEF ListsAreMutual
  <2>2. \A x : Times(<<>>, x) = 0
    <3> SUFFICES ASSUME NEW x PROVE Times(<<>>, x) = 0
      OBVIOUS
    <3>1. <<>> \in Seq(Objects) /\ x \notin ToSet(<<>>)
      BY DEF ToSet
    <3> QED
      BY <3>1, TimesProperties
  <2>3. CASE a # o /\ b # o
    <3>1. Times(observers'[b], a) = Times(observers[b], a)
      <4>1. CASE b \in ToSet(subjects[o])
        <5>1. observers'[b] = Without(observers[b], o)
          BY <1>2, <2>3, <4>1
        <5> QED
          BY <1>1, <2>3, <5>1, ListTypes, WithoutTimes
      <4>2. CASE b \notin ToSet(subjects[o])
        BY <1>2, <2>3, <4>2
      <4> QED
        BY <4>1, <4>2
    <3>2. Times(subjects'[a], b) = Times(subjects[a], b)
      <4>1. CASE a \in ToSet(observers[o])
        <5>1. subjects'[a] = Without(subjects[a], o)
          BY <1>2, <2>3, <4>1
        <5> QED
          BY <1>1, <2>3, <5>1, ListTypes, WithoutTimes
      <4>2. CASE a \notin ToSet(observers[o])
        BY <1>2, <2>3, <4>2
      <4> QED
        BY <4>1, <4>2
    <3> QED
      BY <1>1, <2>1, <2>3, <3>1, <3>2
  <2>4. CASE a = o \/ b = o
    <3>1. Times(observers'[b], a) = 0
      <4>1. CASE b = o
        BY <1>2, <2>2, <4>1
      <4>2. CASE b # o /\ b \in ToSet(subjects[o])
        <5>1. observers'[b] = Without(observers[b], o) /\ a = o
          BY <1>2, <2>4, <4>2
        <5> QED
          BY <1>1, <5>1, ListTypes, WithoutTimes
      <4>3. CASE b # o /\ b \notin ToSet(subjects[o])
        <5>1. observers'[b] = observers[b] /\ a = o
          BY <1>2, <2>4, <4>3
        <5>2. o \notin ToSet(observers[b])
          BY <1>1, <4>3, MutualSets
        <5> QED
          BY <1>1, <5>1, <5>2, ListTypes, TimesProperties
      <4> QED
        BY <4>1, <4>2, <4>3
    <3>2. Times(subjects'[a], b) = 0
      <4>1. CASE a = o
        BY <1>2, <2>2, <4>1
      <4>2. CASE a # o /\ a \in ToSet(observers[o])
        <5>1. subjects'[a] = Without(subjects[a], o) /\ b = o
          BY <1>2, <2>4, <4>2
        <5> QED
          BY <1>1, <5>1, ListTypes, WithoutTimes
      <4>3. CASE a # o /\ a \notin ToSet(observers[o])
        <5>1. subjects'[a] = subjects[a] /\ b = o
          BY <1>2, <2>4, <4>3
        <5>2. o \notin ToSet(subjects[a])
          BY <1>1, <4>3, MutualSets
        <5> QED
          BY <1>1, <5>1, <5>2, ListTypes, TimesProperties
      <4> QED
        BY <4>1, <4>2, <4>3
    <3> QED
      BY <3>1, <3>2
  <2> QED
    BY <2>3, <2>4
<1>5. ListsAreMutual'
  BY <1>4 DEF ListsAreMutual
<1>6. PICK left : left = LoopsWithout(o, ToSet(subjects[o]))
  OBVIOUS
<1>7. /\ DOMAIN left = DOMAIN loops
      /\ \A n \in DOMAIN loops :
           left[n] = IF loops[n].subject \in ToSet(subjects[o])
                       THEN AfterRemoval(loops[n], loops[n].subject, o) ELSE loops[n]
      /\ loops' = [n \in DOMAIN loops |->
                     [left[n] EXCEPT !.at = IF left[n].subject = o THEN 0 ELSE @,
                                     !.told = @ \ {o}]]
  BY <1>6 DEF LoopsWithout, Destroy
<1>8. ASSUME NEW n \in DOMAIN loops
      PROVE  /\ loops'[n] \in Loop
             /\ InPlace(loops'[n], observers')
             /\ Careful => /\ loops'[n].at \in DOMAIN observers'[loops'[n].subject]
                           /\ observers'[loops'[n].subject][loops'[n].at] = loops'[n].called
  <2>1. PICK l : l = loops[n]
    OBVIOUS
  <2>2. PICK m : m = left[n]
    OBVIOUS
  <2>3. PICK d : d = loops'[n]
    OBVIOUS
  <2>4. l \in Loop /\ l.subject \in Objects
    BY <1>1, <2>1, ListTypes DEF Loop
  <2>5. InPlace(l, observers)
    BY <2>1 DEF IInv, LoopsInPlace
  <2>6. Careful => /\ l.at \in DOMAIN observers[l.subject]
                   /\ observers[l.subject][l.at] = l.called
    BY <2>1 DEF IInv, LoopsStandOnTheirObserver
  <2>7. PICK list : list = observers[l.subject]
    OBVIOUS
  <2>8. PICK rest : rest = IF l.subject \in ToSet(subjects[o]) THEN Without(list, o) ELSE list
    OBVIOUS
  <2>9. Moved(l, m, o, list, rest) /\ rest \in Seq(Objects)
    <3>1. CASE l.subject \in ToSet(subjects[o])
      <4>1. m = AfterRemoval(l, l.subject, o)
        BY <1>7, <2>1, <2>2, <3>1
      <4>2. rest = Without(list, o)
        BY <2>8, <3>1
      <4>3. list \in Seq(Objects)
        BY <1>1, <2>4, <2>7, ListTypes
      <4> QED
        BY <1>1, <2>4, <2>5, <2>7, <4>1, <4>2, <4>3, AfterRemovalProperties,
           WithoutProperties
    <3>2. CASE l.subject \notin ToSet(subjects[o])
      <4>1. m = l /\ rest = list
        BY <1>7, <2>1, <2>2, <2>8, <3>2
      <4>2. o \notin ToSet(list)
        BY <1>1, <2>4, <2>7, <3>2, MutualSets
      <4>3. list \in Seq(Objects) /\ DOMAIN list = 1..Len(list) /\ Len(list) \in Nat
        BY <1>1, <2>4, <2>7, ListTypes
      <4>4. \A p \in 1..Len(list) : list[p] # o
        BY <4>2, <4>3 DEF ToSet
      <4>5. l.at # 0 => /\ l.at \in 1..Len(list)
                        /\ \A p \in 1..l.at : list[p] \in l.told /\ list[p] # o
        <5> SUFFICES ASSUME l.at # 0
                     PROVE  /\ l.at \in 1..Len(list)
                            /\ \A p \in 1..l.at : list[p] \in l.told /\ list[p] # o
          OBVIOUS
        <5>1. l.at \in 1..Len(list) /\ \A p \in 1..l.at : list[p] \in l.told
          BY <2>5, <2>7 DEF InPlace
        <5>2. \A p \in 1..l.at : p \in 1..Len(list)
          BY <4>3, <5>1
        <5> QED
          BY <4>4, <5>1, <5>2
      <4> QED
        BY <2>4, <4>1, <4>3, <4>5 DEF Moved
    <3> QED
      BY <3>1, <3>2
  <2>10. /\ m \in Loop /\ m.subject = l.subject /\ m.called = l.called /\ m.told = l.told
         /\ m.at # 0 => /\ m.at \in 1..Len(rest)
                        /\ \A p \in 1..m.at : rest[p] \in l.told /\ rest[p] # o
         /\ l.at # 0 /\ list[l.at] # o => m.at # 0 /\ rest[m.at] = list[l.at]
    BY <2>9 DEF Moved
  <2>11. d = [m EXCEPT !.at = IF m.subject = o THEN 0 ELSE @, !.told = @ \ {o}]
    BY <1>7, <2>2, <2>3
  <2>12. /\ d \in Loop /\ d.subject = l.subject /\ d.called = l.called
         /\ d.told = l.told \ {o}
         /\ d.at = IF l.subject = o THEN 0 ELSE m.at
    BY <2>10, <2>11 DEF Loop
  <2>13. l.subject # o => observers'[l.subject] = rest
    BY <1>2, <2>4, <2>7, <2>8
  <2>14. InPlace(d, observers')
    <3> SUFFICES ASSUME d.at # 0
                 PROVE  /\ d.at \in 1..Len(observers'[d.subject])
                        /\ \A p \in 1..d.at : observers'[d.subject][p] \in d.told
      BY DEF InPlace
    <3>1. l.subject # o /\ d.at = m.at
      BY <2>12
    <3> QED
      BY <2>10, <2>12, <2>13, <3>1
  <2>15. ASSUME Careful
         PROVE  /\ d.at \in DOMAIN observers'[d.subject]
                /\ observers'[d.subject][d.at] = d.called
    <3>1. l.called # o /\ l.subject # o
      BY <2>1, <2>15 DEF Destroy, MayDestroy
    <3>2. l.at \in DOMAIN list /\ list[l.at] = l.called
      BY <2>6, <2>7, <2>15
    <3>3. l.at # 0
      BY <1>1, <2>4, <2>7, <3>2, ListTypes
    <3>4. m.at # 0 /\ rest[m.at] = l.called /\ m.at \in 1..Len(rest)
      BY <2>10, <3>1, <3>2, <3>3
    <3>5. DOMAIN rest = 1..Len(rest)
      BY <2>9, LenProperties
    <3> QED
      BY <2>12, <2>13, <3>1, <3>4, <3>5
  <2> QED
    BY <2>3, <2>12, <2>14, <2>15
<1>9. loops' \in Seq(Loop) /\ DOMAIN loops' = DOMAIN loops
  <2>1. DOMAIN loops = 1..Len(loops) /\ Len(loops) \in Nat
    BY <1>1, ListTypes
  <2>2. DOMAIN loops' = DOMAIN loops
    BY <1>7
  <2>3. loops' \in [1..Len(loops) -> Loop]
    BY <1>7, <1>8, <2>1
  <2> QED
    BY <2>1, <2>2, <2>3
<1>10. TypeOK'
  BY <1>1, <1>3, <1>9 DEF TypeOK
<1>11. LoopsInPlace'
  BY <1>8, <1>9 DEF LoopsInPlace
<1>12. LoopsStandOnTheirObserver'
  BY <1>8, <1>9 DEF LoopsStandOnTheirObserver
<1> QED
  BY <1>5, <1>10, <1>11, <1>12 DEF IInv

(* A call of OnNotify for the observer at p, if all before it were told. *)
LEMMA CallIsInPlace ==
  ASSUME TypeOK, NEW s \in Objects, NEW p \in 1..Len(observers[s]),
         NEW told \in SUBSET Objects, \A q \in 1..(p - 1) : observers[s][q] \in told,
         NEW l, l = Calls(s, p, told)
  PROVE  /\ l \in Loop
         /\ InPlace(l, observers)
         /\ l.at \in DOMAIN observers[l.subject]
         /\ observers[l.subject][l.at] = l.called
<1>1. /\ observers[s] \in Seq(Objects) /\ Len(observers[s]) \in Nat
      /\ DOMAIN observers[s] = 1..Len(observers[s])
  BY ListTypes
<1>2. PICK o : o = observers[s][p]
  OBVIOUS
<1>3. o \in Objects
  BY <1>1, <1>2, ElementOfSeq
<1>4. l = [subject |-> s, at |-> p, called |-> o, told |-> told \cup {o}]
  BY <1>2 DEF Calls
<1>5. l \in Loop
  BY <1>1, <1>3, <1>4 DEF Loop
<1>6. \A q \in 1..p : observers[s][q] \in told \cup {o}
  <2> SUFFICES ASSUME NEW q \in 1..p PROVE observers[s][q] \in told \cup {o}
    OBVIOUS
  <2>1. CASE q = p
    BY <1>2, <2>1
  <2>2. CASE q # p
    <3>1. q \in 1..(p - 1)
      BY <1>1, <2>2
    <3> QED
      BY <3>1
  <2> QED
    BY <2>1, <2>2
<1> QED
  BY <1>1, <1>2, <1>4, <1>5, <1>6 DEF InPlace

(* notify() puts a loop in front of the loops, or goes on with the front one, *)
(* or ends it; the lists stay.                                               *)
LEMMA NewFrontLoop ==
  ASSUME IInv, UNCHANGED <<alive, observers, subjects>>,
         NEW l \in Loop, InPlace(l, observers),
         l.at \in DOMAIN observers[l.subject], observers[l.subject][l.at] = l.called,
         NEW rest \in Seq(Loop), loops' = <<l>> \o rest,
         \A n \in 1..Len(rest) : \E i \in DOMAIN loops : rest[n] = loops[i]
  PROVE  IInv'
<1>1. /\ loops' \in Seq(Loop) /\ Len(rest) \in Nat
      /\ Len(loops') = Len(rest) + 1
      /\ loops'[1] = l
      /\ \A n \in 1..Len(rest) : loops'[n + 1] = rest[n]
  BY InFront, LenProperties
<1>2. DOMAIN loops' = 1..(Len(rest) + 1)
  BY <1>1, LenProperties
<1>3. ASSUME NEW n \in DOMAIN loops'
      PROVE  loops'[n] = l \/ \E i \in DOMAIN loops : loops'[n] = loops[i]
  <2>1. CASE n = 1
    BY <1>1, <2>1
  <2>2. CASE n # 1
    <3>1. PICK i : i = n - 1
      OBVIOUS
    <3>2. i \in 1..Len(rest) /\ i + 1 = n
      BY <1>1, <1>2, <2>2, <3>1
    <3>3. loops'[n] = rest[i]
      BY <1>1, <3>2
    <3> QED
      BY <3>2, <3>3
  <2> QED
    BY <2>1, <2>2
<1>4. TypeOK'
  BY <1>1 DEF IInv, TypeOK
<1>5. ListsAreMutual'
  BY DEF IInv, ListsAreMutual
<1>6. LoopsInPlace'
  <2> SUFFICES ASSUME NEW n \in DOMAIN loops'
               PROVE  InPlace(loops'[n], observers)
    BY DEF LoopsInPlace
  <2>1. \A i \in DOMAIN loops : InPlace(loops[i], observers)
    BY DEF IInv, LoopsInPlace
  <2> QED
    BY <1>3, <2>1
<1>7. LoopsStandOnTheirObserver'
  <2> SUFFICES ASSUME Careful, NEW n \in DOMAIN loops'
               PROVE  /\ loops'[n].at \in DOMAIN observers[loops'[n].subject]
                      /\ observers[loops'[n].subject][loops'[n].at] = loops'[n].called
    BY DEF LoopsStandOnTheirObserver
  <2>1. \A i \in DOMAIN loops :
          /\ loops[i].at \in DOMAIN observers[loops[i].subject]
          /\ observers[loops[i].subject][loops[i].at] = loops[i].called
    BY DEF IInv, LoopsStandOnTheirObserver
  <2> QED
    BY <1>3, <2>1
<1> QED
  BY <1>4, <1>5, <1>6, <1>7 DEF IInv

(* notify() preserves the invariant when it starts. *)
LEMMA NotifyKeepsInvariant ==
  ASSUME IInv, NEW s \in Objects, Notify(s)
  PROVE  IInv'
<1>1. TypeOK /\ observers[s] # <<>> /\ UNCHANGED <<alive, observers, subjects>>
  BY DEF IInv, Notify
<1>2. PICK l : l = Calls(s, 1, {})
  OBVIOUS
<1>3. 1 \in 1..Len(observers[s])
  <2>1. observers[s] \in Seq(Objects)
    BY <1>1, ListTypes
  <2>2. Len(observers[s]) \in Nat \ {0}
    BY <1>1, <2>1, EmptySeq
  <2> QED
    BY <2>2
<1>4. /\ l \in Loop /\ InPlace(l, observers)
      /\ l.at \in DOMAIN observers[l.subject] /\ observers[l.subject][l.at] = l.called
  <2>1. \A q \in 1..(1 - 1) : observers[s][q] \in {}
    OBVIOUS
  <2>2. {} \in SUBSET Objects
    OBVIOUS
  <2> QED
    BY <1>1, <1>2, <1>3, <2>1, <2>2, CallIsInPlace
<1>5. loops' = <<l>> \o loops /\ loops \in Seq(Loop)
  BY <1>1, <1>2 DEF Notify, TypeOK
<1>6. \A n \in 1..Len(loops) : \E i \in DOMAIN loops : loops[n] = loops[i]
  BY <1>1, ListTypes
<1> QED
  BY <1>1, <1>4, <1>5, <1>6, NewFrontLoop

(* What is behind the front loop. *)
LEMMA TailOfLoops ==
  ASSUME TypeOK, loops # <<>>
  PROVE  /\ Head(loops) \in Loop /\ Tail(loops) \in Seq(Loop)
         /\ 1 \in DOMAIN loops /\ Head(loops) = loops[1]
         /\ \A n \in 1..Len(Tail(loops)) :
              \E i \in DOMAIN loops : Tail(loops)[n] = loops[i]
         /\ DOMAIN Tail(loops) = 1..Len(Tail(loops))
<1>1. loops \in Seq(Loop) /\ Len(loops) \in Nat \ {0} /\ DOMAIN loops = 1..Len(loops)
  BY EmptySeq, LenProperties DEF TypeOK
<1>2. /\ Head(loops) \in Loop /\ Tail(loops) \in Seq(Loop)
      /\ Len(Tail(loops)) = Len(loops) - 1
      /\ \A n \in 1..Len(Tail(loops)) : Tail(loops)[n] = loops[n + 1]
  BY <1>1, HeadTailProperties
<1>3. \A n \in 1..Len(Tail(loops)) : n + 1 \in DOMAIN loops
  BY <1>1, <1>2
<1>4. 1 \in DOMAIN loops /\ Head(loops) = loops[1]
  BY <1>1
<1>5. DOMAIN Tail(loops) = 1..Len(Tail(loops))
  BY <1>2, LenProperties
<1> QED
  BY <1>2, <1>3, <1>4, <1>5

(* A loop that goes on to the next observer preserves the invariant. *)
LEMMA NotifyNextKeepsInvariant ==
  ASSUME IInv, NotifyNext
  PROVE  IInv'
<1>1. TypeOK /\ loops # <<>> /\ UNCHANGED <<alive, observers, subjects>>
  BY DEF IInv, NotifyNext
<1>2. PICK h : h = Head(loops)
  OBVIOUS
<1>3. /\ h.at # 0 /\ h.at < Len(observers[h.subject])
      /\ loops' = <<Calls(h.subject, h.at + 1, h.told)>> \o Tail(loops)
  BY <1>2 DEF NotifyNext
<1>4. h \in Loop /\ InPlace(h, observers)
  <2>1. h \in Loop /\ 1 \in DOMAIN loops /\ h = loops[1]
    BY <1>1, <1>2, TailOfLoops
  <2> QED
    BY <2>1 DEF IInv, LoopsInPlace
<1>5. h.subject \in Objects /\ h.at \in Nat /\ h.told \in SUBSET Objects
  BY <1>4 DEF Loop
<1>6. PICK l : l = Calls(h.subject, h.at + 1, h.told)
  OBVIOUS
<1>7. h.at + 1 \in 1..Len(observers[h.subject])
  <2>1. Len(observers[h.subject]) \in Nat
    BY <1>1, <1>5, ListTypes
  <2> QED
    BY <1>3, <1>5, <2>1
<1>8. \A q \in 1..((h.at + 1) - 1) : observers[h.subject][q] \in h.told
  <2>1. \A q \in 1..h.at : observers[h.subject][q] \in h.told
    BY <1>3, <1>4 DEF InPlace
  <2>2. (h.at + 1) - 1 = h.at
    BY <1>5
  <2> QED
    BY <2>1, <2>2
<1>9. /\ l \in Loop /\ InPlace(l, observers)
      /\ l.at \in DOMAIN observers[l.subject] /\ observers[l.subject][l.at] = l.called
  BY <1>1, <1>5, <1>6, <1>7, <1>8, CallIsInPlace
<1>10. PICK rest : rest = Tail(loops)
  OBVIOUS
<1>11. /\ rest \in Seq(Loop) /\ loops' = <<l>> \o rest
       /\ \A n \in 1..Len(rest) : \E i \in DOMAIN loops : rest[n] = loops[i]
  BY <1>1, <1>3, <1>6, <1>10, TailOfLoops
<1> QED
  BY <1>1, <1>9, <1>11, NewFrontLoop

(* A loop that ends preserves the invariant. *)
LEMMA NotifyEndKeepsInvariant ==
  ASSUME IInv, NotifyEnd
  PROVE  IInv'
<1>1. TypeOK /\ loops # <<>> /\ UNCHANGED <<alive, observers, subjects>>
      /\ loops' = Tail(loops)
  BY DEF IInv, NotifyEnd
<1>2. /\ loops' \in Seq(Loop)
      /\ \A n \in DOMAIN loops' : \E i \in DOMAIN loops : loops'[n] = loops[i]
  BY <1>1, TailOfLoops
<1>3. TypeOK'
  BY <1>1, <1>2 DEF TypeOK
<1>4. ListsAreMutual'
  BY <1>1 DEF IInv, ListsAreMutual
<1>5. LoopsInPlace'
  <2> SUFFICES ASSUME NEW n \in DOMAIN loops'
               PROVE  InPlace(loops'[n], observers)
    BY <1>1 DEF LoopsInPlace
  <2>1. \A i \in DOMAIN loops : InPlace(loops[i], observers)
    BY DEF IInv, LoopsInPlace
  <2> QED
    BY <1>2, <2>1
<1>6. LoopsStandOnTheirObserver'
  <2> SUFFICES ASSUME Careful, NEW n \in DOMAIN loops'
               PROVE  /\ loops'[n].at \in DOMAIN observers[loops'[n].subject]
                      /\ observers[loops'[n].subject][loops'[n].at] = loops'[n].called
    BY <1>1 DEF LoopsStandOnTheirObserver
  <2>1. \A i \in DOMAIN loops :
          /\ loops[i].at \in DOMAIN observers[loops[i].subject]
          /\ observers[loops[i].subject][loops[i].at] = loops[i].called
    BY DEF IInv, LoopsStandOnTheirObserver
  <2> QED
    BY <1>2, <2>1
<1> QED
  BY <1>3, <1>4, <1>5, <1>6 DEF IInv

-----------------------------------------------------------------------------
(* The theorems. *)

(* In the beginning nobody exists and nobody is registered. *)
LEMMA InitInvariant ==
  ASSUME ObserverAssumption, Init
  PROVE  IInv
<1>1. TypeOK
  BY DEF Init, TypeOK
<1>2. ListsAreMutual
  <2> SUFFICES ASSUME NEW o \in Objects, NEW s \in Objects
               PROVE  Times(observers[s], o) = 0 /\ Times(subjects[o], s) = 0
    BY DEF ListsAreMutual
  <2>1. observers[s] = <<>> /\ subjects[o] = <<>>
    BY DEF Init
  <2>2. <<>> \in Seq(Objects) /\ o \notin ToSet(<<>>) /\ s \notin ToSet(<<>>)
    BY DEF ToSet
  <2> QED
    BY <2>1, <2>2, TimesProperties
<1>3. DOMAIN loops = {}
  BY DEF Init
<1> QED
  BY <1>1, <1>2, <1>3 DEF IInv, LoopsInPlace, LoopsStandOnTheirObserver

(* Every step of the application and of notify() keeps the invariant. *)
LEMMA NextInvariant ==
  ASSUME ObserverAssumption, IInv, [Next]_vars
  PROVE  IInv'
<1>1. ASSUME NEW o \in Objects, Create(o) PROVE IInv'
  BY <1>1, CreateKeepsInvariant
<1>2. ASSUME NEW o \in Objects, Destroy(o) PROVE IInv'
  BY <1>2, DestroyKeepsInvariant
<1>3. ASSUME NEW s \in Objects, Notify(s) PROVE IInv'
  BY <1>3, NotifyKeepsInvariant
<1>4. ASSUME NEW o \in Objects, NEW s \in Objects, Observe(o, s) PROVE IInv'
  BY <1>4, ObserveKeepsInvariant
<1>5. ASSUME NEW o \in Objects, NEW s \in Objects, Forget(o, s) PROVE IInv'
  BY <1>5, ForgetKeepsInvariant
<1>6. CASE NotifyNext
  BY <1>6, NotifyNextKeepsInvariant
<1>7. CASE NotifyEnd
  BY <1>7, NotifyEndKeepsInvariant
<1>8. CASE UNCHANGED vars
  BY <1>8 DEF vars, IInv, TypeOK, ListsAreMutual, LoopsInPlace,
              LoopsStandOnTheirObserver
<1> QED
  BY <1>1, <1>2, <1>3, <1>4, <1>5, <1>6, <1>7, <1>8 DEF Next

(* The parts of the invariant hold together in every state that observers,   *)
(* subjects and notify() can reach.                                          *)
THEOREM InvariantHolds == Spec => []IInv
<1>1. Init => IInv
  BY ObserverAssumption, InitInvariant
<1>2. IInv /\ [Next]_vars => IInv'
  BY ObserverAssumption, NextInvariant
<1> QED
  BY <1>1, <1>2, PTL DEF Spec

(* The lists of observers and subjects, and the loops, keep their types. *)
THEOREM TypeCorrect == Spec => []TypeOK
<1>1. IInv => TypeOK
  BY DEF IInv
<1> QED
  BY <1>1, InvariantHolds, PTL

(* No list keeps a dangling pointer: subject and observer know each other as *)
(* often, and both exist, whoever is destroyed first and whatever OnNotify    *)
(* does - the handlers need not be careful.                                  *)
THEOREM NoDanglingPointer == Spec => []ListsAreMutual
<1>1. IInv => ListsAreMutual
  BY DEF IInv
<1> QED
  BY <1>1, InvariantHolds, PTL

(* With careful handlers the iterator of every loop of notify(), however     *)
(* deep the loops are nested, stays on the observer that is being told.      *)
THEOREM IteratorStaysValid == Spec => []LoopsStandOnTheirObserver
<1>1. IInv => LoopsStandOnTheirObserver
  BY DEF IInv
<1> QED
  BY <1>1, InvariantHolds, PTL

(* A loop of notify() that reaches the end of the list has told everyone in  *)
(* it.                                                                       *)
LEMMA EveryoneTold ==
  ASSUME IInv, NotifyEnd
  PROVE  ToSet(observers[Head(loops).subject]) \subseteq Head(loops).told
<1>1. TypeOK /\ loops # <<>>
  BY DEF IInv, NotifyEnd
<1>2. PICK h : h = Head(loops)
  OBVIOUS
<1>3. h \in Loop /\ InPlace(h, observers)
  <2>1. h \in Loop /\ 1 \in DOMAIN loops /\ h = loops[1]
    BY <1>1, <1>2, TailOfLoops
  <2> QED
    BY <2>1 DEF IInv, LoopsInPlace
<1>4. h.at # 0 /\ h.at = Len(observers[h.subject])
  BY <1>2 DEF NotifyEnd
<1>5. \A p \in 1..h.at : observers[h.subject][p] \in h.told
  BY <1>3, <1>4 DEF InPlace
<1>6. h.subject \in Objects
  BY <1>3 DEF Loop
<1>7. DOMAIN observers[h.subject] = 1..h.at
  BY <1>1, <1>4, <1>6, ListTypes
<1> QED
  BY <1>2, <1>5, <1>7 DEF ToSet

(* When notify() is through, every observer registered by then had OnNotify, *)
(* also those that handlers have registered meanwhile.                       *)
THEOREM EveryoneIsTold == Spec => NotifyReachesEveryone
<1>1. IInv /\ [Next]_vars
        => [NotifyEnd => LET l == Head(loops) IN
                         ToSet(observers[l.subject]) \subseteq l.told]_vars
  BY EveryoneTold
<1> QED
  BY <1>1, InvariantHolds, PTL DEF Spec, NotifyReachesEveryone

=============================================================================
