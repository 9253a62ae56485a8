-------------------------- MODULE GlutMasterProofs ---------------------------
(***************************************************************************)
(* Proofs about GlutMaster, for any objects, identifiers and bounds.        *)
(*                                                                         *)
(* The timers come first, on their own (TimerSpec), for any discipline of   *)
(* the handlers: the invariants, then what the discipline buys, then that   *)
(* they implement TimerService.                                             *)
(*                                                                         *)
(* Then the windows, on their own (WindowSpec).  That grab() keeps to       *)
(* windows of the same GLUT window (~GrabOver) is assumed throughout; that  *)
(* close() is called once per window (~CloseTwice) only where the queue of  *)
(* OnClose is spoken of.                                                    *)
(*                                                                         *)
(* The whole (Spec) is then a run of the windows, and a run of the timers   *)
(* but for the idle callback; what is left to show is what holds between    *)
(* the two.                                                                 *)
(***************************************************************************)
EXTENDS GlutMaster, ListLemmas, FiniteSetTheorems

-----------------------------------------------------------------------------
(* The inductive invariant: besides the properties that the runs check, a     *)
(* timer callback under way has a slot of the table and an object, and there  *)
(* is none before GLUT is up.  It does not say who registers idleCallback,    *)
(* which the windows change as well.                                          *)

FrameHasSlot ==
  timerFrame.kind \in {"tick", "timer"} => /\ timerFrame.index \in DOMAIN slots
                                           /\ timerFrame.target # NULL

NothingBeforeGlut == ~glutInit => slots = <<>> /\ timerFrame.kind = "none"

OnlyTheLivingAreIdle == \A t \in Addresses : idle[t] => t \in Alive

IdlersCounted == idleCount = Cardinality({t \in Addresses : idle[t]})

IdleHasCallback == idleCount > 0 => idleFunc

TimerInv ==
  /\ TimerTypeOK
  /\ SlotsMatchCalls
  /\ NothingOutlivesItsObject
  /\ IdlersCounted
  /\ FrameHasSlot
  /\ NothingBeforeGlut
  /\ OnlyTheLivingAreIdle

-----------------------------------------------------------------------------
(* Lemmas about the operators. *)

(* A destroyed object leaves the list, and only that object.                 *)
LEMMA ListWithoutOne ==
  ASSUME TimerTypeOK, NEW p \in DOMAIN timerList, timerList' = RemoveAt(timerList, p)
  PROVE  /\ timerList' \in Seq(Addresses)
         /\ \A q, r \in DOMAIN timerList' : timerList'[q] = timerList'[r] => q = r
         /\ Alive' = Alive \ {timerList[p]}
<1>1. /\ timerList \in Seq(Addresses)
      /\ \A q, r \in DOMAIN timerList : timerList[q] = timerList[r] => q = r
      /\ DOMAIN timerList = 1..Len(timerList)
      /\ Len(timerList) \in Nat
  BY LenProperties DEF TimerTypeOK
<1>2. /\ timerList' \in Seq(Addresses)
      /\ Len(timerList') = Len(timerList) - 1
      /\ \A k \in 1..(Len(timerList) - 1) :
           timerList'[k] = IF k < p THEN timerList[k] ELSE timerList[k + 1]
  <2>1. p \in 1..Len(timerList) /\ timerList \in Seq(Addresses)
    BY <1>1
  <2>2. /\ RemoveAt(timerList, p) \in Seq(Addresses)
        /\ Len(RemoveAt(timerList, p)) = Len(timerList) - 1
        /\ \A k \in 1..(Len(timerList) - 1) :
             RemoveAt(timerList, p)[k] = IF k < p THEN timerList[k] ELSE timerList[k + 1]
    BY ONLY <2>1, RemoveAtProperties
  <2> QED
    BY <2>2
<1>3. DOMAIN timerList' = 1..(Len(timerList) - 1)
  BY <1>2, LenProperties
<1> DEFINE Old(k) == IF k < p THEN k ELSE k + 1
<1>4. ASSUME NEW k \in DOMAIN timerList'
      PROVE  /\ Old(k) \in DOMAIN timerList
             /\ Old(k) # p
             /\ timerList'[k] = timerList[Old(k)]
  BY <1>1, <1>2, <1>3
<1>5. ASSUME NEW q \in DOMAIN timerList', NEW r \in DOMAIN timerList', Old(q) = Old(r)
      PROVE  q = r
  BY <1>1, <1>3, <1>5
<1>6. ASSUME NEW q \in DOMAIN timerList', NEW r \in DOMAIN timerList',
             timerList'[q] = timerList'[r]
      PROVE  q = r
  <2> HIDE DEF Old
  <2> QED
    BY <1>1, <1>6, <1>4, <1>5
<1>7. ASSUME NEW q \in DOMAIN timerList, q # p
      PROVE  \E k \in DOMAIN timerList' : timerList'[k] = timerList[q]
  <2>1. CASE q < p
    BY <1>1, <1>2, <1>3, <2>1
  <2>2. CASE q > p
    <3>1. q - 1 \in DOMAIN timerList' /\ timerList'[q - 1] = timerList[q]
      BY <1>1, <1>2, <1>3, <2>2
    <3> QED
      BY <3>1
  <2> QED
    BY <1>1, <1>7, <2>1, <2>2
<1>8. ASSUME NEW k \in DOMAIN timerList'
      PROVE  timerList'[k] \in Alive \ {timerList[p]}
  <2>1. PICK q \in DOMAIN timerList : q # p /\ timerList'[k] = timerList[q]
    BY <1>4
  <2> QED
    BY <1>1, <2>1 DEF Alive
<1>9. Alive' = Alive \ {timerList[p]}
  BY <1>1, <1>7, <1>8 DEF Alive
<1> QED
  BY <1>2, <1>6, <1>9

(* Slot::add fills one slot, that was free or is new, and no other; its      *)
(* callback is the only one with that index.                                 *)
LEMMA AddSlotEffect ==
  ASSUME TimerTypeOK, SlotsMatchCalls,
         NEW i \in SlotIds, NEW t \in Addresses, NEW v \in Vals \cup {NULL},
         NEW k \in BOOLEAN, AddSlot(i, t, v, k)
  PROVE  /\ slots' \in Seq(Slot)
         /\ Len(slots') <= MaxSlots
         /\ Len(slots') = IF i \in DOMAIN slots THEN Len(slots) ELSE Len(slots) + 1
         /\ i \in DOMAIN slots'
         /\ i \in DOMAIN slots => ~slots[i].inUse
         /\ slots'[i] = NewSlot(t, v, k)
         /\ \A j \in DOMAIN slots' : j # i => j \in DOMAIN slots /\ slots'[j] = slots[j]
         /\ DOMAIN slots \subseteq DOMAIN slots'
         /\ cursor' \in 1..Len(slots')
         /\ calls' \in [SlotIds -> Nat]
         /\ SlotsMatchCalls'
<1>1. /\ slots \in Seq(Slot)
      /\ Len(slots) \in Nat
      /\ DOMAIN slots = 1..Len(slots)
      /\ Len(slots) <= MaxSlots
      /\ MaxSlots \in Nat
      /\ i \in 1..MaxSlots
      /\ NewSlot(t, v, k) \in Slot
  BY LenProperties, TimersAssumption DEF TimerTypeOK, NewSlot, Slot, SlotIds
<1>2. \/ i \in DOMAIN slots /\ ~slots[i].inUse
      \/ i = Len(slots) + 1
  BY DEF AddSlot, IsFreeSlot
<1>3. /\ slots' \in Seq(Slot)
      /\ Len(slots') = IF i \in DOMAIN slots THEN Len(slots) ELSE Len(slots) + 1
      /\ slots'[i] = NewSlot(t, v, k)
      /\ \A j \in 1..Len(slots) : j # i => slots'[j] = slots[j]
  <2>1. CASE i \in DOMAIN slots
    BY <1>1, <2>1, ExceptSeq DEF AddSlot
  <2>2. CASE i \notin DOMAIN slots
    BY <1>1, <1>2, <2>2, AppendProperties DEF AddSlot
  <2> QED
    BY <2>1, <2>2
<1>4. DOMAIN slots' = 1..Len(slots')
  BY <1>3, LenProperties
<1>5. cursor' \in 1..Len(slots')
  BY <1>1, <1>2, <1>3 DEF AddSlot
<1>6. calls' = [calls EXCEPT ![i] = @ + 1] /\ calls \in [SlotIds -> Nat]
  BY DEF AddSlot, TimerTypeOK
<1>7. calls[i] = 0
  BY <1>1, <1>2 DEF SlotsMatchCalls
<1>8. SlotsMatchCalls'
  <2> SUFFICES ASSUME NEW j \in SlotIds
               PROVE  calls'[j] = IF j \in DOMAIN slots' /\ slots'[j].inUse THEN 1 ELSE 0
    BY DEF SlotsMatchCalls
  <2>1. CASE j = i
    BY <1>1, <1>2, <1>3, <1>4, <1>6, <1>7, <2>1 DEF NewSlot
  <2>2. CASE j # i
    <3>1. calls'[j] = calls[j]
      BY <1>6, <2>2
    <3>2. j \in DOMAIN slots' <=> j \in DOMAIN slots
      BY <1>1, <1>2, <1>3, <1>4, <2>2 DEF SlotIds
    <3>3. j \in DOMAIN slots => slots'[j] = slots[j]
      BY <1>1, <1>3, <2>2
    <3> QED
      BY <3>1, <3>2, <3>3 DEF SlotsMatchCalls
  <2> QED
    BY <2>1, <2>2
<1> QED
  BY <1>1, <1>2, <1>3, <1>4, <1>5, <1>6, <1>8

(* Slot::remove clears the target of the object's slots, used or free, and   *)
(* nothing else.                                                             *)
LEMMA ForgetTargetEffect ==
  ASSUME TimerTypeOK, NEW t \in Addresses
  PROVE  /\ ForgetTarget(t) \in Seq(Slot)
         /\ Len(ForgetTarget(t)) = Len(slots)
         /\ DOMAIN ForgetTarget(t) = DOMAIN slots
         /\ \A i \in DOMAIN slots :
              /\ ForgetTarget(t)[i].inUse = slots[i].inUse
              /\ ForgetTarget(t)[i].target =
                   IF slots[i].target = t THEN NULL ELSE slots[i].target
<1>1. /\ DOMAIN slots = 1..Len(slots)
      /\ Len(slots) \in Nat
      /\ \A i \in DOMAIN slots : slots[i] \in Slot
  BY LenProperties, ElementOfSeq DEF TimerTypeOK
<1>2. /\ DOMAIN ForgetTarget(t) = DOMAIN slots
      /\ \A i \in DOMAIN slots :
           /\ ForgetTarget(t)[i] \in Slot
           /\ ForgetTarget(t)[i].inUse = slots[i].inUse
           /\ ForgetTarget(t)[i].target =
                IF slots[i].target = t THEN NULL ELSE slots[i].target
  BY <1>1 DEF ForgetTarget, Slot
<1>3. ForgetTarget(t) \in [1..Len(slots) -> Slot]
  BY <1>1, <1>2 DEF ForgetTarget
<1>4. ForgetTarget(t) \in Seq(Slot)
  BY <1>1, <1>3, SeqDef
<1>5. Len(ForgetTarget(t)) = Len(slots)
  BY <1>1, <1>2, <1>4, LenProperties
<1> QED
  BY <1>2, <1>4, <1>5

(* Switching the idle events of an object on keeps the count right.          *)
LEMMA IdleOnCounted ==
  ASSUME TimerTypeOK, IdlersCounted, NEW t \in Addresses, ~idle[t],
         idle' = [idle EXCEPT ![t] = TRUE], idleCount' = idleCount + 1
  PROVE  IdlersCounted' /\ idleCount' \in Nat
<1> DEFINE On == {u \in Addresses : idle[u]}
<1>1. IsFiniteSet(On)
  BY FS_Subset, AddressesAssumption
<1>2. {u \in Addresses : idle'[u]} = On \cup {t}
  BY DEF TimerTypeOK
<1>3. Cardinality(On \cup {t}) = Cardinality(On) + 1
  BY <1>1, FS_AddElement
<1>4. idleCount = Cardinality(On) /\ idleCount \in Nat
  BY DEF IdlersCounted, TimerTypeOK
<1>5. idleCount' = Cardinality({u \in Addresses : idle'[u]}) /\ idleCount' \in Nat
  BY <1>2, <1>3, <1>4
<1> QED
  BY <1>5, Zenon DEF IdlersCounted

(* Switching the idle events of an object off uncounts it if it was counted, *)
(* and withdraws idleCallback with the last one.                             *)
LEMMA IdleOffCounted ==
  ASSUME TimerTypeOK, IdlersCounted, NEW t \in Addresses,
         idle' = [idle EXCEPT ![t] = FALSE], IdleOff(t)
  PROVE  /\ IdlersCounted'
         /\ idleCount' \in Nat
         /\ idleFunc' \in BOOLEAN
         /\ IdleHasCallback => IdleHasCallback'
<1> DEFINE On == {u \in Addresses : idle[u]}
<1>1. IsFiniteSet(On) /\ Cardinality(On) \in Nat
  BY FS_Subset, FS_CardinalityType, AddressesAssumption
<1>2. {u \in Addresses : idle'[u]} = On \ {t}
  BY DEF TimerTypeOK
<1>3. /\ Cardinality(On \ {t}) = IF idle[t] THEN Cardinality(On) - 1 ELSE Cardinality(On)
      /\ Cardinality(On \ {t}) \in Nat
  <2>1. t \in On <=> idle[t]
    OBVIOUS
  <2> QED
    BY <1>1, <2>1, FS_RemoveElement, FS_CardinalityType
<1>4. idleCount' = Cardinality({u \in Addresses : idle'[u]}) /\ idleCount' \in Nat
  BY <1>2, <1>3 DEF IdlersCounted, IdleOff
<1>5. idleFunc' \in BOOLEAN /\ (IdleHasCallback => IdleHasCallback')
  <2>1. idleFunc \in BOOLEAN /\ idleCount \in Nat
    BY DEF TimerTypeOK
  <2>2. CASE idle[t] /\ glutInit
    <3>1. idleFunc' = (idleCount' > 0)
      BY <2>2, Zenon DEF IdleOff
    <3>2. (idleCount' > 0) \in BOOLEAN
      OBVIOUS
    <3> QED
      BY <3>1, <3>2, Zenon DEF IdleHasCallback
  <2>3. CASE ~(idle[t] /\ glutInit)
    <3>1. idleFunc' = idleFunc /\ (idleCount' > 0 => idleCount > 0)
      BY <1>4, <2>1, <2>3 DEF IdleOff
    <3> QED
      BY <2>1, <3>1 DEF IdleHasCallback
  <2> QED
    BY <2>2, <2>3
<1> QED
  BY <1>4, <1>5 DEF IdlersCounted

-----------------------------------------------------------------------------
(* The invariant holds at the start and in every step. *)

(* The invariant holds in the initial states. *)
LEMMA InitEstablishes == TimerInit => TimerInv
<1> SUFFICES ASSUME TimerInit PROVE TimerInv
  OBVIOUS
<1>1. TimerTypeOK
  <2>1. /\ timerList \in Seq(Addresses) /\ slots \in Seq(Slot)
        /\ DOMAIN timerList = {} /\ Len(slots) = 0
    BY EmptySeq DEF TimerInit
  <2>2. /\ idle \in [Addresses -> BOOLEAN]
        /\ tick \in [Addresses -> BOOLEAN]
        /\ tickPending \in [Addresses -> BOOLEAN]
        /\ calls \in [SlotIds -> Nat]
    BY DEF TimerInit
  <2>3. timerFrame \in TimerFrame
    BY DEF TimerInit, TimerFrame, NoTimerFrame
  <2>4. /\ idleCount \in Nat
        /\ cursor \in 1..1
        /\ slots = <<>>
        /\ Len(slots) <= MaxSlots
    BY <2>1, TimersAssumption DEF TimerInit
  <2>5. glutInit \in BOOLEAN /\ idleFunc \in BOOLEAN /\ timerFault \in BOOLEAN
    BY DEF TimerInit
  <2> QED
    BY <2>1, <2>2, <2>3, <2>4, <2>5 DEF TimerTypeOK
<1>2. IdlersCounted
  <2>1. {t \in Addresses : idle[t]} = {}
    BY DEF TimerInit
  <2>2. idleCount = 0 /\ Cardinality({}) = 0
    BY FS_EmptySet DEF TimerInit
  <2> QED
    BY <2>1, <2>2, Zenon DEF IdlersCounted
<1>3. /\ SlotsMatchCalls /\ NothingOutlivesItsObject /\ FrameHasSlot
      /\ NothingBeforeGlut /\ OnlyTheLivingAreIdle
  BY EmptySeq DEF TimerInit, OnlyTheLivingAreIdle, SlotsMatchCalls, NothingOutlivesItsObject, FrameHasSlot,
     NothingBeforeGlut, NoTimerFrame
<1> QED
  BY <1>1, <1>2, <1>3 DEF TimerInv

(* A new object wants no events and has no slot. *)
LEMMA CreatePreserves ==
  ASSUME TimerInv, NEW t \in Addresses, CreateTimer(t)
  PROVE  TimerInv'
<1>1. TimerTypeOK'
  <2>1. /\ timerList' \in Seq(Addresses)
        /\ Len(timerList') = Len(timerList) + 1
        /\ \A k \in 1..Len(timerList) : timerList'[k] = timerList[k]
        /\ timerList'[Len(timerList) + 1] = t
    BY AppendProperties DEF TimerInv, TimerTypeOK, CreateTimer
  <2>2. /\ DOMAIN timerList = 1..Len(timerList)
        /\ DOMAIN timerList' = 1..(Len(timerList) + 1)
        /\ Len(timerList) \in Nat
    BY <2>1, LenProperties DEF TimerInv, TimerTypeOK
  <2>3. \A q \in DOMAIN timerList : timerList[q] # t
    BY DEF CreateTimer, Alive
  <2>4. ASSUME NEW q \in DOMAIN timerList', NEW r \in DOMAIN timerList',
               timerList'[q] = timerList'[r]
        PROVE  q = r
    <3>1. \A j, k \in 1..Len(timerList) : timerList[j] = timerList[k] => j = k
      BY <2>2 DEF TimerInv, TimerTypeOK
    <3>2. q \in 1..(Len(timerList) + 1) /\ r \in 1..(Len(timerList) + 1)
      BY <2>2
    <3>3. CASE q = Len(timerList) + 1
      BY <2>1, <2>2, <2>3, <2>4, <3>2, <3>3
    <3>4. CASE r = Len(timerList) + 1
      BY <2>1, <2>2, <2>3, <2>4, <3>2, <3>4
    <3>5. CASE q \in 1..Len(timerList) /\ r \in 1..Len(timerList)
      BY <2>1, <2>4, <3>1, <3>5
    <3> QED
      BY <2>2, <3>2, <3>3, <3>4, <3>5
  <2> QED
    BY <2>1, <2>4 DEF TimerInv, TimerTypeOK, CreateTimer, slotVars, idleVars
<1>2. Alive \subseteq Alive'
  <2>1. /\ DOMAIN timerList \subseteq DOMAIN timerList'
        /\ \A k \in DOMAIN timerList : timerList'[k] = timerList[k]
    BY AppendProperties, LenProperties DEF TimerInv, TimerTypeOK, CreateTimer
  <2> QED
    BY <2>1 DEF Alive
<1>3. IdlersCounted' /\ OnlyTheLivingAreIdle'
  <2>1. \A u \in Addresses : idle'[u] = idle[u]
    BY DEF TimerInv, TimerTypeOK, CreateTimer, OnlyTheLivingAreIdle
  <2>2. {u \in Addresses : idle'[u]} = {u \in Addresses : idle[u]}
    BY <2>1
  <2> QED
    BY <1>2, <2>1, <2>2 DEF TimerInv, CreateTimer, IdlersCounted, idleVars, OnlyTheLivingAreIdle
<1> QED
  BY <1>1, <1>2, <1>3 DEF TimerInv, CreateTimer, slotVars, idleVars, SlotsMatchCalls,
     NothingOutlivesItsObject, FrameHasSlot, NothingBeforeGlut

(* The destructor takes the object out of the slots, the count and the list. *)
LEMMA DestroyPreserves ==
  ASSUME TimerInv, NEW p \in DOMAIN timerList, DestroyAt(p)
  PROVE  TimerInv'
<1> DEFINE t == timerList[p]
<1>1. t \in Addresses /\ TimerTypeOK
  BY LenProperties, ElementOfSeq DEF TimerInv, TimerTypeOK
<1>2. /\ slots' = ForgetTarget(t)
      /\ timerList' = RemoveAt(timerList, p)
      /\ IdleOff(t)
      /\ idle' = [idle EXCEPT ![t] = FALSE]
      /\ tick' = [tick EXCEPT ![t] = FALSE]
      /\ tickPending' = [tickPending EXCEPT ![t] = FALSE]
      /\ timerFrame' = IF timerFrame.kind = "idle" /\ timerFrame.target = t
                    THEN [timerFrame EXCEPT !.target = NULL] ELSE timerFrame
      /\ UNCHANGED <<cursor, calls, glutInit, timerFault>>
  BY DEF DestroyAt
<1>3. /\ timerList' \in Seq(Addresses)
      /\ \A q, r \in DOMAIN timerList' : timerList'[q] = timerList'[r] => q = r
      /\ Alive' = Alive \ {t}
  BY <1>1, <1>2, ListWithoutOne
<1>4. /\ slots' \in Seq(Slot)
      /\ Len(slots') = Len(slots)
      /\ DOMAIN slots' = DOMAIN slots
      /\ \A i \in DOMAIN slots :
           /\ slots'[i].inUse = slots[i].inUse
           /\ slots'[i].target = IF slots[i].target = t THEN NULL ELSE slots[i].target
  BY <1>1, <1>2, ForgetTargetEffect
<1>5. IdlersCounted' /\ idleCount' \in Nat /\ idleFunc' \in BOOLEAN
  <2>1. IdlersCounted
    BY DEF TimerInv
  <2> HIDE DEF t
  <2> QED
    BY <1>1, <1>2, <2>1, IdleOffCounted
<1>6. timerFrame' \in TimerFrame /\ timerFrame'.kind = timerFrame.kind /\ timerFrame'.index = timerFrame.index
  BY <1>1, <1>2 DEF TimerTypeOK, TimerFrame
<1>7. slots' = <<>> <=> slots = <<>>
  BY <1>1, <1>4, EmptySeq, LenProperties DEF TimerTypeOK
<1> HIDE DEF t
<1>8. TimerTypeOK'
  <2>1. cursor' \in 1..(IF slots' = <<>> THEN 1 ELSE Len(slots'))
    BY <1>1, <1>2, <1>4, <1>7 DEF TimerTypeOK
  <2>2. /\ idle' \in [Addresses -> BOOLEAN]
        /\ tick' \in [Addresses -> BOOLEAN]
        /\ tickPending' \in [Addresses -> BOOLEAN]
    BY <1>1, <1>2 DEF TimerTypeOK
  <2> QED
    BY <1>1, <1>2, <1>3, <1>4, <1>5, <1>6, <2>1, <2>2 DEF TimerTypeOK
<1>9. SlotsMatchCalls'
  BY <1>2, <1>4 DEF TimerInv, SlotsMatchCalls
<1>10. NothingOutlivesItsObject'
  BY <1>3, <1>4 DEF TimerInv, NothingOutlivesItsObject
<1>11. FrameHasSlot' /\ NothingBeforeGlut'
  BY <1>2, <1>4, <1>6, <1>7 DEF TimerInv, FrameHasSlot, NothingBeforeGlut
<1>12. OnlyTheLivingAreIdle'
  BY <1>1, <1>2, <1>3 DEF TimerInv, OnlyTheLivingAreIdle, TimerTypeOK
<1> QED
  BY <1>5, <1>8, <1>9, <1>10, <1>11, <1>12 DEF TimerInv

(* What a step that arms a timer for a living object has to keep besides.    *)
LEMMA ArmingPreserves ==
  ASSUME TimerInv, NEW i \in SlotIds, NEW t \in Alive, NEW v \in Vals \cup {NULL},
         NEW k \in BOOLEAN, AddSlot(i, t, v, k), glutInit,
         tick' \in [Addresses -> BOOLEAN], tickPending' \in [Addresses -> BOOLEAN],
         timerFrame' \in {NoTimerFrame, FrameAfterAdd(i)}, idleFunc' \in BOOLEAN,
         UNCHANGED <<timerList, idle, idleCount, glutInit, timerFault>>
  PROVE  TimerInv'
<1>1. TimerTypeOK /\ SlotsMatchCalls /\ t \in Addresses
  BY LenProperties, ElementOfSeq DEF TimerInv, TimerTypeOK, Alive
<1>2. /\ slots' \in Seq(Slot)
      /\ Len(slots') <= MaxSlots
      /\ i \in DOMAIN slots'
      /\ slots'[i] = NewSlot(t, v, k)
      /\ \A j \in DOMAIN slots' : j # i => j \in DOMAIN slots /\ slots'[j] = slots[j]
      /\ DOMAIN slots \subseteq DOMAIN slots'
      /\ cursor' \in 1..Len(slots')
      /\ calls' \in [SlotIds -> Nat]
      /\ SlotsMatchCalls'
  BY <1>1, AddSlotEffect
<1>3. slots' # <<>>
  BY <1>2, EmptySeq, LenProperties
<1>4. /\ timerFrame' \in TimerFrame
      /\ timerFrame'.kind \in {"tick", "timer"} =>
           /\ timerFrame'.kind = timerFrame.kind
           /\ timerFrame'.index = timerFrame.index
           /\ timerFrame'.target = timerFrame.target
  <2>1. CASE timerFrame' = NoTimerFrame
    BY <2>1 DEF NoTimerFrame, TimerFrame
  <2>2. CASE timerFrame' = timerFrame
    BY <1>1, <2>2 DEF TimerTypeOK
  <2>3. CASE timerFrame' = [timerFrame EXCEPT !.copy = slots[timerFrame.index]] /\ timerFrame.kind = "tick"
    <3>1. slots[timerFrame.index] \in Slot
      BY <1>1, <2>3, ElementOfSeq, LenProperties DEF TimerInv, FrameHasSlot, TimerTypeOK
    <3> QED
      BY <1>1, <2>3, <3>1 DEF TimerTypeOK, TimerFrame
  <2> QED
    BY <2>1, <2>2, <2>3 DEF FrameAfterAdd
<1>5. TimerTypeOK'
  BY <1>1, <1>2, <1>3, <1>4 DEF TimerTypeOK
<1>6. NothingOutlivesItsObject'
  <2>1. Alive' = Alive
    BY DEF Alive
  <2> QED
    BY <1>2, <2>1 DEF TimerInv, NothingOutlivesItsObject, NewSlot
<1>7. FrameHasSlot' /\ NothingBeforeGlut'
  BY <1>2, <1>4 DEF TimerInv, FrameHasSlot, NothingBeforeGlut
<1>8. IdlersCounted' /\ OnlyTheLivingAreIdle'
  BY DEF TimerInv, IdlersCounted, OnlyTheLivingAreIdle, Alive
<1> QED
  BY <1>2, <1>5, <1>6, <1>7, <1>8 DEF TimerInv

(* setTick, as the windows call it too, arms a slot for a living object or   *)
(* changes a flag, whatever becomes of idleCallback meanwhile.               *)
LEMMA ArmTickPreserves ==
  ASSUME TimerInv, NEW t \in Addresses, NEW on \in BOOLEAN, ArmTick(t, on),
         idleFunc' \in BOOLEAN
  PROVE  TimerInv'
<1>1. /\ t \in Alive
      /\ tick' = [tick EXCEPT ![t] = on]
      /\ UNCHANGED <<timerList, idle, idleCount, glutInit, timerFault>>
      /\ tick' \in [Addresses -> BOOLEAN]
  BY DEF ArmTick, TimerInv, TimerTypeOK
<1>2. CASE NeedsTick(t, on)
  <2>1. PICK i \in SlotIds : AddSlot(i, t, NULL, TRUE) /\ timerFrame' = FrameAfterAdd(i)
    BY <1>2 DEF ArmTick
  <2>2. glutInit /\ tickPending' \in [Addresses -> BOOLEAN]
    BY <1>2 DEF ArmTick, NeedsTick, TimerInv, TimerTypeOK
  <2> QED
    BY <1>1, <2>1, <2>2, ArmingPreserves
<1>3. CASE ~NeedsTick(t, on)
  <2>1. UNCHANGED <<slots, cursor, calls, tickPending, timerFrame>>
    BY <1>3 DEF ArmTick, slotVars
  <2> QED
    BY <1>1, <2>1 DEF TimerInv, TimerTypeOK, SlotsMatchCalls, NothingOutlivesItsObject,
       IdlersCounted, FrameHasSlot, NothingBeforeGlut, OnlyTheLivingAreIdle, Alive
<1> QED
  BY <1>2, <1>3

(* setTimer arms a slot for a living object. *)
LEMMA SetTimerPreserves ==
  ASSUME TimerInv, NEW t \in Addresses, NEW v \in Vals, SetTimer(t, v)
  PROVE  TimerInv'
<1>1. PICK i \in SlotIds : AddSlot(i, t, v, FALSE) /\ timerFrame' = FrameAfterAdd(i)
  BY DEF SetTimer
<1>2. tick' \in [Addresses -> BOOLEAN] /\ tickPending' \in [Addresses -> BOOLEAN]
  BY DEF SetTimer, timerObjectVars, TimerInv, TimerTypeOK
<1>3. idleFunc' \in BOOLEAN
  BY DEF SetTimer, idleVars, TimerInv, TimerTypeOK
<1> QED
  BY <1>1, <1>2, <1>3, ArmingPreserves DEF SetTimer, timerObjectVars, idleVars

(* setIdle counts an object once, however often it is called. *)
LEMMA SetIdlePreserves ==
  ASSUME TimerInv, NEW t \in Addresses, NEW on \in BOOLEAN, SetIdle(t, on)
  PROVE  TimerInv'
<1>1. /\ TimerTypeOK /\ IdlersCounted
      /\ t \in Alive
      /\ idle' = [idle EXCEPT ![t] = on]
      /\ UNCHANGED <<timerList, tick, tickPending, slots, cursor, calls, glutInit,
                     timerFrame, timerFault>>
  BY DEF SetIdle, slotVars, TimerInv
<1>2. IdlersCounted' /\ idleCount' \in Nat /\ idleFunc' \in BOOLEAN
  <2>1. CASE on /\ ~idle[t]
    <3>1. idleCount' = idleCount + 1 /\ idleFunc' = TRUE
      BY <2>1 DEF SetIdle, IdleOff
    <3> QED
      BY <1>1, <2>1, <3>1, IdleOnCounted
  <2>2. CASE on /\ idle[t]
    <3>1. idle' = idle /\ UNCHANGED <<idleCount, idleFunc>>
      BY <1>1, <2>2 DEF SetIdle, TimerTypeOK, idleVars
    <3> QED
      BY <1>1, <3>1 DEF IdlersCounted, TimerTypeOK
  <2>3. CASE ~on
    BY <1>1, <2>3, IdleOffCounted DEF SetIdle
  <2> QED
    BY <2>1, <2>2, <2>3
<1>3. idle' \in [Addresses -> BOOLEAN]
  BY <1>1 DEF TimerTypeOK
<1>4. OnlyTheLivingAreIdle'
  BY <1>1 DEF TimerInv, TimerTypeOK, OnlyTheLivingAreIdle, Alive
<1> QED
  BY <1>1, <1>2, <1>3, <1>4 DEF TimerInv, TimerTypeOK, SlotsMatchCalls, NothingOutlivesItsObject,
     FrameHasSlot, NothingBeforeGlut, Alive

(* init() fills an empty table with the ticks asked for before. *)
LEMMA InitTicksPreserves ==
  ASSUME TimerInv, InitTicks, idleFunc' \in BOOLEAN
  PROVE  TimerInv'
<1> DEFINE want == {p \in DOMAIN timerList :
                      tick[timerList[p]] /\ ~tickPending[timerList[p]]}
<1>0. PICK n \in 0..MaxSlots : \E pos \in [1..n -> want] :
        /\ slots' = [i \in 1..n |-> NewSlot(timerList[pos[i]], NULL, TRUE)]
        /\ calls' = [i \in SlotIds |-> IF i \in 1..n THEN 1 ELSE 0]
  BY DEF InitTicks
<1>1. PICK pos \in [1..n -> want] :
        /\ slots' = [i \in 1..n |-> NewSlot(timerList[pos[i]], NULL, TRUE)]
        /\ calls' = [i \in SlotIds |-> IF i \in 1..n THEN 1 ELSE 0]
  BY <1>0
<1>2. /\ TimerTypeOK /\ n \in Nat /\ MaxSlots \in Nat /\ n <= MaxSlots
      /\ timerFrame.kind = "none"
      /\ glutInit' = TRUE /\ cursor' = 1
      /\ UNCHANGED <<timerList, idle, tick, idleCount, timerFrame, timerFault>>
  BY TimersAssumption DEF TimerInv, NothingBeforeGlut, InitTicks
<1>3. \A i \in 1..n : /\ timerList[pos[i]] \in Alive
                      /\ NewSlot(timerList[pos[i]], NULL, TRUE) \in Slot
  <2> SUFFICES ASSUME NEW i \in 1..n
               PROVE  /\ timerList[pos[i]] \in Alive
                      /\ NewSlot(timerList[pos[i]], NULL, TRUE) \in Slot
    OBVIOUS
  <2>1. pos[i] \in DOMAIN timerList
    OBVIOUS
  <2>2. timerList[pos[i]] \in Addresses
    BY <1>2, <2>1, ElementOfSeq, LenProperties DEF TimerTypeOK
  <2> QED
    BY <2>1, <2>2 DEF Alive, NewSlot, Slot
<1> HIDE DEF want
<1>4. /\ slots' \in Seq(Slot)
      /\ Len(slots') = n
      /\ DOMAIN slots' = 1..n
  <2>1. slots' \in [1..n -> Slot]
    BY <1>1, <1>3
  <2>2. slots' \in Seq(Slot)
    BY <1>2, <2>1, SeqDef
  <2> QED
    BY <1>2, <2>1, <2>2, LenProperties
<1>5. slots' # <<>> => Len(slots') > 0
  BY <1>4, EmptySeq
<1>6. tickPending' \in [Addresses -> BOOLEAN]
  <2>1. \A u \in Addresses : (tickPending[u] \/ (u \in Alive /\ tick[u])) \in BOOLEAN
    OBVIOUS
  <2>2. tickPending' = [u \in Addresses |-> tickPending[u] \/ (u \in Alive /\ tick[u])]
    BY DEF InitTicks
  <2> QED
    BY <2>1, <2>2, Zenon
<1>7. calls' \in [SlotIds -> Nat]
  BY <1>1, <1>2
<1>8. TimerTypeOK'
  BY <1>2, <1>4, <1>5, <1>6, <1>7 DEF TimerTypeOK
<1>9. SlotsMatchCalls'
  BY <1>1, <1>4 DEF SlotsMatchCalls, NewSlot
<1>10. NothingOutlivesItsObject'
  BY <1>1, <1>2, <1>3, <1>4 DEF NothingOutlivesItsObject, NewSlot, Alive
<1>11. IdlersCounted'
  BY <1>2 DEF TimerInv, IdlersCounted
<1>12. FrameHasSlot' /\ NothingBeforeGlut' /\ OnlyTheLivingAreIdle'
  BY <1>2 DEF TimerInv, FrameHasSlot, NothingBeforeGlut, OnlyTheLivingAreIdle, Alive
<1> QED
  BY <1>8, <1>9, <1>10, <1>11, <1>12 DEF TimerInv

(* init() registers idleCallback if there is an idle object. *)
LEMMA InitGlutRegisters ==
  ASSUME TimerInv, InitGlut
  PROVE  idleFunc' \in BOOLEAN /\ IdleHasCallback'
<1>1. idleFunc' = (idleFunc \/ idleCount > 0) /\ idleCount' = idleCount
  BY DEF InitGlut, InitTicks
<1>2. (idleFunc \/ idleCount > 0) \in BOOLEAN
  OBVIOUS
<1> QED
  BY <1>1, <1>2, Zenon DEF IdleHasCallback

(* timerCallback uses up one callback and frees its slot. *)
LEMMA FireTimerPreserves ==
  ASSUME TimerInv, NEW i \in SlotIds, FireTimer(i)
  PROVE  TimerInv'
<1> DEFINE s == slots[i]
<1>1. /\ TimerTypeOK /\ SlotsMatchCalls
      /\ DOMAIN slots = 1..Len(slots)
      /\ Len(slots) \in Nat
      /\ i \in DOMAIN slots
      /\ s \in Slot
      /\ s.inUse
      /\ calls[i] = 1
  <2>1. i \in DOMAIN slots /\ s.inUse /\ calls[i] = 1
    BY DEF TimerInv, SlotsMatchCalls, FireTimer
  <2> QED
    BY <2>1, LenProperties, ElementOfSeq DEF TimerInv, TimerTypeOK
<1>2. [s EXCEPT !.inUse = FALSE] \in Slot
  BY <1>1 DEF Slot
<1>3. /\ slots' \in Seq(Slot)
      /\ Len(slots') = Len(slots)
      /\ DOMAIN slots' = DOMAIN slots
      /\ slots'[i] = [s EXCEPT !.inUse = FALSE]
      /\ \A j \in DOMAIN slots : j # i => slots'[j] = slots[j]
  <2>1. slots' = [slots EXCEPT ![i] = [s EXCEPT !.inUse = FALSE]]
    BY DEF FireTimer
  <2> HIDE DEF s
  <2> QED
    BY <1>1, <1>2, <2>1, ExceptSeq, LenProperties DEF TimerTypeOK
<1>4. /\ slots'[i].target = s.target /\ ~slots'[i].inUse
      /\ \A j \in DOMAIN slots : slots'[j].target = slots[j].target
  BY <1>1, <1>3 DEF Slot
<1>5. /\ timerFrame' \in TimerFrame
      /\ timerFrame'.kind \in {"tick", "timer"} => timerFrame'.index = i
  BY <1>1 DEF FireTimer, TimerTypeOK, TimerFrame, Slot
<1>6. calls' \in [SlotIds -> Nat] /\ calls'[i] = 0 /\ \A j \in SlotIds \ {i} : calls'[j] = calls[j]
  BY <1>1 DEF FireTimer, TimerTypeOK
<1>7. slots # <<>> /\ slots' # <<>>
  BY <1>1, <1>3, EmptySeq
<1> HIDE DEF s
<1>8. TimerTypeOK'
  BY <1>1, <1>3, <1>5, <1>6, <1>7 DEF FireTimer, TimerTypeOK, timerObjectVars, idleVars
<1>9. SlotsMatchCalls'
  BY <1>1, <1>3, <1>4, <1>6 DEF SlotsMatchCalls
<1>10. NothingOutlivesItsObject'
  <2>1. Alive' = Alive
    BY DEF FireTimer, timerObjectVars, Alive
  <2> QED
    BY <1>3, <1>4, <2>1 DEF TimerInv, NothingOutlivesItsObject
<1>11. FrameHasSlot' /\ NothingBeforeGlut'
  BY <1>1, <1>3, <1>5 DEF FrameHasSlot, NothingBeforeGlut, FireTimer
<1>12. IdlersCounted' /\ OnlyTheLivingAreIdle'
  BY DEF TimerInv, IdlersCounted, OnlyTheLivingAreIdle, FireTimer, timerObjectVars, idleVars, Alive
<1> QED
  BY <1>8, <1>9, <1>10, <1>11, <1>12 DEF TimerInv

(* Arming a tick again after OnTick is one more Slot::add. *)
LEMMA TickReturnPreserves ==
  ASSUME TimerInv, TickReturn
  PROVE  TimerInv'
<1> DEFINE u == SlotSeen.target
<1>1. /\ u \in Alive /\ u \in Addresses
      /\ timerFrame.kind = "tick" /\ timerFrame' = NoTimerFrame
      /\ glutInit
      /\ UNCHANGED <<timerList, idle, tick, idleCount, idleFunc, glutInit, timerFault>>
  BY LenProperties, ElementOfSeq
     DEF TickReturn, TimerInv, TimerTypeOK, Alive, idleVars, NothingBeforeGlut
<1>2. TickAgain(u)
  BY DEF TickReturn
<1> HIDE DEF u
<1>3. tick' \in [Addresses -> BOOLEAN] /\ tickPending' \in [Addresses -> BOOLEAN]
  BY <1>1, <1>2 DEF TickAgain, TimerInv, TimerTypeOK
<1>4. CASE tick[u]
  <2>1. PICK i \in SlotIds : AddSlot(i, u, NULL, TRUE)
    BY <1>2, <1>4 DEF TickAgain
  <2>2. idleFunc' \in BOOLEAN
    BY <1>1 DEF TimerInv, TimerTypeOK
  <2> QED
    BY <1>1, <1>3, <2>1, <2>2, ArmingPreserves
<1>5. CASE ~tick[u]
  <2>1. UNCHANGED <<slots, cursor, calls>>
    BY <1>2, <1>5 DEF TickAgain, slotVars
  <2>2. timerFrame' \in TimerFrame /\ timerFrame'.kind = "none"
    BY <1>1 DEF NoTimerFrame, TimerFrame
  <2> QED
    BY <1>1, <1>3, <2>1, <2>2 DEF TimerInv, TimerTypeOK, SlotsMatchCalls,
       NothingOutlivesItsObject, IdlersCounted, FrameHasSlot, NothingBeforeGlut,
       OnlyTheLivingAreIdle, Alive
<1> QED
  BY <1>4, <1>5

(* The steps that only move the frame, or record a failure.                  *)
LEMMA FrameStepPreserves ==
  ASSUME TimerInv, UNCHANGED <<timerObjectVars, slotVars, idleVars, glutInit>>,
         timerFrame' \in TimerFrame, timerFrame'.kind \in {"none", "idle"} \/ timerFrame' = timerFrame,
         timerFrame'.kind # "none" => glutInit,
         timerFault' \in BOOLEAN
  PROVE  TimerInv'
BY DEF TimerInv, TimerTypeOK, SlotsMatchCalls, NothingOutlivesItsObject, IdlersCounted,
   FrameHasSlot, NothingBeforeGlut, OnlyTheLivingAreIdle, Alive, timerObjectVars,
   slotVars, idleVars

(* idleCallback going from object to object moves the frame only. *)
LEMMA IdleStepPreserves ==
  ASSUME TimerInv, glutInit, NEW p \in Nat, IdleStep(p)
  PROVE  TimerInv'
<1>1. timerFrame' \in TimerFrame /\ timerFrame'.kind \in {"none", "idle"}
  <2>1. CASE timerFrame' = NoTimerFrame
    BY <2>1 DEF NoTimerFrame, TimerFrame
  <2>2. ASSUME NEW q \in DOMAIN timerList,
               timerFrame' = [NoTimerFrame EXCEPT !.kind = "idle", !.target = timerList[q]]
        PROVE  timerFrame' \in TimerFrame /\ timerFrame'.kind = "idle"
    <3>1. timerList[q] \in Addresses
      BY LenProperties, ElementOfSeq DEF TimerInv, TimerTypeOK
    <3> QED
      BY <2>2, <3>1 DEF NoTimerFrame, TimerFrame
  <2> QED
    BY <2>1, <2>2 DEF IdleStep
<1> QED
  BY <1>1, FrameStepPreserves DEF IdleStep, TimerInv, TimerTypeOK

(* Every step of the specification preserves the invariant. *)
LEMMA NextPreserves ==
  ASSUME TimerInv, [TimerNext]_timerVars
  PROVE  TimerInv'
<1>1. ASSUME NEW t \in Addresses, CreateTimer(t) PROVE TimerInv'
  BY <1>1, CreatePreserves
<1>2. ASSUME NEW p \in DOMAIN timerList, Destroy(p) PROVE TimerInv'
  BY <1>2, DestroyPreserves DEF Destroy
<1>3. ASSUME NEW t \in Addresses, NEW on \in BOOLEAN, SetTick(t, on) PROVE TimerInv'
  <2>1. idleFunc' \in BOOLEAN
    BY <1>3 DEF SetTick, TimerInv, TimerTypeOK
  <2> QED
    BY <1>3, <2>1, ArmTickPreserves DEF SetTick
<1>4. ASSUME NEW t \in Addresses, NEW v \in Vals, SetTimer(t, v) PROVE TimerInv'
  BY <1>4, SetTimerPreserves
<1>5. ASSUME NEW t \in Addresses, NEW on \in BOOLEAN, SetIdle(t, on) PROVE TimerInv'
  BY <1>5, SetIdlePreserves
<1>6. CASE InitGlut
  BY <1>6, InitGlutRegisters, InitTicksPreserves DEF InitGlut
<1>7. ASSUME NEW i \in SlotIds, FireTimer(i) PROVE TimerInv'
  BY <1>7, FireTimerPreserves
<1>8. CASE TickReturn
  BY <1>8, TickReturnPreserves
<1>9. CASE FireIdle
  BY <1>9, IdleStepPreserves DEF FireIdle
<1>10. CASE IdleReturn
  <2>1. glutInit
    BY <1>10 DEF IdleReturn, TimerInv, NothingBeforeGlut, TimerTypeOK
  <2>2. PICK p \in DOMAIN timerList : IdleStep(p)
    BY <1>10 DEF IdleReturn
  <2>3. p \in Nat
    BY LenProperties DEF TimerInv, TimerTypeOK
  <2> QED
    BY <2>1, <2>2, <2>3, IdleStepPreserves
<1>11. CASE TickReturnFault \/ IdleReturnFault
  BY <1>11, FrameStepPreserves DEF TickReturnFault, IdleReturnFault, TimerInv, TimerTypeOK,
     NothingBeforeGlut
<1>12. CASE TimerReturn
  <2>1. NoTimerFrame \in TimerFrame /\ NoTimerFrame.kind = "none"
    BY DEF NoTimerFrame, TimerFrame
  <2> QED
    BY <1>12, <2>1, FrameStepPreserves DEF TimerReturn, TimerInv, TimerTypeOK
<1>13. CASE UNCHANGED timerVars
  BY <1>13, FrameStepPreserves DEF timerVars, TimerInv, TimerTypeOK, NothingBeforeGlut,
     timerObjectVars, slotVars, idleVars
<1> QED
  BY <1>1, <1>2, <1>3, <1>4, <1>5, <1>6, <1>7, <1>8, <1>9, <1>10, <1>11, <1>12, <1>13
     DEF TimerNext, TimerClient, Return

(* As long as an object wants idle events, every step of the timers leaves    *)
(* idleCallback registered or registers it.                                  *)
LEMMA IdleCallbackKept ==
  TimerInv /\ IdleHasCallback /\ [TimerNext]_timerVars => IdleHasCallback'
<1> SUFFICES ASSUME TimerInv, IdleHasCallback, [TimerNext]_timerVars
             PROVE  IdleHasCallback'
  OBVIOUS
<1>1. ASSUME UNCHANGED <<idleCount, idleFunc>>
      PROVE  IdleHasCallback'
  BY <1>1 DEF IdleHasCallback
<1>2. ASSUME NEW p \in DOMAIN timerList, Destroy(p)
      PROVE  IdleHasCallback'
  <2>1. timerList[p] \in Addresses
    BY LenProperties, ElementOfSeq DEF TimerInv, TimerTypeOK
  <2>2. /\ IdleOff(timerList[p])
        /\ idle' = [idle EXCEPT ![timerList[p]] = FALSE]
    BY <1>2 DEF Destroy, DestroyAt
  <2> QED
    BY <2>1, <2>2, IdleOffCounted DEF TimerInv
<1>3. ASSUME NEW t \in Addresses, NEW on \in BOOLEAN, SetIdle(t, on)
      PROVE  IdleHasCallback'
  <2>1. CASE on /\ ~idle[t]
    <3>1. idleFunc' = TRUE
      BY <1>3, <2>1 DEF SetIdle
    <3> QED
      BY <3>1 DEF IdleHasCallback
  <2>2. CASE on /\ idle[t]
    BY <1>1, <1>3, <2>2 DEF SetIdle, idleVars
  <2>3. CASE ~on
    <3>1. IdleOff(t) /\ idle' = [idle EXCEPT ![t] = FALSE]
      BY <1>3, <2>3 DEF SetIdle
    <3> QED
      BY <3>1, IdleOffCounted DEF TimerInv
  <2> QED
    BY <2>1, <2>2, <2>3
<1>4. CASE InitGlut
  BY <1>4, InitGlutRegisters
<1>5. ASSUME NEW t \in Addresses, CreateTimer(t)
      PROVE  IdleHasCallback'
  BY <1>1, <1>5 DEF CreateTimer, idleVars
<1>6. ASSUME NEW t \in Addresses, NEW on \in BOOLEAN, SetTick(t, on)
      PROVE  IdleHasCallback'
  BY <1>1, <1>6 DEF SetTick, ArmTick
<1>7. ASSUME NEW t \in Addresses, NEW v \in Vals, SetTimer(t, v)
      PROVE  IdleHasCallback'
  BY <1>1, <1>7 DEF SetTimer, idleVars
<1>8. ASSUME NEW i \in SlotIds, FireTimer(i)
      PROVE  IdleHasCallback'
  BY <1>1, <1>8 DEF FireTimer, idleVars
<1>9. CASE FireIdle \/ Return
  BY <1>1, <1>9 DEF FireIdle, Return, IdleReturn, IdleStep, TickReturn,
     TickReturnFault, TimerReturn, IdleReturnFault, idleVars
<1>10. CASE UNCHANGED timerVars
  BY <1>1, <1>10 DEF timerVars
<1> QED
  BY <1>2, <1>3, <1>4, <1>5, <1>6, <1>7, <1>8, <1>9, <1>10 DEF TimerNext, TimerClient

-----------------------------------------------------------------------------
(* Theorems. *)

(* The invariant holds in every state the library can reach. *)
THEOREM InvariantHolds == TimerSpec => []TimerInv
BY InitEstablishes, NextPreserves, PTL DEF TimerSpec

(* The state has its types.                                                  *)
THEOREM TimerTypeCorrect == TimerSpec => []TimerTypeOK
BY InvariantHolds, PTL DEF TimerInv

(* Whatever the handlers do, GLUT holds one callback for each slot in use    *)
(* and none for a free slot: no request is lost and none delivered twice.    *)
THEOREM SlotsAlwaysMatchCalls == TimerSpec => []SlotsMatchCalls
BY InvariantHolds, PTL DEF TimerInv

(* Whatever the handlers do, no slot keeps an object that was destroyed.     *)
THEOREM NothingEverOutlivesItsObject == TimerSpec => []NothingOutlivesItsObject
BY InvariantHolds, PTL DEF TimerInv

(* The count of idle objects is right, and GLUT calls idleCallback as long   *)
(* as there is one.                                                          *)
THEOREM IdleAlwaysCounted == TimerSpec => []IdleCounted
<1>1. TimerInit => IdleHasCallback
  BY DEF TimerInit, IdleHasCallback
<1>2. TimerInv /\ IdleHasCallback /\ [TimerNext]_timerVars => IdleHasCallback'
  BY IdleCallbackKept
<1>3. TimerInv /\ IdleHasCallback => IdleCounted
  BY DEF TimerInv, IdlersCounted, IdleHasCallback, IdleCounted
<1> QED
  BY <1>1, <1>2, <1>3, InvariantHolds, PTL DEF TimerSpec

-----------------------------------------------------------------------------
(* A tick that is wanted is pending, whatever the handlers do.               *)

WantedInv == WantedTicksArePending /\ \A t \in Addresses : tick[t] => t \in Alive

(* Every step keeps a tick pending for each object that wants ticks. *)
LEMMA WantedNext == TimerInv /\ WantedInv /\ [TimerNext]_timerVars => WantedInv'
<1> SUFFICES ASSUME TimerInv, WantedInv, [TimerNext]_timerVars
             PROVE  WantedInv'
  OBVIOUS
<1>1. TimerTypeOK /\ tick \in [Addresses -> BOOLEAN] /\ tickPending \in [Addresses -> BOOLEAN]
  BY DEF TimerInv, TimerTypeOK
<1>2. ASSUME NEW t \in Addresses, CreateTimer(t)
      PROVE  WantedInv'
  <2>1. Alive' = Alive \cup {t}
    <3>1. timerList \in Seq(Addresses) /\ timerList' = Append(timerList, t)
      BY <1>1, <1>2 DEF TimerTypeOK, CreateTimer
    <3> QED
      BY <3>1, AppendProperties, LenProperties DEF Alive
  <2> QED
    BY <1>1, <1>2, <2>1 DEF WantedInv, WantedTicksArePending, CreateTimer
<1>3. ASSUME NEW p \in DOMAIN timerList, Destroy(p)
      PROVE  WantedInv'
  <2> DEFINE t == timerList[p]
  <2>1. /\ tick' = [tick EXCEPT ![t] = FALSE]
        /\ tickPending' = [tickPending EXCEPT ![t] = FALSE]
        /\ glutInit' = glutInit
        /\ timerList' = RemoveAt(timerList, p)
    BY <1>3 DEF Destroy, DestroyAt
  <2>2. Alive' = Alive \ {t}
    BY <1>1, <2>1, ListWithoutOne
  <2> HIDE DEF t
  <2> QED
    BY <1>1, <2>1, <2>2 DEF WantedInv, WantedTicksArePending
<1>4. ASSUME NEW t \in Addresses, NEW on \in BOOLEAN, SetTick(t, on)
      PROVE  WantedInv'
  <2>1. /\ t \in Alive /\ Alive' = Alive /\ glutInit' = glutInit
        /\ tick' = [tick EXCEPT ![t] = on]
    BY <1>4 DEF SetTick, ArmTick, Alive
  <2>2. CASE NeedsTick(t, on)
    <3>1. tickPending' = [tickPending EXCEPT ![t] = TRUE]
      BY <1>4, <2>2 DEF SetTick, ArmTick
    <3> QED
      BY <1>1, <2>1, <3>1 DEF WantedInv, WantedTicksArePending
  <2>3. CASE ~NeedsTick(t, on)
    <3>1. tickPending' = tickPending
      BY <1>4, <2>3 DEF SetTick, ArmTick
    <3> QED
      BY <1>1, <2>1, <2>3, <3>1 DEF WantedInv, WantedTicksArePending, NeedsTick
  <2> QED
    BY <2>2, <2>3
<1>5. CASE InitGlut
  <2>1. /\ tickPending' = [t \in Addresses |-> tickPending[t] \/ (t \in Alive /\ tick[t])]
        /\ tick' = tick /\ Alive' = Alive
    BY <1>5 DEF InitGlut, InitTicks, Alive
  <2> QED
    BY <1>1, <2>1 DEF WantedInv, WantedTicksArePending
<1>6. CASE TickReturn
  <2> DEFINE u == SlotSeen.target
  <2>1. TickAgain(u) /\ UNCHANGED <<timerList, tick, glutInit>>
    BY <1>6 DEF TickReturn
  <2> HIDE DEF u
  <2>2. /\ Alive' = Alive
        /\ tickPending' = [tickPending EXCEPT ![u] = TRUE]
             \/ (~tick[u] /\ tickPending' = [tickPending EXCEPT ![u] = FALSE])
    BY <2>1 DEF Alive, TickAgain
  <2> QED
    BY <1>1, <2>1, <2>2 DEF WantedInv, WantedTicksArePending
<1>7. ASSUME UNCHANGED <<timerList, tick, tickPending, glutInit>>
      PROVE  WantedInv'
  BY <1>7 DEF WantedInv, WantedTicksArePending, Alive
<1>8. ASSUME NEW t \in Addresses, NEW v \in Vals, SetTimer(t, v)
      PROVE  WantedInv'
  BY <1>7, <1>8 DEF SetTimer, timerObjectVars
<1>9. ASSUME NEW t \in Addresses, NEW on \in BOOLEAN, SetIdle(t, on)
      PROVE  WantedInv'
  BY <1>7, <1>9 DEF SetIdle
<1>10. ASSUME NEW i \in SlotIds, FireTimer(i)
       PROVE  WantedInv'
  BY <1>7, <1>10 DEF FireTimer, timerObjectVars
<1>11. CASE FireIdle \/ IdleReturn
  BY <1>7, <1>11 DEF FireIdle, IdleReturn, IdleStep, timerObjectVars
<1>12. CASE TickReturnFault \/ IdleReturnFault \/ TimerReturn
  BY <1>7, <1>12 DEF TickReturnFault, IdleReturnFault, TimerReturn, timerObjectVars
<1>13. CASE UNCHANGED timerVars
  BY <1>7, <1>13 DEF timerVars
<1> QED
  BY <1>2, <1>3, <1>4, <1>5, <1>6, <1>8, <1>9, <1>10, <1>11, <1>12, <1>13
     DEF TimerNext, TimerClient, Return

(* Whatever the handlers do, destroying their own objects and arming other   *)
(* timers included: once GLUT is up, an object that wants ticks has one      *)
(* pending (but it may be lost with its slot: TicksArrive needs more).       *)
THEOREM WantedTicksAlwaysPending == TimerSpec => []WantedTicksArePending
<1>1. TimerInit => WantedInv
  BY DEF TimerInit, WantedInv, WantedTicksArePending
<1>2. TimerInv /\ WantedInv /\ [TimerNext]_timerVars => WantedInv'
  BY WantedNext
<1>3. WantedInv => WantedTicksArePending
  BY DEF WantedInv
<1> QED
  BY <1>1, <1>2, <1>3, InvariantHolds, PTL DEF TimerSpec

-----------------------------------------------------------------------------
(* Handlers that keep to the discipline: OnTick arms no other timer, and no  *)
(* handler destroys its own object.  While OnTick runs, the slot that it was *)
(* called for is then still free and still names its object.                 *)

TickKeepsItsSlot ==
  timerFrame.kind = "tick" =>
    /\ timerFrame.copy = NULL
    /\ ~slots[timerFrame.index].inUse
    /\ slots[timerFrame.index].target = timerFrame.target
    /\ timerFrame.target \in Alive

IdleKeepsItsObject == timerFrame.kind = "idle" => timerFrame.target \in Alive

OnlyTheLivingTick == \A t \in Addresses : tick[t] \/ tickPending[t] => t \in Alive

DisciplinedInv ==
  /\ TimerInv
  /\ OneTickUnderWay
  /\ WantedTicksArePending
  /\ NoTimerFault
  /\ TickKeepsItsSlot
  /\ IdleKeepsItsObject
  /\ OnlyTheLivingTick

(* The ticks under way after Slot::add. *)
LEMMA TickSlotsAfterAdd ==
  ASSUME TimerInv, NEW i \in SlotIds, NEW t \in Addresses, NEW v \in Vals \cup {NULL},
         NEW k \in BOOLEAN, AddSlot(i, t, v, k), NEW u \in Addresses
  PROVE  TickSlots(u)' = IF k /\ u = t THEN TickSlots(u) \cup {i} ELSE TickSlots(u)
<1>1. /\ i \in DOMAIN slots'
      /\ i \in DOMAIN slots => ~slots[i].inUse
      /\ slots'[i] = NewSlot(t, v, k)
      /\ \A j \in DOMAIN slots' : j # i => j \in DOMAIN slots /\ slots'[j] = slots[j]
      /\ DOMAIN slots \subseteq DOMAIN slots'
  BY AddSlotEffect DEF TimerInv
<1>2. i \in TickSlots(u)' <=> k /\ u = t
  BY <1>1 DEF TickSlots, NewSlot
<1>3. i \notin TickSlots(u)
  BY <1>1 DEF TickSlots
<1>4. \A j : j # i => (j \in TickSlots(u)' <=> j \in TickSlots(u))
  BY <1>1 DEF TickSlots
<1> QED
  BY <1>2, <1>3, <1>4

(* A step that arms the tick of an object with none under way. *)
LEMMA ArmingOneTick ==
  ASSUME DisciplinedInv, TimerInv', NEW i \in SlotIds, NEW t \in Alive,
         AddSlot(i, t, NULL, TRUE), TickSlots(t) = {}, timerFrame'.kind # "tick" ,
         tickPending' = [tickPending EXCEPT ![t] = TRUE],
         \A u \in Addresses \ {t} : ~InTick(u),
         \A u \in Addresses \ {t} : tick'[u] = tick[u],
         timerFrame'.kind = "idle" => timerFrame'.target \in Alive,
         UNCHANGED <<timerList, timerFault, glutInit>>
  PROVE  DisciplinedInv'
<1>1. t \in Addresses /\ Alive' = Alive /\ tickPending \in [Addresses -> BOOLEAN]
  BY LenProperties, ElementOfSeq DEF DisciplinedInv, TimerInv, TimerTypeOK, Alive
<1>2. \A u \in Addresses : TickSlots(u)' = IF u = t THEN {i} ELSE TickSlots(u)
  BY <1>1, TickSlotsAfterAdd DEF DisciplinedInv
<1>3. \A u \in Addresses : ~InTick(u)'
  BY DEF InTick
<1>4. OneTickUnderWay'
  <2> SUFFICES ASSUME NEW u \in Addresses
               PROVE  /\ \A m, n \in TickSlots(u)' : m = n
                      /\ tickPending'[u] <=> (InTick(u)' \/ TickSlots(u)' # {})
                      /\ InTick(u)' => TickSlots(u)' = {}
    BY DEF OneTickUnderWay
  <2>1. CASE u = t
    BY <1>1, <1>2, <1>3, <2>1
  <2>2. CASE u # t
    <3>1. /\ \A m, n \in TickSlots(u) : m = n
          /\ tickPending[u] <=> (InTick(u) \/ TickSlots(u) # {})
      BY DEF DisciplinedInv, OneTickUnderWay
    <3> QED
      BY <1>1, <1>2, <1>3, <2>2, <3>1
  <2> QED
    BY <2>1, <2>2
<1>5. WantedTicksArePending' /\ OnlyTheLivingTick'
  BY <1>1 DEF DisciplinedInv, WantedTicksArePending, OnlyTheLivingTick
<1>6. NoTimerFault' /\ TickKeepsItsSlot' /\ IdleKeepsItsObject'
  BY <1>1 DEF DisciplinedInv, NoTimerFault, TickKeepsItsSlot, IdleKeepsItsObject
<1> QED
  BY <1>4, <1>5, <1>6 DEF DisciplinedInv

(* A step that neither arms nor delivers a tick. *)
LEMMA LeavingTheTicks ==
  ASSUME DisciplinedInv, TimerInv',
         \A u \in Addresses : TickSlots(u)' = TickSlots(u),
         \A u \in Addresses : InTick(u)' <=> InTick(u),
         UNCHANGED <<timerList, tick, tickPending, glutInit, timerFault>>,
         TickKeepsItsSlot', timerFrame'.kind = "idle" => timerFrame'.target \in Alive
  PROVE  DisciplinedInv'
<1>1. Alive' = Alive
  BY DEF Alive
<1>2. OneTickUnderWay'
  BY DEF DisciplinedInv, OneTickUnderWay
<1> QED
  BY <1>1, <1>2 DEF DisciplinedInv, WantedTicksArePending, NoTimerFault,
     IdleKeepsItsObject, OnlyTheLivingTick

(* No tick is under way at the start. *)
LEMMA DisciplinedInit == TimerInit => DisciplinedInv
<1> SUFFICES ASSUME TimerInit PROVE DisciplinedInv
  OBVIOUS
<1>1. TimerInv
  BY InitEstablishes
<1>2. OneTickUnderWay
  <2>1. \A t \in Addresses : TickSlots(t) = {} /\ ~InTick(t) /\ ~tickPending[t]
    BY DEF TimerInit, TickSlots, InTick, NoTimerFrame
  <2> QED
    BY <2>1 DEF OneTickUnderWay
<1>3. WantedTicksArePending /\ NoTimerFault /\ OnlyTheLivingTick
  BY DEF TimerInit, WantedTicksArePending, NoTimerFault, OnlyTheLivingTick
<1>4. TickKeepsItsSlot /\ IdleKeepsItsObject
  BY DEF TimerInit, NoTimerFrame, TickKeepsItsSlot, IdleKeepsItsObject
<1> QED
  BY <1>1, <1>2, <1>3, <1>4 DEF DisciplinedInv

(* A new object has no tick under way. *)
LEMMA DisciplinedCreate ==
  ASSUME DisciplinedInv, TimerInv', NEW t \in Addresses, CreateTimer(t)
  PROVE  DisciplinedInv'
<1>1. /\ t \notin Alive
      /\ ~tick[t] /\ ~tickPending[t]
      /\ UNCHANGED <<slots, timerFrame, glutInit, timerFault>>
      /\ \A u \in Addresses : tick'[u] = tick[u] /\ tickPending'[u] = tickPending[u]
  <2>1. t \notin Alive /\ UNCHANGED <<slots, timerFrame, glutInit, timerFault>>
    BY DEF CreateTimer, slotVars
  <2>2. ~tick[t] /\ ~tickPending[t]
    BY <2>1 DEF DisciplinedInv, OnlyTheLivingTick
  <2>3. /\ tick' = [tick EXCEPT ![t] = FALSE] /\ tick \in [Addresses -> BOOLEAN]
        /\ tickPending' = [tickPending EXCEPT ![t] = FALSE]
        /\ tickPending \in [Addresses -> BOOLEAN]
    BY DEF CreateTimer, DisciplinedInv, TimerInv, TimerTypeOK
  <2> QED
    BY <2>1, <2>2, <2>3
<1>2. Alive \subseteq Alive'
  <2>1. /\ DOMAIN timerList \subseteq DOMAIN timerList'
        /\ \A k \in DOMAIN timerList : timerList'[k] = timerList[k]
    BY AppendProperties, LenProperties DEF DisciplinedInv, TimerInv, TimerTypeOK, CreateTimer
  <2> QED
    BY <2>1 DEF Alive
<1>3. OneTickUnderWay'
  <2>1. \A u \in Addresses : TickSlots(u)' = TickSlots(u) /\ InTick(u)' = InTick(u)
    BY <1>1 DEF TickSlots, InTick
  <2> QED
    BY <1>1, <2>1 DEF DisciplinedInv, OneTickUnderWay
<1> QED
  BY <1>1, <1>2, <1>3 DEF DisciplinedInv, WantedTicksArePending, NoTimerFault,
     TickKeepsItsSlot, IdleKeepsItsObject, OnlyTheLivingTick

(* The ticks of an object go with it, unless it is in OnTick or OnIdle.      *)
LEMMA DisciplinedDestroy ==
  ASSUME DisciplinedInv, TimerInv', NEW p \in DOMAIN timerList, DestroyAt(p),
         ~(timerFrame.kind \in {"tick", "idle"} /\ timerFrame.target = timerList[p])
  PROVE  DisciplinedInv'
<1> DEFINE t == timerList[p]
<1>1. /\ TimerTypeOK
      /\ t \in Addresses
      /\ slots' = ForgetTarget(t)
      /\ timerList' = RemoveAt(timerList, p)
      /\ tick' = [tick EXCEPT ![t] = FALSE]
      /\ tickPending' = [tickPending EXCEPT ![t] = FALSE]
      /\ timerFrame.kind \in {"tick", "idle"} => timerFrame.target # t
      /\ timerFrame' = timerFrame
      /\ UNCHANGED <<glutInit, timerFault>>
  BY LenProperties, ElementOfSeq DEF DestroyAt, DisciplinedInv, TimerInv, TimerTypeOK
<1>2. Alive' = Alive \ {t}
  BY <1>1, ListWithoutOne
<1> HIDE DEF t
<1>3. /\ DOMAIN slots' = DOMAIN slots
      /\ \A i \in DOMAIN slots :
           /\ slots'[i].inUse = slots[i].inUse
           /\ slots'[i].tick = slots[i].tick
           /\ slots'[i].target = IF slots[i].target = t THEN NULL ELSE slots[i].target
  <2>1. \A i \in DOMAIN slots : slots[i] \in Slot
    BY <1>1, LenProperties, ElementOfSeq DEF TimerTypeOK
  <2>2. /\ DOMAIN ForgetTarget(t) = DOMAIN slots
        /\ \A i \in DOMAIN slots :
             /\ ForgetTarget(t)[i].inUse = slots[i].inUse
             /\ ForgetTarget(t)[i].target =
                  IF slots[i].target = t THEN NULL ELSE slots[i].target
    BY <1>1, ForgetTargetEffect
  <2>3. \A i \in DOMAIN slots : ForgetTarget(t)[i].tick = slots[i].tick
    BY <2>1 DEF ForgetTarget, Slot
  <2> QED
    BY <1>1, <2>2, <2>3
<1>4. \A u \in Addresses : TickSlots(u)' = IF u = t THEN {} ELSE TickSlots(u)
  BY <1>1, <1>3, AddressesAssumption DEF TickSlots
<1>5. OneTickUnderWay'
  <2> SUFFICES ASSUME NEW u \in Addresses
               PROVE  /\ \A m, n \in TickSlots(u)' : m = n
                      /\ tickPending'[u] <=> (InTick(u)' \/ TickSlots(u)' # {})
                      /\ InTick(u)' => TickSlots(u)' = {}
    BY DEF OneTickUnderWay
  <2>1. CASE u = t
    BY <1>1, <1>4, <2>1 DEF TimerTypeOK, InTick
  <2>2. CASE u # t
    <3>1. tickPending'[u] = tickPending[u]
      BY <1>1, <2>2 DEF TimerTypeOK
    <3> QED
      BY <1>1, <1>4, <2>2, <3>1 DEF DisciplinedInv, OneTickUnderWay, InTick
  <2> QED
    BY <2>1, <2>2
<1>6. WantedTicksArePending' /\ OnlyTheLivingTick'
  BY <1>1, <1>2 DEF DisciplinedInv, WantedTicksArePending, OnlyTheLivingTick, TimerTypeOK
<1>7. TickKeepsItsSlot' /\ IdleKeepsItsObject'
  <2>1. timerFrame.kind = "tick" => timerFrame.index \in DOMAIN slots
    BY DEF DisciplinedInv, TimerInv, FrameHasSlot
  <2> QED
    BY <1>1, <1>2, <1>3, <2>1 DEF DisciplinedInv, TickKeepsItsSlot, IdleKeepsItsObject
<1> QED
  BY <1>1, <1>5, <1>6, <1>7 DEF DisciplinedInv, NoTimerFault

(* setTick arms a tick only if none is under way for the object. *)
LEMMA DisciplinedArmTick ==
  ASSUME DisciplinedInv, TimerInv', ~TickArms, NEW t \in Addresses, NEW on \in BOOLEAN,
         ArmTick(t, on)
  PROVE  DisciplinedInv'
<1>1. /\ TimerTypeOK
      /\ t \in Alive
      /\ tick' = [tick EXCEPT ![t] = on]
      /\ UNCHANGED <<timerList, glutInit, timerFault>>
      /\ Alive' = Alive
  BY DEF ArmTick, DisciplinedInv, TimerInv, Alive
<1>2. CASE NeedsTick(t, on)
  <2>1. PICK i \in SlotIds : AddSlot(i, t, NULL, TRUE) /\ timerFrame' = FrameAfterAdd(i)
    BY <1>2 DEF ArmTick
  <2>2. timerFrame.kind # "tick" /\ timerFrame' = timerFrame
    BY <1>2, <2>1 DEF ArmTick, MayArm, FrameAfterAdd
  <2>3. ~tickPending[t] /\ tickPending' = [tickPending EXCEPT ![t] = TRUE]
    BY <1>2 DEF ArmTick, NeedsTick
  <2>4. TickSlots(t) = {}
    BY <2>3 DEF DisciplinedInv, OneTickUnderWay
  <2>5. \A u \in Addresses : ~InTick(u)
    BY <2>2 DEF InTick
  <2>6. timerFrame'.kind = "idle" => timerFrame'.target \in Alive
    BY <2>2 DEF DisciplinedInv, IdleKeepsItsObject
  <2>7. \A u \in Addresses \ {t} : tick'[u] = tick[u]
    BY <1>1 DEF TimerTypeOK
  <2> QED
    BY <1>1, <2>1, <2>2, <2>3, <2>4, <2>5, <2>6, <2>7, ArmingOneTick
<1>3. CASE ~NeedsTick(t, on)
  <2>1. UNCHANGED <<slots, tickPending, timerFrame>>
    BY <1>3 DEF ArmTick, slotVars
  <2>2. OneTickUnderWay'
    <3>1. \A u \in Addresses : TickSlots(u)' = TickSlots(u) /\ InTick(u)' = InTick(u)
      BY <2>1 DEF TickSlots, InTick
    <3> QED
      BY <2>1, <3>1 DEF DisciplinedInv, OneTickUnderWay
  <2>3. WantedTicksArePending'
    <3> SUFFICES ASSUME NEW u \in Addresses, glutInit, tick'[u]
                 PROVE  tickPending[u]
      BY <1>1, <2>1 DEF WantedTicksArePending
    <3>1. CASE u = t
      BY <1>1, <1>3, <3>1 DEF NeedsTick, TimerTypeOK
    <3>2. CASE u # t
      BY <1>1, <3>2 DEF DisciplinedInv, WantedTicksArePending, TimerTypeOK
    <3> QED
      BY <3>1, <3>2
  <2> QED
    BY <1>1, <2>1, <2>2, <2>3 DEF DisciplinedInv, NoTimerFault, TickKeepsItsSlot,
       IdleKeepsItsObject, OnlyTheLivingTick, TimerTypeOK
<1> QED
  BY <1>2, <1>3

(* A timer's slot is no tick. *)
LEMMA DisciplinedSetTimer ==
  ASSUME DisciplinedInv, TimerInv', ~TickArms, NEW t \in Addresses, NEW v \in Vals,
         SetTimer(t, v)
  PROVE  DisciplinedInv'
<1>1. PICK i \in SlotIds : AddSlot(i, t, v, FALSE) /\ timerFrame' = FrameAfterAdd(i)
  BY DEF SetTimer
<1>2. /\ timerFrame.kind # "tick" /\ timerFrame' = timerFrame
      /\ UNCHANGED <<timerList, tick, tickPending, glutInit, timerFault>>
  BY <1>1 DEF SetTimer, MayArm, FrameAfterAdd, timerObjectVars
<1>3. \A u \in Addresses : TickSlots(u)' = TickSlots(u)
  BY <1>1, TickSlotsAfterAdd DEF DisciplinedInv
<1>4. \A u \in Addresses : InTick(u)' <=> InTick(u)
  BY <1>2 DEF InTick
<1>5. TickKeepsItsSlot' /\ (timerFrame'.kind = "idle" => timerFrame'.target \in Alive)
  BY <1>2 DEF DisciplinedInv, TickKeepsItsSlot, IdleKeepsItsObject
<1> QED
  BY <1>2, <1>3, <1>4, <1>5, LeavingTheTicks

(* setIdle leaves the ticks alone. *)
LEMMA DisciplinedSetIdle ==
  ASSUME DisciplinedInv, TimerInv', NEW t \in Addresses, NEW on \in BOOLEAN, SetIdle(t, on)
  PROVE  DisciplinedInv'
<1>1. UNCHANGED <<timerList, tick, tickPending, slots, glutInit, timerFrame, timerFault>>
  BY DEF SetIdle, slotVars
<1>2. \A u \in Addresses : TickSlots(u)' = TickSlots(u) /\ (InTick(u)' <=> InTick(u))
  BY <1>1 DEF TickSlots, InTick
<1>3. TickKeepsItsSlot' /\ (timerFrame'.kind = "idle" => timerFrame'.target \in Alive)
  BY <1>1 DEF DisciplinedInv, TickKeepsItsSlot, IdleKeepsItsObject, Alive
<1> QED
  BY <1>1, <1>2, <1>3, LeavingTheTicks

(* init() arms one tick for each object that wants ticks. *)
LEMMA DisciplinedInitTicks ==
  ASSUME DisciplinedInv, TimerInv', InitTicks
  PROVE  DisciplinedInv'
<1> DEFINE want == {p \in DOMAIN timerList :
                      tick[timerList[p]] /\ ~tickPending[timerList[p]]}
<1>1. PICK n \in 0..MaxSlots : \E pos \in [1..n -> want] :
        /\ \A i, j \in 1..n : i < j => pos[i] < pos[j]
        /\ \A p \in want : \E i \in 1..n : pos[i] = p
        /\ slots' = [i \in 1..n |-> NewSlot(timerList[pos[i]], NULL, TRUE)]
  BY DEF InitTicks
<1>2. PICK pos \in [1..n -> want] :
        /\ \A i, j \in 1..n : i < j => pos[i] < pos[j]
        /\ \A p \in want : \E i \in 1..n : pos[i] = p
        /\ slots' = [i \in 1..n |-> NewSlot(timerList[pos[i]], NULL, TRUE)]
  BY <1>1
<1>3. /\ TimerTypeOK /\ n \in Nat
      /\ timerFrame.kind = "none" /\ slots = <<>>
      /\ UNCHANGED <<timerList, tick, timerFrame, timerFault>>
      /\ Alive' = Alive
  BY TimersAssumption DEF DisciplinedInv, TimerInv, NothingBeforeGlut, InitTicks,
     Alive
<1>4. \A u \in Addresses : ~tickPending[u]
  BY <1>3 DEF DisciplinedInv, OneTickUnderWay, TickSlots, InTick
<1>5. \A u \in Addresses : tickPending'[u] <=> u \in Alive /\ tick[u]
  BY <1>4 DEF InitTicks
<1>6. /\ DOMAIN timerList \subseteq Nat
      /\ \A p \in DOMAIN timerList : timerList[p] \in Addresses
      /\ \A p, q \in DOMAIN timerList : timerList[p] = timerList[q] => p = q
  BY <1>3, LenProperties, ElementOfSeq DEF TimerTypeOK
<1>7. \A i \in 1..n : pos[i] \in DOMAIN timerList /\ tick[timerList[pos[i]]]
  OBVIOUS
<1>8. ASSUME NEW u \in Alive, tick[u]
      PROVE  \E i \in 1..n : timerList[pos[i]] = u
  <2>1. PICK p \in DOMAIN timerList : timerList[p] = u
    BY DEF Alive
  <2>2. p \in want
    BY <1>4, <1>6, <1>8, <2>1
  <2> QED
    BY <1>2, <2>1, <2>2
<1> HIDE DEF want
<1>9. \A i, j \in 1..n : timerList[pos[i]] = timerList[pos[j]] => i = j
  BY <1>2, <1>3, <1>6, <1>7
<1>10. \A u \in Addresses : TickSlots(u)' = {i \in 1..n : timerList[pos[i]] = u}
  BY <1>2 DEF TickSlots, NewSlot
<1>11. \A u \in Addresses : ~InTick(u)'
  BY <1>3 DEF InTick
<1>12. OneTickUnderWay'
  <2> SUFFICES ASSUME NEW u \in Addresses
               PROVE  /\ \A i, j \in TickSlots(u)' : i = j
                      /\ tickPending'[u] <=> TickSlots(u)' # {}
    BY <1>11 DEF OneTickUnderWay
  <2>1. \A i, j \in TickSlots(u)' : i = j
    BY <1>9, <1>10
  <2>2. CASE u \in Alive /\ tick[u]
    <3>1. \E i \in 1..n : timerList[pos[i]] = u
      BY <1>8, <2>2
    <3>2. TickSlots(u)' # {}
      BY <1>10, <3>1
    <3> QED
      BY <1>5, <2>1, <2>2, <3>2
  <2>3. CASE ~(u \in Alive /\ tick[u])
    <3>1. TickSlots(u)' = {}
      BY <1>7, <1>10, <2>3 DEF Alive
    <3> QED
      BY <1>5, <2>1, <2>3, <3>1
  <2> QED
    BY <2>1, <2>2, <2>3
<1>13. WantedTicksArePending' /\ OnlyTheLivingTick'
  BY <1>3, <1>5 DEF DisciplinedInv, WantedTicksArePending, OnlyTheLivingTick
<1> QED
  BY <1>3, <1>12, <1>13 DEF DisciplinedInv, NoTimerFault, TickKeepsItsSlot,
     IdleKeepsItsObject

(* The tick that was under way in a slot is now under way in its handler. *)
LEMMA DisciplinedFireTimer ==
  ASSUME DisciplinedInv, TimerInv', NEW i \in SlotIds, FireTimer(i)
  PROVE  DisciplinedInv'
<1> DEFINE s == slots[i]
<1>1. /\ TimerTypeOK
      /\ DOMAIN slots = 1..Len(slots)
      /\ i \in DOMAIN slots
      /\ s \in Slot
      /\ s.inUse
      /\ timerFrame.kind = "none"
      /\ glutInit
      /\ slots' = [slots EXCEPT ![i].inUse = FALSE]
      /\ UNCHANGED <<timerList, tick, tickPending, glutInit, timerFault>>
      /\ Alive' = Alive
  <2>1. i \in DOMAIN slots /\ s.inUse
    BY DEF DisciplinedInv, TimerInv, SlotsMatchCalls, FireTimer
  <2> QED
    BY <2>1, LenProperties, ElementOfSeq DEF DisciplinedInv, TimerInv, TimerTypeOK, FireTimer,
       timerObjectVars, Alive
<1>2. /\ DOMAIN slots' = DOMAIN slots
      /\ slots'[i] = [s EXCEPT !.inUse = FALSE]
      /\ \A j \in DOMAIN slots : j # i => slots'[j] = slots[j]
  BY <1>1
<1>3. /\ slots'[i].target = s.target
      /\ ~slots'[i].inUse
  BY <1>1, <1>2 DEF Slot
<1>4. timerFrame' = IF s.target = NULL THEN timerFrame
                    ELSE [kind |-> IF s.tick THEN "tick" ELSE "timer", index |-> i,
                          target |-> s.target, val |-> s.val, copy |-> NULL]
  BY DEF FireTimer
<1>5. s.target # NULL => s.target \in Alive
  BY <1>1 DEF DisciplinedInv, TimerInv, NothingOutlivesItsObject
<1>6. ASSUME NEW u \in Addresses
      PROVE  TickSlots(u)' = TickSlots(u) \ {i}
  <2>1. i \notin TickSlots(u)'
    BY <1>3 DEF TickSlots
  <2>2. \A j : j # i => (j \in TickSlots(u)' <=> j \in TickSlots(u))
    BY <1>2 DEF TickSlots
  <2> QED
    BY <2>1, <2>2
<1>7. \A u \in Addresses : i \in TickSlots(u) <=> s.tick /\ s.target = u
  BY <1>1 DEF TickSlots
<1>8. \A u \in Addresses : InTick(u)' <=> s.tick /\ s.target = u
  BY <1>1, <1>4, AddressesAssumption DEF InTick
<1> HIDE DEF s
<1>9. OneTickUnderWay'
  <2> SUFFICES ASSUME NEW u \in Addresses
               PROVE  /\ \A m, n \in TickSlots(u)' : m = n
                      /\ tickPending[u] <=> (InTick(u)' \/ TickSlots(u)' # {})
                      /\ InTick(u)' => TickSlots(u)' = {}
    BY <1>1 DEF OneTickUnderWay
  <2>1. /\ \A m, n \in TickSlots(u) : m = n
        /\ tickPending[u] <=> TickSlots(u) # {}
    BY <1>1 DEF DisciplinedInv, OneTickUnderWay, InTick
  <2>2. CASE i \in TickSlots(u)
    BY <1>6, <1>7, <1>8, <2>1, <2>2
  <2>3. CASE i \notin TickSlots(u)
    BY <1>6, <1>7, <1>8, <2>1, <2>3
  <2> QED
    BY <2>2, <2>3
<1>10. WantedTicksArePending' /\ OnlyTheLivingTick' /\ NoTimerFault'
  BY <1>1 DEF DisciplinedInv, WantedTicksArePending, OnlyTheLivingTick, NoTimerFault
<1>11. TickKeepsItsSlot'
  BY <1>1, <1>2, <1>3, <1>4, <1>5 DEF TickKeepsItsSlot
<1>12. IdleKeepsItsObject'
  BY <1>1, <1>4 DEF IdleKeepsItsObject
<1> QED
  BY <1>9, <1>10, <1>11, <1>12 DEF DisciplinedInv

(* After OnTick the tick is armed again exactly if it is still wanted. *)
LEMMA DisciplinedTickReturn ==
  ASSUME DisciplinedInv, TimerInv', TickReturn
  PROVE  DisciplinedInv'
<1> DEFINE u == timerFrame.target
<1>1. /\ TimerTypeOK
      /\ timerFrame.kind = "tick" /\ timerFrame' = NoTimerFrame
      /\ SlotSeen.target = u
      /\ u \in Alive /\ u \in Addresses
      /\ TickAgain(u)
      /\ UNCHANGED <<timerList, tick, glutInit, timerFault>>
      /\ Alive' = Alive
  <2>1. /\ TimerTypeOK
        /\ timerFrame.kind = "tick" /\ timerFrame' = NoTimerFrame
        /\ SlotSeen.target \in Alive
        /\ TickAgain(SlotSeen.target)
        /\ UNCHANGED <<timerList, tick, glutInit, timerFault>>
    BY DEF TickReturn, DisciplinedInv, TimerInv
  <2>2. SlotSeen.target = u
    BY <2>1 DEF SlotSeen, DisciplinedInv, TickKeepsItsSlot
  <2>3. u \in Addresses /\ Alive' = Alive
    BY <2>1, <2>2, LenProperties, ElementOfSeq DEF TimerTypeOK, Alive
  <2> QED
    BY <2>1, <2>2, <2>3
<1>2. /\ InTick(u)
      /\ TickSlots(u) = {}
      /\ \A w \in Addresses \ {u} : ~InTick(w)
  BY <1>1 DEF InTick, DisciplinedInv, OneTickUnderWay
<1> HIDE DEF u
<1>3. CASE tick[u]
  <2>1. PICK i \in SlotIds : AddSlot(i, u, NULL, TRUE)
    BY <1>1, <1>3 DEF TickAgain
  <2>2. tickPending' = [tickPending EXCEPT ![u] = TRUE]
    BY <1>1, <1>3 DEF TickAgain
  <2>3. timerFrame'.kind # "tick" /\ timerFrame'.kind # "idle"
    BY <1>1 DEF NoTimerFrame
  <2> QED
    BY <1>1, <1>2, <2>1, <2>2, <2>3, ArmingOneTick
<1>4. CASE ~tick[u]
  <2>1. /\ tickPending' = [tickPending EXCEPT ![u] = FALSE]
        /\ slots' = slots
    BY <1>1, <1>4 DEF TickAgain, slotVars
  <2>2. \A w \in Addresses : TickSlots(w)' = TickSlots(w) /\ ~InTick(w)'
    BY <1>1, <2>1 DEF TickSlots, InTick, NoTimerFrame
  <2>3. OneTickUnderWay'
    <3> SUFFICES ASSUME NEW w \in Addresses
                 PROVE  /\ \A m, n \in TickSlots(w) : m = n
                        /\ tickPending'[w] <=> TickSlots(w) # {}
      BY <2>2 DEF OneTickUnderWay
    <3>1. CASE w = u
      BY <1>1, <1>2, <2>1, <3>1 DEF TimerTypeOK
    <3>2. CASE w # u
      BY <1>1, <1>2, <2>1, <3>2 DEF TimerTypeOK, DisciplinedInv, OneTickUnderWay
    <3> QED
      BY <3>1, <3>2
  <2>4. WantedTicksArePending' /\ OnlyTheLivingTick'
    BY <1>1, <1>4, <2>1 DEF TimerTypeOK, DisciplinedInv, WantedTicksArePending,
       OnlyTheLivingTick
  <2> QED
    BY <1>1, <2>3, <2>4 DEF DisciplinedInv, NoTimerFault, TickKeepsItsSlot,
       IdleKeepsItsObject, NoTimerFrame
<1> QED
  BY <1>3, <1>4

(* The slot of a tick is free while it runs, so arming it again takes that   *)
(* slot or another, and never makes the table grow.                          *)
LEMMA NoTickReturnFault ==
  ASSUME DisciplinedInv
  PROVE  ~TickReturnFault
<1> SUFFICES ASSUME TickReturnFault PROVE FALSE
  OBVIOUS
<1>1. /\ timerFrame.kind = "tick" /\ timerFrame.copy = NULL
      /\ SlotSeen.target \in Alive
      /\ timerFrame.index \in DOMAIN slots /\ ~slots[timerFrame.index].inUse
  BY DEF TickReturnFault, DisciplinedInv, TimerInv, FrameHasSlot, TickKeepsItsSlot, SlotSeen
<1>2. IsFreeSlot(Len(slots) + 1)
  BY <1>1 DEF TickReturnFault
<1>3. Len(slots) + 1 \notin DOMAIN slots
  BY LenProperties DEF DisciplinedInv, TimerInv, TimerTypeOK
<1> QED
  BY <1>1, <1>2, <1>3 DEF IsFreeSlot

(* No handler deletes the object that idleCallback stands on. *)
LEMMA NoIdleReturnFault ==
  ASSUME DisciplinedInv
  PROVE  ~IdleReturnFault
<1>1. NULL \notin Alive
  BY AddressesAssumption, LenProperties, ElementOfSeq DEF DisciplinedInv, TimerInv, TimerTypeOK, Alive
<1> QED
  BY <1>1 DEF IdleReturnFault, DisciplinedInv, IdleKeepsItsObject

(* idleCallback leaves the ticks alone, and stands on a living object. *)
LEMMA DisciplinedIdleStep ==
  ASSUME DisciplinedInv, TimerInv', timerFrame.kind # "tick", NEW p \in Nat, IdleStep(p)
  PROVE  DisciplinedInv'
<1>1. UNCHANGED <<timerList, tick, tickPending, slots, glutInit, timerFault>>
  BY DEF IdleStep, timerObjectVars, slotVars
<1>2. timerFrame'.kind # "tick" /\ (timerFrame'.kind = "idle" => timerFrame'.target \in Alive)
  <2>1. CASE timerFrame' = NoTimerFrame
    BY <2>1 DEF NoTimerFrame
  <2>2. ASSUME NEW q \in DOMAIN timerList,
               timerFrame' = [NoTimerFrame EXCEPT !.kind = "idle", !.target = timerList[q]]
        PROVE  timerFrame'.kind = "idle" /\ timerFrame'.target \in Alive
    BY <2>2 DEF NoTimerFrame, Alive
  <2> QED
    BY <2>1, <2>2 DEF IdleStep
<1>3. \A u \in Addresses : TickSlots(u)' = TickSlots(u) /\ (InTick(u)' <=> InTick(u))
  BY <1>1, <1>2 DEF TickSlots, InTick
<1> QED
  BY <1>1, <1>2, <1>3, LeavingTheTicks DEF TickKeepsItsSlot

(* Every step of a disciplined program preserves the stronger invariant. *)
LEMMA DisciplinedNext ==
  ASSUME DisciplinedInv, [TimerNext]_timerVars, ~TickArms, ~SelfDestroy
  PROVE  DisciplinedInv'
<1>0. TimerInv'
  BY NextPreserves DEF DisciplinedInv
<1>1. ASSUME NEW t \in Addresses, CreateTimer(t) PROVE DisciplinedInv'
  BY <1>0, <1>1, DisciplinedCreate
<1>2. ASSUME NEW p \in DOMAIN timerList, Destroy(p) PROVE DisciplinedInv'
  BY <1>0, <1>2, DisciplinedDestroy DEF Destroy
<1>3. ASSUME NEW t \in Addresses, NEW on \in BOOLEAN, SetTick(t, on) PROVE DisciplinedInv'
  BY <1>0, <1>3, DisciplinedArmTick DEF SetTick
<1>4. ASSUME NEW t \in Addresses, NEW v \in Vals, SetTimer(t, v) PROVE DisciplinedInv'
  BY <1>0, <1>4, DisciplinedSetTimer
<1>5. ASSUME NEW t \in Addresses, NEW on \in BOOLEAN, SetIdle(t, on) PROVE DisciplinedInv'
  BY <1>0, <1>5, DisciplinedSetIdle
<1>6. CASE InitGlut
  BY <1>0, <1>6, DisciplinedInitTicks DEF InitGlut
<1>7. ASSUME NEW i \in SlotIds, FireTimer(i) PROVE DisciplinedInv'
  BY <1>0, <1>7, DisciplinedFireTimer
<1>8. CASE TickReturn
  BY <1>0, <1>8, DisciplinedTickReturn
<1>9. CASE TickReturnFault \/ IdleReturnFault
  BY <1>9, NoTickReturnFault, NoIdleReturnFault
<1>10. CASE FireIdle
  BY <1>0, <1>10, DisciplinedIdleStep DEF FireIdle
<1>11. CASE IdleReturn
  <2>1. PICK p \in DOMAIN timerList : IdleStep(p)
    BY <1>11 DEF IdleReturn
  <2>2. p \in Nat
    BY LenProperties DEF DisciplinedInv, TimerInv, TimerTypeOK
  <2> QED
    BY <1>0, <1>11, <2>1, <2>2, DisciplinedIdleStep DEF IdleReturn
<1>12. CASE TimerReturn
  <2>1. /\ UNCHANGED <<timerList, tick, tickPending, slots, glutInit, timerFault>>
        /\ timerFrame.kind = "timer" /\ timerFrame'.kind = "none"
    BY <1>12 DEF TimerReturn, timerObjectVars, slotVars, NoTimerFrame
  <2>2. \A u \in Addresses : TickSlots(u)' = TickSlots(u) /\ (InTick(u)' <=> InTick(u))
    BY <2>1 DEF TickSlots, InTick
  <2> QED
    BY <1>0, <2>1, <2>2, LeavingTheTicks DEF TickKeepsItsSlot
<1>13. CASE UNCHANGED timerVars
  <2>1. UNCHANGED <<timerList, tick, tickPending, slots, glutInit, timerFrame, timerFault>>
    BY <1>13 DEF timerVars
  <2>2. \A u \in Addresses : TickSlots(u)' = TickSlots(u) /\ (InTick(u)' <=> InTick(u))
    BY <2>1 DEF TickSlots, InTick
  <2> QED
    BY <1>0, <2>1, <2>2, LeavingTheTicks DEF DisciplinedInv, TickKeepsItsSlot,
       IdleKeepsItsObject, Alive
<1> QED
  BY <1>1, <1>2, <1>3, <1>4, <1>5, <1>6, <1>7, <1>8, <1>9, <1>10, <1>11, <1>12, <1>13
     DEF TimerNext, TimerClient, Return

(* When OnTick arms no other timer and no handler destroys its own object,   *)
(* timerCallback and idleCallback never touch what is gone.                  *)
THEOREM DisciplineIsSafe ==
  ASSUME ~TickArms, ~SelfDestroy
  PROVE  TimerSpec => []NoTimerFault
<1>1. DisciplinedInv /\ [TimerNext]_timerVars => DisciplinedInv'
  BY DisciplinedNext
<1>2. DisciplinedInv => NoTimerFault
  BY DEF DisciplinedInv
<1> QED
  BY <1>1, <1>2, DisciplinedInit, PTL DEF TimerSpec

(* And a tick that is pending is under way exactly once: no object ticks     *)
(* twice as fast as it asked for, none waits for a tick that cannot come.    *)
THEOREM DisciplineKeepsOneTick ==
  ASSUME ~TickArms, ~SelfDestroy
  PROVE  TimerSpec => []OneTickUnderWay /\ []WantedTicksArePending
<1>1. DisciplinedInv /\ [TimerNext]_timerVars => DisciplinedInv'
  BY DisciplinedNext
<1>2. DisciplinedInv => OneTickUnderWay /\ WantedTicksArePending
  BY DEF DisciplinedInv
<1> QED
  BY <1>1, <1>2, DisciplinedInit, PTL DEF TimerSpec

-----------------------------------------------------------------------------
(* The service: the requests that the slots hold. *)

Holds(i) == i \in DOMAIN slots /\ slots[i].inUse /\ slots[i].target # NULL

(* A request is outstanding if a slot holds it.                              *)
LEMMA OutstandingMember ==
  ASSUME NEW r
  PROVE  r \in Outstanding <=> \E i \in DOMAIN slots : Holds(i) /\ r = RequestOf(i, slots[i])
BY DEF Outstanding, Holds

(* The handle of a request tells its slot.                                   *)
LEMMA RequestFields ==
  ASSUME NEW i, NEW s
  PROVE  /\ RequestOf(i, s).id = i
         /\ RequestOf(i, s).target = s.target
         /\ RequestOf(i, s).tick = s.tick
BY DEF RequestOf

(* Nothing is requested when GLUT has no slots.                              *)
LEMMA NothingOutstanding ==
  ASSUME slots = <<>>
  PROVE  Outstanding = {}
BY OutstandingMember, EmptySeq

(* No two outstanding requests share a handle, before and after a step.      *)
LEMMA HandlesDiffer ==
  /\ \A r, q \in Outstanding : r.id = q.id => r = q
  /\ \A r, q \in Outstanding' : r.id = q.id => r = q
<1>1. ASSUME NEW r \in Outstanding, NEW q \in Outstanding, r.id = q.id
      PROVE  r = q
  BY <1>1, RequestFields DEF Outstanding
<1>2. ASSUME NEW r \in Outstanding', NEW q \in Outstanding', r.id = q.id
      PROVE  r = q
  BY <1>2, RequestFields DEF Outstanding
<1> QED
  BY <1>1, <1>2

-----------------------------------------------------------------------------
(* How the requests change. *)

(* Steps that leave the slots leave the requests.                            *)
LEMMA SameSlots ==
  ASSUME UNCHANGED slots
  PROVE  Outstanding' = Outstanding
BY DEF Outstanding, RequestOf

(* Accepting nothing is accepting.                                           *)
LEMMA NothingAccepted ==
  ASSUME UNCHANGED Outstanding
  PROVE  Service!Accept
BY HandlesDiffer DEF Service!Accept

(* Slot::add accepts one request, under a handle that was free.              *)
LEMMA AddAccepts ==
  ASSUME TimerTypeOK, SlotsMatchCalls,
         NEW i \in SlotIds, NEW t \in Alive, NEW v \in Vals \cup {NULL},
         NEW k \in BOOLEAN, AddSlot(i, t, v, k)
  PROVE  Service!Accept
<1>1. t \in Addresses
  BY ElementOfSeq DEF TimerTypeOK, Alive
<1>2. /\ i \in DOMAIN slots => ~slots[i].inUse
      /\ slots'[i] = NewSlot(t, v, k)
      /\ \A j \in DOMAIN slots' : j # i => j \in DOMAIN slots /\ slots'[j] = slots[j]
      /\ DOMAIN slots \subseteq DOMAIN slots'
  BY <1>1, AddSlotEffect
<1>3. ASSUME NEW r \in Outstanding
      PROVE  r \in Outstanding'
  <2>1. PICK j \in DOMAIN slots : Holds(j) /\ r = RequestOf(j, slots[j])
    BY <1>3, OutstandingMember
  <2>2. j \in DOMAIN slots' /\ slots'[j] = slots[j]
    BY <1>2, <2>1 DEF Holds
  <2> QED
    BY <2>1, <2>2 DEF Outstanding, Holds, RequestOf
<1>4. ASSUME NEW r \in Outstanding', r \notin Outstanding
      PROVE  r.target \in Alive
  <2>1. PICK j \in DOMAIN slots' :
          slots'[j].inUse /\ slots'[j].target # NULL /\ r = RequestOf(j, slots'[j])
    BY <1>4 DEF Outstanding, RequestOf
  <2>2. j = i
    BY <1>2, <1>4, <2>1, OutstandingMember DEF Holds
  <2> QED
    BY <1>2, <2>1, <2>2, RequestFields DEF NewSlot
<1> QED
  BY <1>3, <1>4, HandlesDiffer DEF Service!Accept

(* Slot::remove withdraws the requests of one object.                        *)
LEMMA ForgetWithdraws ==
  ASSUME TimerTypeOK, NEW t \in Addresses, slots' = ForgetTarget(t)
  PROVE  Outstanding' = {r \in Outstanding : r.target # t}
<1>1. /\ DOMAIN slots' = DOMAIN slots
      /\ \A j \in DOMAIN slots :
           slots'[j] = IF slots[j].target = t THEN [slots[j] EXCEPT !.target = NULL]
                                             ELSE slots[j]
  BY DEF ForgetTarget
<1>2. ASSUME NEW r \in Outstanding'
      PROVE  r \in Outstanding /\ r.target # t
  <2>1. PICK j \in DOMAIN slots' :
          slots'[j].inUse /\ slots'[j].target # NULL /\ r = RequestOf(j, slots'[j])
    BY <1>2 DEF Outstanding, RequestOf
  <2>2. slots[j] \in Slot
    BY <1>1, <2>1, ElementOfSeq, LenProperties DEF TimerTypeOK
  <2>3. slots[j].target # t
    BY <1>1, <2>1, <2>2 DEF Slot
  <2>4. slots'[j] = slots[j]
    BY <1>1, <2>1, <2>3
  <2> QED
    BY <1>1, <2>1, <2>3, <2>4, OutstandingMember, RequestFields DEF Holds
<1>3. ASSUME NEW r \in Outstanding, r.target # t
      PROVE  r \in Outstanding'
  <2>1. PICK j \in DOMAIN slots : Holds(j) /\ r = RequestOf(j, slots[j])
    BY <1>3, OutstandingMember
  <2>2. slots'[j] = slots[j]
    BY <1>1, <1>3, <2>1, RequestFields
  <2> QED
    BY <1>1, <2>1, <2>2 DEF Outstanding, Holds, RequestOf
<1> QED
  BY <1>2, <1>3

-----------------------------------------------------------------------------
(* One lemma per action: its step of the service. *)

(* The constructor registers the object.                                     *)
LEMMA CreateRegisters ==
  ASSUME TimerTypeOK, NEW t \in Addresses, CreateTimer(t)
  PROVE  Service!Register(t)
<1>1. Alive' = Alive \cup {t}
  <2>1. /\ DOMAIN timerList = 1..Len(timerList)
        /\ Len(timerList) \in Nat
        /\ DOMAIN timerList' = 1..(Len(timerList) + 1)
        /\ \A k \in 1..Len(timerList) : timerList'[k] = timerList[k]
        /\ timerList'[Len(timerList) + 1] = t
    BY AppendProperties, LenProperties DEF CreateTimer, TimerTypeOK
  <2> QED
    BY <2>1 DEF Alive
<1>2. UNCHANGED <<Outstanding, Delivering>>
  BY SameSlots DEF CreateTimer, slotVars, Delivering
<1> QED
  BY <1>1, <1>2 DEF CreateTimer, Service!Register

(* The destructor unregisters it and withdraws its requests.                 *)
LEMMA DestroyUnregisters ==
  ASSUME TimerTypeOK, NEW p \in DOMAIN timerList, DestroyAt(p)
  PROVE  Service!Unregister(timerList[p])
<1> DEFINE t == timerList[p]
<1>1. t \in Addresses /\ t \in Alive
  BY ElementOfSeq, LenProperties DEF TimerTypeOK, Alive
<1>2. Alive' = Alive \ {t}
  BY ListWithoutOne DEF DestroyAt
<1>3. Outstanding' = {r \in Outstanding : r.target # t}
  BY <1>1, ForgetWithdraws DEF DestroyAt
<1>4. UNCHANGED Delivering
  BY DEF DestroyAt, Delivering, TimerTypeOK, TimerFrame
<1> QED
  BY <1>1, <1>2, <1>3, <1>4 DEF Service!Unregister

(* A call that takes a slot asks for one callback.                           *)
LEMMA ArmingAsks ==
  ASSUME TimerTypeOK, SlotsMatchCalls, UNCHANGED timerList,
         NEW i \in SlotIds, NEW t \in Alive, NEW v \in Vals \cup {NULL},
         NEW k \in BOOLEAN, AddSlot(i, t, v, k), timerFrame' = FrameAfterAdd(i)
  PROVE  Service!Ask
<1>1. UNCHANGED Alive
  BY DEF Alive
<1>2. UNCHANGED Delivering
  BY DEF FrameAfterAdd, Delivering, TimerTypeOK, TimerFrame
<1> QED
  BY <1>1, <1>2, AddAccepts DEF Service!Ask

(* setTick asks for a tick, or for nothing.                                  *)
LEMMA ArmTickAsks ==
  ASSUME TimerTypeOK, SlotsMatchCalls, NEW t \in Addresses, NEW on \in BOOLEAN,
         ArmTick(t, on)
  PROVE  [Service!Ask]_(Service!vars)
<1>1. t \in Alive /\ UNCHANGED timerList
  BY DEF ArmTick
<1>2. CASE NeedsTick(t, on)
  <2>1. PICK i \in SlotIds : AddSlot(i, t, NULL, TRUE) /\ timerFrame' = FrameAfterAdd(i)
    BY <1>2 DEF ArmTick
  <2> QED
    BY <1>1, <2>1, ArmingAsks
<1>3. CASE ~NeedsTick(t, on)
  <2>1. UNCHANGED <<timerList, slots, timerFrame>>
    BY <1>1, <1>3 DEF ArmTick, slotVars
  <2>2. UNCHANGED <<Alive, Outstanding, Delivering>>
    BY <2>1, SameSlots DEF Alive, Delivering
  <2> QED
    BY <2>2 DEF Service!vars
<1> QED
  BY <1>2, <1>3

(* setTimer asks for one callback.                                           *)
LEMMA SetTimerAsks ==
  ASSUME TimerTypeOK, SlotsMatchCalls, NEW t \in Addresses, NEW v \in Vals, SetTimer(t, v)
  PROVE  Service!Ask
<1>1. PICK i \in SlotIds : AddSlot(i, t, v, FALSE) /\ timerFrame' = FrameAfterAdd(i)
  BY DEF SetTimer
<1>2. t \in Alive /\ UNCHANGED timerList
  BY DEF SetTimer, timerObjectVars
<1> QED
  BY <1>1, <1>2, ArmingAsks

(* init() asks for the ticks that were wanted before GLUT was up.            *)
LEMMA InitTicksAsks ==
  ASSUME TimerInv, InitTicks
  PROVE  Service!Ask
<1>1. Outstanding = {}
  BY NothingOutstanding DEF TimerInv, NothingBeforeGlut, InitTicks
<1>2. UNCHANGED <<Alive, Delivering>>
  BY DEF InitTicks, Alive, Delivering
<1>3. ASSUME NEW r \in Outstanding'
      PROVE  r.target \in Alive
  <2> DEFINE want == {p \in DOMAIN timerList :
                        tick[timerList[p]] /\ ~tickPending[timerList[p]]}
  <2>1. PICK n \in 0..MaxSlots : \E pos \in [1..n -> want] :
          slots' = [i \in 1..n |-> NewSlot(timerList[pos[i]], NULL, TRUE)]
    BY DEF InitTicks
  <2>2. PICK pos \in [1..n -> want] :
          slots' = [i \in 1..n |-> NewSlot(timerList[pos[i]], NULL, TRUE)]
    BY <2>1
  <2>3. PICK j \in 1..n : r = RequestOf(j, slots'[j])
    BY <1>3, <2>2 DEF Outstanding, RequestOf
  <2>4. pos[j] \in DOMAIN timerList /\ r.target = timerList[pos[j]]
    BY <2>2, <2>3, RequestFields DEF NewSlot
  <2> QED
    BY <2>4 DEF Alive
<1> QED
  BY <1>1, <1>2, <1>3, HandlesDiffer DEF Service!Accept, Service!Ask

(* timerCallback delivers the request of its slot; if the object is gone,    *)
(* there is none.                                                            *)
LEMMA FireTimerDelivers ==
  ASSUME TimerInv, NEW i \in SlotIds, FireTimer(i)
  PROVE  [\E r \in Outstanding : Service!Deliver(r)]_(Service!vars)
<1> DEFINE s == slots[i]
<1>1. i \in DOMAIN slots /\ s.inUse /\ s \in Slot
  <2>1. calls[i] > 0
    BY DEF FireTimer
  <2>2. i \in DOMAIN slots /\ s.inUse
    BY <2>1 DEF TimerInv, SlotsMatchCalls
  <2> QED
    BY <2>2, ElementOfSeq, LenProperties DEF TimerInv, TimerTypeOK
<1>2. /\ UNCHANGED Alive
      /\ Delivering = NULL
  BY DEF FireTimer, timerObjectVars, Alive, Delivering
<1>3. /\ DOMAIN slots' = DOMAIN slots
      /\ slots'[i] = [s EXCEPT !.inUse = FALSE]
      /\ \A j \in DOMAIN slots : j # i => slots'[j] = slots[j]
      /\ ~slots'[i].inUse
  BY <1>1 DEF FireTimer, Slot
<1>4. \A r : r \in Outstanding' <=> r \in Outstanding /\ r.id # i
  <2>1. ASSUME NEW r \in Outstanding'
        PROVE  r \in Outstanding /\ r.id # i
    <3>1. PICK j \in DOMAIN slots' :
            slots'[j].inUse /\ slots'[j].target # NULL /\ r = RequestOf(j, slots'[j])
      BY <2>1 DEF Outstanding, RequestOf
    <3>2. j # i /\ j \in DOMAIN slots /\ slots'[j] = slots[j]
      BY <1>3, <3>1
    <3> QED
      BY <3>1, <3>2, OutstandingMember, RequestFields DEF Holds
  <2>2. ASSUME NEW r \in Outstanding, r.id # i
        PROVE  r \in Outstanding'
    <3>1. PICK j \in DOMAIN slots : Holds(j) /\ r = RequestOf(j, slots[j])
      BY <2>2, OutstandingMember
    <3>2. slots'[j] = slots[j]
      BY <1>3, <2>2, <3>1, RequestFields
    <3> QED
      BY <1>3, <3>1, <3>2 DEF Outstanding, Holds, RequestOf
  <2> QED
    BY <2>1, <2>2
<1>5. CASE s.target = NULL
  <2>1. \A r \in Outstanding : r.id # i
    BY <1>5, OutstandingMember, RequestFields DEF Holds
  <2>2. UNCHANGED Outstanding
    BY <1>4, <2>1
  <2>3. UNCHANGED Delivering
    BY <1>5 DEF FireTimer, Delivering
  <2> QED
    BY <1>2, <2>2, <2>3 DEF Service!vars
<1>6. CASE s.target # NULL
  <2> DEFINE r == RequestOf(i, s)
  <2>1. r \in Outstanding /\ r.id = i
    BY <1>1, <1>6, OutstandingMember, RequestFields DEF Holds
  <2>2. Delivering' = r
    <3>1. timerFrame' = [kind |-> IF s.tick THEN "tick" ELSE "timer", index |-> i,
                         target |-> s.target, val |-> s.val, copy |-> NULL]
      BY <1>6 DEF FireTimer
    <3>2. s.tick \in BOOLEAN
      BY <1>1 DEF Slot
    <3> QED
      BY <3>1, <3>2 DEF Delivering, RequestOf
  <2>3. Outstanding' = Outstanding \ {r}
    BY <1>4, <2>1, HandlesDiffer
  <2> QED
    BY <1>2, <2>1, <2>2, <2>3 DEF Service!Deliver
<1> QED
  BY <1>5, <1>6

(* OnTick or OnTimer returns; a tick may be asked for again.                 *)
LEMMA ReturnReturns ==
  ASSUME TimerInv, TickReturn \/ TimerReturn
  PROVE  Service!Return
<1>1. /\ timerFrame.kind \in {"tick", "timer"}
      /\ timerFrame' = NoTimerFrame
      /\ UNCHANGED timerList
  BY DEF TickReturn, TimerReturn, timerObjectVars
<1>2. Delivering \in Service!Request
  <2>1. timerFrame.index \in DOMAIN slots /\ slots \in Seq(Slot) /\ Len(slots) <= MaxSlots
    BY <1>1 DEF TimerInv, FrameHasSlot, TimerTypeOK
  <2>2. timerFrame.index \in SlotIds
    BY <2>1, LenProperties, TimersAssumption DEF SlotIds
  <2>3. timerFrame.target \in Addresses
    BY <1>1 DEF TimerInv, FrameHasSlot, TimerTypeOK, TimerFrame
  <2> QED
    BY <1>1, <2>2, <2>3 DEF TimerInv, TimerTypeOK, TimerFrame, Delivering, Service!Request
<1>3. Delivering # NULL /\ Delivering' = NULL /\ UNCHANGED Alive
  BY <1>1, <1>2, NullIsNoRequest DEF NoTimerFrame, Delivering, Alive
<1>4. CASE TickReturn
  <2> DEFINE u == SlotSeen.target
  <2>1. u \in Alive /\ TickAgain(u) /\ Delivering.tick
    BY <1>4 DEF TickReturn, Delivering
  <2>2. Service!Accept
    <3>1. CASE tick[u]
      <4>1. PICK i \in SlotIds : AddSlot(i, u, NULL, TRUE)
        BY <2>1, <3>1 DEF TickAgain
      <4> QED
        BY <2>1, <4>1, AddAccepts DEF TimerInv
    <3>2. CASE ~tick[u]
      BY <2>1, <3>2, SameSlots, NothingAccepted DEF TickAgain, slotVars
    <3> QED
      BY <3>1, <3>2
  <2> QED
    BY <1>3, <2>1, <2>2 DEF Service!Return
<1>5. CASE TimerReturn
  BY <1>3, <1>5, SameSlots, NothingAccepted DEF TimerReturn, slotVars, Service!Return
<1> QED
  BY <1>4, <1>5

(* The other steps are none of the service's business.                       *)
LEMMA RestIsUnseen ==
  ASSUME UNCHANGED <<timerList, slots>>,
         \/ UNCHANGED timerFrame
         \/ timerFrame.kind \in {"none", "idle"} /\ timerFrame'.kind \in {"none", "idle"}
  PROVE  UNCHANGED Service!vars
BY SameSlots DEF Alive, Delivering, Service!vars

-----------------------------------------------------------------------------

(* Every step is one of the service, or leaves it alone.                     *)
LEMMA StepSimulates ==
  ASSUME TimerInv, [TimerNext]_timerVars
  PROVE  [Service!Next]_(Service!vars)
<1>1. ASSUME NEW t \in Addresses, CreateTimer(t)
      PROVE  Service!Next
  BY <1>1, CreateRegisters DEF TimerInv, Service!Next
<1>2. ASSUME NEW p \in DOMAIN timerList, Destroy(p)
      PROVE  Service!Next
  <2>1. timerList[p] \in Addresses
    BY ElementOfSeq, LenProperties DEF TimerInv, TimerTypeOK
  <2> QED
    BY <1>2, <2>1, DestroyUnregisters DEF TimerInv, Destroy, Service!Next
<1>3. ASSUME NEW t \in Addresses, NEW on \in BOOLEAN, SetTick(t, on)
      PROVE  [Service!Next]_(Service!vars)
  BY <1>3, ArmTickAsks DEF SetTick, TimerInv, Service!Next
<1>4. ASSUME NEW t \in Addresses, NEW v \in Vals, SetTimer(t, v)
      PROVE  Service!Next
  BY <1>4, SetTimerAsks DEF TimerInv, Service!Next
<1>5. ASSUME NEW t \in Addresses, NEW on \in BOOLEAN, SetIdle(t, on)
      PROVE  UNCHANGED Service!vars
  BY <1>5, RestIsUnseen DEF SetIdle, slotVars
<1>6. CASE InitGlut
  BY <1>6, InitTicksAsks DEF InitGlut, Service!Next
<1>7. ASSUME NEW i \in SlotIds, FireTimer(i)
      PROVE  [Service!Next]_(Service!vars)
  BY <1>7, FireTimerDelivers DEF Service!Next
<1>8. ASSUME NEW p \in Nat, timerFrame.kind \in {"none", "idle"}, IdleStep(p)
      PROVE  UNCHANGED Service!vars
  <2>1. timerFrame'.kind \in {"none", "idle"} /\ UNCHANGED <<timerList, slots>>
    <3>1. UNCHANGED <<timerList, slots>>
      BY <1>8 DEF IdleStep, timerObjectVars, slotVars
    <3>2. ASSUME NEW q, timerFrame' = [NoTimerFrame EXCEPT !.kind = "idle", !.target = timerList[q]]
          PROVE  timerFrame'.kind = "idle"
      BY <3>2 DEF NoTimerFrame
    <3>3. timerFrame' = NoTimerFrame => timerFrame'.kind = "none"
      BY DEF NoTimerFrame
    <3> QED
      BY <1>8, <3>1, <3>2, <3>3 DEF IdleStep
  <2> QED
    BY <1>8, <2>1, RestIsUnseen
<1>9. CASE FireIdle \/ IdleReturn
  <2>1. CASE FireIdle
    BY <1>8, <2>1 DEF FireIdle
  <2>2. CASE IdleReturn
    <3>1. PICK p \in DOMAIN timerList : IdleStep(p)
      BY <2>2 DEF IdleReturn
    <3>2. p \in Nat
      BY LenProperties DEF TimerInv, TimerTypeOK
    <3> QED
      BY <1>8, <2>2, <3>1, <3>2 DEF IdleReturn
  <2> QED
    BY <1>9, <2>1, <2>2
<1>10. CASE TickReturn \/ TimerReturn
  BY <1>10, ReturnReturns DEF Service!Next
<1>11. CASE TickReturnFault \/ IdleReturnFault \/ UNCHANGED timerVars
  BY <1>11, RestIsUnseen
     DEF TickReturnFault, IdleReturnFault, timerObjectVars, slotVars, timerVars
<1> QED
  BY <1>1, <1>2, <1>3, <1>4, <1>5, <1>6, <1>7, <1>8, <1>9, <1>10,
   <1>11
     DEF TimerNext, TimerClient, Return

(* The timer half of GlutMaster implements the service: a request is         *)
(* delivered at most once, to the object it was made for, one at a time, and *)
(* the slots that carry it through GLUT cannot be told from the outside.     *)
THEOREM Refinement == TimerSpec => ImplementsService
<1>1. TimerInit => Service!Init
  BY NothingOutstanding, EmptySeq DEF TimerInit, NoTimerFrame, Alive, Delivering, Service!Init
<1> QED
  BY <1>1, StepSimulates, InvariantHolds, PTL
     DEF TimerSpec, ImplementsService, Service!Spec

(* What the service buys its clients: a request waits only for an object     *)
(* that still exists.                                                        *)
THEOREM ServiceKeepsRequestsLive == Service!Spec => []Service!RequestsAreLive
<1>1. Service!Init => Service!RequestsAreLive
  BY DEF Service!Init, Service!RequestsAreLive
<1>2. ASSUME Service!RequestsAreLive, [Service!Next]_(Service!vars)
      PROVE  Service!RequestsAreLive'
  <2>1. ASSUME NEW t \in Addresses, Service!Register(t) \/ Service!Unregister(t)
        PROVE  Service!RequestsAreLive'
    BY <1>2, <2>1 DEF Service!Register, Service!Unregister, Service!RequestsAreLive
  <2>2. CASE Service!Ask \/ Service!Return
    BY <1>2, <2>2
       DEF Service!Ask, Service!Return, Service!Accept, Service!RequestsAreLive
  <2>3. ASSUME NEW r \in Outstanding, Service!Deliver(r)
        PROVE  Service!RequestsAreLive'
    BY <1>2, <2>3 DEF Service!Deliver, Service!RequestsAreLive
  <2>4. CASE UNCHANGED Service!vars
    BY <1>2, <2>4 DEF Service!vars, Service!RequestsAreLive
  <2> QED
    BY <1>2, <2>1, <2>2, <2>3, <2>4 DEF Service!Next
<1> QED
  BY <1>1, <1>2, PTL DEF Service!Spec

-----------------------------------------------------------------------------
(* The windows: the inductive invariants. *)

(* Nobody waits to be opened who is deleted or was never opened.             *)
OpenersAreLive == ToSet(toOpen) \subseteq Opened

(* An opened window that has not had its OnOpen is still queued for it.      *)
PendingIsQueued == \A w \in Opened : onOpenPending[w] => w \in ToSet(toOpen)

(* CheckOnOpen is in OnOpen of the first window of its queue.                *)
OpensTheFirst == windowFrame.kind = "open" => toOpen # <<>> /\ Head(toOpen) = windowFrame.win

WInv ==
  /\ WindowTypeOK
  /\ DatabaseConsistent
  /\ OpenersAreLive
  /\ PendingIsQueued
  /\ OpensTheFirst
  /\ NobodyIsForgotten

(* CheckOnClose is in OnClose of the first window of its queue, and has its  *)
(* identifier.                                                               *)
ClosesTheFirst ==
  windowFrame.kind = "close" => /\ toClose # <<>> /\ Head(toClose) = windowFrame.win
                                /\ windowFrame.id = windowID[windowFrame.win]

(* Nobody waits to be closed who is deleted, or waits twice.                 *)
CInv ==
  /\ ToSet(toClose) \subseteq Opened
  /\ \A p, q \in DOMAIN toClose : toClose[p] = toClose[q] => p = q
  /\ ClosesTheFirst
  /\ NoWindowFault

-----------------------------------------------------------------------------
(* Lemmas about queues and lists. *)

(* Who joins a queue at the back is in its set.                              *)
LEMMA JoinsQueue ==
  ASSUME NEW S, NEW s \in Seq(S), NEW x
  PROVE  ToSet(Append(s, x)) = ToSet(s) \cup {x}
<1> DEFINE t == Append(s, x)
<1>1. /\ Len(t) = Len(s) + 1
      /\ \A i \in 1..Len(s) : t[i] = s[i]
      /\ t[Len(s) + 1] = x
  OBVIOUS
<1>2. DOMAIN t = 1..(Len(s) + 1) /\ DOMAIN s = 1..Len(s) /\ Len(s) \in Nat
  BY <1>1
<1>3. ToSet(t) = ToSet(s) \cup {x}
  BY <1>1, <1>2 DEF ToSet
<1> QED
  BY <1>3

(* So is who is put in front of a list. *)
LEMMA JoinsList ==
  ASSUME NEW S, NEW s \in Seq(S), NEW x
  PROVE  ToSet(<<x>> \o s) = ToSet(s) \cup {x}
<1>0. PICK t : t = <<x>> \o s
  OBVIOUS
<1>1. /\ t \in Seq(S \cup {x}) /\ Len(t) = Len(s) + 1 /\ t[1] = x
      /\ \A p \in 1..Len(s) : t[p + 1] = s[p]
  <2>1. s \in Seq(S \cup {x}) /\ x \in S \cup {x}
    OBVIOUS
  <2> QED
    BY <1>0, <2>1, InFront
<1>2. DOMAIN t = 1..(Len(s) + 1) /\ DOMAIN s = 1..Len(s) /\ Len(s) \in Nat
  BY <1>1
<1>3. ASSUME NEW i \in DOMAIN t, i # 1 PROVE t[i] \in ToSet(s)
  <2>1. i - 1 \in 1..Len(s) /\ (i - 1) + 1 = i
    BY <1>2, <1>3
  <2>2. t[i] = s[i - 1]
    BY <2>1, <1>1
  <2> QED
    BY <2>1, <2>2, <1>2 DEF ToSet
<1>4. ASSUME NEW i \in DOMAIN s PROVE s[i] \in ToSet(t)
  <2>1. i + 1 \in DOMAIN t /\ t[i + 1] = s[i]
    BY <1>1, <1>2
  <2> QED
    BY <2>1 DEF ToSet
<1>5. x \in ToSet(t)
  BY <1>1, <1>2 DEF ToSet
<1>6. ToSet(t) \subseteq ToSet(s) \cup {x}
  BY <1>1, <1>3 DEF ToSet
<1>7. ToSet(s) \subseteq ToSet(t)
  BY <1>4 DEF ToSet
<1> QED
  BY <1>0, <1>5, <1>6, <1>7

(* A queue is its first and the others; without repetition the first is not  *)
(* among the others.                                                         *)
LEMMA Leaves ==
  ASSUME NEW S, NEW s \in Seq(S), s # <<>>
  PROVE  /\ Head(s) \in ToSet(s) /\ Head(s) = s[1] /\ Tail(s) \in Seq(S)
         /\ ToSet(s) = ToSet(Tail(s)) \cup {Head(s)}
         /\ (\A p, q \in DOMAIN s : s[p] = s[q] => p = q) =>
              /\ Head(s) \notin ToSet(Tail(s))
              /\ \A p, q \in DOMAIN Tail(s) : Tail(s)[p] = Tail(s)[q] => p = q
<1>1. /\ Len(s) \in Nat \ {0} /\ Head(s) = s[1] /\ Tail(s) \in Seq(S)
      /\ Len(Tail(s)) = Len(s) - 1
      /\ \A i \in 1..(Len(s) - 1) : Tail(s)[i] = s[i + 1]
  OBVIOUS
<1>2. DOMAIN s = 1..Len(s) /\ DOMAIN Tail(s) = 1..(Len(s) - 1)
  BY <1>1
<1>3. ASSUME NEW i \in DOMAIN s, i # 1 PROVE s[i] \in ToSet(Tail(s))
  <2>1. i - 1 \in DOMAIN Tail(s) /\ Tail(s)[i - 1] = s[i]
    BY <1>1, <1>2, <1>3
  <2> QED
    BY <2>1 DEF ToSet
<1>4. ASSUME NEW i \in DOMAIN Tail(s)
      PROVE  \E j \in DOMAIN s : j = i + 1 /\ j # 1 /\ Tail(s)[i] = s[j]
  BY <1>1, <1>2
<1>5. 1 \in DOMAIN s
  BY <1>1, <1>2
<1>6. ToSet(s) = ToSet(Tail(s)) \cup {Head(s)}
  <2>1. ASSUME NEW i \in DOMAIN s PROVE s[i] \in ToSet(Tail(s)) \cup {s[1]}
    BY <1>3
  <2>2. ASSUME NEW i \in DOMAIN Tail(s) PROVE Tail(s)[i] \in ToSet(s)
    BY <1>4 DEF ToSet
  <2>3. s[1] \in ToSet(s)
    BY <1>5 DEF ToSet
  <2>4. ToSet(s) \subseteq ToSet(Tail(s)) \cup {s[1]}
    BY <2>1 DEF ToSet
  <2>5. ToSet(Tail(s)) \subseteq ToSet(s)
    BY <2>2 DEF ToSet
  <2> QED
    BY <1>1, <2>3, <2>4, <2>5
<1>7. ASSUME \A p, q \in DOMAIN s : s[p] = s[q] => p = q
      PROVE  Head(s) \notin ToSet(Tail(s))
  <2> SUFFICES ASSUME NEW i \in DOMAIN Tail(s), Tail(s)[i] = s[1]
               PROVE  FALSE
    BY <1>1 DEF ToSet
  <2> QED
    BY <1>4, <1>5, <1>7
<1>8. ASSUME \A p, q \in DOMAIN s : s[p] = s[q] => p = q,
             NEW p \in DOMAIN Tail(s), NEW q \in DOMAIN Tail(s), Tail(s)[p] = Tail(s)[q]
      PROVE  p = q
  <2>1. PICK i \in DOMAIN s : i = p + 1 /\ Tail(s)[p] = s[i]
    BY <1>4
  <2>2. PICK j \in DOMAIN s : j = q + 1 /\ Tail(s)[q] = s[j]
    BY <1>4
  <2>3. p \in Nat /\ q \in Nat
    BY <1>1, <1>2
  <2> QED
    BY <1>8, <2>1, <2>2, <2>3
<1>9. Head(s) \in ToSet(s)
  BY <1>6
<1>10. (\A p, q \in DOMAIN s : s[p] = s[q] => p = q) =>
         /\ Head(s) \notin ToSet(Tail(s))
         /\ \A p, q \in DOMAIN Tail(s) : Tail(s)[p] = Tail(s)[q] => p = q
  BY <1>7, <1>8
<1>11. Head(s) = s[1] /\ Tail(s) \in Seq(S)
  BY <1>1
<1> QED
  BY <1>6, <1>9, <1>10, <1>11

(* An item put in front of a list without repetition is there once.          *)
LEMMA ToFrontProperties ==
  ASSUME NEW S, NEW s \in Seq(S), NEW x \in S,
         \A p, q \in DOMAIN s : s[p] = s[q] => p = q
  PROVE  /\ ToFront(s, x) \in Seq(S) /\ ToFront(s, x) # <<>>
         /\ ToSet(ToFront(s, x)) = ToSet(s) \cup {x}
         /\ \A p, q \in DOMAIN ToFront(s, x) : ToFront(s, x)[p] = ToFront(s, x)[q] => p = q
<1> DEFINE rest == Without(s, x)
<1>1. rest \in Seq(S) /\ ToSet(rest) = ToSet(s) \ {x}
  BY WithoutProperties, WithoutSet
<1>2. \A p, q \in DOMAIN rest : rest[p] = rest[q] => p = q
  BY WithoutTwins
<1>3. DOMAIN rest = 1..Len(rest) /\ Len(rest) \in Nat
  BY <1>1
<1> HIDE DEF rest
<1>9. PICK t : t = <<x>> \o rest
  OBVIOUS
<1>4. t \in Seq(S) /\ t[1] = x /\ Len(t) = Len(rest) + 1
  BY <1>1, <1>9, InFront
<1>5. ToSet(t) = ToSet(s) \cup {x}
  BY <1>1, <1>9, JoinsList
<1>6. ASSUME NEW p \in 1..Len(t), p # 1
      PROVE  \E i \in DOMAIN rest : p = i + 1 /\ t[p] = rest[i] /\ t[p] # x
  <2>1. p - 1 \in 1..Len(rest) /\ (p - 1) + 1 = p
    BY <1>3, <1>4, <1>6
  <2>2. t[p] = rest[p - 1]
    BY <2>1, <1>1, <1>9, InFront
  <2>3. rest[p - 1] \in ToSet(rest)
    BY <2>1, <1>3 DEF ToSet
  <2> QED
    BY <1>1, <1>3, <2>1, <2>2, <2>3
<1>7. ASSUME NEW p \in 1..Len(t), NEW q \in 1..Len(t), t[p] = t[q] PROVE p = q
  <2>1. CASE p = 1 \/ q = 1
    BY <2>1, <1>4, <1>6, <1>7
  <2>2. CASE p # 1 /\ q # 1
    <3>1. PICK i \in DOMAIN rest : p = i + 1 /\ t[p] = rest[i]
      BY <1>6, <2>2
    <3>2. PICK j \in DOMAIN rest : q = j + 1 /\ t[q] = rest[j]
      BY <1>6, <2>2
    <3> QED
      BY <1>2, <1>7, <3>1, <3>2
  <2> QED
    BY <2>1, <2>2
<1>8. DOMAIN t = 1..Len(t) /\ t # <<>>
  BY <1>3, <1>4
<1> QED
  BY <1>4, <1>5, <1>7, <1>8, <1>9 DEF ToFront, rest

-----------------------------------------------------------------------------
(* The invariant, without any discipline in closing. *)

(* The program starts with nothing open. *)
LEMMA InitWindows == WindowsAssumption /\ WindowInit => WInv
<1> SUFFICES ASSUME WindowsAssumption, WindowInit
             PROVE  WInv
  OBVIOUS
<1> USE DEF WindowInit
<1>1. WindowTypeOK
  <2>1. NoWindowFrame \in WindowFrame
    BY DEF WindowFrame, NoWindowFrame
  <2>2. windows \in [Ids -> Seq(Addresses)] /\ toOpen \in Seq(Addresses) /\ toClose \in Seq(Addresses)
    OBVIOUS
  <2>3. checks \in [Checks -> Nat]
    OBVIOUS
  <2> QED
    BY <2>1, <2>2, <2>3 DEF WindowTypeOK
<1>2. ToSet(<<>>) = {}
  BY DEF ToSet
<1>3. DatabaseConsistent
  BY <1>2 DEF DatabaseConsistent
<1> QED
  BY <1>1, <1>2, <1>3 DEF WInv, OpenersAreLive, PendingIsQueued, Opened, OpensTheFirst,
                          NobodyIsForgotten, NoWindowFrame

(* What open() and grab() have in common: w takes the identifier id and is   *)
(* put in front of its list.                                                 *)
Opens(w, id) ==
  /\ w \in objs /\ id \in Ids
  /\ windowID[w] \in {NoID, id}
  /\ windowID' = [windowID EXCEPT ![w] = id]
  /\ glutWins' = glutWins \cup {id}
  /\ OpenWindow(w, id)
  /\ UNCHANGED <<objs, onOpenPending, toClose, windowFrame, ended, windowFault>>

(* open() is such a step. *)
LEMMA OpenOpens ==
  ASSUME WindowsAssumption, WInv, NEW w \in Addresses, Open(w)
  PROVE  \E id \in Ids : Opens(w, id)
<1>1. CASE windowID[w] = NoID
  BY <1>1 DEF Open, Opens
<1>2. CASE windowID[w] # NoID
  <2> DEFINE id == windowID[w]
  <2>1. id \in Ids /\ w \in objs /\ windowID \in [Addresses -> Ids \cup {NoID}]
    BY <1>2 DEF Open, WInv, WindowTypeOK
  <2>2. w \in ToSet(windows[id])
    BY <2>1 DEF WInv, DatabaseConsistent
  <2>3. id \in glutWins
    BY <2>1, <2>2 DEF WInv, DatabaseConsistent, ToSet
  <2>4. windowID = [windowID EXCEPT ![w] = id]
    BY <2>1
  <2>5. glutWins = glutWins \cup {id}
    BY <2>3
  <2> HIDE DEF id
  <2>6. /\ OpenWindow(w, id) /\ UNCHANGED <<windowID, glutWins>>
        /\ UNCHANGED <<objs, onOpenPending, toClose, windowFrame, ended, windowFault>>
    BY <1>2 DEF Open, id
  <2>7. windowID[w] \in {NoID, id}
    BY DEF id
  <2> QED
    BY <2>1, <2>4, <2>5, <2>6, <2>7 DEF Opens
<1> QED
  BY <1>1, <1>2

(* So is grab(), if the window has no other GLUT window. *)
LEMMA GrabOpens ==
  ASSUME WindowsAssumption, WInv, ~GrabOver,
         NEW w \in Addresses, NEW from \in Addresses, Grab(w, from)
  PROVE  \E id \in Ids : Opens(w, id)
<1> DEFINE id == windowID[from]
<1>1. id \in Ids /\ from \in objs /\ w \in objs
  BY DEF Grab, WInv, WindowTypeOK, Opened
<1>2. from \in ToSet(windows[id])
  BY <1>1 DEF WInv, DatabaseConsistent
<1>3. id \in glutWins
  BY <1>1, <1>2 DEF WInv, DatabaseConsistent, ToSet
<1> QED
  BY <1>1, <1>3 DEF Grab, Opens

(* The list after such a step, and that nobody else's list has changed.      *)
LEMMA OpensList ==
  ASSUME WindowsAssumption, WInv, NEW w, NEW id, Opens(w, id)
  PROVE  /\ windows' \in [Ids -> Seq(Addresses)]
         /\ \A i \in Ids : i # id => windows'[i] = windows[i]
         /\ windows'[id] # <<>>
         /\ ToSet(windows'[id]) = ToSet(windows[id]) \cup {w}
         /\ \A p, q \in DOMAIN windows'[id] : windows'[id][p] = windows'[id][q] => p = q
         /\ status' \in [Addresses -> {"new", "open", "closed"}]
<1> DEFINE list == windows[id]
<1>1. /\ id \in Ids /\ w \in Addresses /\ windows \in [Ids -> Seq(Addresses)]
      /\ status \in [Addresses -> {"new", "open", "closed"}]
      /\ list \in Seq(Addresses)
  BY DEF Opens, WInv, WindowTypeOK
<1>2. \A p, q \in DOMAIN list : list[p] = list[q] => p = q
  BY <1>1 DEF WInv, DatabaseConsistent
<1>3. \/ list = <<>> /\ windows' = [windows EXCEPT ![id] = <<w>>] /\ status' = status
      \/ /\ list # <<>> /\ windows' = [windows EXCEPT ![id] = ToFront(list, w)]
         /\ status' = [status EXCEPT ![Head(list)] = "closed"]
      \/ list # <<>> /\ Head(list) = w /\ windows' = windows /\ status' = status
  BY DEF Opens, OpenWindow
<1>4. /\ ToFront(list, w) \in Seq(Addresses) /\ ToFront(list, w) # <<>>
      /\ ToSet(ToFront(list, w)) = ToSet(list) \cup {w}
      /\ \A p, q \in DOMAIN ToFront(list, w) :
           ToFront(list, w)[p] = ToFront(list, w)[q] => p = q
  BY <1>1, <1>2, ToFrontProperties
<1> HIDE DEF list
<1>5. CASE list = <<>> /\ windows' = [windows EXCEPT ![id] = <<w>>] /\ status' = status
  <2>1. windows'[id] = <<w>> /\ <<w>> \in Seq(Addresses) /\ <<w>> # <<>> /\ DOMAIN <<w>> = 1..1
    BY <1>1, <1>5
  <2>2. ToSet(<<w>>) = {w} /\ ToSet(list) = {}
    BY <1>5 DEF ToSet
  <2> QED
    BY <1>1, <1>5, <2>1, <2>2 DEF list
<1>6. CASE /\ list # <<>> /\ windows' = [windows EXCEPT ![id] = ToFront(list, w)]
           /\ status' = [status EXCEPT ![Head(list)] = "closed"]
  <2>1. windows'[id] = ToFront(list, w)
    BY <1>1, <1>6
  <2> QED
    BY <1>1, <1>4, <1>6, <2>1 DEF list
<1>7. CASE list # <<>> /\ Head(list) = w /\ windows' = windows /\ status' = status
  <2>1. w \in ToSet(list)
    BY <1>1, <1>7, Leaves
  <2> QED
    BY <1>1, <1>2, <1>7, <2>1 DEF list
<1> QED
  BY <1>3, <1>5, <1>6, <1>7

(* open() and grab() preserve the invariant. *)
LEMMA OpensKeepsInvariant ==
  ASSUME WindowsAssumption, WInv, NEW w, NEW id, Opens(w, id)
  PROVE  WInv'
<1>1. /\ w \in objs /\ w \in Addresses /\ id \in Ids /\ id # NoID
      /\ windowID[w] \in {NoID, id} /\ windowID \in [Addresses -> Ids \cup {NoID}]
      /\ windowID' = [windowID EXCEPT ![w] = id]
      /\ objs' = objs /\ objs \subseteq Addresses
  BY DEF Opens, WInv, WindowTypeOK, WindowsAssumption
<1>2. /\ toOpen \in Seq(Addresses) /\ toOpen' = Append(toOpen, w)
      /\ checks \in [Checks -> Nat] /\ checks' = [checks EXCEPT !["open"] = @ + 1]
  BY DEF Opens, OpenWindow, Schedule, WInv, WindowTypeOK
<1>3. toOpen' \in Seq(Addresses) /\ ToSet(toOpen') = ToSet(toOpen) \cup {w}
  <2>1. ToSet(Append(toOpen, w)) = ToSet(toOpen) \cup {w}
    BY <1>2, JoinsQueue
  <2>2. Append(toOpen, w) \in Seq(Addresses)
    BY <1>1, <1>2
  <2> QED
    BY <2>1, <2>2, <1>2
<1>4. checks' \in [Checks -> Nat] /\ checks'["open"] > 0 /\ checks'["close"] = checks["close"]
  BY <1>2 DEF Checks
<1>5. /\ UNCHANGED <<objs, onOpenPending, toClose, windowFrame, ended, windowFault>>
      /\ glutWins' = glutWins \cup {id}
  BY DEF Opens
<1>6. WindowTypeOK'
  BY <1>1, <1>3, <1>4, <1>5, OpensList DEF WInv, WindowTypeOK
<1>7. Opened' = Opened \cup {w}
  BY <1>1 DEF Opened, WindowsAssumption
<1>8. DatabaseConsistent'
  <2> SUFFICES ASSUME NEW i \in Ids
               PROVE  /\ ToSet(windows'[i]) = {v \in objs' : windowID'[v] = i}
                      /\ \A p, q \in DOMAIN windows'[i] :
                           windows'[i][p] = windows'[i][q] => p = q
                      /\ i \in glutWins' <=> windows'[i] # <<>>
    BY DEF DatabaseConsistent
  <2>1. /\ ToSet(windows[i]) = {v \in objs : windowID[v] = i}
        /\ \A p, q \in DOMAIN windows[i] : windows[i][p] = windows[i][q] => p = q
        /\ i \in glutWins <=> windows[i] # <<>>
    BY DEF WInv, DatabaseConsistent
  <2>2. CASE i = id
    <3>1. {v \in objs' : windowID'[v] = id} = {v \in objs : windowID[v] = id} \cup {w}
      BY <1>1
    <3>2. /\ windows'[id] # <<>>
          /\ ToSet(windows'[id]) = ToSet(windows[id]) \cup {w}
          /\ \A p, q \in DOMAIN windows'[id] : windows'[id][p] = windows'[id][q] => p = q
      BY OpensList
    <3>3. ToSet(windows'[id]) = {v \in objs' : windowID'[v] = id}
      BY <2>1, <2>2, <3>1, <3>2
    <3>4. id \in glutWins'
      BY <1>5
    <3> QED
      BY <2>2, <3>2, <3>3, <3>4
  <2>3. CASE i # id
    <3>1. {v \in objs' : windowID'[v] = i} = {v \in objs : windowID[v] = i}
      BY <1>1, <2>3 DEF WindowsAssumption
    <3>2. windows'[i] = windows[i]
      BY <2>3, OpensList
    <3> QED
      BY <2>1, <2>3, <3>1, <3>2, <1>5
  <2> QED
    BY <2>2, <2>3
<1>9. OpenersAreLive' /\ PendingIsQueued'
  BY <1>3, <1>5, <1>7 DEF WInv, OpenersAreLive, PendingIsQueued
<1>10. OpensTheFirst'
  <2> SUFFICES ASSUME windowFrame.kind = "open"
               PROVE  toOpen' # <<>> /\ Head(toOpen') = windowFrame.win
    BY <1>5 DEF OpensTheFirst
  <2>1. toOpen # <<>> /\ Head(toOpen) = windowFrame.win
    BY DEF WInv, OpensTheFirst
  <2> QED
    BY <1>1, <1>2, <2>1
<1>11. NobodyIsForgotten'
  BY <1>4, <1>5 DEF WInv, NobodyIsForgotten
<1> QED
  BY <1>6, <1>8, <1>9, <1>10, <1>11 DEF WInv

(* A new object is in no list and no queue. *)
LEMMA CreateKeepsWindows ==
  ASSUME WindowsAssumption, WInv, NEW w \in Addresses, CreateWindow(w)
  PROVE  WInv'
<1>1. /\ w \notin objs /\ objs' = objs \cup {w} /\ objs \subseteq Addresses
      /\ windowID' = [windowID EXCEPT ![w] = NoID]
      /\ onOpenPending' = [onOpenPending EXCEPT ![w] = TRUE]
      /\ status' = [status EXCEPT ![w] = "new"]
      /\ UNCHANGED <<windows, toOpen, toClose, checks, glutWins, windowFrame, ended, windowFault>>
      /\ windowID \in [Addresses -> Ids \cup {NoID}] /\ onOpenPending \in [Addresses -> BOOLEAN]
      /\ ToSet(toOpen) \subseteq Opened /\ NoID \notin Ids
  BY DEF CreateWindow, WInv, WindowTypeOK, OpenersAreLive, WindowsAssumption
<1>2. WindowTypeOK'
  BY <1>1 DEF WInv, WindowTypeOK
<1>3. Opened' = Opened /\ w \notin Opened
  BY <1>1 DEF Opened
<1>4. \A id \in Ids : {v \in objs' : windowID'[v] = id} = {v \in objs : windowID[v] = id}
  BY <1>1
<1>5. DatabaseConsistent'
  BY <1>1, <1>4 DEF WInv, DatabaseConsistent
<1>6. \A v \in Opened : onOpenPending'[v] = onOpenPending[v]
  BY <1>1, <1>3 DEF Opened
<1>7. OpenersAreLive' /\ PendingIsQueued' /\ OpensTheFirst'
  BY <1>1, <1>3, <1>6 DEF WInv, OpenersAreLive, PendingIsQueued, OpensTheFirst
<1>8. NobodyIsForgotten'
  BY <1>1, <1>6 DEF WInv, NobodyIsForgotten
<1> QED
  BY <1>2, <1>5, <1>7, <1>8 DEF WInv

(* What leaves the objects, the database and the queue of OnOpen alone.      *)
Untouched == UNCHANGED <<objs, windowID, windows, toOpen, glutWins>>

(* After such a step the database and the openers are as they were.          *)
LEMMA UntouchedKeeps ==
  ASSUME WInv, Untouched
  PROVE  DatabaseConsistent' /\ OpenersAreLive' /\ Opened' = Opened
<1> USE DEF Untouched
<1>1. DatabaseConsistent'
  BY DEF WInv, DatabaseConsistent
<1>2. Opened' = Opened
  BY DEF Opened
<1> QED
  BY <1>1, <1>2 DEF WInv, OpenersAreLive

(* close() only queues the window and registers the check. *)
LEMMA CloseKeepsWindows ==
  ASSUME WInv, NEW w \in Addresses, Close(w)
  PROVE  WInv'
<1>1. /\ toClose \in Seq(Addresses) /\ toClose' = Append(toClose, w)
      /\ checks \in [Checks -> Nat] /\ checks' = [checks EXCEPT !["close"] = @ + 1]
      /\ Untouched /\ UNCHANGED <<onOpenPending, status, windowFrame, ended, windowFault>>
  BY DEF Close, Schedule, Untouched, windowObjectVars, WInv, WindowTypeOK
<1>2. toClose' \in Seq(Addresses)
  BY <1>1
<1>3. checks' \in [Checks -> Nat] /\ checks'["close"] > 0 /\ checks'["open"] = checks["open"]
  BY <1>1 DEF Checks
<1>4. WindowTypeOK'
  BY <1>1, <1>2, <1>3 DEF WInv, WindowTypeOK, Untouched
<1>5. PendingIsQueued' /\ OpensTheFirst'
  BY <1>1, UntouchedKeeps DEF WInv, PendingIsQueued, OpensTheFirst, Untouched
<1>6. NobodyIsForgotten'
  BY <1>1, <1>3 DEF WInv, NobodyIsForgotten, Untouched
<1> QED
  BY <1>1, <1>4, <1>5, <1>6, UntouchedKeeps DEF WInv

(* A check that fires: its callback runs, or is the check of shutdown.       *)
LEMMA FireKeepsWindows ==
  ASSUME WInv, FireCheckOnOpen \/ FireCheckOnClose \/ FireCheckShutdown
  PROVE  WInv'
<1>1. /\ Untouched /\ UNCHANGED <<onOpenPending, status, toClose, windowFault>>
      /\ windowFrame.kind = "none" /\ ended' \in BOOLEAN /\ ended \in BOOLEAN
      /\ checks \in [Checks -> Nat]
  BY DEF FireCheckOnOpen, FireCheckOnClose, FireCheckShutdown, Fire, Untouched, windowObjectVars,
         WInv, WindowTypeOK
<1>2. ASSUME NEW c \in Checks, Fire(c)
      PROVE  /\ checks' \in [Checks -> Nat]
             /\ \A d \in Checks : d # c => checks'[d] = checks[d]
  BY <1>1, <1>2 DEF Fire
<1>3. /\ checks' \in [Checks -> Nat] /\ windowFrame' \in WindowFrame
      /\ checks'["open"] > 0 \/ windowFrame'.kind = "openLoop" \/ checks["open"] = 0
      /\ checks'["close"] > 0 \/ windowFrame'.kind = "closeLoop" \/ checks["close"] = 0
      /\ windowFrame'.kind # "open"
  <2>1. CASE FireCheckOnOpen
    <3>1. Fire("open") /\ windowFrame' = At("openLoop")
      BY <2>1 DEF FireCheckOnOpen
    <3>2. windowFrame' \in WindowFrame /\ windowFrame'.kind = "openLoop"
      BY <3>1 DEF WindowFrame, At, NoWindowFrame
    <3>3. checks' \in [Checks -> Nat] /\ checks'["close"] = checks["close"]
      BY <1>2, <3>1 DEF Checks
    <3> QED
      BY <1>1, <3>2, <3>3 DEF Checks
  <2>2. CASE FireCheckOnClose
    <3>1. Fire("close") /\ windowFrame' = At("closeLoop")
      BY <2>2 DEF FireCheckOnClose
    <3>2. windowFrame' \in WindowFrame /\ windowFrame'.kind = "closeLoop"
      BY <3>1 DEF WindowFrame, At, NoWindowFrame
    <3>3. checks' \in [Checks -> Nat] /\ checks'["open"] = checks["open"]
      BY <1>2, <3>1 DEF Checks
    <3> QED
      BY <1>1, <3>2, <3>3 DEF Checks
  <2>3. CASE FireCheckShutdown
    <3>1. Fire("shutdown") /\ windowFrame' = windowFrame
      BY <2>3 DEF FireCheckShutdown
    <3>2. /\ checks' \in [Checks -> Nat] /\ checks'["open"] = checks["open"]
          /\ checks'["close"] = checks["close"]
      BY <1>2, <3>1 DEF Checks
    <3> QED
      BY <1>1, <3>1, <3>2 DEF Checks, WInv, WindowTypeOK
  <2> QED
    BY <2>1, <2>2, <2>3
<1>4. WindowTypeOK'
  BY <1>1, <1>3 DEF WInv, WindowTypeOK, Untouched
<1>5. PendingIsQueued' /\ OpensTheFirst'
  BY <1>1, <1>3, UntouchedKeeps DEF WInv, PendingIsQueued, OpensTheFirst, Untouched
<1>6. NobodyIsForgotten'
  BY <1>1, <1>3 DEF WInv, NobodyIsForgotten, Untouched, Checks
<1> QED
  BY <1>1, <1>4, <1>5, <1>6, UntouchedKeeps DEF WInv

(* A new member of the queue's front, or its end: the loop of CheckOnOpen.   *)
LEMMA OpenNextKeepsWindows ==
  ASSUME WInv, OpenNext
  PROVE  WInv'
<1> USE DEF OpenNext
<1>1. /\ UNCHANGED <<objs, windowID, onOpenPending, windows, toClose, checks, glutWins,
                     ended, windowFault>>
      /\ Opened' = Opened
      /\ toOpen \in Seq(Addresses) /\ windowFrame.kind = "openLoop"
      /\ status \in [Addresses -> {"new", "open", "closed"}]
  BY DEF WInv, WindowTypeOK, Opened
<1>2. CASE toOpen = <<>> /\ windowFrame' = NoWindowFrame /\ UNCHANGED <<toOpen, status>>
  <2>1. windowFrame' \in WindowFrame /\ windowFrame'.kind = "none"
    BY <1>2 DEF WindowFrame, NoWindowFrame
  <2>2. Untouched
    BY <1>1, <1>2 DEF Untouched
  <2>3. WindowTypeOK'
    BY <1>1, <1>2, <2>1 DEF WInv, WindowTypeOK
  <2>4. ToSet(toOpen') = {}
    BY <1>2 DEF ToSet
  <2>5. PendingIsQueued' /\ OpensTheFirst'
    BY <1>1, <1>2, <2>1 DEF WInv, PendingIsQueued, OpensTheFirst
  <2>6. NobodyIsForgotten'
    BY <1>1, <2>1, <2>4 DEF WInv, NobodyIsForgotten
  <2> QED
    BY <2>2, <2>3, <2>5, <2>6, UntouchedKeeps DEF WInv
<1>3. CASE /\ toOpen # <<>> /\ windowFrame' = [At("open") EXCEPT !.win = Head(toOpen)]
           /\ status' = [status EXCEPT ![Head(toOpen)] = "open"] /\ UNCHANGED toOpen
  <2>1. Head(toOpen) \in Addresses
    BY <1>1, <1>3
  <2>2. windowFrame' \in WindowFrame /\ windowFrame'.kind = "open" /\ windowFrame'.win = Head(toOpen)
    BY <1>3, <2>1 DEF WindowFrame, At, NoWindowFrame
  <2>3. Untouched
    BY <1>1, <1>3 DEF Untouched
  <2>4. WindowTypeOK'
    BY <1>1, <1>3, <2>1, <2>2 DEF WInv, WindowTypeOK
  <2>5. PendingIsQueued' /\ OpensTheFirst'
    BY <1>1, <1>3, <2>2 DEF WInv, PendingIsQueued, OpensTheFirst
  <2>6. NobodyIsForgotten'
    BY <1>1, <2>2 DEF WInv, NobodyIsForgotten
  <2> QED
    BY <2>3, <2>4, <2>5, <2>6, UntouchedKeeps DEF WInv
<1>4. CASE /\ toOpen # <<>> /\ ~onOpenPending[Head(toOpen)] /\ toOpen' = Tail(toOpen)
           /\ UNCHANGED <<windowFrame, status>>
  <2>1. Tail(toOpen) \in Seq(Addresses) /\ ToSet(toOpen) = ToSet(Tail(toOpen)) \cup {Head(toOpen)}
    BY <1>1, <1>4, Leaves
  <2>2. WindowTypeOK'
    BY <1>1, <1>4, <2>1 DEF WInv, WindowTypeOK
  <2>3. DatabaseConsistent'
    BY <1>1 DEF WInv, DatabaseConsistent
  <2>4. OpenersAreLive' /\ PendingIsQueued' /\ OpensTheFirst'
    BY <1>1, <1>4, <2>1 DEF WInv, OpenersAreLive, PendingIsQueued, OpensTheFirst
  <2>5. NobodyIsForgotten'
    BY <1>1, <1>4, <2>1 DEF WInv, NobodyIsForgotten
  <2> QED
    BY <2>2, <2>3, <2>4, <2>5 DEF WInv
<1> QED
  BY <1>2, <1>3, <1>4

(* OnOpen returns: its window has had it, and leaves the queue.              *)
LEMMA OpenReturnKeepsWindows ==
  ASSUME WInv, OpenReturn
  PROVE  WInv'
<1>1. /\ UNCHANGED <<objs, windowID, status, windows, toClose, checks, glutWins, ended, windowFault>>
      /\ Opened' = Opened
      /\ toOpen \in Seq(Addresses) /\ windowFrame.kind = "open" /\ toOpen # <<>>
      /\ Head(toOpen) = windowFrame.win /\ toOpen' = Tail(toOpen)
      /\ onOpenPending \in [Addresses -> BOOLEAN]
      /\ onOpenPending' = [onOpenPending EXCEPT ![windowFrame.win] = FALSE]
      /\ windowFrame' = At("openLoop")
  BY DEF OpenReturn, WInv, WindowTypeOK, OpensTheFirst, Opened
<1>2. Tail(toOpen) \in Seq(Addresses) /\ ToSet(toOpen) = ToSet(Tail(toOpen)) \cup {Head(toOpen)}
  BY <1>1, Leaves
<1>3. windowFrame' \in WindowFrame /\ windowFrame'.kind = "openLoop"
  BY <1>1 DEF WindowFrame, At, NoWindowFrame
<1>4. WindowTypeOK'
  BY <1>1, <1>2, <1>3 DEF WInv, WindowTypeOK
<1>5. DatabaseConsistent'
  BY <1>1 DEF WInv, DatabaseConsistent
<1>6. \A v \in Opened : onOpenPending'[v] => onOpenPending[v] /\ v # Head(toOpen)
  BY <1>1 DEF Opened, WInv, WindowTypeOK
<1>7. OpenersAreLive' /\ PendingIsQueued' /\ OpensTheFirst'
  BY <1>1, <1>2, <1>3, <1>6 DEF WInv, OpenersAreLive, PendingIsQueued, OpensTheFirst
<1>8. NobodyIsForgotten'
  BY <1>1, <1>3 DEF WInv, NobodyIsForgotten
<1> QED
  BY <1>4, <1>5, <1>7, <1>8 DEF WInv

(* The loop of CheckOnClose calls OnClose, or ends with its queue. *)
LEMMA CloseNextKeepsWindows ==
  ASSUME WInv, CloseNext
  PROVE  WInv'
<1>1. /\ Untouched /\ UNCHANGED <<onOpenPending, toClose, checks, ended, windowFault>>
      /\ windowFrame.kind = "closeLoop" /\ toClose \in Seq(Addresses)
      /\ status \in [Addresses -> {"new", "open", "closed"}]
      /\ windowID \in [Addresses -> Ids \cup {NoID}]
  BY DEF CloseNext, Untouched, WInv, WindowTypeOK
<1>2. /\ windowFrame' \in WindowFrame /\ status' \in [Addresses -> {"new", "open", "closed"}]
      /\ windowFrame'.kind = "close" \/ (windowFrame'.kind = "none" /\ toClose = <<>>)
  <2>1. CASE toClose = <<>> /\ windowFrame' = NoWindowFrame /\ UNCHANGED status
    BY <1>1, <2>1 DEF WindowFrame, NoWindowFrame
  <2>2. CASE /\ toClose # <<>>
             /\ windowFrame' = [kind |-> "close", win |-> Head(toClose),
                                id |-> windowID[Head(toClose)]]
             /\ status' = [status EXCEPT ![Head(toClose)] = "closed"]
    <3>1. Head(toClose) \in Addresses
      BY <1>1, <2>2
    <3> QED
      BY <1>1, <2>2, <3>1 DEF WindowFrame
  <2> QED
    BY <2>1, <2>2 DEF CloseNext
<1>3. WindowTypeOK'
  BY <1>1, <1>2 DEF WInv, WindowTypeOK, Untouched
<1>4. PendingIsQueued' /\ OpensTheFirst'
  BY <1>1, <1>2, UntouchedKeeps DEF WInv, PendingIsQueued, OpensTheFirst, Untouched
<1>5. NobodyIsForgotten'
  BY <1>1, <1>2 DEF WInv, NobodyIsForgotten, Untouched
<1> QED
  BY <1>1, <1>3, <1>4, <1>5, UntouchedKeeps DEF WInv

(* OnDisplay opens the front window, if CheckOnOpen has not. *)
LEMMA DisplayKeepsWindows ==
  ASSUME WInv, (\E id \in Ids : FireDisplay(id)) \/ DisplayReturn
  PROVE  WInv'
<1>1. CASE \E id \in Ids : FireDisplay(id)
  <2>1. PICK id \in Ids : FireDisplay(id)
    BY <1>1
  <2>2. /\ Untouched /\ UNCHANGED <<onOpenPending, toClose, checks, ended, windowFault>>
        /\ windowFrame.kind = "none" /\ windows[id] # <<>> /\ windows[id] \in Seq(Addresses)
        /\ windowFrame' = [At("display") EXCEPT !.win = Head(windows[id])]
        /\ status \in [Addresses -> {"new", "open", "closed"}]
        /\ status' = [status EXCEPT ![Head(windows[id])] = "open"]
    BY <2>1 DEF FireDisplay, Untouched, WInv, WindowTypeOK
  <2>3. Head(windows[id]) \in Addresses
    BY <2>2
  <2>4. windowFrame' \in WindowFrame /\ windowFrame'.kind = "display"
    BY <2>2, <2>3 DEF WindowFrame, At, NoWindowFrame
  <2>5. WindowTypeOK'
    BY <2>2, <2>3, <2>4 DEF WInv, WindowTypeOK, Untouched
  <2>6. PendingIsQueued' /\ OpensTheFirst'
    BY <2>2, <2>4, UntouchedKeeps DEF WInv, PendingIsQueued, OpensTheFirst, Untouched
  <2>7. NobodyIsForgotten'
    BY <2>2, <2>4 DEF WInv, NobodyIsForgotten, Untouched
  <2> QED
    BY <2>2, <2>5, <2>6, <2>7, UntouchedKeeps DEF WInv
<1>2. CASE DisplayReturn
  <2>1. /\ Untouched /\ UNCHANGED <<status, toClose, checks, ended, windowFault>>
        /\ windowFrame.kind = "display" /\ windowFrame' = NoWindowFrame
        /\ onOpenPending \in [Addresses -> BOOLEAN]
        /\ onOpenPending' = [onOpenPending EXCEPT ![windowFrame.win] = FALSE]
    BY <1>2 DEF DisplayReturn, Untouched, WInv, WindowTypeOK
  <2>2. windowFrame' \in WindowFrame /\ windowFrame'.kind = "none"
    BY <2>1 DEF WindowFrame, NoWindowFrame
  <2>3. WindowTypeOK'
    BY <2>1, <2>2 DEF WInv, WindowTypeOK, Untouched
  <2>4. \A v \in Addresses : onOpenPending'[v] => onOpenPending[v]
    BY <2>1
  <2>5. Opened \subseteq Addresses
    BY DEF Opened, WInv, WindowTypeOK
  <2>6. PendingIsQueued' /\ OpensTheFirst'
    BY <2>1, <2>2, <2>4, <2>5, UntouchedKeeps
       DEF WInv, PendingIsQueued, OpensTheFirst, Untouched
  <2>7. NobodyIsForgotten'
    BY <2>1, <2>2, <2>4, <2>5 DEF WInv, NobodyIsForgotten, OpenersAreLive, Untouched
  <2> QED
    BY <2>1, <2>3, <2>6, <2>7, UntouchedKeeps DEF WInv
<1> QED
  BY <1>1, <1>2

(* A failed assertion stops the program as it is. *)
LEMMA FaultKeepsWindows ==
  ASSUME WInv, LoopFault \/ \E id \in Ids : DisplayFault(id)
  PROVE  WInv'
<1>1. /\ Untouched
      /\ UNCHANGED <<onOpenPending, status, toClose, checks, windowFrame, ended>> /\ windowFault' = TRUE
  BY DEF LoopFault, DisplayFault, Untouched, windowObjectVars
<1>2. WindowTypeOK'
  BY <1>1 DEF WInv, WindowTypeOK, Untouched
<1>3. PendingIsQueued' /\ OpensTheFirst' /\ NobodyIsForgotten'
  BY <1>1, UntouchedKeeps
     DEF WInv, PendingIsQueued, OpensTheFirst, NobodyIsForgotten, Untouched
<1> QED
  BY <1>1, <1>2, <1>3, UntouchedKeeps DEF WInv

(* OnClose returns: the window leaves objects, database and queue of OnOpen  *)
(* together.  Whoever is woken was already queued if it never had OnOpen.    *)
LEMMA CloseReturnKeepsWindows ==
  ASSUME WindowsAssumption, WInv, CloseReturn
  PROVE  WInv'
<1>1. PICK w, id, list, rest : /\ w = windowFrame.win /\ id = windowFrame.id /\ list = windows[id]
                               /\ rest = Without(list, w)
  OBVIOUS
<1>2. PICK woken : woken = IF rest # <<>> /\ Head(list) = w
                             THEN Append(toOpen, Head(rest)) ELSE toOpen
  OBVIOUS
<1>3. /\ windowFrame.kind = "close" /\ id \in Ids /\ w \in ToSet(list)
      /\ objs' = objs \ {w}
      /\ windowID' = [windowID EXCEPT ![w] = NoID]
      /\ onOpenPending' = [onOpenPending EXCEPT ![w] = FALSE]
      /\ status' = [status EXCEPT ![w] = "new"]
      /\ toClose' = Tail(toClose)
      /\ windows' = [windows EXCEPT ![id] = rest]
      /\ glutWins' = IF rest = <<>> THEN glutWins \ {id} ELSE glutWins
      /\ toOpen' = Without(woken, w)
      /\ checks' = [checks EXCEPT !["shutdown"] = @ + 1]
      /\ windowFrame' = At("closeLoop")
      /\ UNCHANGED <<ended, windowFault>>
  BY <1>1, <1>2 DEF CloseReturn, InDatabase, Schedule, Forget
<1>4. /\ objs \subseteq Addresses /\ windowID \in [Addresses -> Ids \cup {NoID}]
      /\ onOpenPending \in [Addresses -> BOOLEAN] /\ toOpen \in Seq(Addresses)
      /\ toClose \in Seq(Addresses) /\ checks \in [Checks -> Nat]
      /\ status \in [Addresses -> {"new", "open", "closed"}]
      /\ windows \in [Ids -> Seq(Addresses)] /\ glutWins \subseteq Ids /\ NoID \notin Ids
  BY DEF WInv, WindowTypeOK, WindowsAssumption
<1>5. /\ list \in Seq(Addresses) /\ ToSet(list) = {v \in objs : windowID[v] = id}
      /\ \A p, q \in DOMAIN list : list[p] = list[q] => p = q
      /\ id \in glutWins <=> list # <<>>
  BY <1>1, <1>3, <1>4 DEF WInv, DatabaseConsistent
<1>6. w \in objs /\ windowID[w] = id
  BY <1>3, <1>5
<1>7. /\ rest \in Seq(Addresses) /\ ToSet(rest) = ToSet(list) \ {w}
      /\ \A p, q \in DOMAIN rest : rest[p] = rest[q] => p = q
  BY <1>1, <1>5, WithoutProperties, WithoutSet, WithoutTwins
<1>8. list # <<>>
  BY <1>3 DEF ToSet
<1>9. rest # <<>> => Head(rest) \in ToSet(rest)
  BY <1>7, Leaves
<1>10. /\ woken \in Seq(Addresses) /\ ToSet(toOpen) \subseteq ToSet(woken)
       /\ ToSet(woken) \subseteq ToSet(toOpen) \cup ToSet(rest)
  <2>1. CASE rest # <<>> /\ Head(list) = w
    <3>1. woken = Append(toOpen, Head(rest)) /\ Head(rest) \in Addresses
      BY <1>2, <1>7, <2>1
    <3>2. ToSet(Append(toOpen, Head(rest))) = ToSet(toOpen) \cup {Head(rest)}
      BY <1>4, JoinsQueue
    <3>3. Append(toOpen, Head(rest)) \in Seq(Addresses)
      BY <1>4, <3>1
    <3> QED
      BY <1>9, <2>1, <3>1, <3>2, <3>3
  <2>2. CASE ~(rest # <<>> /\ Head(list) = w)
    BY <1>2, <1>4, <2>2
  <2> QED
    BY <2>1, <2>2
<1>11. toOpen' \in Seq(Addresses) /\ ToSet(toOpen') = ToSet(woken) \ {w}
  BY <1>3, <1>10, WithoutProperties, WithoutSet
<1>12. Opened' = Opened \ {w} /\ Opened \subseteq Addresses
  BY <1>3, <1>4, <1>6 DEF Opened
<1>13. windowFrame' \in WindowFrame /\ windowFrame'.kind = "closeLoop"
  BY <1>3 DEF WindowFrame, At, NoWindowFrame
<1>14. checks' \in [Checks -> Nat] /\ checks'["open"] = checks["open"]
  BY <1>3, <1>4 DEF Checks
<1>15. WindowTypeOK'
  <2>1. toClose # <<>> => Tail(toClose) \in Seq(Addresses)
    BY <1>4
  <2>2. toClose = <<>> => Tail(toClose) \in Seq(Addresses)
    OBVIOUS
  <2>3. windows' \in [Ids -> Seq(Addresses)] /\ glutWins' \subseteq Ids
    BY <1>3, <1>4, <1>7
  <2>4. /\ objs' \subseteq Addresses /\ windowID' \in [Addresses -> Ids \cup {NoID}]
        /\ onOpenPending' \in [Addresses -> BOOLEAN]
        /\ status' \in [Addresses -> {"new", "open", "closed"}]
    BY <1>3, <1>4
  <2> QED
    BY <1>3, <1>11, <1>13, <1>14, <2>1, <2>2, <2>3, <2>4 DEF WInv, WindowTypeOK
<1>16. DatabaseConsistent'
  <2> SUFFICES ASSUME NEW i \in Ids
               PROVE  /\ ToSet(windows'[i]) = {v \in objs' : windowID'[v] = i}
                      /\ \A p, q \in DOMAIN windows'[i] :
                           windows'[i][p] = windows'[i][q] => p = q
                      /\ i \in glutWins' <=> windows'[i] # <<>>
    BY DEF DatabaseConsistent
  <2>1. /\ ToSet(windows[i]) = {v \in objs : windowID[v] = i}
        /\ \A p, q \in DOMAIN windows[i] : windows[i][p] = windows[i][q] => p = q
        /\ i \in glutWins <=> windows[i] # <<>>
    BY DEF WInv, DatabaseConsistent
  <2>2. CASE i = id
    <3>1. windows'[id] = rest
      BY <1>3, <1>4
    <3>2. {v \in objs' : windowID'[v] = id} = {v \in objs : windowID[v] = id} \ {w}
      BY <1>3, <1>4
    <3>3. id \in glutWins' <=> rest # <<>>
      BY <1>3, <1>5, <1>8
    <3> QED
      BY <1>5, <1>7, <2>2, <3>1, <3>2, <3>3
  <2>3. CASE i # id
    <3>1. windows'[i] = windows[i] /\ (i \in glutWins' <=> i \in glutWins)
      BY <1>3, <1>4, <2>3
    <3>2. {v \in objs' : windowID'[v] = i} = {v \in objs : windowID[v] = i}
      BY <1>3, <1>4, <1>6, <2>3
    <3> QED
      BY <2>1, <3>1, <3>2
  <2> QED
    BY <2>2, <2>3
<1>17. ToSet(rest) \subseteq Opened
  BY <1>3, <1>4, <1>5, <1>7 DEF Opened
<1>18. OpenersAreLive'
  BY <1>10, <1>11, <1>12, <1>17 DEF WInv, OpenersAreLive
<1>19. \A v \in Opened : onOpenPending'[v] => onOpenPending[v] /\ v # w
  BY <1>3, <1>4, <1>12
<1>20. PendingIsQueued'
  BY <1>10, <1>11, <1>12, <1>19 DEF WInv, PendingIsQueued
<1>21. NobodyIsForgotten'
  <2>1. ASSUME NEW v \in ToSet(toOpen'), onOpenPending'[v] PROVE checks["open"] > 0
    <3>1. v \in Opened
      BY <1>18, <1>12 DEF OpenersAreLive
    <3>2. onOpenPending[v]
      BY <1>19, <2>1, <3>1
    <3>3. v \in ToSet(toOpen)
      BY <3>1, <3>2 DEF WInv, PendingIsQueued
    <3> QED
      BY <1>3, <3>2, <3>3 DEF WInv, NobodyIsForgotten
  <2> QED
    BY <1>13, <1>14, <2>1 DEF NobodyIsForgotten
<1>22. OpensTheFirst'
  BY <1>13 DEF OpensTheFirst
<1> QED
  BY <1>15, <1>16, <1>18, <1>20, <1>21, <1>22 DEF WInv

(* Every step preserves it. *)
LEMMA NextKeepsWindows ==
  ASSUME WindowsAssumption, ~GrabOver, WInv, [WindowNext]_windowVars
  PROVE  WInv'
<1>1. CASE UNCHANGED windowVars
  <2>1. Untouched /\ UNCHANGED <<onOpenPending, toClose, checks, status, windowFrame, ended, windowFault>>
    BY <1>1 DEF windowVars, Untouched
  <2>2. WindowTypeOK'
    BY <2>1 DEF WInv, WindowTypeOK, Untouched
  <2>3. PendingIsQueued' /\ OpensTheFirst' /\ NobodyIsForgotten'
    BY <2>1, UntouchedKeeps DEF WInv, PendingIsQueued, OpensTheFirst, NobodyIsForgotten, Untouched
  <2> QED
    BY <2>1, <2>2, <2>3, UntouchedKeeps DEF WInv
<1>2. ASSUME NEW w \in Addresses, Open(w) PROVE WInv'
  BY <1>2, OpenOpens, OpensKeepsInvariant
<1>3. ASSUME NEW w \in Addresses, NEW from \in Addresses, Grab(w, from) PROVE WInv'
  BY <1>3, GrabOpens, OpensKeepsInvariant
<1>4. CASE WindowClient
  BY <1>2, <1>3, <1>4, CreateKeepsWindows, CloseKeepsWindows DEF WindowClient
<1>5. CASE Step
  BY <1>5, OpenNextKeepsWindows, OpenReturnKeepsWindows, CloseNextKeepsWindows,
     CloseReturnKeepsWindows, FaultKeepsWindows, DisplayKeepsWindows DEF Step
<1>6. CASE FireCheckOnOpen \/ FireCheckOnClose \/ FireCheckShutdown
  BY <1>6, FireKeepsWindows
<1>7. CASE \E id \in Ids : FireDisplay(id) \/ DisplayFault(id)
  BY <1>7, DisplayKeepsWindows, FaultKeepsWindows
<1> QED
  BY <1>1, <1>4, <1>5, <1>6, <1>7 DEF WindowNext

(* If grab() keeps to windows of one GLUT window, all the database's facts   *)
(* hold whatever is closed, and however often.                               *)
THEOREM WindowsHold ==
  ASSUME ~GrabOver
  PROVE  WindowSpec => []WInv
<1>1. WindowInit => WInv
  BY WindowsAssumption, InitWindows
<1>2. WInv /\ [WindowNext]_windowVars => WInv'
  BY WindowsAssumption, NextKeepsWindows
<1> QED
  BY <1>1, <1>2, PTL DEF WindowSpec

(* The state keeps its types. *)
THEOREM WindowTypeCorrect ==
  ASSUME ~GrabOver
  PROVE  WindowSpec => []WindowTypeOK
BY WindowsHold, PTL DEF WInv

(* openWindow, grab and CheckOnClose keep database, objects and GLUT's       *)
(* windows in agreement, for any number of owners of a GLUT window and even  *)
(* when a window is closed twice.                                            *)
THEOREM DatabaseStaysConsistent ==
  ASSUME ~GrabOver
  PROVE  WindowSpec => []DatabaseConsistent
BY WindowsHold, PTL DEF WInv

(* Whoever waits in _toOpen for its first OnOpen or in _toClose to be        *)
(* deleted has its check registered with GLUT or running.                    *)
THEOREM NobodyIsEverForgotten ==
  ASSUME ~GrabOver
  PROVE  WindowSpec => []NobodyIsForgotten
BY WindowsHold, PTL DEF WInv

-----------------------------------------------------------------------------
(* The queue of OnClose, if every window is closed once. *)

(* Nothing waits at first. *)
LEMMA InitClosing == WindowInit => CInv
BY DEF WindowInit, CInv, ClosesTheFirst, NoWindowFault, NoWindowFrame, ToSet

(* A step that leaves the queue and the windows in it alone. *)
LEMMA ClosingFrame ==
  ASSUME WInv, CInv, toClose' = toClose, Opened \subseteq Opened',
         \A v \in Opened : windowID'[v] = windowID[v],
         windowFrame' = windowFrame \/ windowFrame'.kind # "close", windowFault' = windowFault
  PROVE  CInv'
<1>1. ToSet(toClose') \subseteq Opened'
  BY DEF CInv
<1>2. \A p, q \in DOMAIN toClose' : toClose'[p] = toClose'[q] => p = q
  BY DEF CInv
<1>3. ClosesTheFirst'
  <2> SUFFICES ASSUME windowFrame' = windowFrame, windowFrame.kind = "close"
               PROVE  /\ toClose # <<>> /\ Head(toClose) = windowFrame.win
                      /\ windowFrame.id = windowID'[windowFrame.win]
    BY DEF ClosesTheFirst
  <2>1. toClose # <<>> /\ Head(toClose) = windowFrame.win /\ windowFrame.id = windowID[windowFrame.win]
    BY DEF CInv, ClosesTheFirst
  <2>2. toClose \in Seq(Addresses)
    BY DEF WInv, WindowTypeOK
  <2>3. Head(toClose) \in ToSet(toClose)
    BY <2>1, <2>2, Leaves
  <2> QED
    BY <2>1, <2>3 DEF CInv
<1> QED
  BY <1>1, <1>2, <1>3 DEF CInv, NoWindowFault

(* Opening takes no identifier away from a window. *)
LEMMA OpeningKeepsClosing ==
  ASSUME WindowsAssumption, WInv, CInv, NEW w, NEW id, Opens(w, id)
  PROVE  CInv'
<1>1. /\ w \in objs /\ w \in Addresses /\ id \in Ids /\ id # NoID
      /\ windowID[w] \in {NoID, id} /\ windowID \in [Addresses -> Ids \cup {NoID}]
      /\ windowID' = [windowID EXCEPT ![w] = id]
      /\ objs' = objs /\ objs \subseteq Addresses
      /\ UNCHANGED <<toClose, windowFrame, windowFault>>
  BY DEF Opens, WInv, WindowTypeOK, WindowsAssumption
<1>2. Opened \subseteq Opened' /\ \A v \in Opened : windowID'[v] = windowID[v]
  BY <1>1 DEF Opened
<1> QED
  BY <1>1, <1>2, ClosingFrame

(* close() adds a window that is not yet queued. *)
LEMMA CloseKeepsClosing ==
  ASSUME ~CloseTwice, WInv, CInv, NEW w \in Addresses, Close(w)
  PROVE  CInv'
<1>1. /\ toClose \in Seq(Addresses) /\ toClose' = Append(toClose, w)
      /\ w \in Opened /\ w \notin ToSet(toClose)
      /\ UNCHANGED <<objs, windowID, windowFrame, windowFault>>
  BY DEF Close, windowObjectVars, WInv, WindowTypeOK
<1>2. ToSet(Append(toClose, w)) = ToSet(toClose) \cup {w}
  BY <1>1, JoinsQueue
<1>3. Opened' = Opened
  BY <1>1 DEF Opened
<1>4. \A p, q \in DOMAIN toClose' : toClose'[p] = toClose'[q] => p = q
  <2>1. /\ DOMAIN toClose = 1..Len(toClose) /\ Len(toClose) \in Nat
        /\ DOMAIN toClose' = 1..(Len(toClose) + 1)
        /\ \A p \in 1..Len(toClose) : toClose'[p] = toClose[p]
        /\ toClose'[Len(toClose) + 1] = w
    BY <1>1
  <2>2. \A p \in 1..Len(toClose) : toClose[p] # w
    BY <1>1, <2>1 DEF ToSet
  <2>3. \A p, q \in 1..Len(toClose) : toClose[p] = toClose[q] => p = q
    BY <2>1 DEF CInv
  <2> QED
    BY <2>1, <2>2, <2>3
<1>5. ClosesTheFirst'
  BY <1>1 DEF CInv, ClosesTheFirst
<1> QED
  BY <1>1, <1>2, <1>3, <1>4, <1>5 DEF CInv, NoWindowFault

(* OnClose is called for the first window, which is still open. *)
LEMMA CloseNextKeepsClosing ==
  ASSUME WInv, CInv, CloseNext
  PROVE  CInv'
<1>1. UNCHANGED <<objs, windowID, toClose, windowFault>>
  BY DEF CloseNext
<1>2. Opened' = Opened
  BY <1>1 DEF Opened
<1>3. ClosesTheFirst'
  <2>1. CASE windowFrame' = NoWindowFrame
    BY <2>1 DEF ClosesTheFirst, NoWindowFrame
  <2>2. CASE /\ toClose # <<>>
             /\ windowFrame' = [kind |-> "close", win |-> Head(toClose),
                                id |-> windowID[Head(toClose)]]
    BY <2>2, <1>1 DEF ClosesTheFirst
  <2> QED
    BY <2>1, <2>2 DEF CloseNext
<1> QED
  BY <1>1, <1>2, <1>3 DEF CInv, NoWindowFault

(* The window deleted leaves the queue, where it was once. *)
LEMMA CloseReturnKeepsClosing ==
  ASSUME WInv, CInv, CloseReturn
  PROVE  CInv'
<1>1. PICK w : w = windowFrame.win
  OBVIOUS
<1>2. /\ windowFrame.kind = "close" /\ objs' = objs \ {w} /\ toClose' = Tail(toClose)
      /\ windowID' = [windowID EXCEPT ![w] = NoID] /\ windowFault' = windowFault
      /\ windowFrame' = At("closeLoop")
      /\ windowID \in [Addresses -> Ids \cup {NoID}] /\ toClose \in Seq(Addresses)
      /\ objs \subseteq Addresses
  BY <1>1 DEF CloseReturn, WInv, WindowTypeOK
<1>3. toClose # <<>> /\ Head(toClose) = w
  BY <1>1, <1>2 DEF CInv, ClosesTheFirst
<1>4. \A p, q \in DOMAIN toClose : toClose[p] = toClose[q] => p = q
  BY DEF CInv
<1>5. /\ ToSet(toClose) = ToSet(Tail(toClose)) \cup {w}
      /\ w \notin ToSet(Tail(toClose))
      /\ \A p, q \in DOMAIN Tail(toClose) : Tail(toClose)[p] = Tail(toClose)[q] => p = q
  BY <1>2, <1>3, <1>4, Leaves
<1>6. Opened \ {w} \subseteq Opened'
  BY <1>2 DEF Opened
<1>7. ToSet(toClose') \subseteq Opened'
  BY <1>2, <1>5, <1>6 DEF CInv
<1>8. ClosesTheFirst'
  BY <1>2 DEF ClosesTheFirst, At, NoWindowFrame
<1> QED
  BY <1>2, <1>5, <1>7, <1>8 DEF CInv, NoWindowFault

(* CheckOnOpen finds a living window at the front of its queue, CheckOnClose *)
(* too, and in the database where it looks for it.                           *)
LEMMA NoLoopFault ==
  ASSUME WindowsAssumption, WInv, CInv
  PROVE  ~LoopFault
<1>1. /\ toOpen \in Seq(Addresses) /\ toClose \in Seq(Addresses)
      /\ windowID \in [Addresses -> Ids \cup {NoID}]
  BY DEF WInv, WindowTypeOK
<1>2. toOpen # <<>> => Head(toOpen) \in objs
  BY <1>1, Leaves DEF WInv, OpenersAreLive, Opened
<1>3. toClose # <<>> => Head(toClose) \in Opened
  BY <1>1, Leaves DEF CInv
<1>4. windowFrame.kind = "close" => InDatabase(windowFrame.win, windowFrame.id)
  <2> SUFFICES ASSUME windowFrame.kind = "close"
               PROVE  InDatabase(windowFrame.win, windowFrame.id)
    OBVIOUS
  <2>1. windowFrame.win \in Opened /\ windowFrame.id = windowID[windowFrame.win]
    BY <1>3 DEF CInv, ClosesTheFirst
  <2>2. windowFrame.win \in objs /\ windowFrame.win \in Addresses /\ windowFrame.id \in Ids
    BY <1>1, <2>1 DEF Opened, WInv, WindowTypeOK
  <2> QED
    BY <2>1, <2>2 DEF InDatabase, WInv, DatabaseConsistent
<1> QED
  BY <1>2, <1>3, <1>4 DEF LoopFault, Opened

(* A GLUT window that is displayed has an owner, and a living one. *)
LEMMA NoDisplayFault ==
  ASSUME WInv, NEW id \in Ids
  PROVE  ~DisplayFault(id)
<1> SUFFICES ASSUME id \in glutWins, windows[id] = <<>> \/ Head(windows[id]) \notin objs
             PROVE  FALSE
  BY DEF DisplayFault
<1>1. /\ windows[id] # <<>> /\ windows[id] \in Seq(Addresses)
      /\ ToSet(windows[id]) = {v \in objs : windowID[v] = id}
  BY DEF WInv, WindowTypeOK, DatabaseConsistent
<1>2. Head(windows[id]) \in ToSet(windows[id])
  BY <1>1, Leaves
<1> QED
  BY <1>1, <1>2

(* Every step preserves it. *)
LEMMA NextKeepsClosing ==
  ASSUME WindowsAssumption, ~GrabOver, ~CloseTwice, WInv, CInv, [WindowNext]_windowVars
  PROVE  CInv'
<1>1. ASSUME UNCHANGED <<objs, windowID, toClose, windowFault>>,
             windowFrame' = windowFrame \/ windowFrame'.kind # "close"
      PROVE  CInv'
  BY <1>1, ClosingFrame DEF Opened
<1>2. CASE UNCHANGED windowVars
  BY <1>1, <1>2 DEF windowVars
<1>3. ASSUME NEW w \in Addresses, CreateWindow(w) PROVE CInv'
  <2>1. /\ w \notin objs /\ objs' = objs \cup {w} /\ objs \subseteq Addresses
        /\ windowID' = [windowID EXCEPT ![w] = NoID] /\ UNCHANGED <<toClose, windowFrame, windowFault>>
        /\ windowID \in [Addresses -> Ids \cup {NoID}]
    BY <1>3 DEF CreateWindow, WInv, WindowTypeOK
  <2>2. Opened \subseteq Opened' /\ \A v \in Opened : windowID'[v] = windowID[v]
    BY <2>1 DEF Opened
  <2> QED
    BY <2>1, <2>2, ClosingFrame
<1>4. ASSUME NEW w \in Addresses, Open(w) PROVE CInv'
  BY <1>4, OpenOpens, OpeningKeepsClosing
<1>5. ASSUME NEW w \in Addresses, NEW from \in Addresses, Grab(w, from) PROVE CInv'
  BY <1>5, GrabOpens, OpeningKeepsClosing
<1>6. CASE WindowClient
  BY <1>3, <1>4, <1>5, <1>6, CloseKeepsClosing DEF WindowClient
<1>7. CASE OpenNext \/ OpenReturn \/ DisplayReturn
  <2>1. UNCHANGED <<objs, windowID, toClose, windowFault>>
    BY <1>7 DEF OpenNext, OpenReturn, DisplayReturn
  <2>2. NoWindowFrame.kind # "close" /\ At("openLoop").kind # "close"
    BY DEF At, NoWindowFrame
  <2>3. [At("open") EXCEPT !.win = Head(toOpen)].kind # "close"
    BY DEF At, NoWindowFrame
  <2>4. windowFrame' = windowFrame \/ windowFrame'.kind # "close"
    BY <1>7, <2>2, <2>3 DEF OpenNext, OpenReturn, DisplayReturn
  <2> QED
    BY <1>1, <2>1, <2>4
<1>8. CASE Step
  BY <1>7, <1>8, CloseNextKeepsClosing, CloseReturnKeepsClosing, NoLoopFault DEF Step
<1>9. CASE FireCheckOnOpen \/ FireCheckOnClose \/ FireCheckShutdown
  BY <1>1, <1>9 DEF FireCheckOnOpen, FireCheckOnClose, FireCheckShutdown, windowObjectVars, At, NoWindowFrame
<1>10. CASE \E id \in Ids : FireDisplay(id) \/ DisplayFault(id)
  BY <1>1, <1>10, NoDisplayFault DEF FireDisplay, At, NoWindowFrame
<1> QED
  BY <1>2, <1>6, <1>8, <1>9, <1>10 DEF WindowNext

(* If besides every window is closed once, the queue of OnClose is in order. *)
THEOREM ClosingHolds ==
  ASSUME ~GrabOver, ~CloseTwice
  PROVE  WindowSpec => [](WInv /\ CInv)
<1>1. WindowInit => WInv /\ CInv
  BY WindowsAssumption, InitWindows, InitClosing
<1>2. WInv /\ CInv /\ [WindowNext]_windowVars => (WInv /\ CInv)'
  BY WindowsAssumption, NextKeepsWindows, NextKeepsClosing
<1> QED
  BY <1>1, <1>2, PTL DEF WindowSpec

(* Nobody in _toOpen or _toClose has been deleted, so the loops of           *)
(* CheckOnOpen and CheckOnClose never reach a dangling pointer there.        *)
THEOREM QueuesStayLive ==
  ASSUME ~GrabOver, ~CloseTwice
  PROVE  WindowSpec => []QueuesAreLive
<1>1. WInv /\ CInv => QueuesAreLive
  BY DEF WInv, CInv, OpenersAreLive, QueuesAreLive
<1> QED
  BY <1>1, ClosingHolds, PTL

(* No assertion of CheckOnClose, OnDisplay or the forwarding handlers fails, *)
(* in whatever order GLUT fires the checks and whatever OnOpen and OnClose   *)
(* create, open, grab and close.                                             *)
THEOREM NoAssertionFails ==
  ASSUME ~GrabOver, ~CloseTwice
  PROVE  WindowSpec => []NoWindowFault
<1>1. WInv /\ CInv => NoWindowFault
  BY DEF CInv
<1> QED
  BY <1>1, ClosingHolds, PTL

-----------------------------------------------------------------------------
(* The whole: its inductive invariant. *)

(* One handler runs at a time, of one half or of the other.                  *)
OneHandler == timerFrame.kind = "none" \/ windowFrame.kind = "none"

(* The windows of the timer list are the windows that exist.                 *)
ListIsObjects == Alive = objs

(* A window is opened only by openWindow, which initialises GLUT.            *)
OpenedNeedsGlut == Opened # {} => glutInit

(* Motion is held back only for an opened window whose tick is still to come, *)
(* and not in the middle of its OnTick, before which it was delivered.       *)
MotionIsCarried ==
  /\ mouseEvents \in [Addresses -> BOOLEAN]
  /\ \A w \in Addresses :
       mouseEvents[w] => w \in Opened /\ tickPending[w] /\ ~InTick(w)

Between == OneHandler /\ ListIsObjects /\ OpenedNeedsGlut /\ MotionIsCarried

MasterInv ==
  /\ DisciplinedInv
  /\ WInv
  /\ CInv
  /\ Between

-----------------------------------------------------------------------------
(* What the two halves see of a step of the whole. *)

(* Each step is one of the windows, or leaves them alone.                    *)
LEMMA WindowsSeeTheirSteps == [Next]_masterVars => [WindowNext]_windowVars
<1> SUFFICES ASSUME [Next]_masterVars PROVE [WindowNext]_windowVars
  OBVIOUS
<1>1. CASE Client
  <2>1. ASSUME NEW w \in Addresses, MasterCreate(w) \/ MasterOpen(w) \/ MasterClose(w)
        PROVE  WindowNext
    BY <2>1 DEF MasterCreate, MasterOpen, MasterClose, WindowNext, WindowClient
  <2>2. ASSUME NEW w \in Addresses, NEW from \in Addresses, MasterGrab(w, from)
        PROVE  WindowNext
    BY <2>2 DEF MasterGrab, WindowNext, WindowClient
  <2>3. ASSUME NEW w \in Addresses, NEW on \in BOOLEAN,
               MasterSetTick(w, on) \/ MasterSetIdle(w, on)
        PROVE  UNCHANGED windowVars
    BY <2>3 DEF MasterSetTick, MasterSetIdle
  <2>4. ASSUME NEW w \in Addresses, NEW v \in Vals, MasterSetTimer(w, v)
        PROVE  UNCHANGED windowVars
    BY <2>4 DEF MasterSetTimer
  <2>5. CASE MasterInitGlut
    BY <2>5 DEF MasterInitGlut
  <2> QED
    BY <1>1, <2>1, <2>2, <2>3, <2>4, <2>5 DEF Client
<1>2. ASSUME NEW id \in Ids, Motion(id)
      PROVE  UNCHANGED windowVars
  BY <1>2 DEF Motion
<1>3. ASSUME NEW i \in 1..MaxSlots, MasterFireTimer(i)
      PROVE  UNCHANGED windowVars
  BY <1>3 DEF MasterFireTimer
<1>4. CASE MasterFireIdle \/ MasterTimerReturn
  BY <1>4 DEF MasterFireIdle, MasterTimerReturn
<1>5. CASE FireWindows
  BY <1>5 DEF FireWindows, WindowNext
<1>6. CASE WindowStep
  BY <1>6 DEF WindowStep, OpenStep, MasterCloseReturn, WindowNext, Step
<1>7. CASE UNCHANGED masterVars
  BY <1>7 DEF masterVars
<1> QED
  BY <1>1, <1>2, <1>3, <1>4, <1>5, <1>6, <1>7 DEF Next

(* The windows do to the timers what no client of the timers may do: they    *)
(* withdraw the idle callback, and destroy an object from a timer of GLUT.   *)
ArmsForWindow ==
  \E w \in Addresses, on \in BOOLEAN :
    ArmTick(w, on) /\ idleFunc' \in {idleFunc, FALSE}

InitForWindow == InitTicks /\ idleFunc' = FALSE

DestroysWindow ==
  /\ windowFrame.kind = "close"
  /\ \E p \in DOMAIN timerList : timerList[p] = windowFrame.win /\ DestroyAt(p)

(* setTick() of openWindow and CheckOnOpen arms the tick of a living window. *)
LEMMA RearmArms ==
  ASSUME TimerTypeOK, NEW w, Rearm(w)
  PROVE  ArmsForWindow
<1>1. w \in Alive
  BY DEF Rearm, ArmTick
<1>2. w \in Addresses
  BY <1>1, LenProperties, ElementOfSeq DEF TimerTypeOK, Alive
<1>3. tick[w] \in BOOLEAN
  BY <1>2 DEF TimerTypeOK
<1> QED
  BY <1>2, <1>3 DEF Rearm, ArmsForWindow

(* openWindow arms the tick of the window, or initialises GLUT.              *)
LEMMA OpenTimersArms ==
  ASSUME TimerTypeOK, NEW w, OpenTimers(w)
  PROVE  ArmsForWindow \/ InitForWindow
<1>1. CASE windowID[w] = NoID /\ ~glutInit
  BY <1>1 DEF OpenTimers, InitForWindow
<1>2. CASE windowID[w] = NoID /\ glutInit
  <2>1. ArmTick(w, tick[w]) /\ idleFunc' = FALSE
    BY <1>2 DEF OpenTimers
  <2>2. w \in Alive
    BY <2>1 DEF ArmTick
  <2>3. w \in Addresses
    BY <2>2, LenProperties, ElementOfSeq DEF TimerTypeOK, Alive
  <2>4. tick[w] \in BOOLEAN
    BY <2>3 DEF TimerTypeOK
  <2> QED
    BY <2>1, <2>3, <2>4 DEF ArmsForWindow
<1>3. CASE windowID[w] # NoID
  BY <1>3, RearmArms DEF OpenTimers
<1> QED
  BY <1>1, <1>2, <1>3 DEF OpenTimers

(* A step is one of the timers as GlutTimer has them, or one of the three.   *)
LEMMA TimersSeeTheirSteps ==
  ASSUME TimerTypeOK, [Next]_masterVars
  PROVE  [TimerNext]_timerVars \/ ArmsForWindow \/ InitForWindow \/ DestroysWindow
<1>1. CASE Client
  <2>1. ASSUME NEW w \in Addresses, MasterCreate(w)
        PROVE  TimerNext
    BY <2>1 DEF MasterCreate, TimerNext, TimerClient
  <2>2. ASSUME NEW w \in Addresses, MasterOpen(w)
        PROVE  ArmsForWindow \/ InitForWindow
    BY <2>2, OpenTimersArms DEF MasterOpen
  <2>3. ASSUME NEW w \in Addresses, NEW from \in Addresses, MasterGrab(w, from)
        PROVE  ArmsForWindow
    BY <2>3, RearmArms DEF MasterGrab
  <2>4. ASSUME NEW w \in Addresses, MasterClose(w)
        PROVE  UNCHANGED timerVars
    BY <2>4 DEF MasterClose
  <2>5. ASSUME NEW w \in Addresses, NEW on \in BOOLEAN,
               MasterSetTick(w, on) \/ MasterSetIdle(w, on)
        PROVE  TimerNext
    BY <2>5 DEF MasterSetTick, MasterSetIdle, TimerNext, TimerClient
  <2>6. ASSUME NEW w \in Addresses, NEW v \in Vals, MasterSetTimer(w, v)
        PROVE  TimerNext
    BY <2>6 DEF MasterSetTimer, TimerNext, TimerClient
  <2>7. CASE MasterInitGlut
    BY <2>7 DEF MasterInitGlut, TimerNext, TimerClient
  <2> QED
    BY <1>1, <2>1, <2>2, <2>3, <2>4, <2>5, <2>6, <2>7 DEF Client
<1>2. ASSUME NEW id \in Ids, Motion(id)
      PROVE  UNCHANGED timerVars
  BY <1>2 DEF Motion
<1>3. ASSUME NEW i \in 1..MaxSlots, MasterFireTimer(i)
      PROVE  TimerNext
  BY <1>3 DEF MasterFireTimer, TimerNext, SlotIds
<1>4. CASE MasterFireIdle \/ MasterTimerReturn
  BY <1>4 DEF MasterFireIdle, MasterTimerReturn, TimerNext
<1>5. CASE FireWindows
  BY <1>5 DEF FireWindows
<1>6. CASE WindowStep
  <2>1. CASE OpenStep
    <3>1. ASSUME NEW w, Rearm(w) PROVE ArmsForWindow
      BY <3>1, RearmArms
    <3> QED
      BY <2>1, <3>1 DEF OpenStep
  <2>2. CASE MasterCloseReturn
    BY <2>2 DEF MasterCloseReturn, CloseReturn, DestroysWindow
  <2> QED
    BY <1>6, <2>1, <2>2 DEF WindowStep
<1>7. CASE UNCHANGED masterVars
  BY <1>7 DEF masterVars
<1> QED
  BY <1>1, <1>2, <1>3, <1>4, <1>5, <1>6, <1>7 DEF Next

(* So the windows keep their invariants: GlutMaster meets what the module    *)
(* GlutWindows takes for granted of its clients.                             *)
LEMMA WholeKeepsWindows ==
  ASSUME Disciplined, WInv, CInv, [Next]_masterVars
  PROVE  WInv' /\ CInv'
<1>1. ~GrabOver /\ ~CloseTwice
  BY DEF Disciplined
<1>2. [WindowNext]_windowVars
  BY WindowsSeeTheirSteps
<1> QED
  BY <1>1, <1>2, WindowsAssumption, NextKeepsWindows, NextKeepsClosing

(* And the timers keep theirs: a window is destroyed while no timer handler   *)
(* runs.                                                                     *)
LEMMA WholeKeepsTimers ==
  ASSUME Disciplined, DisciplinedInv, OneHandler, [Next]_masterVars
  PROVE  DisciplinedInv'
<1>1. TimerInv /\ TimerTypeOK /\ idleFunc \in BOOLEAN
  BY DEF DisciplinedInv, TimerInv, TimerTypeOK
<1>2. ~TickArms /\ ~SelfDestroy
  BY DEF Disciplined
<1>3. CASE [TimerNext]_timerVars
  BY <1>2, <1>3, DisciplinedNext
<1>4. CASE ArmsForWindow
  <2>1. PICK w \in Addresses, on \in BOOLEAN :
          ArmTick(w, on) /\ idleFunc' \in {idleFunc, FALSE}
    BY <1>4 DEF ArmsForWindow
  <2>2. TimerInv'
    BY <1>1, <2>1, ArmTickPreserves
  <2> QED
    BY <1>2, <2>1, <2>2, DisciplinedArmTick
<1>5. CASE InitForWindow
  <2>1. TimerInv'
    BY <1>1, <1>5, InitTicksPreserves DEF InitForWindow
  <2> QED
    BY <1>5, <2>1, DisciplinedInitTicks DEF InitForWindow
<1>6. CASE DestroysWindow
  <2>1. PICK p \in DOMAIN timerList : DestroyAt(p)
    BY <1>6 DEF DestroysWindow
  <2>2. timerFrame.kind = "none"
    BY <1>6 DEF DestroysWindow, OneHandler
  <2>3. TimerInv'
    BY <1>1, <2>1, DestroyPreserves
  <2> QED
    BY <2>1, <2>2, <2>3, DisciplinedDestroy
<1> QED
  BY <1>1, <1>3, <1>4, <1>5, <1>6, TimersSeeTheirSteps

-----------------------------------------------------------------------------
(* What holds between the two halves. *)

(* Arming a tick and initialising GLUT take no tick away, and leave the       *)
(* handler that runs, but for the slot it holds.                             *)
TimersStay ==
  /\ Alive' = Alive
  /\ glutInit => glutInit'
  /\ timerFrame'.kind = timerFrame.kind
  /\ timerFrame'.target = timerFrame.target
  /\ \A w \in Addresses : tickPending[w] => tickPending'[w]

(* A slot added under a running handler leaves what it runs and on whom.     *)
LEMMA FrameAfterAddSame ==
  ASSUME TimerTypeOK, NEW i
  PROVE  /\ FrameAfterAdd(i).kind = timerFrame.kind
         /\ FrameAfterAdd(i).target = timerFrame.target
BY DEF TimerTypeOK, TimerFrame, FrameAfterAdd

(* setTick is such a step. *)
LEMMA ArmTickStays ==
  ASSUME TimerTypeOK, NEW w, NEW on, ArmTick(w, on)
  PROVE  TimersStay
<1>1. /\ UNCHANGED <<timerList, glutInit>>
      /\ tickPending \in [Addresses -> BOOLEAN]
  BY DEF ArmTick, TimerTypeOK
<1>2. timerFrame'.kind = timerFrame.kind /\ timerFrame'.target = timerFrame.target
  BY FrameAfterAddSame DEF ArmTick
<1>3. \A v \in Addresses : tickPending[v] => tickPending'[v]
  <2>1. \/ tickPending' = [tickPending EXCEPT ![w] = TRUE]
        \/ tickPending' = tickPending
    BY DEF ArmTick
  <2> QED
    BY <1>1, <2>1
<1> QED
  BY <1>1, <1>2, <1>3 DEF TimersStay, Alive

(* So is init(). *)
LEMMA InitTicksStays == InitTicks => TimersStay
<1> SUFFICES ASSUME InitTicks PROVE TimersStay
  OBVIOUS
<1>1. /\ UNCHANGED <<timerList, timerFrame>>
      /\ glutInit' = TRUE
      /\ tickPending' = [t \in Addresses |-> tickPending[t] \/ (t \in Alive /\ tick[t])]
  BY DEF InitTicks
<1>2. \A w \in Addresses : tickPending[w] => tickPending'[w]
  BY <1>1
<1> QED
  BY <1>1, <1>2 DEF TimersStay, Alive

(* And whatever the windows do to the timers, but for deleting a window.     *)
LEMMA OpenTimersStays ==
  ASSUME TimerTypeOK, NEW w, OpenTimers(w)
  PROVE  TimersStay /\ (glutInit' \/ windowID[w] # NoID)
<1>1. CASE windowID[w] = NoID /\ ~glutInit
  <2>1. InitTicks
    BY <1>1 DEF OpenTimers
  <2>2. glutInit'
    BY <2>1 DEF InitTicks
  <2> QED
    BY <2>1, <2>2, InitTicksStays
<1>2. CASE windowID[w] = NoID /\ glutInit
  <2>1. ArmTick(w, tick[w])
    BY <1>2 DEF OpenTimers
  <2>2. TimersStay
    BY <2>1, ArmTickStays
  <2> QED
    BY <1>2, <2>2 DEF TimersStay
<1>3. CASE windowID[w] # NoID
  BY <1>3, ArmTickStays DEF OpenTimers, Rearm
<1> QED
  BY <1>1, <1>2, <1>3 DEF OpenTimers

(* Nothing happens to the timers in most steps of the windows.               *)
LEMMA SameTimersStay == UNCHANGED timerVars => TimersStay
BY DEF timerVars, TimersStay, Alive

(* A step that makes and deletes no window, delivers no tick and no motion.   *)
LEMMA StayingKeepsBetween ==
  ASSUME Between, TimersStay, objs' = objs, Opened \subseteq Opened',
         Opened' # {} => glutInit', mouseEvents' = mouseEvents, OneHandler'
  PROVE  Between'
<1>1. ListIsObjects'
  BY DEF Between, ListIsObjects, TimersStay
<1>2. OpenedNeedsGlut'
  BY DEF OpenedNeedsGlut
<1>3. MotionIsCarried'
  BY DEF Between, MotionIsCarried, TimersStay, InTick
<1> QED
  BY <1>1, <1>2, <1>3 DEF Between

(* The same when no window is opened either, and the handlers stay.          *)
LEMMA QuietKeepsBetween ==
  ASSUME Between, TimersStay, UNCHANGED <<objs, windowID, mouseEvents>>,
         windowFrame'.kind = windowFrame.kind \/ timerFrame.kind = "none"
  PROVE  Between'
<1>1. Opened' = Opened
  BY DEF Opened
<1>2. Opened' # {} => glutInit'
  BY <1>1 DEF Between, OpenedNeedsGlut, TimersStay
<1>3. OneHandler'
  BY DEF Between, OneHandler, TimersStay
<1> QED
  BY <1>1, <1>2, <1>3, StayingKeepsBetween

(* The calls of the clients that concern one half only. *)
LEMMA CallsKeepBetween ==
  ASSUME Between, TimerTypeOK, NEW w \in Addresses, NEW on \in BOOLEAN, NEW v \in Vals,
         \/ MasterInitGlut \/ MasterClose(w)
         \/ MasterSetTick(w, on) \/ MasterSetIdle(w, on) \/ MasterSetTimer(w, v)
  PROVE  Between'
<1>1. CASE MasterClose(w)
  BY <1>1, SameTimersStay, QuietKeepsBetween DEF MasterClose, Close, windowObjectVars
<1>2. CASE MasterInitGlut
  BY <1>2, InitTicksStays, QuietKeepsBetween DEF MasterInitGlut, InitGlut, windowVars
<1>3. CASE MasterSetTick(w, on)
  BY <1>3, ArmTickStays, QuietKeepsBetween DEF MasterSetTick, SetTick, windowVars
<1>4. CASE MasterSetTimer(w, v)
  <2>1. SetTimer(w, v) /\ UNCHANGED windowVars /\ mouseEvents' = mouseEvents
    BY <1>4 DEF MasterSetTimer
  <2>2. TimersStay
    BY <2>1, FrameAfterAddSame DEF SetTimer, timerObjectVars, TimersStay, Alive
  <2> QED
    BY <2>1, <2>2, QuietKeepsBetween DEF windowVars
<1>5. CASE MasterSetIdle(w, on)
  <2>1. SetIdle(w, on) /\ UNCHANGED windowVars /\ mouseEvents' = mouseEvents
    BY <1>5 DEF MasterSetIdle
  <2>2. TimersStay
    BY <2>1 DEF SetIdle, TimersStay, Alive
  <2> QED
    BY <2>1, <2>2, QuietKeepsBetween DEF windowVars
<1> QED
  BY <1>1, <1>2, <1>3, <1>4, <1>5

(* A new window joins both halves, unopened, with no motion and no tick.     *)
LEMMA CreateKeepsBetween ==
  ASSUME Between, TimerTypeOK, WindowTypeOK, NEW w \in Addresses, MasterCreate(w)
  PROVE  Between'
<1>1. /\ w \notin objs /\ objs' = objs \cup {w}
      /\ windowID' = [windowID EXCEPT ![w] = NoID]
      /\ UNCHANGED <<timerFrame, windowFrame, glutInit>>
      /\ timerList' = Append(timerList, w)
      /\ tickPending' = [tickPending EXCEPT ![w] = FALSE]
      /\ mouseEvents' = [mouseEvents EXCEPT ![w] = FALSE]
      /\ windowID \in [Addresses -> Ids \cup {NoID}]
      /\ tickPending \in [Addresses -> BOOLEAN]
  BY DEF MasterCreate, CreateTimer, CreateWindow, TimerTypeOK, WindowTypeOK
<1>2. Alive' = Alive \cup {w}
  <2>1. timerList \in Seq(Addresses) /\ timerList' = Append(timerList, w)
    BY <1>1 DEF TimerTypeOK
  <2> QED
    BY <2>1, AppendProperties, LenProperties DEF Alive
<1>3. Opened' = Opened
  BY <1>1 DEF Opened
<1>4. ListIsObjects' /\ OneHandler' /\ OpenedNeedsGlut'
  BY <1>1, <1>2, <1>3
     DEF Between, ListIsObjects, OneHandler, OpenedNeedsGlut
<1>5. MotionIsCarried'
  BY <1>1, <1>3 DEF Between, MotionIsCarried, InTick
<1> QED
  BY <1>4, <1>5 DEF Between

(* open() and grab() open a window when GLUT is up, or bring it up.          *)
LEMMA OpeningKeepsBetween ==
  ASSUME Disciplined, Between, WindowsAssumption, WInv, TimerTypeOK, NEW w \in Addresses,
         MasterOpen(w) \/ \E from \in Addresses : MasterGrab(w, from)
  PROVE  Between'
<1>1. /\ \E id \in Ids : Opens(w, id)
      /\ TimersStay
      /\ glutInit' \/ Opened # {}
      /\ mouseEvents' = mouseEvents
  <2>1. CASE MasterOpen(w)
    <3>1. Open(w) /\ OpenTimers(w) /\ mouseEvents' = mouseEvents
      BY <2>1 DEF MasterOpen
    <3>2. w \in objs
      BY <3>1 DEF Open
    <3> QED
      BY <3>1, <3>2, OpenOpens, OpenTimersStays DEF Opened
  <2>2. ASSUME NEW from \in Addresses, MasterGrab(w, from)
        PROVE  /\ \E id \in Ids : Opens(w, id)
               /\ TimersStay
               /\ glutInit' \/ Opened # {}
               /\ mouseEvents' = mouseEvents
    <3>1. Grab(w, from) /\ ArmTick(w, tick[w]) /\ mouseEvents' = mouseEvents
      BY <2>2 DEF MasterGrab, Rearm
    <3>2. from \in Opened
      BY <3>1 DEF Grab
    <3> QED
      BY <3>1, <3>2, GrabOpens, ArmTickStays DEF Disciplined
  <2> QED
    BY <2>1, <2>2
<1>2. PICK id \in Ids : Opens(w, id)
  BY <1>1
<1>3. objs' = objs /\ windowFrame' = windowFrame /\ Opened \subseteq Opened'
  BY <1>2 DEF Opens, WInv, WindowTypeOK, WindowsAssumption, Opened
<1>4. glutInit'
  BY <1>1 DEF Between, OpenedNeedsGlut, TimersStay
<1>5. OneHandler'
  BY <1>1, <1>3 DEF Between, OneHandler, TimersStay
<1> QED
  BY <1>1, <1>3, <1>4, <1>5, StayingKeepsBetween

(* Motion is held back for an opened window with a tick to come: it ticks,   *)
(* and GLUT is up since it has a GLUT window.                                *)
LEMMA MotionKeepsBetween ==
  ASSUME Between, DisciplinedInv, WindowsAssumption, WInv, NEW id \in Ids, Motion(id)
  PROVE  Between'
<1> DEFINE w == Head(windows[id])
<1>1. /\ Quiet /\ tick[w]
      /\ mouseEvents' = [mouseEvents EXCEPT ![w] = TRUE]
      /\ UNCHANGED timerVars /\ UNCHANGED windowVars
  BY DEF Motion, HoldsMotion
<1>2. w \in Opened /\ w \in Addresses
  <2>1. windows[id] \in Seq(Addresses) /\ windows[id] # <<>>
    BY DEF WInv, WindowTypeOK, Motion
  <2>2. w \in ToSet(windows[id])
    BY <2>1, Leaves
  <2>3. ToSet(windows[id]) = {v \in objs : windowID[v] = id} /\ id # NoID
    BY DEF WInv, DatabaseConsistent, WindowsAssumption
  <2> QED
    BY <2>2, <2>3 DEF Opened, WInv, WindowTypeOK
<1>3. tickPending[w] /\ ~InTick(w)
  <2>1. glutInit
    BY <1>2 DEF Between, OpenedNeedsGlut
  <2> QED
    BY <1>1, <1>2, <2>1 DEF DisciplinedInv, WantedTicksArePending, InTick, Quiet
<1> HIDE DEF w
<1>4. /\ Alive' = Alive /\ Opened' = Opened
      /\ \A v \in Addresses : InTick(v)' <=> InTick(v)
      /\ UNCHANGED <<objs, timerFrame, windowFrame, glutInit, tickPending>>
  BY <1>1 DEF timerVars, windowVars, Alive, Opened, InTick
<1>5. MotionIsCarried'
  BY <1>1, <1>2, <1>3, <1>4 DEF Between, MotionIsCarried
<1> QED
  BY <1>4, <1>5 DEF Between, OneHandler, ListIsObjects, OpenedNeedsGlut

(* timerCallback delivers the motion held back before it calls OnTick.       *)
LEMMA FireTimerKeepsBetween ==
  ASSUME Between, TimerTypeOK, NEW i \in SlotIds, MasterFireTimer(i)
  PROVE  Between'
<1> DEFINE w == timerFrame'.target
<1>1. /\ Quiet /\ FireTimer(i)
      /\ mouseEvents' = IF w # NULL /\ windowID[w] # NoID
                          THEN [mouseEvents EXCEPT ![w] = FALSE] ELSE mouseEvents
      /\ UNCHANGED <<objs, windowID, windowFrame>>
  BY DEF MasterFireTimer, windowVars
<1>2. /\ UNCHANGED <<timerList, tickPending, glutInit>>
      /\ timerFrame.kind = "none"
      /\ timerFrame' = timerFrame \/ w # NULL
  BY <1>1, AddressesAssumption
     DEF FireTimer, timerObjectVars
<1>3. Alive' = Alive /\ Opened' = Opened
  BY <1>1, <1>2 DEF Alive, Opened
<1>4. mouseEvents' \in [Addresses -> BOOLEAN]
  BY <1>1 DEF Between, MotionIsCarried
<1>5. ASSUME NEW v \in Addresses, mouseEvents'[v]
      PROVE  v \in Opened' /\ tickPending'[v] /\ ~InTick(v)'
  <2>1. mouseEvents[v] /\ (w # NULL /\ windowID[w] # NoID => v # w)
    BY <1>1, <1>5 DEF Between, MotionIsCarried
  <2>2. v \in Opened /\ tickPending[v]
    BY <2>1 DEF Between, MotionIsCarried
  <2>3. ~InTick(v)'
    <3>1. CASE timerFrame' = timerFrame
      BY <1>2, <3>1 DEF InTick
    <3>2. CASE w # NULL
      BY <2>1, <2>2, <3>2 DEF InTick, Opened
    <3> QED
      BY <1>2, <3>1, <3>2
  <2> QED
    BY <1>2, <1>3, <2>2, <2>3
<1>6. MotionIsCarried'
  BY <1>4, <1>5 DEF MotionIsCarried
<1>7. OneHandler' /\ ListIsObjects' /\ OpenedNeedsGlut'
  BY <1>1, <1>2, <1>3
     DEF Between, OneHandler, Quiet, ListIsObjects, OpenedNeedsGlut
<1> QED
  BY <1>6, <1>7 DEF Between

(* A timer handler, or idleCallback, goes on or returns: only the object     *)
(* whose OnTick returns can lose its tick, and it has had its motion.        *)
LEMMA TimerStepKeepsBetween ==
  ASSUME Between, DisciplinedInv, MasterFireIdle \/ MasterTimerReturn
  PROVE  Between'
<1>1. /\ UNCHANGED <<objs, windowID, windowFrame, mouseEvents>>
      /\ windowFrame.kind = "none" \/ timerFrame.kind # "none"
  BY DEF MasterFireIdle, MasterTimerReturn, Quiet, windowVars, Return, TickReturn,
     TickReturnFault, TimerReturn, IdleReturn, IdleReturnFault
<1>2. windowFrame'.kind = "none"
  BY <1>1 DEF Between, OneHandler
<1>3. /\ UNCHANGED <<timerList, glutInit>>
      /\ \A v \in Addresses :
           /\ InTick(v)' => InTick(v)
           /\ tickPending[v] => tickPending'[v] \/ InTick(v)
  <2>1. ASSUME NEW p, IdleStep(p)
        PROVE  /\ UNCHANGED <<timerList, glutInit, tickPending>>
               /\ timerFrame'.kind # "tick"
    <3>1. \A q : [NoTimerFrame EXCEPT !.kind = "idle", !.target = q].kind = "idle"
      BY DEF NoTimerFrame
    <3>2. NoTimerFrame.kind = "none"
      BY DEF NoTimerFrame
    <3> QED
      BY <2>1, <3>1, <3>2 DEF IdleStep, timerObjectVars
  <2>2. CASE MasterFireIdle
    BY <2>1, <2>2 DEF MasterFireIdle, FireIdle, InTick
  <2>3. CASE MasterTimerReturn
    <3>1. CASE IdleReturn
      BY <2>1, <3>1 DEF IdleReturn, InTick
    <3>2. CASE TimerReturn
      BY <3>2 DEF TimerReturn, timerObjectVars, NoTimerFrame, InTick
    <3>3. CASE IdleReturnFault \/ TickReturnFault
      BY <3>3, NoTickReturnFault, NoIdleReturnFault
    <3>4. CASE TickReturn
      <4> DEFINE u == SlotSeen.target
      <4>1. /\ TickAgain(u) /\ timerFrame.kind = "tick"
            /\ timerFrame' = NoTimerFrame
            /\ UNCHANGED <<timerList, glutInit>>
        BY <3>4 DEF TickReturn
      <4>2. u = timerFrame.target
        BY <4>1 DEF SlotSeen, DisciplinedInv, TickKeepsItsSlot
      <4> HIDE DEF u
      <4>3. \A v \in Addresses : v # u => tickPending'[v] = tickPending[v]
        BY <4>1 DEF TickAgain, DisciplinedInv, TimerInv, TimerTypeOK
      <4> QED
        BY <4>1, <4>2, <4>3 DEF InTick, NoTimerFrame
    <3> QED
      BY <2>3, <3>1, <3>2, <3>3, <3>4 DEF MasterTimerReturn, Return
  <2> QED
    BY <2>2, <2>3
<1>4. Alive' = Alive /\ Opened' = Opened
  BY <1>1, <1>3 DEF Alive, Opened
<1>5. MotionIsCarried'
  BY <1>1, <1>3, <1>4 DEF Between, MotionIsCarried
<1> QED
  BY <1>1, <1>2, <1>3, <1>4, <1>5
     DEF Between, OneHandler, ListIsObjects, OpenedNeedsGlut

(* CheckOnOpen, CheckOnClose and OnDisplay start when no handler runs, and   *)
(* CheckOnOpen arms ticks only.                                              *)
LEMMA WindowStepKeepsBetween ==
  ASSUME Between, TimerTypeOK, FireWindows \/ WindowStep, ~MasterCloseReturn
  PROVE  Between'
<1>1. CASE FireWindows
  <2>1. /\ Quiet /\ UNCHANGED timerVars /\ mouseEvents' = mouseEvents
        /\ UNCHANGED <<objs, windowID>>
    BY <1>1 DEF FireWindows, FireCheckOnOpen, FireCheckOnClose, FireCheckShutdown,
       FireDisplay, DisplayFault, windowObjectVars
  <2> QED
    BY <2>1, SameTimersStay, QuietKeepsBetween DEF Quiet
<1>2. CASE OpenStep
  <2>1. /\ windowFrame.kind # "none" /\ mouseEvents' = mouseEvents
        /\ UNCHANGED <<objs, windowID>>
    BY <1>2 DEF OpenStep, OpenReturn, OpenNext
  <2>2. TimersStay
    <3>1. ASSUME NEW w, Rearm(w) PROVE TimersStay
      BY <3>1, ArmTickStays DEF Rearm
    <3> QED
      BY <1>2, <3>1, SameTimersStay DEF OpenStep
  <2>3. timerFrame.kind = "none"
    BY <2>1 DEF Between, OneHandler
  <2> QED
    BY <2>1, <2>2, <2>3, QuietKeepsBetween
<1>3. CASE /\ CloseNext \/ LoopFault \/ DisplayReturn
           /\ UNCHANGED <<timerVars, mouseEvents>>
  <2>1. /\ windowFrame.kind # "none"
        /\ UNCHANGED <<objs, windowID>>
    BY <1>3 DEF CloseNext, LoopFault, DisplayReturn, windowObjectVars
  <2>2. timerFrame.kind = "none"
    BY <2>1 DEF Between, OneHandler
  <2> QED
    BY <1>3, <2>1, <2>2, SameTimersStay, QuietKeepsBetween
<1> QED
  BY <1>1, <1>2, <1>3 DEF WindowStep

(* CheckOnClose deletes the window from both halves, with its motion.        *)
LEMMA CloseReturnKeepsBetween ==
  ASSUME Between, TimerTypeOK, WindowTypeOK, MasterCloseReturn
  PROVE  Between'
<1> DEFINE w == windowFrame.win
<1>1. /\ windowFrame.kind = "close"
      /\ objs' = objs \ {w}
      /\ windowID' = [windowID EXCEPT ![w] = NoID]
      /\ mouseEvents' = [mouseEvents EXCEPT ![w] = FALSE]
  BY DEF MasterCloseReturn, CloseReturn
<1>2. PICK p \in DOMAIN timerList : timerList[p] = w /\ DestroyAt(p)
  BY DEF MasterCloseReturn
<1>3. /\ timerList' = RemoveAt(timerList, p)
      /\ tickPending' = [tickPending EXCEPT ![w] = FALSE]
      /\ UNCHANGED glutInit
  BY <1>2 DEF DestroyAt
<1>4. timerFrame.kind = "none" /\ timerFrame' = timerFrame
  BY <1>1, <1>2 DEF Between, OneHandler, DestroyAt
<1>5. Alive' = Alive \ {w}
  BY <1>2, <1>3, ListWithoutOne
<1> HIDE DEF w
<1>6. Opened' = Opened \ {w}
  BY <1>1 DEF Opened, WindowTypeOK
<1>7. MotionIsCarried'
  BY <1>1, <1>3, <1>4, <1>6 DEF Between, MotionIsCarried, InTick, TimerTypeOK
<1> QED
  BY <1>1, <1>3, <1>4, <1>5, <1>6, <1>7
     DEF Between, OneHandler, ListIsObjects, OpenedNeedsGlut

-----------------------------------------------------------------------------
(* Theorems about the whole. *)

(* Nothing exists at first. *)
LEMMA MasterStarts == Init => MasterInv
<1> SUFFICES ASSUME Init PROVE MasterInv
  OBVIOUS
<1>1. DisciplinedInv
  BY DisciplinedInit DEF Init
<1>2. WInv /\ CInv
  BY WindowsAssumption, InitWindows, InitClosing DEF Init
<1>3. OneHandler
  BY DEF Init, TimerInit, NoTimerFrame, OneHandler
<1>4. ListIsObjects /\ OpenedNeedsGlut
  BY DEF Init, TimerInit, WindowInit, Alive, Opened, ListIsObjects, OpenedNeedsGlut
<1>5. MotionIsCarried
  BY DEF Init, MotionIsCarried
<1> QED
  BY <1>1, <1>2, <1>3, <1>4, <1>5 DEF MasterInv, Between

(* Every step of the whole keeps what holds in each half and between them.   *)
LEMMA MasterGoesOn ==
  ASSUME Disciplined, MasterInv, [Next]_masterVars
  PROVE  MasterInv'
<1>1. /\ DisciplinedInv /\ WInv /\ CInv /\ OneHandler
      /\ Between /\ TimerTypeOK /\ WindowTypeOK
  BY DEF MasterInv, Between, DisciplinedInv, TimerInv, WInv
<1>2. DisciplinedInv' /\ WInv' /\ CInv'
  BY <1>1, WholeKeepsWindows, WholeKeepsTimers
<1>3. Between'
  <2>1. ASSUME NEW w \in Addresses, MasterCreate(w)
        PROVE  Between'
    BY <1>1, <2>1, CreateKeepsBetween
  <2>2. ASSUME NEW w \in Addresses,
               MasterOpen(w) \/ \E from \in Addresses : MasterGrab(w, from)
        PROVE  Between'
    BY <1>1, <2>2, WindowsAssumption, OpeningKeepsBetween
  <2>3. PICK v0 \in Vals : TRUE
    BY TimersAssumption
  <2>4. ASSUME NEW w \in Addresses, NEW on \in BOOLEAN, NEW v \in Vals,
               \/ MasterInitGlut \/ MasterClose(w)
               \/ MasterSetTick(w, on) \/ MasterSetIdle(w, on) \/ MasterSetTimer(w, v)
        PROVE  Between'
    BY <1>1, <2>4, CallsKeepBetween
  <2>5. CASE MasterInitGlut
    BY <1>1, <2>5, InitTicksStays, QuietKeepsBetween DEF MasterInitGlut, InitGlut, windowVars
  <2>6. CASE Client
    BY <2>1, <2>2, <2>3, <2>4, <2>5, <2>6 DEF Client
  <2>7. ASSUME NEW id \in Ids, Motion(id)
        PROVE  Between'
    BY <1>1, <2>7, WindowsAssumption, MotionKeepsBetween
  <2>8. ASSUME NEW i \in 1..MaxSlots, MasterFireTimer(i)
        PROVE  Between'
    BY <1>1, <2>8, FireTimerKeepsBetween DEF SlotIds
  <2>9. CASE MasterFireIdle \/ MasterTimerReturn
    BY <1>1, <2>9, TimerStepKeepsBetween
  <2>10. CASE FireWindows \/ WindowStep
    BY <1>1, <2>10, WindowStepKeepsBetween, CloseReturnKeepsBetween
  <2>11. CASE UNCHANGED masterVars
    BY <1>1, <2>11, SameTimersStay, QuietKeepsBetween DEF masterVars, windowVars
  <2> QED
    BY <2>6, <2>7, <2>8, <2>9, <2>10, <2>11 DEF Next
<1> QED
  BY <1>2, <1>3 DEF MasterInv

(* The invariant holds in every state of GlutMaster, if the clients keep to  *)
(* the discipline.                                                           *)
THEOREM MasterHolds ==
  ASSUME Disciplined
  PROVE  Spec => []MasterInv
<1>1. MasterInv /\ [Next]_masterVars => MasterInv'
  BY MasterGoesOn
<1> QED
  BY <1>1, MasterStarts, PTL DEF Spec

(* Deleting windows only from CheckOnClose keeps every handler on the stack  *)
(* safe if the clients are Disciplined: opening, grabbing, closing once and  *)
(* creating windows from OnTick, OnTimer, OnIdle, OnOpen or OnClose, and     *)
(* arming timers from all of these but OnTick, makes no callback touch a     *)
(* window that is gone.                                                      *)
THEOREM NoCallbackTouchesTheDead ==
  ASSUME Disciplined
  PROVE  Spec => []NoFault
<1>1. MasterInv => NoFault
  BY DEF MasterInv, DisciplinedInv, NoTimerFault, CInv, NoWindowFault, NoFault
<1> QED
  BY <1>1, MasterHolds, PTL

(* OnDisplay runs on a window that exists.                                   *)
DisplayedIsLive == windowFrame.kind = "display" => windowFrame.win \in objs

(* A display takes the front window, and only CheckOnClose deletes.          *)
LEMMA DisplayedStays ==
  ASSUME DisplayedIsLive, [WindowNext]_windowVars
  PROVE  DisplayedIsLive'
<1>1. ASSUME windowFrame' = windowFrame, objs \subseteq objs'
      PROVE  DisplayedIsLive'
  BY <1>1 DEF DisplayedIsLive
<1>2. ASSUME windowFrame'.kind # "display"
      PROVE  DisplayedIsLive'
  BY <1>2 DEF DisplayedIsLive
<1>3. /\ NoWindowFrame.kind # "display"
      /\ At("openLoop").kind # "display" /\ At("closeLoop").kind # "display"
      /\ \A w : [At("open") EXCEPT !.win = w].kind # "display"
  BY DEF At, NoWindowFrame
<1>4. CASE WindowClient
  BY <1>1, <1>4 DEF WindowClient, CreateWindow, Open, Grab, Close, windowObjectVars
<1>5. CASE FireCheckOnOpen \/ FireCheckOnClose \/ FireCheckShutdown
  BY <1>1, <1>2, <1>3, <1>5
     DEF FireCheckOnOpen, FireCheckOnClose, FireCheckShutdown, windowObjectVars
<1>6. ASSUME NEW id \in Ids, FireDisplay(id) \/ DisplayFault(id)
      PROVE  DisplayedIsLive'
  <2>1. CASE DisplayFault(id)
    BY <1>1, <2>1 DEF DisplayFault, windowObjectVars
  <2>2. CASE FireDisplay(id)
    <3>1. windowFrame'.win = Head(windows[id]) /\ Head(windows[id]) \in objs /\ objs' = objs
      BY <2>2 DEF FireDisplay, At, NoWindowFrame
    <3> QED
      BY <3>1 DEF DisplayedIsLive
  <2> QED
    BY <1>6, <2>1, <2>2
<1>7. CASE OpenNext \/ OpenReturn \/ DisplayReturn \/ CloseReturn
  <2>1. windowFrame'.kind # "display" \/ (windowFrame' = windowFrame /\ objs' = objs)
    BY <1>3, <1>7 DEF OpenNext, OpenReturn, DisplayReturn, CloseReturn
  <2> QED
    BY <1>1, <1>2, <2>1
<1>8. CASE CloseNext
  BY <1>2, <1>3, <1>8 DEF CloseNext
<1>9. CASE LoopFault
  BY <1>1, <1>9 DEF LoopFault, windowObjectVars
<1>10. CASE UNCHANGED windowVars
  BY <1>1, <1>10 DEF windowVars
<1> QED
  BY <1>4, <1>5, <1>6, <1>7, <1>8, <1>9, <1>10 DEF WindowNext, Step

(* Whoever may still be called back, by a slot, the database, a queue or the *)
(* list of timers, is a window that exists, and so is the one whose handler  *)
(* runs.                                                                     *)
THEOREM CallbacksAlwaysHaveObjects ==
  ASSUME Disciplined
  PROVE  Spec => []CallbacksHaveObjects
<1>1. ASSUME MasterInv, DisplayedIsLive
      PROVE  CallbacksHaveObjects
  <2>1. Alive = objs
    BY <1>1 DEF MasterInv, Between, ListIsObjects
  <2>2. \A i \in DOMAIN slots : slots[i].target \in objs \cup {NULL}
    BY <1>1, <2>1
       DEF MasterInv, DisciplinedInv, TimerInv, NothingOutlivesItsObject
  <2>3. \A id \in Ids : ToSet(windows[id]) \subseteq objs
    BY <1>1 DEF MasterInv, WInv, DatabaseConsistent
  <2>4. ToSet(toOpen) \cup ToSet(toClose) \subseteq objs
    BY <1>1 DEF MasterInv, WInv, CInv, OpenersAreLive, Opened
  <2>5. timerFrame.kind \in {"tick", "idle"} => timerFrame.target \in objs
    BY <1>1, <2>1 DEF MasterInv, DisciplinedInv, TickKeepsItsSlot, IdleKeepsItsObject
  <2>6. windowFrame.kind \in {"open", "display", "close"} => windowFrame.win \in objs
    <3>1. toOpen \in Seq(Addresses) /\ toClose \in Seq(Addresses)
      BY <1>1 DEF MasterInv, WInv, WindowTypeOK
    <3>2. CASE windowFrame.kind = "open"
      <4>1. toOpen # <<>> /\ Head(toOpen) = windowFrame.win
        BY <1>1, <3>2 DEF MasterInv, WInv, OpensTheFirst
      <4> QED
        BY <2>4, <3>1, <4>1, Leaves
    <3>3. CASE windowFrame.kind = "close"
      <4>1. toClose # <<>> /\ Head(toClose) = windowFrame.win
        BY <1>1, <3>3 DEF MasterInv, CInv, ClosesTheFirst
      <4> QED
        BY <2>4, <3>1, <4>1, Leaves
    <3>4. CASE windowFrame.kind = "display"
      BY <1>1, <3>4 DEF DisplayedIsLive
    <3> QED
      BY <3>2, <3>3, <3>4
  <2> QED
    BY <2>1, <2>2, <2>3, <2>4, <2>5, <2>6 DEF CallbacksHaveObjects
<1>2. Init => DisplayedIsLive
  BY DEF Init, WindowInit, NoWindowFrame, DisplayedIsLive
<1>3. DisplayedIsLive /\ [Next]_masterVars => DisplayedIsLive'
  BY WindowsSeeTheirSteps, DisplayedStays
<1> QED
  BY <1>1, <1>2, <1>3, MasterHolds, PTL DEF Spec

(* Motion held back by OnMotion always has a tick of its window under way to *)
(* deliver it, whoever switches ticks, closes or grabs windows meanwhile.    *)
THEOREM HeldMotionAlwaysHasATick ==
  ASSUME Disciplined
  PROVE  Spec => []HeldMotionHasATick
<1>1. MasterInv => HeldMotionHasATick
  BY DEF MasterInv, Between, MotionIsCarried, Opened, HeldMotionHasATick
<1> QED
  BY <1>1, MasterHolds, PTL

(* The windows within the whole behave as GlutWindows has them.              *)
THEOREM WholeImplementsWindows == Spec => WindowSpec
<1>1. Init => WindowInit
  BY DEF Init
<1> QED
  BY <1>1, WindowsSeeTheirSteps, PTL DEF Spec, WindowSpec

(* And its timers deliver what was asked of them, once, to living windows:   *)
(* what the windows do to the timers cannot be told from the outside.        *)
THEOREM WholeImplementsService ==
  ASSUME Disciplined
  PROVE  Spec => ImplementsService
<1>1. Init => Service!Init
  BY NothingOutstanding, EmptySeq
     DEF Init, TimerInit, NoTimerFrame, Alive, Delivering, Service!Init
<1>2. ASSUME MasterInv, [Next]_masterVars
      PROVE  [Service!Next]_(Service!vars)
  <2>1. TimerInv /\ TimerTypeOK /\ SlotsMatchCalls
    BY <1>2 DEF MasterInv, DisciplinedInv, TimerInv
  <2>2. CASE [TimerNext]_timerVars
    BY <2>1, <2>2, StepSimulates
  <2>3. CASE ArmsForWindow
    BY <2>1, <2>3, ArmTickAsks DEF ArmsForWindow, Service!Next
  <2>4. CASE InitForWindow
    BY <2>1, <2>4, InitTicksAsks DEF InitForWindow, Service!Next
  <2>5. CASE DestroysWindow
    <3>1. PICK p \in DOMAIN timerList : DestroyAt(p)
      BY <2>5 DEF DestroysWindow
    <3>2. timerList[p] \in Addresses
      BY <2>1, ElementOfSeq, LenProperties DEF TimerTypeOK
    <3> QED
      BY <2>1, <3>1, <3>2, DestroyUnregisters DEF Service!Next
  <2> QED
    BY <1>2, <2>1, <2>2, <2>3, <2>4, <2>5, TimersSeeTheirSteps
<1> QED
  BY <1>1, <1>2, MasterHolds, PTL DEF Spec, ImplementsService, Service!Spec

=============================================================================
