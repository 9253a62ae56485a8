------------------------------ MODULE GlutTimer ------------------------------
(***************************************************************************)
(* The real-time half of GlutMaster: GlutTimer objects, the table of       *)
(* slots that carries their callbacks through GLUT, and the calls          *)
(* setTick, setTimer and setIdle.                                          *)
(*                                                                         *)
(* GLUT knows only an integer, so every glutTimerFunc() of the library     *)
(* registers timerCallback with the index of a slot; the slot remembers    *)
(* the object.  Everything runs on one thread, but a handler (OnTick,      *)
(* OnTimer, OnIdle) may call back into the library before it returns:      *)
(* timerFrame is the library's own activation record across that call.       *)
(*                                                                         *)
(* Abstractions: a tick interval is kept as zero or not (tick), since the  *)
(* delays decide only the order in which GLUT calls back, which is left    *)
(* open.  Slots are numbered from 1, the C++ vector from 0.                *)
(***************************************************************************)
EXTENDS Naturals, SequencesExt, GlutAddresses

CONSTANTS
  Vals,         \* the values passed to setTimer
  MaxSlots,     \* bound of the model on the size of the slot table
  Uses,         \* which of "tick", "timer" and "idle" the clients use
  TickArms,     \* may code called from OnTick arm another timer?
  SelfDestroy   \* may a handler destroy the object it runs on?

ASSUME TimersAssumption ==
  /\ MaxSlots \in Nat \ {0}
  /\ Vals # {}
  /\ NULL \notin Vals
  /\ Uses \subseteq {"tick", "timer", "idle"}
  /\ TickArms \in BOOLEAN
  /\ SelfDestroy \in BOOLEAN

VARIABLES
  timerList,    \* GlutTimer::_timerList
  idle,         \* GlutTimer::_idle, per object
  tick,         \* GlutTimer::_tick # 0, per object
  tickPending,  \* GlutTimer::_tickPending, per object
  idleCount,    \* GlutTimer::_idleCount
  slots,        \* GlutTimer::Slot::_slots
  cursor,       \* GlutTimer::Slot::_slot
  glutInit,     \* GlutMaster::_glutInit
  calls,        \* GLUT: timerCallback registrations not yet fired, per index
  idleFunc,     \* GLUT: is idleCallback registered?
  timerFrame,   \* the library callback in progress
  timerFault    \* a dead object or a null pointer was dereferenced

timerObjectVars == <<timerList, idle, tick, tickPending>>
slotVars == <<slots, cursor, calls>>
idleVars == <<idleCount, idleFunc>>
timerVars == <<timerList, idle, tick, tickPending, idleCount, slots, cursor,
               glutInit, calls, idleFunc, timerFrame, timerFault>>

-----------------------------------------------------------------------------
(* Values. *)

SlotIds == 1..MaxSlots

Slot == [inUse : BOOLEAN, target : Addresses \cup {NULL},
         val : Vals \cup {NULL}, tick : BOOLEAN]

NewSlot(t, v, k) == [inUse |-> TRUE, target |-> t, val |-> v, tick |-> k]

(* "index" and "copy" are the Slot* that timerCallback holds: the slot, or,  *)
(* once the vector has moved, what the freed storage still shows.            *)
TimerFrame == [kind : {"none", "tick", "timer", "idle"},
               index : SlotIds \cup {0},
               target : Addresses \cup {NULL}, val : Vals \cup {NULL},
               copy : Slot \cup {NULL}]

NoTimerFrame == [kind |-> "none", index |-> 0, target |-> NULL, val |-> NULL,
                 copy |-> NULL]

Alive == {timerList[p] : p \in DOMAIN timerList}

-----------------------------------------------------------------------------
(* GlutTimer::Slot *)

(* The slots Slot::add looks at before it reaches slot i. *)
ProbedBefore(i) ==
  IF i >= cursor THEN cursor..(i - 1)
                 ELSE (cursor..Len(slots)) \cup (1..(i - 1))

(* Mistake: the slot at the cursor is taken without a look. *)
IsFreeSlotUnchecked(i) == i = cursor

(* The slot Slot::add takes: the first free one from the cursor on, around   *)
(* the table, or a new one when all are taken.                               *)
IsFreeSlot(i) ==
  \/ /\ i \in DOMAIN slots
     /\ ~slots[i].inUse
     /\ \A j \in ProbedBefore(i) : slots[j].inUse
  \/ /\ i = Len(slots) + 1
     /\ \A j \in DOMAIN slots : slots[j].inUse

(* Slot::add, and the glutTimerFunc() that every caller makes with its       *)
(* result.  Growing the vector may move it.                                  *)
AddSlot(i, t, v, k) ==
  /\ IsFreeSlot(i)
  /\ i \in SlotIds
  /\ slots' = IF i \in DOMAIN slots
                THEN [slots EXCEPT ![i] = NewSlot(t, v, k)]
                ELSE Append(slots, NewSlot(t, v, k))
  /\ cursor' = IF i >= Len(slots) THEN 1 ELSE i + 1
  /\ calls' = [calls EXCEPT ![i] = @ + 1]

(* The same inside a handler: timerCallback still holds its Slot*. *)
FrameAfterAdd(i) ==
  IF timerFrame.kind = "tick" /\ timerFrame.copy = NULL /\ i \notin DOMAIN slots
    THEN [timerFrame EXCEPT !.copy = slots[timerFrame.index]]
    ELSE timerFrame

(* Mistake: free slots are not cleared. *)
ForgetTargetInUse(t) ==
  [i \in DOMAIN slots |->
     IF slots[i].inUse /\ slots[i].target = t
       THEN [slots[i] EXCEPT !.target = NULL] ELSE slots[i]]

(* Mistake: the slots of every object are cleared. *)
ForgetAll(t) == [i \in DOMAIN slots |-> [slots[i] EXCEPT !.target = NULL]]

(* Slot::remove *)
ForgetTarget(t) ==
  [i \in DOMAIN slots |->
     IF slots[i].target = t THEN [slots[i] EXCEPT !.target = NULL] ELSE slots[i]]

-----------------------------------------------------------------------------
(* The interface.  Client code runs between two events and in handlers. *)

MayArm == timerFrame.kind = "tick" => TickArms

CreateTimer(t) ==
  /\ ~timerFault
  /\ t \notin Alive
  /\ timerList' = Append(timerList, t)
  /\ idle' = [idle EXCEPT ![t] = FALSE]
  /\ tick' = [tick EXCEPT ![t] = FALSE]
  /\ tickPending' = [tickPending EXCEPT ![t] = FALSE]
  /\ UNCHANGED <<slotVars, idleVars, glutInit, timerFrame, timerFault>>

(* Mistake: an object that goes away stays counted. *)
IdleOffUncounted(t) == UNCHANGED idleVars

(* Mistake: setIdle(false) counts down whether or not the object was idle. *)
IdleOffAlways(t) ==
  /\ idleCount' = idleCount - 1
  /\ idleFunc' = IF glutInit THEN idleCount' > 0 ELSE idleFunc

(* GlutMaster::setIdle(t, false), but for the flag of the object. *)
IdleOff(t) ==
  /\ idleCount' = IF idle[t] THEN idleCount - 1 ELSE idleCount
  /\ idleFunc' = IF idle[t] /\ glutInit THEN idleCount' > 0 ELSE idleFunc

(* ~GlutTimer for the object at position p of the list.  idleCallback keeps  *)
(* an iterator to the object it is calling, which then points nowhere.       *)
DestroyAt(p) ==
  LET t == timerList[p] IN
  /\ slots' = ForgetTarget(t)
  /\ timerList' = RemoveAt(timerList, p)
  /\ IdleOff(t)
  /\ idle' = [idle EXCEPT ![t] = FALSE]
  /\ tick' = [tick EXCEPT ![t] = FALSE]
  /\ tickPending' = [tickPending EXCEPT ![t] = FALSE]
  /\ timerFrame' = IF timerFrame.kind = "idle" /\ timerFrame.target = t
                     THEN [timerFrame EXCEPT !.target = NULL] ELSE timerFrame
  /\ UNCHANGED <<cursor, calls, glutInit, timerFault>>

Destroy(p) ==
  /\ ~timerFault
  /\ p \in DOMAIN timerList
  /\ timerFrame.kind \in {"tick", "idle"} /\ timerFrame.target = timerList[p]
       => SelfDestroy
  /\ DestroyAt(p)

(* Mistake: a tick is armed beside the one under way. *)
NeedsTickAgain(t, on) == glutInit /\ on

NeedsTick(t, on) == glutInit /\ on /\ ~tickPending[t]

(* Arms the tick of t when GLUT is up and no tick is under way already. *)
ArmTick(t, on) ==
  /\ ~timerFault
  /\ t \in Alive
  /\ tick' = [tick EXCEPT ![t] = on]
  /\ IF NeedsTick(t, on)
       THEN /\ MayArm
            /\ \E i \in SlotIds : /\ AddSlot(i, t, NULL, TRUE)
                                  /\ timerFrame' = FrameAfterAdd(i)
            /\ tickPending' = [tickPending EXCEPT ![t] = TRUE]
       ELSE UNCHANGED <<slotVars, tickPending, timerFrame>>
  /\ UNCHANGED <<timerList, idle, idleCount, glutInit, timerFault>>

SetTick(t, on) ==
  /\ "tick" \in Uses
  /\ ArmTick(t, on)
  /\ UNCHANGED idleFunc

SetTimer(t, v) ==
  /\ "timer" \in Uses
  /\ ~timerFault
  /\ t \in Alive
  /\ glutInit
  /\ MayArm
  /\ \E i \in SlotIds : AddSlot(i, t, v, FALSE) /\ timerFrame' = FrameAfterAdd(i)
  /\ UNCHANGED <<timerObjectVars, idleVars, glutInit, timerFault>>

SetIdle(t, on) ==
  /\ "idle" \in Uses
  /\ ~timerFault
  /\ t \in Alive
  /\ idle' = [idle EXCEPT ![t] = on]
  /\ \/ /\ on /\ ~idle[t]
        /\ idleCount' = idleCount + 1
        /\ idleFunc' = TRUE
     \/ /\ on /\ idle[t]
        /\ UNCHANGED idleVars
     \/ ~on /\ IdleOff(t)
  /\ UNCHANGED <<timerList, tick, tickPending, slotVars, glutInit, timerFrame,
                 timerFault>>

(* GlutMaster::init: the ticks asked for before GLUT was up are armed now.   *)
(* No slot exists before, so they fill the table in the order of the list:   *)
(* "pos" lists the positions of the objects that want one.                   *)
InitTicks ==
  LET want == {p \in DOMAIN timerList :
                 tick[timerList[p]] /\ ~tickPending[timerList[p]]}
  IN
  /\ ~timerFault
  /\ ~glutInit
  /\ glutInit' = TRUE
  /\ \E n \in 0..MaxSlots : \E pos \in [1..n -> want] :
       /\ \A i, j \in 1..n : i < j => pos[i] < pos[j]
       /\ \A p \in want : \E i \in 1..n : pos[i] = p
       /\ slots' = [i \in 1..n |-> NewSlot(timerList[pos[i]], NULL, TRUE)]
       /\ calls' = [i \in SlotIds |-> IF i \in 1..n THEN 1 ELSE 0]
  /\ cursor' = 1
  /\ tickPending' = [t \in Addresses |->
                       tickPending[t] \/ (t \in Alive /\ tick[t])]
  /\ UNCHANGED <<timerList, idle, tick, idleCount, timerFrame, timerFault>>

InitGlut == InitTicks /\ idleFunc' = (idleFunc \/ idleCount > 0)

-----------------------------------------------------------------------------
(* Callbacks from GLUT. *)

(* timerCallback up to the handler: Slot::get frees the slot, and points the *)
(* cursor at it, before the handler runs.                                    *)
FireTimer(i) ==
  LET s == slots[i] IN
  /\ ~timerFault
  /\ glutInit
  /\ timerFrame.kind = "none"
  /\ calls[i] > 0
  /\ calls' = [calls EXCEPT ![i] = @ - 1]
  /\ slots' = [slots EXCEPT ![i].inUse = FALSE]
  /\ cursor' = i
  /\ timerFrame' = IF s.target = NULL
                     THEN timerFrame
                     ELSE [kind |-> IF s.tick THEN "tick" ELSE "timer", index |-> i,
                           target |-> s.target, val |-> s.val, copy |-> NULL]
  /\ UNCHANGED <<timerObjectVars, idleVars, glutInit, timerFault>>

(* What timerCallback reads through its Slot* once OnTick has returned. *)
SlotSeen ==
  IF timerFrame.copy = NULL THEN slots[timerFrame.index] ELSE timerFrame.copy

(* Mistake: the flag is cleared, but no tick is armed. *)
TickAgainNever(u) ==
  /\ tickPending' = [tickPending EXCEPT ![u] = FALSE]
  /\ UNCHANGED slotVars

TickAgain(u) ==
  IF tick[u]
    THEN /\ \E i \in SlotIds : AddSlot(i, u, NULL, TRUE)
         /\ tickPending' = [tickPending EXCEPT ![u] = TRUE]
    ELSE /\ tickPending' = [tickPending EXCEPT ![u] = FALSE]
         /\ UNCHANGED slotVars

(* timerCallback after OnTick: the pending flag of the slot's target is      *)
(* cleared, and the tick armed again when it is still wanted.                *)
TickReturn ==
  LET u == SlotSeen.target IN
  /\ ~timerFault
  /\ timerFrame.kind = "tick"
  /\ u \in Alive
  /\ timerFrame' = NoTimerFrame
  /\ TickAgain(u)
  /\ UNCHANGED <<timerList, idle, tick, idleVars, glutInit, timerFault>>

(* The same code when the slot it reads is gone: the null pointer, an object *)
(* that is no more, or storage that the vector has given back, which it     *)
(* also reads once more when the arming itself makes the vector grow.        *)
TickReturnFault ==
  /\ ~timerFault
  /\ timerFrame.kind = "tick"
  /\ \/ SlotSeen.target \notin Alive
     \/ timerFrame.copy # NULL
     \/ /\ SlotSeen.target \in {t \in Alive : tick[t]}
        /\ IsFreeSlot(Len(slots) + 1)
  /\ timerFault' = TRUE
  /\ UNCHANGED <<timerObjectVars, slotVars, idleVars, glutInit, timerFrame>>

TimerReturn ==
  /\ ~timerFault
  /\ timerFrame.kind = "timer"
  /\ timerFrame' = NoTimerFrame
  /\ UNCHANGED <<timerObjectVars, slotVars, idleVars, glutInit, timerFault>>

(* The next object idleCallback calls after position p of the list. *)
NextIdle(p, q) ==
  /\ q \in (p + 1)..Len(timerList)
  /\ idle[timerList[q]]
  /\ \A r \in (p + 1)..(q - 1) : ~idle[timerList[r]]

(* idleCallback goes on from position p: to the next idle object, or out. *)
IdleStep(p) ==
  /\ \/ \E q \in DOMAIN timerList :
          /\ NextIdle(p, q)
          /\ timerFrame' =
               [NoTimerFrame EXCEPT !.kind = "idle", !.target = timerList[q]]
     \/ /\ \A q \in (p + 1)..Len(timerList) : ~idle[timerList[q]]
        /\ timerFrame' = NoTimerFrame
  /\ UNCHANGED <<timerObjectVars, slotVars, idleVars, glutInit, timerFault>>

FireIdle ==
  /\ ~timerFault
  /\ glutInit
  /\ timerFrame.kind = "none"
  /\ idleFunc
  /\ IdleStep(0)

IdleReturn ==
  /\ ~timerFault
  /\ timerFrame.kind = "idle"
  /\ \E p \in DOMAIN timerList : timerList[p] = timerFrame.target /\ IdleStep(p)

(* The loop steps from a list node that its own handler has deleted. *)
IdleReturnFault ==
  /\ ~timerFault
  /\ timerFrame.kind = "idle"
  /\ timerFrame.target = NULL
  /\ timerFault' = TRUE
  /\ UNCHANGED <<timerObjectVars, slotVars, idleVars, glutInit, timerFrame>>

-----------------------------------------------------------------------------

TimerInit ==
  /\ timerList = <<>>
  /\ idle = [t \in Addresses |-> FALSE]
  /\ tick = [t \in Addresses |-> FALSE]
  /\ tickPending = [t \in Addresses |-> FALSE]
  /\ idleCount = 0
  /\ slots = <<>>
  /\ cursor = 1
  /\ glutInit = FALSE
  /\ calls = [i \in SlotIds |-> 0]
  /\ idleFunc = FALSE
  /\ timerFrame = NoTimerFrame
  /\ timerFault = FALSE

TimerClient ==
  \/ \E t \in Addresses : CreateTimer(t)
  \/ \E p \in DOMAIN timerList : Destroy(p)
  \/ \E t \in Addresses, on \in BOOLEAN : SetTick(t, on)
  \/ \E t \in Addresses, v \in Vals : SetTimer(t, v)
  \/ \E t \in Addresses, on \in BOOLEAN : SetIdle(t, on)
  \/ InitGlut

Return ==
  \/ TickReturn
  \/ TickReturnFault
  \/ TimerReturn
  \/ IdleReturn
  \/ IdleReturnFault

TimerNext ==
  \/ TimerClient
  \/ \E i \in SlotIds : FireTimer(i)
  \/ FireIdle
  \/ Return

TimerSpec == TimerInit /\ [][TimerNext]_timerVars

(* GLUT's loop calls back every timer whose time has come, and handlers      *)
(* return.                                                                   *)
TimerFairness ==
  /\ \A i \in SlotIds : SF_timerVars(FireTimer(i))
  /\ WF_timerVars(Return)

TimerFairSpec == TimerSpec /\ TimerFairness

-----------------------------------------------------------------------------
(* Properties. *)

TimerTypeOK ==
  /\ timerList \in Seq(Addresses)
  /\ \A p, q \in DOMAIN timerList : timerList[p] = timerList[q] => p = q
  /\ idle \in [Addresses -> BOOLEAN]
  /\ tick \in [Addresses -> BOOLEAN]
  /\ tickPending \in [Addresses -> BOOLEAN]
  /\ idleCount \in Nat
  /\ slots \in Seq(Slot)
  /\ Len(slots) <= MaxSlots
  /\ cursor \in 1..(IF slots = <<>> THEN 1 ELSE Len(slots))
  /\ glutInit \in BOOLEAN
  /\ calls \in [SlotIds -> Nat]
  /\ idleFunc \in BOOLEAN
  /\ timerFrame \in TimerFrame
  /\ timerFault \in BOOLEAN

(* A slot is in use exactly while GLUT holds one callback with its index:    *)
(* none is recycled under a callback still to come, and none is lost.  This  *)
(* is the assertion on slot in timerCallback, and more.                      *)
SlotsMatchCalls ==
  \A i \in SlotIds :
    calls[i] = IF i \in DOMAIN slots /\ slots[i].inUse THEN 1 ELSE 0

(* No slot outlives its object, used or free: the destructor forgets both,   *)
(* since timerCallback reads a slot again after it has freed it.             *)
NothingOutlivesItsObject ==
  \A i \in DOMAIN slots : slots[i].target \in Alive \cup {NULL}

(* The number of idle objects is what _idleCount says, and as long as there  *)
(* is one GLUT has the idle callback.                                        *)
IdleCounted ==
  /\ idleCount = Cardinality({t \in Addresses : idle[t]})
  /\ idleCount > 0 => idleFunc

InTick(t) == timerFrame.kind = "tick" /\ timerFrame.target = t

TickSlots(t) == {i \in DOMAIN slots :
                   slots[i].inUse /\ slots[i].tick /\ slots[i].target = t}

(* An object with a pending tick has one tick under way: a slot, or the      *)
(* handler that is running.  Two would double its rate, none would stop it.  *)
OneTickUnderWay ==
  \A t \in Addresses :
    /\ \A i, j \in TickSlots(t) : i = j
    /\ tickPending[t] <=> (InTick(t) \/ TickSlots(t) # {})
    /\ InTick(t) => TickSlots(t) = {}

(* Once GLUT is up, an object that wants ticks has one pending.              *)
WantedTicksArePending ==
  glutInit => \A t \in Addresses : tick[t] => tickPending[t]

(* Handlers that keep to the discipline never make timerCallback or          *)
(* idleCallback touch what is gone.                                          *)
NoTimerFault == ~timerFault

(* The documentation of setTick: an object that wants ticks gets OnTick,     *)
(* unless it changes its mind or is destroyed, or the program has failed.    *)
TicksArrive ==
  \A t \in Addresses :
    (glutInit /\ tick[t]) ~> (InTick(t) \/ ~tick[t] \/ timerFault)

(* The slots implement the service: the slots in use hold the requests, but  *)
(* for those whose object is gone; timerFrame is the delivery.              *)
RequestOf(i, s) == [id |-> i, target |-> s.target, val |-> s.val, tick |-> s.tick]

Outstanding ==
  {RequestOf(i, slots[i]) :
     i \in {j \in DOMAIN slots : slots[j].inUse /\ slots[j].target # NULL}}

Delivering ==
  IF timerFrame.kind \in {"tick", "timer"}
    THEN [id |-> timerFrame.index, target |-> timerFrame.target,
          val |-> timerFrame.val, tick |-> timerFrame.kind = "tick"]
    ELSE NULL

Service == INSTANCE TimerService WITH
  Objects <- Addresses, Handles <- SlotIds, Values <- Vals, None <- NULL,
  live <- Alive, outstanding <- Outstanding, delivering <- Delivering

ASSUME NullIsNoRequest == NULL \notin Service!Request

ImplementsService == Service!Spec

=============================================================================
