------------------------------ MODULE Observer ------------------------------
(***************************************************************************)
(* GltSubject and GltObserver: each keeps a list of the other, whichever   *)
(* is destroyed first takes itself out of the lists that hold it, and      *)
(* notify() walks along the list of observers calling OnNotify.            *)
(*                                                                         *)
(* An object may be both, as the cells of program/test/observer2.cpp are.  *)
(* OnNotify is code of the application: it may create, destroy, observe,   *)
(* forget and notify, while one or more loops of notify() stand in the     *)
(* lists it changes.  "loops" is the stack of those loops.  The iterator   *)
(* of a loop is a position that moves with its node; 0 is the iterator to  *)
(* a node that is gone.                                                    *)
(***************************************************************************)
EXTENDS Naturals, FiniteSets, SequencesExt, ListRemoval

CONSTANTS
  Objects,    \* the addresses at which objects may live
  MaxLength,  \* bound of the model on the registrations that exist
  MaxDepth,   \* bound of the model on notifications inside notifications
  Careful     \* do handlers leave alone those they were called by and for?

ASSUME ObserverAssumption ==
  /\ IsFiniteSet(Objects)
  /\ MaxLength \in Nat
  /\ MaxDepth \in Nat
  /\ Careful \in BOOLEAN

VARIABLES
  alive,      \* the objects that exist
  observers,  \* GltSubject::_observers
  subjects,   \* GltObserverAbstract::_subjects
  loops       \* the loops of notify() in progress, innermost first

vars == <<alive, observers, subjects, loops>>

-----------------------------------------------------------------------------

Loop == [subject : Objects, at : Nat, called : Objects,
         told : SUBSET Objects]

Registrations == SumFunction([s \in Objects |-> Len(observers[s])])

(* The iterator of loop l when every node of o leaves the observers of s.    *)
AfterRemoval(l, s, o) ==
  IF l.subject # s \/ l.at = 0 THEN l
  ELSE IF observers[s][l.at] = o THEN [l EXCEPT !.at = 0]
  ELSE [l EXCEPT !.at = Staying(observers[s], o, l.at)]

(* The loops when o leaves the lists of all in ss.                           *)
LoopsWithout(o, ss) ==
  [n \in DOMAIN loops |->
     IF loops[n].subject \in ss THEN AfterRemoval(loops[n], loops[n].subject, o)
     ELSE loops[n]]

(* The discipline of careful handlers: while OnNotify of o runs for s, o does *)
(* not forget s, and neither is destroyed.                                    *)
MayForget(o, s) ==
  Careful => \A n \in DOMAIN loops : <<loops[n].called, loops[n].subject>> # <<o, s>>

MayDestroy(o) ==
  Careful => \A n \in DOMAIN loops : o \notin {loops[n].called, loops[n].subject}

-----------------------------------------------------------------------------

(* The constructors; a copy starts without subjects and observers.           *)
Create(o) ==
  /\ o \notin alive
  /\ alive' = alive \cup {o}
  /\ observers' = [observers EXCEPT ![o] = <<>>]
  /\ subjects' = [subjects EXCEPT ![o] = <<>>]
  /\ UNCHANGED loops

(* Mistake to be noticed: the newcomer is put in front. *)
ObserveInFront(o, s) ==
  /\ {o, s} \subseteq alive
  /\ Registrations < MaxLength
  /\ observers' = [observers EXCEPT ![s] = <<o>> \o @]
  /\ subjects' = [subjects EXCEPT ![o] = Append(@, s)]
  /\ loops' = [n \in DOMAIN loops |->
                 IF loops[n].subject = s /\ loops[n].at # 0
                   THEN [loops[n] EXCEPT !.at = @ + 1] ELSE loops[n]]
  /\ UNCHANGED alive

Observe(o, s) ==
  /\ {o, s} \subseteq alive
  /\ Registrations < MaxLength
  /\ observers' = [observers EXCEPT ![s] = Append(@, o)]
  /\ subjects' = [subjects EXCEPT ![o] = Append(@, s)]
  /\ UNCHANGED <<alive, loops>>

(* Mistake: the subject forgets everybody. *)
ForgetAll(o, s) ==
  /\ {o, s} \subseteq alive /\ MayForget(o, s)
  /\ o \in ToSet(observers[s])
  /\ observers' = [observers EXCEPT ![s] = <<>>]
  /\ subjects' = [subjects EXCEPT ![o] = Without(@, s)]
  /\ loops' = LoopsWithout(o, {s})
  /\ UNCHANGED alive

Forget(o, s) ==
  /\ {o, s} \subseteq alive /\ MayForget(o, s)
  /\ o \in ToSet(observers[s])
  /\ observers' = [observers EXCEPT ![s] = Without(@, o)]
  /\ subjects' = [subjects EXCEPT ![o] = Without(@, s)]
  /\ loops' = LoopsWithout(o, {s})
  /\ UNCHANGED alive

(* Mistake: the destructor of the observer leaves the subjects' lists alone. *)
LeaveSubjectsNot(o) == observers

(* ~GltObserverAbstract, which goes by the list of the observer itself.      *)
LeaveSubjects(o) ==
  [s \in Objects |-> IF s \in ToSet(subjects[o]) THEN Without(observers[s], o)
                     ELSE observers[s]]

(* ~GltSubject in the same way.                                              *)
LeaveObservers(s) ==
  [o \in Objects |-> IF o \in ToSet(observers[s]) THEN Without(subjects[o], s)
                     ELSE subjects[o]]

Destroy(o) ==
  /\ o \in alive /\ MayDestroy(o)
  /\ alive' = alive \ {o}
  /\ observers' = [LeaveSubjects(o) EXCEPT ![o] = <<>>]
  /\ subjects' = [LeaveObservers(o) EXCEPT ![o] = <<>>]
  /\ loops' = LET left == LoopsWithout(o, ToSet(subjects[o])) IN
              [n \in DOMAIN left |->
                 [left[n] EXCEPT !.at = IF left[n].subject = o THEN 0 ELSE @,
                                 !.told = @ \ {o}]]

(* The head of the loop of notify(), at position p of the list of s.         *)
Calls(s, p, told) ==
  LET o == observers[s][p] IN
  [subject |-> s, at |-> p, called |-> o, told |-> told \cup {o}]

Notify(s) ==
  /\ s \in alive
  /\ Len(loops) < MaxDepth
  /\ observers[s] # <<>>
  /\ loops' = <<Calls(s, 1, {})>> \o loops
  /\ UNCHANGED <<alive, observers, subjects>>

(* OnNotify returns and the loop goes on to the next node ...                *)
NotifyNext ==
  /\ loops # <<>>
  /\ LET l == Head(loops) IN
     /\ l.at # 0
     /\ l.at < Len(observers[l.subject])
     /\ loops' = <<Calls(l.subject, l.at + 1, l.told)>> \o Tail(loops)
  /\ UNCHANGED <<alive, observers, subjects>>

(* ... or ends at the end of the list.                                       *)
NotifyEnd ==
  /\ loops # <<>>
  /\ Head(loops).at # 0
  /\ Head(loops).at = Len(observers[Head(loops).subject])
  /\ loops' = Tail(loops)
  /\ UNCHANGED <<alive, observers, subjects>>

-----------------------------------------------------------------------------

Init ==
  /\ alive = {}
  /\ observers = [o \in Objects |-> <<>>]
  /\ subjects = [o \in Objects |-> <<>>]
  /\ loops = <<>>

Next ==
  \/ \E o \in Objects : Create(o) \/ Destroy(o) \/ Notify(o)
  \/ \E o, s \in Objects : Observe(o, s) \/ Forget(o, s)
  \/ NotifyNext
  \/ NotifyEnd

Spec == Init /\ [][Next]_vars

-----------------------------------------------------------------------------
(* Properties. *)

TypeOK ==
  /\ alive \subseteq Objects
  /\ observers \in [Objects -> Seq(Objects)]
  /\ subjects \in [Objects -> Seq(Objects)]
  /\ loops \in Seq(Loop)

(* Subject and observer know each other, as often as the one observes the    *)
(* other, and nobody knows an object that was destroyed: whoever dies first, *)
(* and whatever OnNotify does, no list keeps a dangling pointer.             *)
ListsAreMutual ==
  \A o, s \in Objects :
    /\ Times(observers[s], o) = Times(subjects[o], s)
    /\ Times(observers[s], o) > 0 => {o, s} \subseteq alive

(* With careful handlers each loop stands on the node of the observer whose  *)
(* OnNotify is running, however the list has changed under it, so that its   *)
(* next step is defined.                                                     *)
LoopsStandOnTheirObserver ==
  Careful => \A n \in DOMAIN loops :
    LET l == loops[n] IN
    /\ l.at \in DOMAIN observers[l.subject]
    /\ observers[l.subject][l.at] = l.called

(* When notify() is through, every observer registered by then has had       *)
(* OnNotify - those included that were registered meanwhile, by a handler.   *)
NotifyReachesEveryone ==
  [][NotifyEnd => LET l == Head(loops) IN ToSet(observers[l.subject]) \subseteq l.told]_vars

(* The documentation: "It is safe to delete either the subject or observer   *)
(* at any time."  It is not inside OnNotify.                                 *)
SafeToDeleteAnyTime == \A n \in DOMAIN loops : loops[n].at # 0

=============================================================================
