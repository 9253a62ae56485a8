----------------------------- MODULE GlutMaster ------------------------------
(***************************************************************************)
(* GlutMaster as a whole.  Every GlutWindow is a GlutTimer, so the two      *)
(* halves meet: openWindow initialises GLUT and arms the tick of the window *)
(* it opens, CheckOnOpen arms it again, CheckOnClose destroys the timer with *)
(* the window, and mouse motion is held back until the window's next timer  *)
(* callback.                                                               *)
(*                                                                         *)
(* There is one thread: while a handler of either half runs, GLUT starts no *)
(* other callback, but the handler may call both interfaces.  Windows are   *)
(* deleted only by CheckOnClose.                                            *)
(***************************************************************************)
EXTENDS GlutTimer, GlutWindows

(* What clients have to keep to, for the code does not stand the rest: OnTick *)
(* arms no other timer, no handler destroys an object itself, each window is  *)
(* closed once, and grab() keeps to windows that are not open or share the    *)
(* GLUT window already.                                                      *)
Disciplined == ~TickArms /\ ~SelfDestroy /\ ~CloseTwice /\ ~GrabOver

VARIABLE mouseEvents   \* GlutWindow::_mouseEvents

masterVars == <<timerVars, windowVars, mouseEvents>>

MasterRunning == Running /\ ~timerFault

(* The library runs no code of its own between two events or in a handler.  *)
MasterMayRun == ClientMayRun /\ ~timerFault

Quiet == timerFrame.kind = "none" /\ windowFrame.kind = "none"

-----------------------------------------------------------------------------
(* The interface. *)

(* main() initialises GLUT, unless a window opened in GlutMain() has. *)
MasterInitGlut ==
  /\ MasterMayRun
  /\ InitGlut
  /\ UNCHANGED <<windowVars, mouseEvents>>

MasterCreate(w) ==
  /\ MasterMayRun
  /\ CreateTimer(w)
  /\ CreateWindow(w)
  /\ mouseEvents' = [mouseEvents EXCEPT ![w] = FALSE]

(* setTick(_tick), which openWindow and CheckOnOpen call. *)
Rearm(w) == ArmTick(w, tick[w]) /\ UNCHANGED idleFunc

(* What openWindow does to the timers: init(), the idle callback that is     *)
(* withdrawn along with the registrations for a new GLUT window, setTick().  *)
OpenTimers(w) ==
  \/ /\ windowID[w] = NoID /\ ~glutInit
     /\ InitTicks
     /\ idleFunc' = FALSE
  \/ /\ windowID[w] = NoID /\ glutInit
     /\ ArmTick(w, tick[w])
     /\ idleFunc' = FALSE
  \/ /\ windowID[w] # NoID
     /\ Rearm(w)

MasterOpen(w) ==
  /\ MasterMayRun
  /\ Open(w)
  /\ OpenTimers(w)
  /\ UNCHANGED mouseEvents

(* A grabbed GLUT window is in the database already. *)
MasterGrab(w, from) ==
  /\ MasterMayRun
  /\ Grab(w, from)
  /\ Rearm(w)
  /\ UNCHANGED mouseEvents

(* Mistake to be noticed: close() destroys the timer of the window at once. *)
CloseAtOnce(w) ==
  /\ MasterMayRun
  /\ Close(w)
  /\ \E p \in DOMAIN timerList : timerList[p] = w /\ DestroyAt(p)
  /\ UNCHANGED mouseEvents

MasterClose(w) ==
  /\ MasterMayRun
  /\ Close(w)
  /\ UNCHANGED <<timerVars, mouseEvents>>

MasterSetTick(w, on) ==
  /\ MasterMayRun
  /\ SetTick(w, on)
  /\ UNCHANGED <<windowVars, mouseEvents>>

MasterSetTimer(w, v) ==
  /\ MasterMayRun
  /\ SetTimer(w, v)
  /\ UNCHANGED <<windowVars, mouseEvents>>

MasterSetIdle(w, on) ==
  /\ MasterMayRun
  /\ SetIdle(w, on)
  /\ UNCHANGED <<windowVars, mouseEvents>>

-----------------------------------------------------------------------------
(* Callbacks from GLUT. *)

(* Mistake: all motion is held back. *)
HoldsMotionAlways(w) == TRUE

HoldsMotion(w) == tick[w]

(* GlutMaster::OnMotion: motion is held back while the front window ticks.   *)
Motion(id) ==
  /\ MasterRunning /\ Quiet
  /\ id \in glutWins
  /\ windows[id] # <<>>
  /\ LET w == Head(windows[id]) IN
       /\ HoldsMotion(w)
       /\ mouseEvents' = [mouseEvents EXCEPT ![w] = TRUE]
  /\ UNCHANGED <<timerVars, windowVars>>

(* timerCallback calls OnPreTimer first, which delivers the motion held back. *)
MasterFireTimer(i) ==
  /\ MasterRunning /\ Quiet
  /\ FireTimer(i)
  /\ LET w == timerFrame'.target IN
       mouseEvents' = IF w # NULL /\ windowID[w] # NoID
                        THEN [mouseEvents EXCEPT ![w] = FALSE] ELSE mouseEvents
  /\ UNCHANGED windowVars

MasterFireIdle ==
  /\ MasterRunning /\ Quiet
  /\ FireIdle
  /\ UNCHANGED <<windowVars, mouseEvents>>

MasterTimerReturn ==
  /\ MasterRunning
  /\ Return
  /\ UNCHANGED <<windowVars, mouseEvents>>

(* The Check* timers and OnDisplay up to the first handler. *)
FireWindows ==
  /\ MasterRunning /\ Quiet
  /\ \/ FireCheckOnOpen
     \/ FireCheckOnClose
     \/ FireCheckShutdown
     \/ \E id \in Ids : FireDisplay(id) \/ DisplayFault(id)
  /\ UNCHANGED <<timerVars, mouseEvents>>

(* CheckOnOpen leaves a window by setTick(), whether OnOpen was called or not. *)
OpenStep ==
  /\ MasterRunning
  /\ \/ /\ OpenReturn
        /\ Rearm(windowFrame.win)
     \/ /\ OpenNext
        /\ IF toOpen' # toOpen
             THEN Rearm(Head(toOpen))
             ELSE UNCHANGED timerVars
  /\ UNCHANGED mouseEvents

(* Mistake: the timer of the window is not destroyed. *)
CloseReturnLeaves ==
  /\ MasterRunning
  /\ CloseReturn
  /\ UNCHANGED <<timerVars, mouseEvents>>

MasterCloseReturn ==
  /\ MasterRunning
  /\ CloseReturn
  /\ \E p \in DOMAIN timerList :
       timerList[p] = windowFrame.win /\ DestroyAt(p)
  /\ mouseEvents' = [mouseEvents EXCEPT ![windowFrame.win] = FALSE]

WindowStep ==
  \/ OpenStep
  \/ MasterCloseReturn
  \/ /\ MasterRunning
     /\ CloseNext \/ LoopFault \/ DisplayReturn
     /\ UNCHANGED <<timerVars, mouseEvents>>

-----------------------------------------------------------------------------

Init ==
  /\ TimerInit
  /\ WindowInit
  /\ mouseEvents = [w \in Addresses |-> FALSE]

Client ==
  \/ MasterInitGlut
  \/ \E w \in Addresses : MasterCreate(w) \/ MasterOpen(w) \/ MasterClose(w)
  \/ \E w, from \in Addresses : MasterGrab(w, from)
  \/ \E w \in Addresses, on \in BOOLEAN : MasterSetTick(w, on) \/ MasterSetIdle(w, on)
  \/ \E w \in Addresses, v \in Vals : MasterSetTimer(w, v)

Next ==
  \/ Client
  \/ \E id \in Ids : Motion(id)
  \/ \E i \in 1..MaxSlots : MasterFireTimer(i)
  \/ MasterFireIdle
  \/ MasterTimerReturn
  \/ FireWindows
  \/ WindowStep

Spec == Init /\ [][Next]_masterVars

-----------------------------------------------------------------------------
(* Properties. *)

(* Deleting windows only from CheckOnClose keeps the handlers on the stack   *)
(* safe: if the clients are Disciplined, no close(), even from OnTick or     *)
(* OnIdle, makes a callback touch an object that is gone.                    *)
NoFault == ~timerFault /\ ~windowFault

(* Whoever may still be called back exists: the objects of the timer list    *)
(* are the living windows, and those of the slots, of the database and of    *)
(* the queues of OnOpen and OnClose are among them; so is the one whose      *)
(* handler runs, to which the library comes back when it returns.            *)
CallbacksHaveObjects ==
  /\ Alive = objs
  /\ \A i \in DOMAIN slots : slots[i].target \in objs \cup {NULL}
  /\ \A id \in Ids : ToSet(windows[id]) \subseteq objs
  /\ ToSet(toOpen) \cup ToSet(toClose) \subseteq objs
  /\ timerFrame.kind \in {"tick", "idle"} => timerFrame.target \in objs
  /\ windowFrame.kind \in {"open", "display", "close"} => windowFrame.win \in objs

(* Motion held back always has a timer callback coming to deliver it: even   *)
(* when the tick is switched off meanwhile, one tick is still under way.     *)
HeldMotionHasATick ==
  \A w \in Addresses : mouseEvents[w] => w \in objs /\ tickPending[w]

(* The documentation of setIdle: an idle object receives OnIdle events       *)
(* continuously, so GLUT has the idle callback as long as there is one.      *)
IdleIsRegistered ==
  glutInit /\ (\E w \in objs : idle[w]) => idleFunc

=============================================================================
