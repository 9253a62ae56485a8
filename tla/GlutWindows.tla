----------------------------- MODULE GlutWindows -----------------------------
(***************************************************************************)
(* The window half of GlutMaster: the database that maps a GLUT window to  *)
(* the list of GlutWindow objects sharing it (the front one owns it), and  *)
(* the queues through which opening and closing are put off to a callback. *)
(*                                                                         *)
(* open(), grab() and close() only queue the object and register a timer   *)
(* of GLUT with no delay; CheckOnOpen and CheckOnClose then call OnOpen and *)
(* OnClose, and CheckOnClose deletes the object.  GLUT does not keep timers *)
(* that are due together in order, so any pending check may run next.      *)
(*                                                                         *)
(* Client code runs between two events (in a handler the library merely    *)
(* forwards to, such as OnKeyboard) and inside OnOpen and OnClose, where   *)
(* the library is in the middle of a loop: windowFrame is where it stands. *)
(* OnClose called from openWindow itself is assumed not to call back.      *)
(***************************************************************************)
EXTENDS Naturals, SequencesExt, ListRemoval, GlutAddresses

CONSTANTS
  Ids,         \* GLUT window identifiers
  NoID,        \* -1
  MaxQueue,    \* bound of the model on each queue and count of callbacks
  MaxObjects,  \* bound on the objects that exist or have just been deleted
  CloseTwice,  \* may close() be called on a window already being closed?
  GrabOver     \* may grab() be called by an open window of another GLUT window?

ASSUME WindowsAssumption ==
  /\ NoID \notin Ids
  /\ MaxQueue \in Nat \ {0}
  /\ MaxObjects \in Nat \ {0}
  /\ CloseTwice \in BOOLEAN
  /\ GrabOver \in BOOLEAN

VARIABLES
  objs,           \* the GlutWindow objects that exist
  windowID,       \* GlutWindow::_windowID
  onOpenPending,  \* GlutWindow::_onOpenPending
  windows,        \* _windows; an absent key has the empty list
  toOpen,         \* _toOpen
  toClose,        \* _toClose
  checks,         \* GLUT: the Check* timers registered and not yet fired
  glutWins,       \* GLUT: the windows that exist
  status,         \* the last of OnOpen and OnClose each object has received
  windowFrame,    \* the library callback in progress
  ended,          \* exit() was called
  windowFault     \* an assertion failed or a deleted object was used

windowObjectVars == <<objs, windowID, onOpenPending, status>>
windowVars == <<objs, windowID, onOpenPending, windows, toOpen, toClose, checks,
                glutWins, status, windowFrame, ended, windowFault>>

-----------------------------------------------------------------------------

Checks == {"open", "close", "shutdown"}

(* "openLoop" and "closeLoop" are the heads of the loops of CheckOnOpen and  *)
(* CheckOnClose; in "open", "display" and "close" a handler runs.  "id" is   *)
(* the local variable of CheckOnClose.                                       *)
WindowFrame == [kind : {"none", "openLoop", "open", "display", "closeLoop",
                        "close"},
                win : Addresses \cup {NULL}, id : Ids \cup {NoID}]

NoWindowFrame == [kind |-> "none", win |-> NULL, id |-> NoID]

At(kind) == [NoWindowFrame EXCEPT !.kind = kind]

Running == ~windowFault /\ ~ended

ClientMayRun ==
  Running /\ windowFrame.kind \in {"none", "open", "display", "close"}

(* Mistake to be noticed: the callback is never registered. *)
ScheduleNot(c) == UNCHANGED checks

Schedule(c) == checks' = [checks EXCEPT ![c] = @ + 1]

Opened == {w \in objs : windowID[w] # NoID}

-----------------------------------------------------------------------------
(* The interface. *)

CreateWindow(w) ==
  /\ ClientMayRun
  /\ w \notin objs
  /\ Cardinality(objs) + checks["shutdown"] < MaxObjects
  /\ objs' = objs \cup {w}
  /\ windowID' = [windowID EXCEPT ![w] = NoID]
  /\ onOpenPending' = [onOpenPending EXCEPT ![w] = TRUE]
  /\ status' = [status EXCEPT ![w] = "new"]
  /\ UNCHANGED <<windows, toOpen, toClose, checks, glutWins, windowFrame,
                 ended, windowFault>>

(* Mistake: the window is put in front without leaving its old place. *)
ToFrontTwice(list, w) == <<w>> \o list

ToFront(list, w) == <<w>> \o Without(list, w)

(* GlutMaster::openWindow for a window whose _windowID is now id, after the  *)
(* GLUT window was made if there was none.                                   *)
OpenWindow(w, id) ==
  /\ Len(toOpen) < MaxQueue
  /\ checks["open"] < MaxQueue
  /\ LET list == windows[id] IN
       \/ /\ list = <<>>
          /\ windows' = [windows EXCEPT ![id] = <<w>>]
          /\ UNCHANGED status
       \/ /\ list # <<>> /\ Head(list) # w
          /\ windows' = [windows EXCEPT ![id] = ToFront(list, w)]
          /\ status' = [status EXCEPT ![Head(list)] = "closed"]
       \/ /\ list # <<>> /\ Head(list) = w
          /\ UNCHANGED <<windows, status>>
  /\ toOpen' = Append(toOpen, w)
  /\ Schedule("open")

Open(w) ==
  /\ ClientMayRun
  /\ w \in objs
  /\ \/ /\ windowID[w] = NoID
        /\ \E id \in Ids \ glutWins :
             /\ windowID' = [windowID EXCEPT ![w] = id]
             /\ glutWins' = glutWins \cup {id}
             /\ OpenWindow(w, id)
     \/ /\ windowID[w] # NoID
        /\ OpenWindow(w, windowID[w])
        /\ UNCHANGED <<windowID, glutWins>>
  /\ UNCHANGED <<objs, onOpenPending, toClose, windowFrame, ended, windowFault>>

Grab(w, from) ==
  /\ ClientMayRun
  /\ w \in objs /\ from \in Opened
  /\ windowID[w] \in {NoID, windowID[from]} \/ GrabOver
  /\ windowID' = [windowID EXCEPT ![w] = windowID[from]]
  /\ OpenWindow(w, windowID[from])
  /\ UNCHANGED <<objs, onOpenPending, toClose, glutWins, windowFrame, ended,
                 windowFault>>

Close(w) ==
  /\ ClientMayRun
  /\ w \in Opened
  /\ Len(toClose) < MaxQueue /\ checks["close"] < MaxQueue
  /\ w \in ToSet(toClose) => CloseTwice
  /\ toClose' = Append(toClose, w)
  /\ Schedule("close")
  /\ UNCHANGED <<windowObjectVars, windows, toOpen, glutWins, windowFrame,
                 ended, windowFault>>

-----------------------------------------------------------------------------
(* Callbacks from GLUT. *)

Fire(c) ==
  /\ Running
  /\ windowFrame.kind = "none"
  /\ checks[c] > 0
  /\ checks' = [checks EXCEPT ![c] = @ - 1]

FireCheckOnOpen ==
  /\ Fire("open")
  /\ windowFrame' = At("openLoop")
  /\ UNCHANGED <<windowObjectVars, windows, toOpen, toClose, glutWins, ended,
                 windowFault>>

(* The loop takes the first window, or ends. *)
OpenNext ==
  /\ Running
  /\ windowFrame.kind = "openLoop"
  /\ toOpen # <<>> => Head(toOpen) \in objs
  /\ \/ /\ toOpen = <<>>
        /\ windowFrame' = NoWindowFrame
        /\ UNCHANGED <<toOpen, status>>
     \/ /\ toOpen # <<>> /\ onOpenPending[Head(toOpen)]
        /\ windowFrame' = [At("open") EXCEPT !.win = Head(toOpen)]
        /\ status' = [status EXCEPT ![Head(toOpen)] = "open"]
        /\ UNCHANGED toOpen
     \/ /\ toOpen # <<>> /\ ~onOpenPending[Head(toOpen)]
        /\ toOpen' = Tail(toOpen)
        /\ UNCHANGED <<windowFrame, status>>
  /\ UNCHANGED <<objs, windowID, onOpenPending, windows, toClose, checks,
                 glutWins, ended, windowFault>>

OpenReturn ==
  /\ Running
  /\ windowFrame.kind = "open"
  /\ onOpenPending' = [onOpenPending EXCEPT ![windowFrame.win] = FALSE]
  /\ toOpen' = Tail(toOpen)
  /\ windowFrame' = At("openLoop")
  /\ UNCHANGED <<objs, windowID, status, windows, toClose, checks, glutWins,
                 ended, windowFault>>

FireCheckOnClose ==
  /\ Fire("close")
  /\ windowFrame' = At("closeLoop")
  /\ UNCHANGED <<windowObjectVars, windows, toOpen, toClose, glutWins, ended,
                 windowFault>>

CloseNext ==
  /\ Running
  /\ windowFrame.kind = "closeLoop"
  /\ \/ /\ toClose = <<>>
        /\ windowFrame' = NoWindowFrame
        /\ UNCHANGED status
     \/ /\ toClose # <<>>
        /\ Head(toClose) \in objs
        /\ windowFrame' = [kind |-> "close", win |-> Head(toClose),
                           id |-> windowID[Head(toClose)]]
        /\ status' = [status EXCEPT ![Head(toClose)] = "closed"]
  /\ UNCHANGED <<objs, windowID, onOpenPending, windows, toOpen, toClose, checks,
                 glutWins, ended, windowFault>>

(* Where CheckOnClose finds, after OnClose, the window it is closing. *)
InDatabase(w, id) == id \in Ids /\ w \in ToSet(windows[id])

(* Mistake: a window being deleted stays in the queue of OnOpen. *)
ForgetNot(queue, w) == queue

(* "Prevent the window from receiving OnOpen event". *)
Forget(queue, w) == Without(queue, w)

(* The rest of the loop's body: the object leaves the database and is        *)
(* deleted; the last owner takes the GLUT window with it, an owner that was   *)
(* in front of others wakes the next.                                        *)
CloseReturn ==
  LET w    == windowFrame.win
      id   == windowFrame.id
      rest == Without(windows[id], w)
  IN
  /\ Running
  /\ windowFrame.kind = "close"
  /\ InDatabase(w, id)
  /\ objs' = objs \ {w}
  /\ windowID' = [windowID EXCEPT ![w] = NoID]
  /\ onOpenPending' = [onOpenPending EXCEPT ![w] = FALSE]
  /\ status' = [status EXCEPT ![w] = "new"]
  /\ toClose' = Tail(toClose)
  /\ windows' = [windows EXCEPT ![id] = rest]
  /\ glutWins' = IF rest = <<>> THEN glutWins \ {id} ELSE glutWins
  /\ LET woken == IF rest # <<>> /\ Head(windows[id]) = w
                    THEN Append(toOpen, Head(rest)) ELSE toOpen
     IN  toOpen' = Forget(woken, w)
  /\ Schedule("shutdown")
  /\ windowFrame' = At("closeLoop")
  /\ UNCHANGED <<ended, windowFault>>

(* The loops reach a deleted object, or CheckOnClose fails its assertions.   *)
LoopFault ==
  /\ Running
  /\ \/ /\ windowFrame.kind = "openLoop"
        /\ toOpen # <<>> /\ Head(toOpen) \notin objs
     \/ /\ windowFrame.kind = "closeLoop"
        /\ toClose # <<>> /\ Head(toClose) \notin objs
     \/ /\ windowFrame.kind = "close"
        /\ ~InDatabase(windowFrame.win, windowFrame.id)
  /\ windowFault' = TRUE
  /\ UNCHANGED <<windowObjectVars, windows, toOpen, toClose, checks, glutWins,
                 windowFrame, ended>>

FireCheckShutdown ==
  /\ Fire("shutdown")
  /\ ended' = (\A id \in Ids : windows[id] = <<>>)
  /\ UNCHANGED <<windowObjectVars, windows, toOpen, toClose, glutWins,
                 windowFrame, windowFault>>

(* A display event reaches the front window, which is opened first if the    *)
(* event is ahead of CheckOnOpen.                                            *)
FireDisplay(id) ==
  /\ Running
  /\ windowFrame.kind = "none"
  /\ id \in glutWins
  /\ windows[id] # <<>> /\ Head(windows[id]) \in objs
  /\ onOpenPending[Head(windows[id])]
  /\ windowFrame' = [At("display") EXCEPT !.win = Head(windows[id])]
  /\ status' = [status EXCEPT ![Head(windows[id])] = "open"]
  /\ UNCHANGED <<objs, windowID, onOpenPending, windows, toOpen, toClose, checks,
                 glutWins, ended, windowFault>>

DisplayReturn ==
  /\ Running
  /\ windowFrame.kind = "display"
  /\ onOpenPending' = [onOpenPending EXCEPT ![windowFrame.win] = FALSE]
  /\ windowFrame' = NoWindowFrame
  /\ UNCHANGED <<objs, windowID, status, windows, toOpen, toClose, checks,
                 glutWins, ended, windowFault>>

(* No owner for the GLUT window: the assertion on window in OnDisplay and in *)
(* every handler that forwards an event fails.                               *)
DisplayFault(id) ==
  /\ Running
  /\ windowFrame.kind = "none"
  /\ id \in glutWins
  /\ windows[id] = <<>> \/ Head(windows[id]) \notin objs
  /\ windowFault' = TRUE
  /\ UNCHANGED <<windowObjectVars, windows, toOpen, toClose, checks, glutWins,
                 windowFrame, ended>>

-----------------------------------------------------------------------------

WindowInit ==
  /\ objs = {}
  /\ windowID = [w \in Addresses |-> NoID]
  /\ onOpenPending = [w \in Addresses |-> FALSE]
  /\ windows = [id \in Ids |-> <<>>]
  /\ toOpen = <<>>
  /\ toClose = <<>>
  /\ checks = [c \in Checks |-> 0]
  /\ glutWins = {}
  /\ status = [w \in Addresses |-> "new"]
  /\ windowFrame = NoWindowFrame
  /\ ended = FALSE
  /\ windowFault = FALSE

WindowClient ==
  \/ \E w \in Addresses : CreateWindow(w) \/ Open(w) \/ Close(w)
  \/ \E w, from \in Addresses : Grab(w, from)

Step ==
  \/ OpenNext
  \/ OpenReturn
  \/ CloseNext
  \/ CloseReturn
  \/ LoopFault
  \/ DisplayReturn

WindowNext ==
  \/ WindowClient
  \/ FireCheckOnOpen
  \/ FireCheckOnClose
  \/ FireCheckShutdown
  \/ \E id \in Ids : FireDisplay(id) \/ DisplayFault(id)
  \/ Step

WindowSpec == WindowInit /\ [][WindowNext]_windowVars

(* Every timer of GLUT fires in its turn, and the handlers return. *)
WindowFairness ==
  /\ SF_windowVars(FireCheckOnOpen)
  /\ SF_windowVars(FireCheckOnClose)
  /\ SF_windowVars(FireCheckShutdown)
  /\ WF_windowVars(Step)

WindowFairSpec == WindowSpec /\ WindowFairness

-----------------------------------------------------------------------------
(* Properties. *)

WindowTypeOK ==
  /\ objs \subseteq Addresses
  /\ windowID \in [Addresses -> Ids \cup {NoID}]
  /\ onOpenPending \in [Addresses -> BOOLEAN]
  /\ windows \in [Ids -> Seq(Addresses)]
  /\ toOpen \in Seq(Addresses)
  /\ toClose \in Seq(Addresses)
  /\ checks \in [Checks -> Nat]
  /\ glutWins \subseteq Ids
  /\ status \in [Addresses -> {"new", "open", "closed"}]
  /\ windowFrame \in WindowFrame
  /\ ended \in BOOLEAN
  /\ windowFault \in BOOLEAN

(* The database and the objects agree: a list holds, without repetition, the *)
(* objects that carry its identifier, and GLUT has a window for every list   *)
(* that is not empty and for no other.                                       *)
DatabaseConsistent ==
  \A id \in Ids :
    /\ ToSet(windows[id]) = {w \in objs : windowID[w] = id}
    /\ \A p, q \in DOMAIN windows[id] : windows[id][p] = windows[id][q] => p = q
    /\ id \in glutWins <=> windows[id] # <<>>

(* Nobody waits to be opened or closed who is deleted or was never opened.   *)
QueuesAreLive == ToSet(toOpen) \cup ToSet(toClose) \subseteq Opened

(* As long as a window waits to be deleted, or for its first OnOpen, the     *)
(* check that will serve it is registered with GLUT or running.  It says     *)
(* nothing of a window that has had its OnOpen and is queued again: one that *)
(* CheckOnClose wakes has no check registered for it.  For the shutdown see  *)
(* ProgramEnds.                                                              *)
NobodyIsForgotten ==
  /\ toClose # <<>>
       => checks["close"] > 0 \/ windowFrame.kind \in {"close", "closeLoop"}
  /\ (\E w \in ToSet(toOpen) : onOpenPending[w])
       => checks["open"] > 0 \/ windowFrame.kind \in {"open", "openLoop"}

(* With each window closed once, CheckOnClose and the display callback never *)
(* fail an assertion or reach a deleted window.                              *)
NoWindowFault == ~windowFault

(* The front owner of a GLUT window, the one that receives its events, was   *)
(* told OnOpen last, or will be before the next display.                     *)
FrontIsOpen ==
  windowFrame.kind = "none" =>
    \A id \in Ids : windows[id] # <<>> =>
      LET w == Head(windows[id]) IN onOpenPending[w] \/ status[w] = "open"

(* A window that is opened for the first time receives OnOpen, whether by    *)
(* open() or grab(), unless it is closed or the program ends first.  The     *)
(* documentation promises as much of every open() and grab(); the code calls *)
(* OnOpen but once, and a window opened again, or woken, is left out: that   *)
(* is FrontIsOpen, which does not hold.                                      *)
FirstOpenIsServed ==
  \A w \in Addresses :
    (w \in Opened /\ onOpenPending[w]) ~> (~onOpenPending[w] \/ ~Running)

(* A closed window is deleted in the end. *)
CloseIsServed ==
  \A w \in Addresses :
    (w \in ToSet(toClose)) ~> (w \notin objs \/ ~Running)

(* The program ends when the last windows are being closed and no other is   *)
(* opened meanwhile, unless a grab() has left the database inconsistent.      *)
StillOpen == Opened \ ToSet(toClose)

ProgramEnds ==
  (toClose # <<>> /\ StillOpen = {})
    ~> (StillOpen # {} \/ ~Running \/ ~DatabaseConsistent)

=============================================================================
