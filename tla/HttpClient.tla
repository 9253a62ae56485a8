----------------------------- MODULE HttpClient -----------------------------
(***************************************************************************)
(* GltHttpClient: a thread fetches a page again and again and leaves the   *)
(* answer in _buffer, from where OnTick, on the thread of GLUT, passes it  *)
(* to OnReceive.  A mutex guards _buffer; _enable, _url, _shutdown and     *)
(* _relaxTime are read and written without one.  One action is one access  *)
(* to what the threads share.                                              *)
(*                                                                         *)
(* The thread is started by the constructor of the member _thread, before  *)
(* _shutdown and _relaxTime are initialised: what it reads there until     *)
(* then is whatever the memory held ("Leftover").                          *)
(*                                                                         *)
(* Abstractions: an answer is fresh, or has been passed to OnReceive       *)
(* before; a relax time is finite or, as an int, negative: for ever.  The  *)
(* HTTP server and the thread library are external.                        *)
(***************************************************************************)
EXTENDS Naturals

CONSTANTS
  Leftover,    \* the [shutdown, relax] that the object's memory may hold
  Toggles,     \* may the application clear _enable while the thread runs?
  SelfDestroy  \* may OnReceive destroy the client?

ASSUME HttpAssumption ==
  /\ Leftover \subseteq [shutdown : BOOLEAN, relax : {"finite", "forever"}]
  /\ Toggles \in BOOLEAN
  /\ SelfDestroy \in BOOLEAN

VARIABLES
  main,       \* where the thread of GLUT is
  worker,     \* where GltHttpClientThread::execute is
  enable,     \* _enable
  url,        \* is _url set?
  buffer,     \* _buffer
  mutex,      \* _mutex: who holds it
  shutdown,   \* _shutdown
  relax,      \* _relaxTime
  connected,  \* GltSocket::_connected
  sem         \* thread::relaxsem, the semaphore that relax() waits for

vars == <<main, worker, enable, url, buffer, mutex, shutdown, relax, connected,
          sem>>

config == <<enable, url>>
life   == <<shutdown, relax, sem>>
data   == <<buffer, mutex>>

-----------------------------------------------------------------------------
(* The assertion after connect(): _enable is read again by connected().      *)

AssertionFails == worker = "assert" /\ ~enable

Runs(pc) == main = pc /\ ~AssertionFails

Main(from, to) == Runs(from) /\ main' = to

Worker(from, to) == worker = from /\ ~AssertionFails /\ worker' = to

(* Mistake to be noticed: the answer is stored without the lock. *)
LocksNot(who) == UNCHANGED mutex

Locks(who) == mutex = "free" /\ mutex' = who

Unlocks == mutex' = "free"

-----------------------------------------------------------------------------
(* The thread of GLUT. *)

(* The constructor up to the member _thread, which starts the thread ...     *)
Construct ==
  /\ Main("unborn", "shutdownUnset")
  /\ worker' = "loop"
  /\ UNCHANGED <<config, data, life, connected>>

(* ... then _shutdown and _relaxTime.                                        *)
SetShutdown ==
  /\ Main("shutdownUnset", "relaxUnset")
  /\ shutdown' = FALSE
  /\ UNCHANGED <<worker, config, data, relax, sem, connected>>

SetRelax ==
  /\ Main("relaxUnset", "idle")
  /\ relax' = "finite"
  /\ UNCHANGED <<worker, config, data, shutdown, sem, connected>>

(* The application, in any handler of its own.                               *)
SetEnable(e) ==
  /\ Runs("idle") \/ Runs("handler")
  /\ e \/ Toggles
  /\ enable' = e
  /\ UNCHANGED <<main, worker, url, data, life, connected>>

SetUrl(u) ==
  /\ Runs("idle") \/ Runs("handler")
  /\ url' = u
  /\ UNCHANGED <<main, worker, enable, data, life, connected>>

OnTick ==
  /\ Main("idle", "locking")
  /\ UNCHANGED <<worker, config, data, life, connected>>

(* Mistake: an answer is passed on only while its connection is open. *)
OnTickLocksConnected ==
  /\ Runs("locking")
  /\ Locks("main")
  /\ main' = IF enable /\ connected /\ buffer # "empty" THEN "handler" ELSE "clearing"
  /\ UNCHANGED <<worker, config, buffer, life, connected>>

OnTickLocks ==
  /\ Runs("locking")
  /\ Locks("main")
  /\ main' = IF enable /\ buffer # "empty" THEN "handler" ELSE "clearing"
  /\ UNCHANGED <<worker, config, buffer, life, connected>>

(* OnReceive returns.  (It had a reference to _buffer: an answer still there *)
(* is not fresh any more.)                                                   *)
OnReceiveReturns ==
  /\ Main("handler", "clearing")
  /\ buffer' = "passed"
  /\ UNCHANGED <<worker, config, mutex, life, connected>>

OnTickEnds ==
  /\ Main("clearing", "idle")
  /\ buffer' = "empty"
  /\ Unlocks
  /\ UNCHANGED <<worker, config, life, connected>>

(* ~GltHttpClientThread, which runs first among the members' destructors.    *)
Destroy ==
  /\ \E from \in {"idle"} \cup (IF SelfDestroy THEN {"handler"} ELSE {}) :
       Main(from, "signalling")
  /\ shutdown' = TRUE
  /\ UNCHANGED <<worker, config, data, relax, sem, connected>>

(* Mistake: the thread is not woken. *)
SignalNot ==
  /\ Main("signalling", "waiting")
  /\ UNCHANGED <<worker, config, data, life, connected>>

Signal ==
  /\ Main("signalling", "waiting")
  /\ sem' = sem + 1
  /\ UNCHANGED <<worker, config, data, shutdown, relax, connected>>

WaitFor ==
  /\ Main("waiting", "dead")
  /\ worker = "finished"
  /\ UNCHANGED <<worker, config, data, life, connected>>

-----------------------------------------------------------------------------
(* The thread: execute() and what it calls. *)

Loop ==
  /\ Worker("loop", IF shutdown THEN "finished" ELSE "check")
  /\ UNCHANGED <<main, config, data, life, connected>>

Check ==
  /\ Worker("check", IF enable /\ url THEN "connect" ELSE "relax")
  /\ UNCHANGED <<main, config, data, life, connected>>

(* connect() reads _enable, ...                                              *)
Connect ==
  /\ Worker("connect", IF enable THEN "reconnect" ELSE "use")
  /\ UNCHANGED <<main, config, data, life, connected>>

(* ... and connected() reads it again: if it has been cleared, a socket that *)
(* is open is replaced and connected once more.  A name that is not found    *)
(* leaves _connected as it was, a server that refuses clears it.             *)
Reconnect ==
  /\ \/ Worker("reconnect", "use") /\ enable /\ connected
        /\ UNCHANGED connected
     \/ Worker("reconnect", "use") /\ ~(enable /\ connected)
        /\ connected' \in {connected, FALSE}
     \/ Worker("reconnect", "assert") /\ ~(enable /\ connected)
        /\ connected' = TRUE
  /\ UNCHANGED <<main, config, data, life>>

AssertConnected ==
  /\ Worker("assert", "use")
  /\ UNCHANGED <<main, config, data, life, connected>>

Use ==
  /\ Worker("use", IF enable /\ connected THEN "receive" ELSE "relax")
  /\ UNCHANGED <<main, config, data, life, connected>>

Receive ==
  /\ Worker("receive", IF enable THEN "fetch" ELSE "relax")
  /\ UNCHANGED <<main, config, data, life, connected>>

(* The server closes the connection, with an answer or without.              *)
Fetch ==
  /\ Worker("fetch", "store") \/ Worker("fetch", "relax")
  /\ connected' = FALSE
  /\ UNCHANGED <<main, config, data, life>>

StoreLocks ==
  /\ Worker("store", "storing")
  /\ Locks("worker")
  /\ UNCHANGED <<main, config, buffer, life, connected>>

StoreAnswer ==
  /\ Worker("storing", "stored")
  /\ buffer' = "fresh"
  /\ UNCHANGED <<main, config, mutex, life, connected>>

StoreUnlocks ==
  /\ Worker("stored", "relax")
  /\ Unlocks
  /\ UNCHANGED <<main, config, buffer, life, connected>>

(* relax(_client._relaxTime): until the semaphore is there, or the time that *)
(* was read at the call is over.                                             *)
Relax ==
  /\ Worker("relax", IF relax = "finite" THEN "relaxing" ELSE "sleeping")
  /\ UNCHANGED <<main, config, data, life, connected>>

RelaxEnds ==
  /\ \/ /\ Worker("relaxing", "loop") \/ Worker("sleeping", "loop")
        /\ sem > 0 /\ sem' = sem - 1
     \/ Worker("relaxing", "loop") /\ sem = 0 /\ UNCHANGED sem
  /\ UNCHANGED <<main, config, data, shutdown, relax, connected>>

-----------------------------------------------------------------------------

Init ==
  /\ main = "unborn" /\ worker = "none"
  /\ enable = FALSE /\ url = FALSE
  /\ buffer = "empty" /\ mutex = "free"
  /\ \E l \in Leftover : shutdown = l.shutdown /\ relax = l.relax
  /\ connected = FALSE
  /\ sem = 0

Library ==
  \/ Construct \/ SetShutdown \/ SetRelax
  \/ OnTickLocks \/ OnReceiveReturns \/ OnTickEnds
  \/ Signal \/ WaitFor

Thread ==
  \/ Loop \/ Check \/ Connect \/ Reconnect \/ AssertConnected
  \/ Use \/ Receive
  \/ StoreLocks \/ StoreAnswer \/ StoreUnlocks
  \/ Relax \/ RelaxEnds

Next ==
  \/ Library
  \/ OnTick
  \/ Destroy
  \/ \E b \in BOOLEAN : SetEnable(b) \/ SetUrl(b)
  \/ Thread
  \/ Fetch

Spec == Init /\ [][Next]_vars

(* Both threads run, GLUT calls OnTick, the server comes to an end, and a    *)
(* mutex that is free again and again is got.                                *)
Fairness ==
  /\ WF_vars(Library) /\ SF_vars(OnTickLocks)
  /\ WF_vars(Thread) /\ SF_vars(StoreLocks)
  /\ WF_vars(OnTick)
  /\ WF_vars(Fetch)

FairSpec == Spec /\ Fairness

-----------------------------------------------------------------------------
(* Properties. *)

TypeOK ==
  /\ main \in {"unborn", "shutdownUnset", "relaxUnset", "idle", "locking",
               "handler", "clearing", "signalling", "waiting", "dead"}
  /\ worker \in {"none", "loop", "check", "connect", "reconnect", "assert", "use",
                 "receive", "fetch", "store", "storing", "stored", "relax", "relaxing",
                 "sleeping", "finished"}
  /\ enable \in BOOLEAN /\ url \in BOOLEAN
  /\ buffer \in {"empty", "fresh", "passed"}
  /\ mutex \in {"free", "main", "worker"}
  /\ shutdown \in BOOLEAN /\ relax \in {"finite", "forever"}
  /\ connected \in BOOLEAN
  /\ sem \in Nat

(* OnReceive works on _buffer itself, by reference: while it runs the thread *)
(* does not write there, and the answer is one that was not passed before.   *)
HandlerHasAFreshAnswer ==
  main = "handler" => buffer = "fresh" /\ worker \notin {"storing", "stored"}

Stopping == main \in {"signalling", "waiting", "dead"} \/ AssertionFails

(* The destructor returns: the wake-up is not lost, whatever the thread is   *)
(* doing, even if _relaxTime says for ever.                                  *)
DestructorReturns == main = "waiting" ~> (main = "dead" \/ AssertionFails)

(* While an answer waits, OnReceive is on its way to it, or to a newer one   *)
(* that has overwritten it, unless the client is disabled or destroyed       *)
(* first: the latest answer arrives.  That each one arrives is not so, see   *)
(* the next property.                                                        *)
LatestAnswerArrives ==
  (buffer = "fresh" /\ enable) ~> (main = "handler" \/ ~enable \/ Stopping)

(* Every answer is passed on, none is overwritten: the thread does not look  *)
(* whether OnTick has taken the last one before it stores the next (144).    *)
NoAnswerOverwritten ==
  [][worker = "storing" /\ worker' = "stored" => buffer # "fresh"]_vars

=============================================================================
