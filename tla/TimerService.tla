---------------------------- MODULE TimerService ----------------------------
(***************************************************************************)
(* What the timer half of GlutMaster promises its clients, with neither    *)
(* slots nor GLUT: a request is delivered at most once, to the object it   *)
(* was made for and with its value, one delivery at a time; destroying an  *)
(* object withdraws its requests.  The handle of a request is any one that *)
(* is not outstanding.                                                     *)
(***************************************************************************)
CONSTANTS Objects, Handles, Values, None

VARIABLES
  live,         \* the objects that exist
  outstanding,  \* the requests made and neither delivered nor withdrawn
  delivering    \* the request whose handler runs, or None

vars == <<live, outstanding, delivering>>

Request == [id : Handles, target : Objects, val : Values \cup {None},
            tick : BOOLEAN]

TypeOK ==
  /\ live \subseteq Objects
  /\ outstanding \subseteq Request
  /\ delivering \in Request \cup {None}

Init ==
  /\ live = {}
  /\ outstanding = {}
  /\ delivering = None

Register(t) ==
  /\ t \notin live
  /\ live' = live \cup {t}
  /\ UNCHANGED <<outstanding, delivering>>

Unregister(t) ==
  /\ t \in live
  /\ live' = live \ {t}
  /\ outstanding' = {r \in outstanding : r.target # t}
  /\ UNCHANGED delivering

(* Requests are added, for objects that exist and under handles that are not *)
(* in use; none that is outstanding is touched.                              *)
Accept ==
  /\ outstanding \subseteq outstanding'
  /\ \A r \in outstanding' \ outstanding : r.target \in live
  /\ \A r, q \in outstanding' : r.id = q.id => r = q

Ask == Accept /\ UNCHANGED <<live, delivering>>

Deliver(r) ==
  /\ delivering = None
  /\ r \in outstanding
  /\ delivering' = r
  /\ outstanding' = outstanding \ {r}
  /\ UNCHANGED live

(* The handler returns; a tick may be asked for again in the same step. *)
Return ==
  /\ delivering # None
  /\ delivering' = None
  /\ UNCHANGED live
  /\ Accept
  /\ outstanding' # outstanding => delivering.tick

Next ==
  \/ \E t \in Objects : Register(t) \/ Unregister(t)
  \/ Ask
  \/ \E r \in outstanding : Deliver(r)
  \/ Return

Spec == Init /\ [][Next]_vars

(* A request waits only for an object that still exists. *)
RequestsAreLive == \A r \in outstanding : r.target \in live

=============================================================================
