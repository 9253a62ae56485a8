-------------------------- MODULE HttpClientProofs --------------------------
(***************************************************************************)
(* Proofs about HttpClient, for anything the object's memory held before,  *)
(* whether or not the application clears _enable, and whether or not       *)
(* OnReceive destroys the client.                                          *)
(***************************************************************************)
EXTENDS HttpClient, TLAPS

-----------------------------------------------------------------------------
(* The inductive invariant. *)

(* Who is where only the holder of _mutex may be.  A client destroyed inside *)
(* OnReceive keeps it for ever.                                              *)
MutexHeld ==
  /\ main \in {"handler", "clearing"} => mutex = "main"
  /\ worker \in {"storing", "stored"} <=> mutex = "worker"

(* _buffer keeps its answer until OnTick has cleared it. *)
BufferKeepsItsAnswer ==
  /\ buffer = "passed" => main = "clearing"
  /\ main = "handler" => buffer = "fresh"

(* There is no thread before the constructor starts it. *)
NoThreadUnborn == main = "unborn" <=> worker = "none"

IInv == TypeOK /\ MutexHeld /\ BufferKeepsItsAnswer /\ NoThreadUnborn

-----------------------------------------------------------------------------

(* The invariant holds before the client is constructed. *)
LEMMA InitInvariant == Init => IInv
<1> SUFFICES ASSUME Init
             PROVE  IInv
  OBVIOUS
<1>1. shutdown \in BOOLEAN /\ relax \in {"finite", "forever"}
  <2>1. PICK l \in Leftover : shutdown = l.shutdown /\ relax = l.relax
    BY DEF Init
  <2>2. l \in [shutdown : BOOLEAN, relax : {"finite", "forever"}]
    BY HttpAssumption
  <2> QED
    BY <2>1, <2>2
<1> QED
  BY <1>1 DEF Init, IInv, TypeOK, MutexHeld, BufferKeepsItsAnswer, NoThreadUnborn

(* The steps of the GLUT thread inside the library preserve the invariant. *)
LEMMA LibraryInvariant == IInv /\ (Library \/ OnTick \/ Destroy) => IInv'
<1> SUFFICES ASSUME IInv, Library \/ OnTick \/ Destroy
             PROVE  IInv'
  OBVIOUS
<1> USE DEF IInv, TypeOK, MutexHeld, BufferKeepsItsAnswer, NoThreadUnborn, Main, Runs, Locks, Unlocks,
            config, data, life
<1>1. CASE Construct
  BY <1>1 DEF Construct
<1>2. CASE SetShutdown
  BY ZenonT(60), <1>2 DEF SetShutdown
<1>3. CASE SetRelax
  BY <1>3 DEF SetRelax
<1>4. CASE OnTick
  BY <1>4 DEF OnTick
<1>5. CASE OnTickLocks
  BY <1>5 DEF OnTickLocks
<1>6. CASE OnReceiveReturns
  BY <1>6 DEF OnReceiveReturns
<1>7. CASE OnTickEnds
  BY <1>7 DEF OnTickEnds
<1>8. CASE Destroy
  BY <1>8 DEF Destroy
<1>9. CASE Signal
  BY <1>9 DEF Signal
<1>10. CASE WaitFor
  BY <1>10 DEF WaitFor
<1> QED
  BY <1>1, <1>2, <1>3, <1>4, <1>5, <1>6, <1>7, <1>8, <1>9, <1>10 DEF Library

(* The steps of the client's own thread preserve the invariant. *)
LEMMA ThreadInvariant == IInv /\ (Thread \/ Fetch) => IInv'
<1> SUFFICES ASSUME IInv, Thread \/ Fetch
             PROVE  IInv'
  OBVIOUS
<1> USE DEF IInv, TypeOK, MutexHeld, BufferKeepsItsAnswer, NoThreadUnborn, Worker, Locks, Unlocks,
            config, data, life
<1>1. CASE Loop
  BY <1>1 DEF Loop
<1>2. CASE Check
  BY <1>2 DEF Check
<1>3. CASE Connect
  BY <1>3 DEF Connect
<1>13. CASE Reconnect
  <2>1. connected' \in BOOLEAN
    BY <1>13 DEF Reconnect
  <2>2. worker = "reconnect" /\ worker' \in {"use", "assert"}
    BY <1>13 DEF Reconnect
  <2> QED
    BY <1>13, <2>1, <2>2 DEF Reconnect
<1>4. CASE AssertConnected
  BY <1>4 DEF AssertConnected
<1>5. CASE Use
  BY <1>5 DEF Use
<1>6. CASE Receive
  BY <1>6 DEF Receive
<1>7. CASE Fetch
  BY ZenonT(60), <1>7 DEF Fetch
<1>8. CASE StoreLocks
  BY <1>8 DEF StoreLocks
<1>9. CASE StoreAnswer
  BY <1>9 DEF StoreAnswer
<1>10. CASE StoreUnlocks
  BY <1>10 DEF StoreUnlocks
<1>11. CASE Relax
  BY <1>11 DEF Relax
<1>12. CASE RelaxEnds
  BY <1>12 DEF RelaxEnds
<1> QED
  BY <1>1, <1>2, <1>3, <1>4, <1>5, <1>6, <1>7, <1>8, <1>9, <1>10, <1>11, <1>12, <1>13 DEF Thread

(* What the application sets at any time preserves the invariant. *)
LEMMA ApplicationInvariant ==
  ASSUME IInv, NEW b \in BOOLEAN, SetEnable(b) \/ SetUrl(b)
  PROVE  IInv'
BY DEF IInv, TypeOK, MutexHeld, BufferKeepsItsAnswer, NoThreadUnborn, SetEnable, SetUrl, Runs,
       config, data, life

(* The invariant is inductive. *)
LEMMA NextInvariant == IInv /\ [Next]_vars => IInv'
<1>1. IInv /\ UNCHANGED vars => IInv'
  BY DEF IInv, TypeOK, MutexHeld, BufferKeepsItsAnswer, NoThreadUnborn, vars
<1> QED
  BY <1>1, LibraryInvariant, ThreadInvariant, ApplicationInvariant DEF Next

(* The state of the client keeps its types, and the mutex is with the thread *)
(* that stands between lock() and unlock().                                  *)
THEOREM InvariantHolds == Spec => []IInv
BY InitInvariant, NextInvariant, PTL DEF Spec

(* The state of the client, both program counters included, keeps its types. *)
THEOREM TypeCorrect == Spec => []TypeOK
<1>1. IInv => TypeOK
  BY DEF IInv
<1> QED
  BY <1>1, InvariantHolds, PTL

(* OnReceive reads an answer nobody has seen, and that the thread does not   *)
(* write meanwhile (OnTick holds _mutex across OnReceive).                   *)
THEOREM HandlerAlwaysHasAFreshAnswer == Spec => []HandlerHasAFreshAnswer
<1>1. IInv => HandlerHasAFreshAnswer
  BY DEF IInv, MutexHeld, BufferKeepsItsAnswer, HandlerHasAFreshAnswer
<1> QED
  BY <1>1, InvariantHolds, PTL

-----------------------------------------------------------------------------
(* What DestructorReturns rests on. *)

(* While the destructor waits, either the semaphore that ends relax() is     *)
(* there, or the thread is past relax() and sees _shutdown next: in no order *)
(* of the two threads does it sleep for ever on a signal given too early.    *)
WakeUpIsThere ==
  /\ main \in {"signalling", "waiting", "dead"} => shutdown
  /\ main \in {"waiting", "dead"} => sem > 0 \/ worker \in {"loop", "finished"}

(* The GLUT thread takes no wake-up away from a thread that may wait for it. *)
LEMMA LibraryKeepsWakeUp ==
  IInv /\ WakeUpIsThere /\ (Library \/ OnTick \/ Destroy) => WakeUpIsThere'
<1> SUFFICES ASSUME IInv, WakeUpIsThere, Library \/ OnTick \/ Destroy
             PROVE  WakeUpIsThere'
  OBVIOUS
<1>1. sem \in Nat /\ shutdown \in BOOLEAN
  BY DEF IInv, TypeOK
<1> USE DEF WakeUpIsThere, Main, Runs, config, data, life
<1>2. CASE Construct
  BY <1>2 DEF Construct
<1>3. CASE SetShutdown
  BY <1>3 DEF SetShutdown
<1>4. CASE SetRelax
  BY <1>4 DEF SetRelax
<1>5. CASE OnTick
  BY <1>5 DEF OnTick
<1>6. CASE OnTickLocks
  BY <1>6 DEF OnTickLocks
<1>7. CASE OnReceiveReturns
  BY <1>7 DEF OnReceiveReturns
<1>8. CASE OnTickEnds
  BY <1>8 DEF OnTickEnds
<1>9. CASE Destroy
  BY <1>9 DEF Destroy
<1>10. CASE Signal
  BY <1>1, <1>10 DEF Signal
<1>11. CASE WaitFor
  BY <1>11 DEF WaitFor
<1> QED
  BY <1>2, <1>3, <1>4, <1>5, <1>6, <1>7, <1>8, <1>9, <1>10, <1>11 DEF Library

(* The thread goes to wait only where a wake-up is there or will be. *)
LEMMA ThreadKeepsWakeUp ==
  IInv /\ WakeUpIsThere /\ (Thread \/ Fetch) => WakeUpIsThere'
<1> SUFFICES ASSUME IInv, WakeUpIsThere, Thread \/ Fetch
             PROVE  WakeUpIsThere'
  OBVIOUS
<1> USE DEF WakeUpIsThere, config, data, life
<1>1. CASE RelaxEnds
  <2>1. worker' = "loop" /\ main' = main /\ shutdown' = shutdown
    BY <1>1 DEF RelaxEnds, Worker
  <2> QED
    BY <2>1
<1>2. CASE Loop
  <2>1. /\ worker = "loop" /\ worker' = IF shutdown THEN "finished" ELSE "check"
        /\ UNCHANGED <<main, shutdown, sem>>
    BY <1>2 DEF Loop, Worker
  <2> QED
    BY <2>1
<1>3. ASSUME (Thread \/ Fetch) /\ ~RelaxEnds /\ ~Loop
      PROVE  worker \notin {"loop", "finished"} /\ UNCHANGED <<main, shutdown, sem>>
  BY <1>3 DEF Thread, Check, Connect, Reconnect, AssertConnected, Use, Receive, Fetch, StoreLocks,
              StoreAnswer, StoreUnlocks, Relax, Worker
<1> QED
  BY <1>1, <1>2, <1>3

(* The destructor's wake-up is never lost, for every Leftover and Toggles.   *)
THEOREM WakeUpIsNeverLost == Spec => []WakeUpIsThere
<1>1. Init => WakeUpIsThere
  BY DEF Init, WakeUpIsThere
<1>2. IInv /\ WakeUpIsThere /\ [Next]_vars => WakeUpIsThere'
  <2>1. ASSUME WakeUpIsThere, NEW b \in BOOLEAN, SetEnable(b) \/ SetUrl(b)
        PROVE  WakeUpIsThere'
    BY <2>1 DEF WakeUpIsThere, SetEnable, SetUrl, life
  <2>2. WakeUpIsThere /\ UNCHANGED vars => WakeUpIsThere'
    BY DEF WakeUpIsThere, vars
  <2> QED
    BY <2>1, <2>2, LibraryKeepsWakeUp, ThreadKeepsWakeUp DEF Next
<1> QED
  BY <1>1, <1>2, InvariantHolds, PTL DEF Spec

-----------------------------------------------------------------------------
(* The assertion of execute(). *)

AssertionNeedsToggles == ~Toggles => ~AssertionFails

(* Between the first reading of _enable in connect() and the assertion it    *)
(* stays set.                                                                *)
StaysEnabled == ~Toggles /\ worker \in {"reconnect", "assert"} => enable

(* The assertion that the client is connected after connect() fails only if  *)
(* the application clears _enable while the thread runs.                     *)
THEOREM AssertionHolds == Spec => []AssertionNeedsToggles
<1>1. Init => StaysEnabled
  BY DEF Init, StaysEnabled
<1>2. StaysEnabled /\ [Next]_vars => StaysEnabled'
  <2> SUFFICES ASSUME StaysEnabled, ~Toggles, [Next]_vars, worker' \in {"reconnect", "assert"}
               PROVE  enable'
    BY DEF StaysEnabled
  <2>1. CASE worker \in {"reconnect", "assert"}
    <3>1. enable
      BY <2>1 DEF StaysEnabled
    <3>2. enable' = enable \/ \E e \in BOOLEAN : SetEnable(e)
      BY DEF Next, vars, Library, Thread, Construct, SetShutdown, SetRelax, OnTick, OnTickLocks,
             OnReceiveReturns, OnTickEnds, Destroy, Signal, WaitFor, Loop, Check, Connect,
             Reconnect, AssertConnected, Use, Receive, Fetch, StoreLocks, StoreAnswer,
             StoreUnlocks, Relax, RelaxEnds, SetUrl, config
    <3>3. ASSUME NEW e \in BOOLEAN, SetEnable(e)
          PROVE  enable'
      <4>1. e /\ enable' = e
        BY <3>3 DEF SetEnable
      <4> QED
        BY <4>1
    <3> QED
      BY <3>1, <3>2, <3>3
  <2>2. CASE worker \notin {"reconnect", "assert"}
    <3>1. ~(Thread \/ Fetch) => worker' \in {worker, "loop"}
      BY DEF Next, vars, Library, Construct, SetShutdown, SetRelax, OnTick, OnTickLocks,
             OnReceiveReturns, OnTickEnds, Destroy, Signal, WaitFor, SetEnable, SetUrl
    <3>2. (Thread \/ Fetch) /\ ~Connect /\ ~Reconnect => worker' \notin {"reconnect", "assert"}
      BY DEF Thread, Loop, Check, AssertConnected, Use, Receive, Fetch, StoreLocks, StoreAnswer,
             StoreUnlocks, Relax, RelaxEnds, Worker
    <3>3. ~Reconnect
      BY <2>2 DEF Reconnect, Worker
    <3>4. Connect
      BY <3>1, <3>2, <3>3, <2>2
    <3>5. enable /\ enable' = enable
      BY <3>4 DEF Connect, Worker, config
    <3> QED
      BY <3>5
  <2> QED
    BY <2>1, <2>2
<1>3. StaysEnabled => AssertionNeedsToggles
  BY DEF StaysEnabled, AssertionNeedsToggles, AssertionFails
<1> QED
  BY <1>1, <1>2, <1>3, PTL DEF Spec

=============================================================================
