# GLT in TLA+

GLT is a C++ toolkit for OpenGL programs. Nearly all of it runs on one thread;
what is hard in it is *re-entrance* and *ownership*. GLUT calls the library, the
library calls a handler of the application, and the handler calls the library
again while it is still on the stack; objects are destroyed while someone else
holds their address. Two parts are concurrent: a client with a thread of its own,
and programs that draw one picture together over sockets. The other hard part is
symbolic: CSG trees are rewritten in place on a heap of shared nodes, ordered into
sequences of subtractions, and turned into a picture by depth and stencil tests
alone. This directory models those parts and leaves the rest of the drawing alone.

Paths below are relative to `src/` of the repository.

## 1. Inventory

| part | state | operations | interaction | hard |
|---|---|---|---|---|
| `glutm/timer`, timer calls of `glutm/master` | list of objects, slot table and cursor, `_idleCount`, flags per object | setIdle, setTick, setTimer, constructor, destructor, init | GLUT holds slot numbers; handlers call back | re-entrance, destruction under way, recycled slots |
| `glutm/master`, `glutm/window`, `glutm/main` | database GLUT id -> list of owners, `_toOpen`, `_toClose`, held-back motion | open, grab, close | the Check* timers, OnDisplay, OnOpen, OnClose; windows are timers | unordered timers, delete in a loop, shutdown |
| `csg/normalise`, `csg/element` | tree of nodes with reference counts | normalise, normalised, optimise | pure | shared operands rewritten in place, termination |
| `csg/graph`, `csg/scsseq` | overlap graph | sequences of primitives | the renderer | orders that are missing for some views only |
| CSG rendering (`csg/scs*`, `csg/buffer`) | depth and stencil buffer, saved depth buffer | intersection, subtraction, clipping, merging | OpenGL | stencil codes that come round, merging of products |
| CSG rendering (`csg/gold*`) | the same | layers, parity | OpenGL | the same |
| `network/tcpsocket`, `client`, `server`, `program/grips` | sockets, `_connected`, list of channels | send, recv with ACK, connect, accept | ticks of several programs | partial messages, reconnecting, ACKs |
| `network/httpclient` | thread, mutex, buffer, flags | connect, receive, OnTick | thread beside the GLUT loop | construction and shutdown races, overwritten answers |
| `misc/lru`, `glt/dlcache` | list and index; time stamps | find, insert, draw, clear | OnDraw callback | ageing, nested OnDraw |
| `misc/observer`, `misc/refcount` | mutual lists; counts | observe, forget, notify; copy, assign | callbacks | deletion during notify, cycles |
| `misc/cbuffer` | vector, two iterators, size, flag | push, pop, shift, resize | gltLife | edge of the storage, full against empty |
| `program/gltLife` | two grids, population | update, setCell | - | torus edges, 16-bit sizes |
| fields, registry, scene graph, fonts, maths, meshes, images | - | drawing, text, floating point | - | nothing a model checker reaches |
| GLUT, GLEW, GLUI, jpeg, png, zlib, zzip, ptypes | vendored | - | - | external |

`PROJECT.json` lists every component with what is modelled of it, and every
hazard at its line.

What makes the parts correct:

* timers: a request is delivered once, to the object it was made for; a
  destroyed object receives nothing; an object has one tick under way at most,
  and exactly one while it wants ticks; idle events come while asked for.
* windows: the database, the objects and GLUT agree; whoever is queued is alive
  and is served; deletion touches nothing that is still in use; the program ends
  when its windows are closed.
* CSG: the sum of products is the same object as the tree, and the depth buffer
  ends with the visible surface of that object, whatever the order of the
  primitives along the ray.
* display list cache: index, list and OpenGL agree, the age of an item is right
  although the counter comes round, what is in use is not taken away.
* observers: nobody is called after its deletion, everybody registered is called.
* HTTP client: an answer is handed over once and whole, the destructor returns.
* tiles: a slave sees the messages in order, and an ACK means what it says.
* circular buffer: it is a deque of bounded length.

## 2. Modules

| module | models | kind |
|---|---|---|
| `TimerService` | what the timer half promises, with neither slots nor GLUT | abstract specification |
| `GlutAddresses` | the objects both halves speak of, and NULL | parameters |
| `GlutTimer` | `glutm/timer.cpp`, setIdle/setTick/setTimer/init of `glutm/master.cpp` | component |
| `GlutWindows` | the database and queues of `glutm/master.cpp`, `glutm/window.cpp` | component |
| `GlutMaster` | both halves composed, `OnMotion`/`OnPreTimer`, `main` | composition |
| `GlutMasterProofs` | invariants of `GlutTimer`, and that it implements `TimerService`; database and queues of `GlutWindows`; then the whole, which implements both | proofs |
| `CsgNormalise` | `csg/normalise.cpp`, products and sums of `csg/element.cpp` | algorithm on a heap |
| `CsgNormaliseProofs` | the shared heap, the eight rules, and that a sum of products is left | proofs |
| `CsgSequence` | `csg/scsseq.cpp`, `csg/graph.cpp` | pure algorithms |
| `CsgPicture` | `csg/scs.cpp`, `scsinter`, `scssubtr`, `scsclip`, `buffer`, `goldfeat`, `goldlayr`, `parity` at one pixel, on top of both | composition |
| `DisplayListCache` | `glt/dlcache.h` over `misc/lru.h` | component |
| `DisplayListCacheProofs` | index, ages and growth of the cache | proofs |
| `Observer` | `misc/observer.cpp` | component |
| `ObserverProofs` | mutual lists, nested loops | proofs |
| `ListRemoval` | `std::list::remove`, as `Observer` and `GlutWindows` use it | external |
| `BoundedDeque` | what `cbuffer` promises | abstract specification |
| `CircularBuffer` | `misc/cbuffer.h` | component |
| `CircularBufferProofs` | the bookkeeping, and that it implements `BoundedDeque` | proofs |
| `HttpClient` | `network/httpclient.cpp` | two threads |
| `HttpClientProofs` | answers, the destructor's signal, the assertion | proofs |
| `TileNetwork` | `network/tcpsocket`, `client`, `server` with `program/grips/network.cpp`, `window.cpp` | several programs and their network |
| `TileNetworkProofs` | order of messages, ACKs, tiles | proofs |
| `ListLemmas` | lemmas on lists and removal that several proofs need | proofs |
| `MC*` | instances for TLC: symmetry sets, the trees to start from | model checking |

### How the models correspond to the code

**Callbacks.** An action is what the library does up to the next point where
other code may run. A handler of the application is therefore not an action but
a *gap*: `timerFrame` and `windowFrame` are the library's
activation records across that gap, and every operation of the interface is
enabled in it. So `timerCallback` is `FireTimer` (up to OnTick or OnTimer) and
`TickReturn` or `TimerReturn` (after it), `idleCallback` is `FireIdle` and one
`IdleReturn` per object, `CheckOnOpen` and `CheckOnClose` are a `Fire...`, a
`...Next` and a `...Return` per window. Handlers that the library merely
forwards to (OnKeyboard, OnMouse, OnTimer after its last statement) need no
frame: client actions while no frame is taken are those.

**GLUT** is external: a count of registered callbacks per slot (`calls`), the
registered Check* timers (`checks`), the windows (`glutWins`), whether the idle
callback is set (`idleFunc`). GLUT may call back whichever is registered, in any
order (`glut_event.c` does not keep equal timeouts in order); delays are not
modelled, only whether a tick interval is zero. It never calls back inside a
handler.

**Objects** are addresses. An address may be reused after destruction, which is
what makes stale references visible; a dereference of a dead address or of NULL,
or a failed assertion, sets `timerFault` or `windowFault` and stops the model.

`GlutTimer`: `slots` and `cursor` are `_slots` and `_slot` (from 1), `timerFrame.index`
and `timerFrame.copy` the `Slot*` that timerCallback holds: the slot, or after the
vector has moved the contents of the freed storage.  `TickArms` and
`SelfDestroy` say what the application's handlers may do. They are not limits of
the model: the runs take both values, and the difference is the finding.

`GlutWindows`: `windows` is the map `_windows`, an absent key being the empty
list; `status` remembers the last of OnOpen and OnClose an object received.
`openWindow` calls OnClose of the window it covers; that one handler is assumed
not to call the library back. A window whose `close()` is called twice, or which
calls `grab()` while it has another GLUT window, is allowed by `CloseTwice` and
`GrabOver`.

`GlutMaster` EXTENDS both halves: as in the code, where a GlutWindow is a GlutTimer, an
address is an object of both, and one action of the whole conjoins an action of each half or
leaves one half alone. Their definitions have different names (`TimerInit`, `WindowInit`...)
so that this is possible. Three actions reach across: `open()` initialises GLUT, arms the tick and may
withdraw the idle callback; `CheckOnOpen` arms it again; `CheckOnClose` runs the destructor of
the timer. `Disciplined` is what the clients of the whole have to keep to: OnTick arms no other
timer, handlers destroy nothing themselves, windows are closed once and grab as documented. It is a
hypothesis of the theorems on the whole and a choice of constants in `master_safe`, and the code
fails without it, as is shown on the halves (section 4).

`CsgNormalise`: the heap holds the nodes, `Distribute` and `DistributeLeft`
leave two parents on one operand exactly where the code copies a pointer. The
recursive `normalise()` is an explicit stack. `Solid` gives the meaning of a tree: those of
the points given that are in the object, where a point is the set of shapes it is in;
`Points` has every such set. `EndsInASum` is what `normalised()` asserts when the
rewriting is over (`AlwaysEndsInASum`); no run lists it, as `Terminates` implies it there (the sum is read off
only from a sum of products).

`CsgSequence` names objects by numbers and a graph by the sets of neighbours of
those that are left; `processed` flags and erased rows are the objects that have
gone from its domain. `CsgPicture` follows one pixel: each convex shape covers an
interval of its ray or none, and a glDepthFunc is a comparison of two depths. After
normalisation and optimisation a view is chosen; `EncodeSequence` is
csgRenderSubtractionSequence, `DrawProduct` the rest of the loop body for one
product and the products of one object that follow it. The depth complexity is
sampled for the whole picture: any k of at least the pixel's own. With a Goldfeather
renderer, `ClipProduct` is the body of the outer loop for one product, folding
`ClipFace` (the body of the inner one) over its faces, and `DrawSingles` the loop at
the end. The depth test that a merge leaves behind (GL_LESS, which
`csgRenderGoldfeather` does not set back) is part of `ClipFace`.

`DisplayListCache`: `stack` holds the calls of draw() whose OnDraw is running, as
OnDraw may draw further objects through the cache (`nested`). `content` is OpenGL's:
which list exists, and what it draws or calls. The node that the index leads to is
a position in the list, and `Touch` gives the whole list as it is after use. `unused` counts for each key the
frames since its last use and serves the properties alone.

`Observer`: an object may be both subject and observer. `loops` is the stack of
notify() calls; the iterator of each is a position that moves with its node, and 0
is an iterator of an erased node. `Careful` says whether handlers leave alone the
two objects of a notification under way.

`CircularBuffer`: iterators are positions; `BoundedDeque` is what the comments of `cbuffer.h`
promise of the items that operator[] reads. `call` is the operation last called, and
`fault` says that push_back() has written behind the storage, after which nothing is known. Three
kinds of step are not the deque's, and `ImplementsDeque` names each: `ShiftsRight`
(leftShift() has the body of rightShift()), `TakesInRubbish` (either shift of a buffer that is
not full) and `WritesBehind`.

`HttpClient`: `main` and `worker` are program counters, one step per access to what
the threads share. `Leftover` is what memory holds where `_shutdown` and `_relaxTime`
will be: the thread starts before they are initialised. connect() looks at `_enable` twice, as
`Connect` and `Reconnect` do. A failed assertion stops both threads.

`TileNetwork`: a connection has a stream of units (a header, two parts of a
payload), a read takes any prefix; `got` and `sent` are histories for the
properties. `connected` is `_socket._connected`, which every poll without result
clears, so that a slave makes a new connection at its next tick. `Mortal` slaves may
end at any point; writing to them is swallowed or reported. After a whole message recv() looks at
errno, which an earlier call may have left set (`tcpsocket.cpp:200-205`): `StaleErrno` are
the slaves where that may happen, and `MasterErrno` says whether it may at the master, whose
receipt of an ACK then puts a living slave among the `lost`.

## 3. Runs

| run | bounds | result |
|---|---|---|
| `timer_slots` | 2 objects, 2 slots, no discipline | type invariant, `SlotsMatchCalls`, `NothingOutlivesItsObject`, `IdleCounted` hold; refines `TimerService` |
| `timer_ticks` | 2 objects, 3 slots, disciplined handlers | `OneTickUnderWay`, `WantedTicksArePending`, `NoTimerFault`, `TicksArrive`, no deadlock |
| `windows_safe` | 3 windows, 2 GLUT windows, queues of 3 | database, queues, no fault |
| `windows_live` | 2 windows, queues of 2, close twice, grab over | the first OnOpen, deletion and the end of the program are reached |
| `master_safe` | 2 windows, 1 GLUT window, 2 slots | no fault, callbacks have objects, held motion has a tick |
| `csg_trees` | all trees of up to 5 different primitives and of up to 4 with some the same; pictures of all up to 3, and of (A-B)+(C-D), A.B-C-D and A-B-C-D, for all orders of faces; stencil buffer of 2 bits; 5 holes in every overlap graph, rings of 6 to 11, 6 and 7 all overlapping | `RulesAreIdentities`, `Terminates`; `OptimisedIsTheTree`, `PictureIsTheTree` for the sums that are `Optimisable`; `EveryChainIsSubtracted` where no ring is of 6, 7, 8 or 10 |
| `csg_shared` | all trees of up to 4 | `KeepsTheObject` is violated by (A+B).(C+D) |
| `dlcache` | 3 objects, 3 list names, capacity 2, ages 2 and 3, frame counter modulo 6 | index, list and OpenGL agree; ages are right; recent lists stay (ages of 1 and more); lists show their object |
| `observer` | 3 objects, 4 registrations, 2 loops | lists are mutual, loops stay on their node, everybody is told |
| `http` | 2 threads, any initial memory | the handler's answer is its own and new, the destructor returns, the latest answer arrives |
| `cbuffer` | 2 values, capacity up to 4 | bookkeeping agrees; each step is one of `BoundedDeque`, or one of the three named above |
| `tiles` | 2 slaves (1 mortal, with stale errno), a stale errno at the master, 3 connections, 1 change of settings, 1 step | messages in order, ACK means received, tiles of slaves not dropped differ |

**Bounds.** `MaxSlots` bounds the slot table, `MaxQueue` each queue and count of
Check* timers, `MaxObjects` the windows alive plus the shutdown checks they leave
behind. Each is a guard on the call that would exceed it, so a bounded run is a
set of real behaviours. They are enough because the interesting cases
are small: a recycled slot needs two objects, a moved vector one slot more than
is in use, a shared GLUT window two owners and an order between them three, the
rules 2, 3 and 5 against 7 and 8 four leaves, and a rewriting under a rewriting
five. At a pixel, three holes behind one another use up a stencil of two bits; two
products and their merge need four primitives; the table of sequences ends at 7
objects and that of rings at 10, and Galbiati's and Savage's forms begin at 5 and 6. A
list that is recycled while another is compiled needs three keys and a capacity of
two, a loop that stands under another two loops and three objects, an edge of the
storage that both iterators cross a capacity of three; a tile number that moves needs
a channel that is given up and one behind it, and a slave that was given up and comes again a third
connection. `timer_ticks` has three slots so that no call its handlers can make is
blocked for ever, which the deadlock check confirms.

`master_safe` fingerprints states without `status` (`View`): it records the last of
OnOpen and OnClose, which no step and no property of that run reads.

Deadlock is not checked where the model may stop for a real reason or at a
bound: after a fault, after `exit()`, when the picture is drawn, when the client is
destroyed, when the master of the tiles is at its bounds, and when a full queue
waits in a handler.

**Fairness.** `GlutTimer`: strong fairness of each slot's callback and weak
fairness of the return of handlers. GLUT's loop handles every timer that is due
between two events, so a timer that is due again and again is called; strong
rather than weak, because a handler that runs disables all callbacks meanwhile.
`GlutWindows`: the same for the three Check* timers and the loops' steps.
Nothing is assumed of the application, except that handlers return.
`CsgPicture`, and `CsgNormalise` as part of it: weak fairness of the only thread. `HttpClient`: each thread goes on
(weak fairness), GLUT calls OnTick, which sets its own tick again, and the server
answers or closes; strong fairness of taking the mutex, because the other thread
holds it for one assignment or one handler and then lets go of it for at least a
relax time or a tick. `TileNetwork` claims no liveness: the master may wait for an ACK
for ever.

## 4. Findings

Everything in this section is excluded from the passing runs by a constant or by a
condition in the property, and named there.

`csg_shared` is a run: (A+B).(C+D) is normalised to another object, as `PROJECT.json`
quotes; the program does so too.

Other places where the code does not do what it says have a configuration that
shows them, to be run by hand (`tlc -config X.cfg M`), or a property no run checks:

| configuration, module | what it shows |
|---|---|
| `GlutTimerLostTick.cfg`, `MCGlutTimer` | `TicksArrive`: OnTick arms a timer, which takes the slot that `timerCallback` reads again (`glutm/timer.cpp:100`); the object's ticks stop for good |
| `GlutWindowsTwice.cfg`, `MCGlutWindows` | `NoWindowFault`: close() twice queues the window twice (`glutm/master.cpp:210`), and CheckOnClose uses it after deleting it |
| `GlutWindowsWoken.cfg`, `MCGlutWindows` | `FrontIsOpen`: a window to be woken (`master.cpp:636-642`) never gets OnOpen again, although `glutm/window.h:185` and `192` promise OnOpen of every open() and grab(). `FirstOpenIsServed` and `NobodyIsForgotten` speak of the first one only |
| `GlutMasterIdle.cfg`, `MCGlutMaster` | `IdleIsRegistered`: opening a GLUT window withdraws the global idle callback (`master.cpp:150`) |
| `CsgNormaliseTwins.cfg`, `MCCsgNormalise` | `OptimisedIsAlwaysTheTree`: where two shapes are intersected here and subtracted there, a product loses more than it may (`csg/element.cpp:311`): (A-B)+(B-A) becomes everything. `csg/test.cpp` has trees with repeated primitives |
| `CsgRings.cfg`, `MCCsgPicture` | `EveryChainIsAlwaysSubtracted`: the ring sequences for 6, 7, 8 and 10 objects (`csg/scsseq.cpp:339-343`) lack some chains around the ring, for instance a f e d c b for 6 |
| `CircularBufferLeft.cfg`, `CircularBuffer` | `LeftShiftsLeft`: leftShift() shifts to the right (`misc/cbuffer.h:241-253`, "Shift the contents left") |
| `CircularBufferBehind.cfg`, `CircularBuffer` | `StaysInside`: a resize() to no more items than the buffer holds leaves `_end` behind the storage (`misc/cbuffer.h:298`), where push_back() writes (132-147) |
| `HttpClientOverwrites.cfg`, `MCHttpClient` | `NoAnswerOverwritten`: an answer that comes before OnTick has passed on the one before takes its place (`network/httpclient.cpp:144`) |
| `DisplayListCacheNoAge.cfg`, `MCDisplayListCache` | `PreviousFrameAlwaysStays`: "the display lists used in the previous frame will always remained cached" (`glt/dlcache.h:66-67`) fails for a minimal or maximal age of 0, which the constructor (77) allows |
| `TileNetworkErrno.cfg`, `MCTileNetwork` | `AllTilesDiffer`: an errno left over at the master (`network/tcpsocket.cpp:200-205`) drops a living slave after a whole ACK; its tile is given to another, and two slaves compute the same |
| `SafeToDeleteAnyTime` of `Observer` | with `Careful = FALSE`: `misc/observer.h:89-92` says "safe to delete either the subject or observer at any time", but not in OnNotify |
| `SlavesWait` of `TileNetwork` | `program/grips/window.cpp:408-409` says that a slave waits for the master's sync; a poll that finds nothing clears the flag it looks at, and a slave then iterates by itself as well |

Switches of the runs show the rest. `HttpClient` with `SelfDestroy = TRUE` violates
`DestructorReturns`: OnReceive holds the mutex for which the thread may wait. `GlutTimer` with
`SelfDestroy = TRUE` violates `NoTimerFault`: an object destroyed in its own OnTick leaves NULL
in the slot that `timerCallback` reads again (`timer.cpp:100`). `GlutWindows` with `GrabOver = TRUE`
violates `DatabaseConsistent` (`window.cpp:82`). In `CsgPicture` a product that
names a shape three times, as A.A.A', is not emptied (`element.cpp:149`), which the
condition `Optimisable` excludes; and either shift of a `CircularBuffer` that is not full takes
in a cell that is no item (`TakesInRubbish`).

## 5. Proofs

Every theorem holds for all values of the constants that the component's named
assumption allows; TLC evaluates these assumptions on every run. They are weak: sets
of objects are finite, NULL and the like are none of their members, bounds are natural
numbers, switches are Boolean. Two say more. `TimersAssumption` has a positive bound
on the slot table, and `CacheAssumption` at least two frames before the frame number comes
round (2^32 in the code): with one, every item would always be of this frame. (Its ages are any
natural numbers.) `TreesAssumption`
says that what normalise() is called for is a copy of a tree: each parent has two operands, as
normalise() takes for granted, and no two parents have the same one. Where a theorem
needs a discipline of the application, the discipline is its hypothesis.

Each component has an inductive invariant, `IInv` unless named otherwise, that one
lemma per action preserves; the properties follow from it.

### Timers (first part of `GlutMasterProofs`)

Every finite set of objects, every bound on the slot table, every use of the interface.

* `TimerInv` is `TimerTypeOK`, `SlotsMatchCalls`, `NothingOutlivesItsObject`, the counting half of
  `IdleCounted` and three facts those need: a timer callback under way has its slot in the table and an object
  (`FrameHasSlot`), GLUT calls nobody before init (`NothingBeforeGlut`, so that init()
  fills an empty table), and only living objects are idle (`OnlyTheLivingAreIdle`, so that
  the destructor's setIdle(false) counts right and a new object is not counted).
  From it: `TimerTypeCorrect`, `SlotsAlwaysMatchCalls`, `NothingEverOutlivesItsObject`,
  `IdleAlwaysCounted`. The last has another half, that GLUT has the callback while objects are
  idle; it is kept by each action of the timers (`IdleCallbackKept`) but stays out of
  `TimerInv`, since opening a window breaks it (section 4) and the whole needs the rest.
* `WantedTicksAlwaysPending` needs no discipline either: an object that wants ticks has
  its flag set. The lost tick of section 4 is exactly a flag that stays set although
  nothing will clear it.
* `DisciplineIsSafe` and `DisciplineKeepsOneTick`: assuming `~TickArms` and
  `~SelfDestroy`, never a fault, and one tick under way for an object that wants
  ticks. `DisciplinedInv` adds to `TimerInv` that the slot of a tick under way stays
  as the handler left it (`TickKeepsItsSlot`), that the object `idleCallback` stands on
  is alive (`IdleKeepsItsObject`), and that only living objects tick. The heart
  of it is `NoTickReturnFault`: the slot of a running tick is free, so arming the tick
  again never makes the vector grow.
* `Refinement`: `GlutTimer` implements `TimerService`, with no discipline assumed. The slots
  in use that still have a target are the outstanding requests, `frame` is the delivery.
  One lemma per action says which step of the service it is (`FireTimerDelivers`,
  `DestroyUnregisters`, `ReturnReturns`...) or that it is unseen (`RestIsUnseen`).
  `SlotsMatchCalls` is what it rests on: a callback from GLUT finds its slot still in
  use, so what is delivered was outstanding, and `Slot::add` takes a handle that is
  not. `NullIsNoRequest` (the null pointer is not a request) is assumed.
* `ServiceKeepsRequestsLive`: in the service a request waits only for an object that
  exists.

### Windows (second part of `GlutMasterProofs`)

Hypothesis throughout is `~GrabOver`: a window does not grab a GLUT window while it has
another (it would then be in two lists of owners under one identifier).

* `WInv`: `WindowTypeOK`, `DatabaseConsistent`, `NobodyIsForgotten` (the first OnOpen, and deletion), and three facts those need. Whoever is
  queued for OnOpen is open (`OpenersAreLive`), so that CheckOnClose, which deletes, can
  take it from the queue. An open window without its OnOpen is queued
  (`PendingIsQueued`), and CheckOnOpen stands on the front of its queue (`OpensTheFirst`), which it
  pops after the handler. From it: `DatabaseStaysConsistent` and `NobodyIsEverForgotten`, also
  when windows are closed twice.
* `CInv`, assuming `~CloseTwice` as well: whoever is in `_toClose` is open, and is there
  once; CheckOnClose stands on the front of it and has its identifier; no fault. From
  both: `QueuesStayLive`, and `NoAssertionFails`. That each is queued once is
  what protects the others when the front one is deleted, and `DatabaseConsistent` is what makes
  the assertions hold that look an owner up.

### The whole (third part of `GlutMasterProofs`)

Hypothesis of each theorem is `Disciplined`, but for `WholeImplementsWindows`, which needs none.

* `MasterInv` is `DisciplinedInv` of the timers, `WInv` and `CInv` of the windows, and what holds
  between them (`Between`): one handler at a time (`OneHandler`); the list of timer objects
  holds exactly the living windows (`ListIsObjects`); where a window has been opened, GLUT runs
  (`OpenedNeedsGlut`); motion held back is that of a living window with a tick under way
  (`MotionIsCarried`).
* Each step is seen twice. For the windows it is a step of `GlutWindows` or none, so that
  `WInv` and `CInv` carry over as they are, and `WholeImplementsWindows` holds: `Spec => WindowSpec`.
  For the timers it is a step of `GlutTimer`, or one of three which `GlutTimer` does not
  have, because they come from the window half: `ArmsForWindow`, `InitForWindow`, `DestroysWindow`. That is why
  the lemmas on timers are about arming, init and destruction as such, and not about the actions. Each of
  the three still does something the abstract service can do, hence `WholeImplementsService`.
* What holds between the halves is what makes the three safe. CheckOnOpen arms the tick of the front of
  its queue, which is alive by `WInv` and so in the list of timers; CheckOnClose finds the one
  place in that list which the destructor removes; it runs in a handler of the windows, so that no
  callback of the timers stands on that object.
* From it: `NoCallbackTouchesTheDead`, `CallbacksAlwaysHaveObjects` (timer list, slots, database, queues, and
  the handler under way: the window that is displayed is alive by `DisplayedIsLive`), `HeldMotionAlwaysHasATick`. The last holds
  although setTick(0) may come between the motion and the tick: only the tick clears the flag
  `tickPending`, and it delivers the motion first.

### CSG normalisation (`CsgNormaliseProofs`)

Trees of any size and shape, primitives repeated or not.

* `HeapInv` says how far sharing goes. Some parents normalise() has not come to yet: each of
  these has one owner, and all below it is such, too (`Shaped`; its other set are nodes that nobody has any
  more). *The right operand of a difference or intersection is always one of them, or a
  primitive.* So rules 1 to 6, which rewrite the node and its right operand, never rewrite
  anything shared, although the operands they hand on come to be; rules 7 and 8 rewrite the
  left operand, which may be. No node is below itself: there is a rank that each rule
  can be given anew (`Ranked`). The activations on the stack are of nodes it has come
  to (`Frames`). From it: `HeapHolds`.
* What a tree means is a recursive function on the heap, and TLAPS does not know that it
  exists. It does, by the least rank at which it would not, as no node is below itself.
  `RewritingKeeps` is the heart: if two heaps agree but for a node and its operand, which
  nobody else has, and the node means what it meant whatever its operands mean, then the root does.
  From it: `RulesAlwaysIdentities`, for all eight rules, under the condition
  on rules 7 and 8 that the property states.
* `KeepsTheObject` is false (`csg_shared`). `UnsharedKeepsTheObject` says that it holds of
  each execution in which rules 7 and 8 rewrite no shared operand; so that sharing is the
  only thing wrong with the algorithm.
* `AlwaysEndsInASum`: when `normalise()` returns, `EndsInASum`, *whatever* has been
  shared. Each activation has something left to do (`Todo`): its node, or the right operand of
  a union. `SumsOf` says that each difference or intersection below what an activation
  waits for is in a product (`Product`: below it are differences and intersections whose right operand is
  a primitive) or below what is left to do for one further in (`Ahead`). A rule undoes no product
  (`ProductStays`), other than the operand that it takes apart: either its node is
  in no product and the operand nobody else's, or the operand is in none and stays below the node
  (`Changes`). That is why rewriting a shared operand may change the object but not undo the form.
  `SumInv` is `HeapInv` and `SumsOf`; with an empty stack nothing is left to do.

### Observers (`ObserverProofs`)

`IInv`: `TypeOK`, `ListsAreMutual`, `LoopsStandOnTheirObserver`, and `LoopsInPlace`: a loop whose node
still exists stands inside the list, and everyone it has passed was told. The
lists are mutual by *count* (`Times`), as registrations may be repeated;
forgetting one removes one from each side, destruction removes every one. From it: `NoDanglingPointer`
whatever handlers do, `IteratorStaysValid` for `Careful` ones, and `EveryoneIsTold`, an
action property: a loop that ends, ends at the last place of the list, and all up to there
were told.

### Display list cache (`DisplayListCacheProofs`)

`IInv`: `TypeOK`, `CacheOwnsItsLists`, `OldestAtTheBack`, `PreviousFrameStays`. The latter three need each
other: what was drawn in this frame or the last has a young stamp; only old items
are flushed or recycled, and from the back, so that the young ones are in front; and
the order rests on ages that come round, which are right as long as no item is left alone for a
whole round: that is the bound in `NextFrame`, 2^32 frames in the code. Hence the lemmas on remainders (`AgeCases`, `OneFrameOlder`) and those on what
flush() keeps (`KeptIsTheFront`, `WhatIsFlushed`). From it: `NoListLeaks`, `OldestIsLast`,
`PreviousFrameIsCached`, and the action property `GrowthOnlyWhenNeeded`. OnDraw
may draw through the cache in all of this. `PreviousFrameStays` is for all ages, 0 among them, and so
speaks only of items that are no older than either; `DocumentedForPositiveAges` is the documentation's
own sentence, for ages of at least 1.

`ListsAlwaysDrawTheirObject` is for an OnDraw that does not (as the property says). Then there is
one call of draw() at most and a list is compiled only during it (`OneCall`), and each list holds
the one command that draws its object (`ListsHoldTheirObject`); that a list is compiled, recycled or
deleted under another item is excluded by `CacheOwnsItsLists`. What such a list shows is `Screen`, which follows
calls of lists to a depth; that its levels exist is proved by the least depth at which they would not
(`LevelsExist`), and then `ScreenOfOne` reads the first.

### Circular buffer (`CircularBufferProofs`)

`IInv`: `TypeOK` and `RingAgrees`: the beginning is inside the storage, the buffer is full when its size is
the capacity, and the end is "size" steps behind the beginning, once round or not (after a resize() that
cuts, it is behind the storage). From it: `BookkeepingAlwaysAgrees`, up to a write
behind the storage, and `BufferIsADeque`: read through operator[], each operation is that of `BoundedDeque`,
as documented, or one of `ShiftsRight`, `TakesInRubbish` and `WritesBehind`. One lemma per
operation (`PushBackRefines`, `ResizeRefines`...) compares the items before and after, place
by place. `CarefulClientHasADeque`: without these three steps the whole is a `BoundedDeque`.

### HTTP client (`HttpClientProofs`)

Any initial memory, both uses of `_enable`, OnReceive destroying the client or not.

* `IInv`: `TypeOK`, who is at a step of the critical section has the mutex
  (`MutexHeld`), the buffer keeps its answer until OnTick clears it
  (`BufferKeepsItsAnswer`), no thread before the constructor (`NoThreadUnborn`). From it:
  `HandlerAlwaysHasAFreshAnswer`.
* `WakeUpIsNeverLost`: once the destructor has signalled, a thread that can still wait for
  the signal finds it. This is the safe half of `DestructorReturns`; its hypothesis-free invariant
  says where the signal is for every position of both threads.
* `AssertionHolds`: the assertion in execute() that the client is connected fails only if the application
  clears `_enable` while the thread runs.

### Tiles (`TileNetworkProofs`)

Any number of slaves, any of them mortal, any bounds, errno stale or not, at slaves and at the master.

* `OrderInv`: `TypeOK`, `MessagesInOrder`, `MasterInPlace`, `Sockets` (a slave reads from
  its own connection), and `StreamsFollow`: what is on the way to a slave continues what it has. The
  last is `Lies`: two maps give for each unit of the stream which message
  it belongs to and which part of it, and every unit has the next one behind it. A read
  takes units from the front (`LiesHead`, `LiesTail`) and a send puts units at the back, and
  neither needs to know what is between. From it: `MessagesArriveInOrder`.
* `AckInv`: one ACK at most is on the way and it is awaited (`AcksInOrder`), it was sent for
  the last message (`LastIsCurrent`). From it:
  `AcksMeanReceived`. An ACK carries no number, so this is what makes it mean anything.
* `TileInv`: a slave that has acknowledged its tile has it or is about to (`TileTaken`), and
  there *are* a lower bound for the tile of each place of `_channel` and a place for each
  slave with a tile, under which numbers ascend (`Numbered`). In each round a place gets a number
  no greater than before, as channels are only given up; so the slaves numbered already
  this round stay below those that still have the number of an earlier one. A slave that a stale errno
  of the master has dropped (not `Kept`) keeps the tile it has, which another one may get too: it is out
  of the count, and once dropped stays so until it connects again (`KeptStays`). From it: `NoTileTwice`, and
  `NoTileTwiceAtAll` for every slave that lives, if nothing is left in the master's errno.

### Lists (`ListLemmas`)

Lists that shrink are described by where each item goes, in `ListRemoval`: `Staying`
counts the items that stay up to a place. `SelectSeq` would say the same in a line, but it is
recursive, and nothing can be proved from it. The lemmas (`WithoutProperties`, `WithoutTwins`, `WithoutTimes`...) say
which items stay, in which order and how often each. Where a proof would be by induction, it is
by the least counterexample (`LeastOf`): the library's theorems on induction have an operator
as a parameter.

### Only model-checked

* Liveness (`TicksArrive`, `FirstOpenIsServed`, `CloseIsServed`, `ProgramEnds`, `Terminates`,
  `DestructorReturns`, `LatestAnswerArrives`): fairness is outside the prover.
* That `normalise()` ends at all (`Terminates`): liveness. `AlwaysEndsInASum` says what holds if it does.
* Reading off and optimising the sum (`OptimisedIsTheTree`), and all of `CsgSequence` and `CsgPicture`
  (`PictureIsTheTree`, `EveryChainIsSubtracted`): their operators recurse over trees, graphs and
  sequences, and what such an operator computes cannot be proved by induction over data here.
* In `GlutMaster`, that idle events come (`IdleIsRegistered`) is false (section 4).

## 6. Not modelled

* Forwarded events, positions and sizes, game mode, full screen, menus; delays of
  timers. `setTick(0)` leaves a pending tick in the model as in the code; no property
  forbids its OnTick, since the documentation ("zero to disable") does not say.
* The variant of Goldfeather that keeps layers as stencil masks (`csg/goldlay2.cpp`):
  at line 368 its loop over products of one element uses the outer loop's variable.
  Concave shapes, which the other two draw in several layers.
* The overlap graph's computation from bounding boxes, meshes, VRML, mathematics,
  fonts, interpolation: floating point, out of TLC's reach.
* Images, files, strings, fields and the registry: conversion and pure I/O; there is
  no state whose history matters.
* `gltLife`: sequential and deterministic.
* `ReferenceCountPtr`: a count per object; where sharing changes behaviour, in
  `normalise()`, the sharing is modelled.
* Torn headers and full socket buffers in `TileNetwork`; a header of twelve bytes is
  sent by one call and arrives in one piece.
* Vendored libraries (GLUT, GLEW, GLUI, jpeg, png, zlib, zzip, ptypes), which are most
  of the repository's lines, beyond what the library calls of them.

## 7. Plan

Done: all modules above, their runs, and the proofs of section 5: the type invariant and the safety
invariants of timers, windows, their composition, cache, observers, buffer, HTTP client and tiles, the
invariants and the form of CSG normalisation; four refinements are proved
(`GlutTimer` and `GlutMaster` of `TimerService`, `GlutMaster` of `GlutWindows`, `CircularBuffer` of
`BoundedDeque`). Open: CSG beyond `normalise()`, that is
the sum that is read off, the sequences and the picture, which are model-checked.
