-------------------------- MODULE DisplayListCache --------------------------
(***************************************************************************)
(* GltDisplayListCache on top of the container lru: draw(id) calls the     *)
(* OpenGL display list kept for id, or compiles one from OnDraw(id).  Old  *)
(* lists are deleted, or recycled for another id, by their age in frames.  *)
(*                                                                         *)
(* OnDraw is code of the application and may draw further objects through  *)
(* the cache while its own list is being compiled: "stack" holds the calls *)
(* of draw() in progress.  A node of the list never changes the display    *)
(* list it holds, so the display list also names the node that _index      *)
(* points to.  OpenGL is external: names, contents and the list being      *)
(* compiled.                                                               *)
(***************************************************************************)
EXTENDS Naturals, FiniteSets, SequencesExt

CONSTANTS
  Keys,       \* the objects that are drawn
  Parts,      \* the objects that OnDraw draws in its turn, if it draws any
  Lists,      \* the names glGenLists can return: bound of the model
  NoList,     \* no display list
  MinAge,     \* _minAge
  MaxAge,     \* _maxAge
  Capacity,   \* _capacity
  Modulus     \* the frame number is counted modulo this: 2^32 in the code

ASSUME CacheAssumption ==
  /\ IsFiniteSet(Keys)
  /\ Parts \in [Keys -> Seq(Keys)]
  /\ IsFiniteSet(Lists)
  /\ NoList \notin Lists
  /\ MinAge \in Nat
  /\ MaxAge \in Nat
  /\ Capacity \in Nat
  /\ Modulus \in Nat /\ Modulus >= 2

VARIABLES
  lru,        \* _lru._list, the most recently used item in front
  index,      \* _lru._index: the node of each key, NoList for none
  frame,      \* _frameNumber
  enable,     \* _enable
  nested,     \* does OnDraw draw its parts through the cache?
  stack,      \* the calls of draw() whose OnDraw is running, innermost first
  content,    \* OpenGL: what each display list draws; a name not in use is absent
  compiling,  \* OpenGL: the list between glNewList and glEndList
  unused      \* for each key, the frames since its list was last drawn

cacheVars == <<lru, index, frame>>
glVars    == <<content, compiling>>
vars == <<lru, index, frame, enable, nested, stack, content, compiling, unused>>

-----------------------------------------------------------------------------
(* The container. *)

Entry == [key : Keys, list : Lists, stamp : 0..(Modulus - 1)]

Entries(s) == {s[p] : p \in DOMAIN s}

(* Where the node of k is in the list.                                       *)
Node(k) == CHOOSE p \in DOMAIN lru : lru[p].list = index[k]

(* Mistake: find(id,true) leaves the node where it is. *)
TouchNot(s, p, now) == [s EXCEPT ![p] = now]

(* The node at p becomes the most recently used one, holding "now".          *)
Touch(s, p, now) == <<now>> \o RemoveAt(s, p)

(* Mistake: the keys of items that are gone stay in the index. *)
UnindexNone(ks) == index

Unindex(ks) == [k \in Keys |-> IF k \in ks THEN NoList ELSE index[k]]

-----------------------------------------------------------------------------
(* Ages. *)

Age(e) == (frame + Modulus - e.stamp) % Modulus

(* What the loop at the start of draw() leaves: it deletes from the back as  *)
(* long as the last item is too old.                                         *)
Kept ==
  LET young == {p \in DOMAIN lru : Age(lru[p]) <= MaxAge}
  IN  SubSeq(lru, 1, Max(young \cup {0}))

Flushed == Entries(lru) \ Entries(Kept)

(* Mistake: a list drawn in the previous frame may be taken. *)
RecyclesAtOnce(s) ==
  /\ s # <<>>
  /\ Age(Last(s)) > MinAge \/ (Len(s) >= Capacity /\ Age(Last(s)) >= 1)

Recycles(s) ==
  /\ s # <<>>
  /\ Age(Last(s)) > MinAge \/ (Len(s) >= Capacity /\ Age(Last(s)) > 1)

-----------------------------------------------------------------------------
(* OpenGL.  A display list records the objects drawn and the calls of other  *)
(* lists; the latter are looked up when it is executed.                      *)

Commands == [object : Keys, list : Lists \cup {NoList}]

Drawn(k) == [object |-> k, list |-> NoList]
Called(k, l) == [object |-> k, list |-> l]

(* What executing the commands s shows, with the contents c of the lists.   *)
Screen(c, s) ==
  LET shows[depth \in 0..Cardinality(Keys)] ==
        [t \in Seq(Commands) |->
           FlattenSeq([p \in DOMAIN t |->
             IF t[p].list = NoList THEN <<t[p].object>>
             ELSE IF depth = 0 \/ t[p].list \notin DOMAIN c THEN <<>>
             ELSE shows[depth - 1][c[t[p].list]]])]
  IN  shows[Cardinality(Keys)][s]

(* The contents after a command: recorded if a list is being compiled.       *)
Record(c, l, command) ==
  IF l = NoList THEN c ELSE [c EXCEPT ![l] = Append(@, command)]

Delete(c, ls) == [l \in DOMAIN c \ ls |-> c[l]]

-----------------------------------------------------------------------------
(* Which draw() may come next: any at the top, the next part in an OnDraw.   *)

MayDraw(k) ==
  stack # <<>> => Head(stack).todo # <<>> /\ Head(Head(stack).todo) = k

Caller ==
  IF stack = <<>> THEN <<>>
  ELSE <<[Head(stack) EXCEPT !.todo = Tail(@)]>> \o Tail(stack)

(* OnDraw(k) starts: it draws the object and has its parts still to draw.    *)
EnterOnDraw(k, l) ==
  stack' = <<[list |-> l, todo |-> IF nested THEN Parts[k] ELSE <<>>]>> \o Caller

Used(k) == unused' = [unused EXCEPT ![k] = 0]

(* Mistake: clear() forgets glDeleteLists. *)
ClearedNone(c) == c

(* clear(), which does nothing for an empty cache.                           *)
ClearedAll(c) == Delete(c, {e.list : e \in Entries(lru)})

ClearCache ==
  /\ lru' = <<>>
  /\ index' = [k \in Keys |-> NoList]
  /\ frame' = IF lru = <<>> THEN frame ELSE 0
  /\ unused' = [k \in Keys |-> Modulus]

DrawDisabled(k) ==
  /\ MayDraw(k) /\ ~enable
  /\ ClearCache
  /\ content' = Record(ClearedAll(content), compiling, Drawn(k))
  /\ EnterOnDraw(k, NoList)
  /\ UNCHANGED <<enable, nested, compiling>>

DrawCached(k) ==
  LET e == Kept[Node(k)] IN
  /\ MayDraw(k) /\ enable
  /\ index[k] # NoList /\ Node(k) \in DOMAIN Kept
  /\ lru' = Touch(Kept, Node(k), [e EXCEPT !.stamp = frame])
  /\ index' = Unindex({f.key : f \in Flushed})
  /\ content' = Record(Delete(content, {f.list : f \in Flushed}), compiling,
                       Called(k, e.list))
  /\ stack' = Caller
  /\ Used(k)
  /\ UNCHANGED <<frame, enable, nested, compiling>>

(* glNewList, and OnDraw up to its first part.  Inside another list          *)
(* glNewList is an error and the commands go to the outer list.              *)
Compile(k, l, c) ==
  /\ compiling' = IF compiling = NoList THEN l ELSE compiling
  /\ content' = Record(IF compiling = NoList THEN [c EXCEPT ![l] = <<>>] ELSE c,
                       compiling', Drawn(k))
  /\ EnterOnDraw(k, l)

NotCached(k) == index[k] # NoList => Node(k) \notin DOMAIN Kept

DrawRecycled(k) ==
  LET e == Last(Kept) IN
  /\ MayDraw(k) /\ enable
  /\ NotCached(k) /\ Recycles(Kept)
  /\ lru' = Touch(Kept, Len(Kept), [key |-> k, list |-> e.list, stamp |-> frame])
  /\ index' = [Unindex({f.key : f \in Flushed} \cup {e.key}) EXCEPT ![k] = e.list]
  /\ Compile(k, e.list, Delete(content, {f.list : f \in Flushed}))
  /\ Used(k)
  /\ UNCHANGED <<frame, enable, nested>>

DrawNew(k) ==
  LET c == Delete(content, {f.list : f \in Flushed}) IN
  /\ MayDraw(k) /\ enable
  /\ NotCached(k) /\ ~Recycles(Kept)
  /\ \E l \in Lists \ DOMAIN c :
       /\ lru' = <<[key |-> k, list |-> l, stamp |-> frame]>> \o Kept
       /\ index' = [Unindex({f.key : f \in Flushed}) EXCEPT ![k] = l]
       /\ Compile(k, l, [m \in DOMAIN c \cup {l} |-> IF m = l THEN <<>> ELSE c[m]])
  /\ Used(k)
  /\ UNCHANGED <<frame, enable, nested>>

(* OnDraw returns; glEndList if the object was being compiled.               *)
ReturnFromOnDraw ==
  /\ stack # <<>> /\ Head(stack).todo = <<>>
  /\ stack' = Tail(stack)
  /\ compiling' = IF Head(stack).list = NoList THEN compiling ELSE NoList
  /\ UNCHANGED <<cacheVars, enable, nested, content, unused>>

Clear ==
  /\ stack = <<>>
  /\ lru # <<>>
  /\ ClearCache
  /\ content' = ClearedAll(content)
  /\ UNCHANGED <<enable, nested, stack, compiling>>

SetEnable(e) ==
  /\ stack = <<>>
  /\ enable' = e
  /\ UNCHANGED <<cacheVars, nested, stack, glVars, unused>>

(* operator++.  The bound: no item is left alone for as long as it takes the *)
(* frame number to come round.                                               *)
NextFrame ==
  /\ stack = <<>>
  /\ \A e \in Entries(lru) : Age(e) < Modulus - 1
  /\ frame' = (frame + 1) % Modulus
  /\ unused' = [k \in Keys |-> IF unused[k] < Modulus THEN unused[k] + 1
                               ELSE Modulus]
  /\ UNCHANGED <<lru, index, enable, nested, stack, glVars>>

-----------------------------------------------------------------------------

Init ==
  /\ lru = <<>>
  /\ index = [k \in Keys |-> NoList]
  /\ frame = 0
  /\ enable = TRUE
  /\ nested \in BOOLEAN
  /\ stack = <<>>
  /\ content = <<>>
  /\ compiling = NoList
  /\ unused = [k \in Keys |-> Modulus]

Next ==
  \/ \E k \in Keys :
       \/ DrawDisabled(k)
       \/ DrawCached(k)
       \/ DrawRecycled(k)
       \/ DrawNew(k)
  \/ ReturnFromOnDraw
  \/ Clear
  \/ \E e \in BOOLEAN : SetEnable(e)
  \/ NextFrame

Spec == Init /\ [][Next]_vars

-----------------------------------------------------------------------------
(* Properties. *)

TypeOK ==
  /\ lru \in Seq(Entry)
  /\ index \in [Keys -> Lists \cup {NoList}]
  /\ frame \in 0..(Modulus - 1)
  /\ enable \in BOOLEAN /\ nested \in BOOLEAN
  /\ stack \in Seq([list : Lists \cup {NoList}, todo : Seq(Keys)])
  /\ DOMAIN content \subseteq Lists
  /\ \A l \in DOMAIN content : content[l] \in Seq(Commands)
  /\ compiling \in Lists \cup {NoList}
  /\ unused \in [Keys -> 0..Modulus]

(* Nothing leaks and nothing is shared: the display lists that exist in      *)
(* OpenGL are the ones the items hold, each in one item, and the index leads *)
(* from each key to its item - also after items were flushed or recycled in  *)
(* the middle of the drawing of another.                                     *)
CacheOwnsItsLists ==
  /\ {e.list : e \in Entries(lru)} = DOMAIN content
  /\ \A p, q \in DOMAIN lru : lru[p].list = lru[q].list => p = q
  /\ \A k \in Keys, l \in Lists :
       index[k] = l <=> \E e \in Entries(lru) : e.key = k /\ e.list = l

(* The frame numbers come round and clear() sets them back, but the age read *)
(* from a time stamp is the number of frames since the item was drawn, and   *)
(* the items are ordered by it, so that the last is the oldest.              *)
OldestAtTheBack ==
  /\ \A e \in Entries(lru) : Age(e) = unused[e.key]
  /\ \A p, q \in DOMAIN lru : p < q => Age(lru[p]) <= Age(lru[q])

(* What was drawn in this frame or the one before keeps its list, whatever   *)
(* is flushed and recycled (unless the cache is cleared or disabled), as far *)
(* as the ages go that the cache was made with: with _minAge 0 a list drawn  *)
(* in the previous frame is recycled, with _maxAge 0 it is flushed.          *)
Recent(age) == age <= 1 /\ age <= MinAge /\ age <= MaxAge

PreviousFrameStays == \A k \in Keys : Recent(unused[k]) => index[k] # NoList

(* "The display lists used in the previous frame will always remained        *)
(* cached" (dlcache.h:66-67), which nothing in the constructor sees to: it   *)
(* takes ages of 0.                                                          *)
PreviousFrameAlwaysStays == \A k \in Keys : unused[k] <= 1 => index[k] # NoList

(* _capacity is exceeded only when all the lists kept are needed: each was   *)
(* used in this frame or the previous one.                                   *)
GrowsOnlyForRecentFrames ==
  [][Len(lru') > Len(lru) /\ Len(lru) >= Capacity
       => \A e \in Entries(lru) : unused[e.key] <= 1]_vars

(* If OnDraw does not draw through the cache, the list that draw() finds for  *)
(* an object shows that object and nothing else - after any recycling.        *)
ListsDrawTheirObject ==
  ~nested => \A k \in Keys : index[k] # NoList =>
               /\ index[k] \in DOMAIN content
               /\ Screen(content, content[index[k]]) = <<k>>

=============================================================================
