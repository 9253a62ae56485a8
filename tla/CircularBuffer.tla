--------------------------- MODULE CircularBuffer ---------------------------
(***************************************************************************)
(* The container cbuffer: a vector of fixed length used as a ring between  *)
(* two iterators.  The iterators are positions from 0; "cap" as a position *)
(* is parent::end(), where nothing may be read or written.                 *)
(*                                                                         *)
(* Where the code writes behind the storage, or takes an iterator off it,  *)
(* "fault" is set and the model ends: nobody knows what the program does   *)
(* then.  pop_front() and pop_back() of an empty buffer fail an assertion  *)
(* and do nothing without it.                                              *)
(***************************************************************************)
EXTENDS Naturals, Sequences, FiniteSetsExt

CONSTANTS
  Vals,        \* the items
  Default,     \* T(), what the storage holds before it is used
  MaxCapacity  \* bound of the model on the capacity

ASSUME BufferAssumption ==
  /\ Default \notin Vals
  /\ MaxCapacity \in Nat

VARIABLES
  cap,    \* capacity(): parent::size()
  cells,  \* the storage
  begin,  \* _begin
  end,    \* _end
  size,   \* _size
  full,   \* _full
  fault,  \* memory that is not the buffer's was written
  call    \* history: what the client asked for last

ring == <<cap, cells, begin, end, size, full>>

vars == <<ring, fault, call>>

-----------------------------------------------------------------------------

Storage(c) == [0..(c - 1) -> Vals \cup {Default}]

(* Mistake to be noticed: no check for wrap-around. *)
IncrementStraight(i) == i + 1

Increment(i) == IF i + 1 = cap THEN 0 ELSE i + 1

Decrement(i) == IF i = 0 THEN cap - 1 ELSE i - 1

(* The address that operator[] finds for the i'th item, from 0.              *)
At(i) ==
  IF begin < end \/ i < cap - begin THEN begin + i ELSE i - (cap - begin)

Empty == ~full /\ begin = end

(* Nothing checks this before push_back() writes.                            *)
EndIsOutside == cap > 0 /\ end = cap

-----------------------------------------------------------------------------

(* The client calls, and no memory of others is touched.                     *)
Called(c) == ~fault /\ call' = c /\ fault' = FALSE

Fault(c) == ~fault /\ call' = c /\ fault' = TRUE /\ UNCHANGED ring

(* _size and _full after one more item.                                      *)
Grow ==
  /\ size' = IF full THEN size ELSE size + 1
  /\ full' = (full \/ size + 1 = cap)

PushFront(x) ==
  /\ cap > 0
  /\ Called(<<"pushFront", x>>)
  /\ begin' = Decrement(begin)
  /\ cells' = [cells EXCEPT ![begin'] = x]
  /\ end' = IF full THEN Decrement(end) ELSE end
  /\ Grow
  /\ UNCHANGED cap

PushBackInside(x) ==
  /\ ~EndIsOutside
  /\ Called(<<"pushBack", x>>)
  /\ cells' = [cells EXCEPT ![end] = x]
  /\ end' = Increment(end)
  /\ begin' = IF full THEN Increment(begin) ELSE begin
  /\ Grow
  /\ UNCHANGED cap

PushBack(x) ==
  /\ cap > 0
  /\ PushBackInside(x) \/ (EndIsOutside /\ Fault(<<"pushBack", x>>))

PopFront ==
  /\ size > 0
  /\ Called(<<"popFront">>)
  /\ begin' = Increment(begin)
  /\ size' = size - 1
  /\ full' = FALSE
  /\ UNCHANGED <<cap, cells, end>>

PopBack ==
  /\ size > 0
  /\ Called(<<"popBack">>)
  /\ end' = Decrement(end)
  /\ size' = size - 1
  /\ full' = FALSE
  /\ UNCHANGED <<cap, cells, begin>>

(* The body of leftShift() and, word for word, of rightShift(): both         *)
(* iterators step back, whether the buffer is full or not, so that the items *)
(* move right.  With no storage they step off it.                            *)
StepBack(c) ==
  /\ cap > 0
  /\ Called(c)
  /\ begin' = Decrement(begin)
  /\ end' = Decrement(end)
  /\ UNCHANGED <<cap, cells, size, full>>

Shift(c) == StepBack(c) \/ (cap = 0 /\ Fault(c))

LeftShift == Shift(<<"leftShift">>)

RightShift == Shift(<<"rightShift">>)

Clear ==
  /\ Called(<<"clear">>)
  /\ begin' = 0 /\ end' = 0
  /\ size' = 0
  /\ full' = FALSE
  /\ UNCHANGED <<cap, cells>>

(* Mistake: the storage is copied as it lies. *)
SourceStraight(j) == j

(* Where the iterator of resize() stands after j steps in the old storage.   *)
Source(j) ==
  LET after[k \in Nat] == IF k = 0 THEN begin ELSE Increment(after[k - 1])
  IN  after[j]

(* A new buffer of c items, to which the front items are copied one by one;  *)
(* _end is left behind the last, even if that is the end of the storage.     *)
Resize(c) ==
  /\ c # cap
  /\ Called(<<"resize">>)
  /\ cap' = c
  /\ begin' = 0
  /\ size' = Min({size, c})
  /\ end' = size'
  /\ full' = (size' = c)
  /\ cells' = [j \in 0..(c - 1) |-> IF j < size' THEN cells[Source(j)] ELSE Default]

-----------------------------------------------------------------------------

Init ==
  /\ cap \in 0..MaxCapacity
  /\ cells = [i \in 0..(cap - 1) |-> Default]
  /\ begin = 0 /\ end = 0
  /\ size = 0
  /\ full = FALSE
  /\ fault = FALSE
  /\ call = <<"cbuffer">>

Next ==
  \/ \E x \in Vals : PushFront(x) \/ PushBack(x)
  \/ PopFront \/ PopBack
  \/ LeftShift \/ RightShift
  \/ Clear
  \/ \E c \in 0..MaxCapacity : Resize(c)

Spec == Init /\ [][Next]_vars

-----------------------------------------------------------------------------
(* Properties. *)

TypeOK ==
  /\ cap \in 0..MaxCapacity
  /\ cells \in Storage(cap)
  /\ begin \in 0..cap /\ end \in 0..cap
  /\ size \in 0..cap
  /\ full \in BOOLEAN /\ fault \in BOOLEAN

(* The flag, the size and the iterators tell one story: the end is "size"    *)
(* steps behind the beginning, so that full() and empty() are right, though  *)
(* both find the iterators equal - except that after a resize() that cut the *)
(* buffer to what it held the end may stand behind the storage.              *)
BookkeepingAgrees ==
  cap > 0 =>
    /\ full <=> size = cap
    /\ begin < cap
    /\ (end % cap) = (begin + size) % cap
    /\ ~EndIsOutside => (Empty <=> size = 0)

(* The items that operator[] reads.                                          *)
Items == [i \in 1..size |-> cells[At(i - 1)]]

Deque == INSTANCE BoundedDeque WITH items <- Items, room <- cap

(* What is not as a deque does it.  leftShift() of a full buffer shifts it    *)
(* right, for all its comment says (241): the same for up to two items.      *)
ShiftsRight ==
  /\ call' = <<"leftShift">> /\ full /\ size > 2
  /\ Items' = Deque!ShiftedRight
  /\ UNCHANGED cap

(* Either shift of a buffer that is not full drops the last item and takes   *)
(* in whatever lies in front of the first.                                   *)
TakesInRubbish ==
  /\ call' \in {<<"leftShift">>, <<"rightShift">>} /\ size \in 1..(cap - 1)
  /\ Tail(Items') = Deque!First(Items, size - 1)
  /\ UNCHANGED cap

(* push_back() writes behind the storage after a resize() to no more than    *)
(* the buffer held.                                                          *)
WritesBehind ==
  /\ \E x \in Vals : call' = <<"pushBack", x>>
  /\ EndIsOutside /\ fault'

(* Every call, in any history, does to the items that operator[] reads what  *)
(* the comments promise and a bounded deque does, in order and dropping the  *)
(* item at the other end when full - with the three exceptions named above:  *)
(* a left shift of more than two items, a shift of a buffer partly filled,   *)
(* and push_back() after a resize() that cut the buffer to what it held.     *)
ImplementsDeque ==
  /\ Deque!Init
  /\ [][Deque!Next \/ ShiftsRight \/ TakesInRubbish \/ WritesBehind]_(Deque!dequeVars)

(* "Shift the contents left" (line 241), of a full buffer: the code shifts   *)
(* them right.                                                               *)
LeftShiftsLeft == [][full /\ call' = <<"leftShift">> => Items' = Deque!ShiftedLeft]_vars

(* No call writes outside the storage: push_back() does, see resize().       *)
StaysInside == ~fault

=============================================================================
