---------------------------- MODULE BoundedDeque ----------------------------
(***************************************************************************)
(* What the comments of cbuffer promise, with neither storage nor          *)
(* iterators: a sequence of at most "room" items, where pushing at one end *)
(* of a full buffer drops the item at the other, and whose contents can be *)
(* shifted to either side, what leaves at one end coming in at the other.  *)
(*                                                                         *)
(* "call" is what was asked for last.  A client sees its calls as well as  *)
(* the items, and a buffer that shifts right when it is asked to shift     *)
(* left is no deque.                                                       *)
(***************************************************************************)
EXTENDS Naturals, Sequences

CONSTANTS Vals, MaxCapacity

VARIABLES items, room, call

dequeVars == <<items, room, call>>

-----------------------------------------------------------------------------

(* The first and the last n items of s, or all of them.                      *)
First(s, n) == IF Len(s) <= n THEN s ELSE SubSeq(s, 1, n)
Final(s, n) == IF Len(s) <= n THEN s ELSE SubSeq(s, Len(s) - n + 1, Len(s))

Init == items = <<>> /\ room \in 0..MaxCapacity /\ call = <<"cbuffer">>

PushFront(x) ==
  /\ call' = <<"pushFront", x>>
  /\ items' = First(<<x>> \o items, room)
  /\ UNCHANGED room

PushBack(x) ==
  /\ call' = <<"pushBack", x>>
  /\ items' = Final(Append(items, x), room)
  /\ UNCHANGED room

PopFront ==
  /\ items # <<>>
  /\ call' = <<"popFront">>
  /\ items' = Tail(items)
  /\ UNCHANGED room

PopBack ==
  /\ items # <<>>
  /\ call' = <<"popBack">>
  /\ items' = First(items, Len(items) - 1)
  /\ UNCHANGED room

(* Each item moves one place to the left, the first to the back...           *)
ShiftedLeft == IF items = <<>> THEN <<>> ELSE Append(Tail(items), items[1])

(* ...and to the right, the last to the front.                               *)
ShiftedRight ==
  IF items = <<>> THEN <<>> ELSE <<items[Len(items)]>> \o First(items, Len(items) - 1)

LeftShift ==
  /\ call' = <<"leftShift">>
  /\ items' = ShiftedLeft
  /\ UNCHANGED room

RightShift ==
  /\ call' = <<"rightShift">>
  /\ items' = ShiftedRight
  /\ UNCHANGED room

Clear ==
  /\ call' = <<"clear">>
  /\ items' = <<>>
  /\ UNCHANGED room

(* Only the front items remain.                                              *)
Resize(c) ==
  /\ call' = <<"resize">>
  /\ room' = c
  /\ items' = First(items, c)

Next ==
  \/ \E x \in Vals : PushFront(x) \/ PushBack(x)
  \/ PopFront \/ PopBack
  \/ LeftShift \/ RightShift
  \/ Clear
  \/ \E c \in 0..MaxCapacity : Resize(c)

DequeSpec == Init /\ [][Next]_dequeVars

=============================================================================
