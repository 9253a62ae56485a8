--------------------------- MODULE TileNetworkProofs ---------------------------
(***************************************************************************)
(* Proofs about TileNetwork, for any slaves, bounds and errors of their    *)
(* sockets: messages arrive in order, an ACK means that the message was    *)
(* received, and no two slaves that the master has kept have the same tile. *)
(***************************************************************************)
EXTENDS TileNetwork, FiniteSetTheorems, SequenceTheorems, TLAPS

-----------------------------------------------------------------------------
(* Streams. *)

Stream == [part : {"header", "data"}, msg : Message]

(* The k'th part of a message, and whether it is the last.                   *)
Part(m, k) == [part |-> IF k = 0 THEN "header" ELSE "data", msg |-> m]
Ends(m, k) == k = 2 \/ ~IsSet(m)

(* The stream t consists of what was sent in s, from part k of the n'th      *)
(* message on: each unit of it is a part of a message, and has its           *)
(* successor.                                                                *)
Lies(s, t, n, k) ==
  \E mess, part \in [1..(Len(t) + 1) -> Nat] :
    /\ mess[1] = n /\ part[1] = k
    /\ mess[Len(t) + 1] = Len(s) + 1 /\ part[Len(t) + 1] = 0
    /\ \A p \in 1..Len(t) :
         /\ mess[p] \in 1..Len(s)
         /\ t[p] = Part(s[mess[p]], part[p])
         /\ mess[p + 1] = IF Ends(s[mess[p]], part[p]) THEN mess[p] + 1 ELSE mess[p]
         /\ part[p + 1] = IF Ends(s[mess[p]], part[p]) THEN 0 ELSE part[p] + 1

(* Nothing sent, nothing on the way.                                         *)
LEMMA LiesEmpty == Lies(<<>>, <<>>, 1, 0)
<1> DEFINE mess == [p \in 1..1 |-> 1]
           part == [p \in 1..1 |-> 0]
<1>1. /\ mess \in [1..(Len(<<>>) + 1) -> Nat] /\ part \in [1..(Len(<<>>) + 1) -> Nat]
      /\ mess[1] = 1 /\ part[1] = 0
      /\ mess[Len(<<>>) + 1] = Len(<<>>) + 1 /\ part[Len(<<>>) + 1] = 0
      /\ 1..Len(<<>>) = {}
  OBVIOUS
<1> QED
  BY <1>1 DEF Lies

(* What is first on the way.                                                 *)
LEMMA LiesHead ==
  ASSUME NEW s \in Seq(Message), NEW t \in Seq(Stream), NEW n, NEW k,
         Lies(s, t, n, k), t # <<>>
  PROVE  n \in 1..Len(s) /\ Head(t) = Part(s[n], k)
<1>1. 1 \in 1..Len(t) /\ Head(t) = t[1]
  OBVIOUS
<1> QED
  BY <1>1 DEF Lies

(* ... and what is on the way once it is taken.                              *)
LEMMA LiesTail ==
  ASSUME NEW s \in Seq(Message), NEW t \in Seq(Stream), NEW n, NEW k,
         Lies(s, t, n, k), t # <<>>
  PROVE  IF Ends(s[n], k) THEN Lies(s, Tail(t), n + 1, 0) ELSE Lies(s, Tail(t), n, k + 1)
<1>1. PICK mess \in [1..(Len(t) + 1) -> Nat], part \in [1..(Len(t) + 1) -> Nat] :
        /\ mess[1] = n /\ part[1] = k
        /\ mess[Len(t) + 1] = Len(s) + 1 /\ part[Len(t) + 1] = 0
        /\ \A p \in 1..Len(t) :
             /\ mess[p] \in 1..Len(s)
             /\ t[p] = Part(s[mess[p]], part[p])
             /\ mess[p + 1] = IF Ends(s[mess[p]], part[p]) THEN mess[p] + 1 ELSE mess[p]
             /\ part[p + 1] = IF Ends(s[mess[p]], part[p]) THEN 0 ELSE part[p] + 1
  BY DEF Lies
<1> DEFINE u == Tail(t)
           messT == [p \in 1..(Len(u) + 1) |-> mess[p + 1]]
           partT == [p \in 1..(Len(u) + 1) |-> part[p + 1]]
<1>2. /\ Len(t) \in Nat \ {0} /\ Len(u) = Len(t) - 1
      /\ \A p \in 1..Len(u) : u[p] = t[p + 1]
  OBVIOUS
<1> HIDE DEF u
<1>3. /\ messT \in [1..(Len(u) + 1) -> Nat] /\ partT \in [1..(Len(u) + 1) -> Nat]
      /\ messT[1] = mess[2] /\ partT[1] = part[2]
      /\ messT[Len(u) + 1] = Len(s) + 1 /\ partT[Len(u) + 1] = 0
  BY <1>1, <1>2
<1>4. ASSUME NEW p \in 1..Len(u)
      PROVE  /\ messT[p] \in 1..Len(s)
             /\ u[p] = Part(s[messT[p]], partT[p])
             /\ messT[p + 1] = IF Ends(s[messT[p]], partT[p]) THEN messT[p] + 1 ELSE messT[p]
             /\ partT[p + 1] = IF Ends(s[messT[p]], partT[p]) THEN 0 ELSE partT[p] + 1
  <2>1. /\ p + 1 \in 1..Len(t) /\ p \in 1..(Len(u) + 1) /\ p + 1 \in 1..(Len(u) + 1)
        /\ messT[p] = mess[p + 1] /\ partT[p] = part[p + 1]
        /\ messT[p + 1] = mess[(p + 1) + 1] /\ partT[p + 1] = part[(p + 1) + 1]
    BY <1>2
  <2> QED
    BY <1>1, <1>2, <2>1
<1>5. Lies(s, u, mess[2], part[2])
  <2> HIDE DEF messT, partT
  <2> QED
    BY <1>3, <1>4 DEF Lies
<1>6. /\ mess[2] = IF Ends(s[n], k) THEN n + 1 ELSE n
      /\ part[2] = IF Ends(s[n], k) THEN 0 ELSE k + 1
  BY <1>1, <1>2
<1> QED
  BY <1>5, <1>6 DEF u

(* The parts of a message as they are sent.                                  *)
LEMMA UnitsOf ==
  ASSUME NEW m \in Message
  PROVE  /\ Units(m) \in Seq(Stream)
         /\ Len(Units(m)) = IF IsSet(m) THEN 3 ELSE 1
         /\ \A q \in 1..(IF IsSet(m) THEN 3 ELSE 1) : Units(m)[q] = Part(m, q - 1)
<1>1. CASE IsSet(m)
  <2> DEFINE h == <<Part(m, 0)>>
             d == <<Part(m, 1), Part(m, 2)>>
  <2>1. Units(m) = h \o d
    <3>1. /\ Part(m, 0) = [part |-> "header", msg |-> m]
          /\ Part(m, 1) = [part |-> "data", msg |-> m]
          /\ Part(m, 2) = [part |-> "data", msg |-> m]
      BY DEF Part
    <3>2. h = <<[part |-> "header", msg |-> m]>>
      BY <3>1
    <3>3. d = <<[part |-> "data", msg |-> m], [part |-> "data", msg |-> m]>>
      BY <3>1
    <3> HIDE DEF h, d
    <3> QED
      BY <1>1, <3>2, <3>3, Zenon DEF Units
  <2>2. /\ h \in Seq(Stream) /\ Len(h) = 1 /\ h[1] = Part(m, 0)
        /\ d \in Seq(Stream) /\ Len(d) = 2 /\ d[1] = Part(m, 1) /\ d[2] = Part(m, 2)
    <3>1. \A q \in {0, 1, 2} : Part(m, q) \in Stream
      BY DEF Part, Stream
    <3> QED
      BY <3>1
  <2> HIDE DEF h, d
  <2>3. /\ h \o d \in Seq(Stream) /\ Len(h \o d) = 3
        /\ \A q \in 1..3 : (h \o d)[q] = IF q <= 1 THEN h[q] ELSE d[q - 1]
    <3>1. /\ h \o d \in Seq(Stream)
          /\ Len(h \o d) = Len(h) + Len(d)
          /\ \A q \in 1..(Len(h) + Len(d)) :
               (h \o d)[q] = IF q <= Len(h) THEN h[q] ELSE d[q - Len(h)]
      BY <2>2, ConcatProperties
    <3> QED
      BY <2>2, <3>1
  <2>4. ASSUME NEW q \in 1..3
        PROVE  (h \o d)[q] = Part(m, q - 1)
    <3>1. q = 1 \/ q = 2 \/ q = 3
      OBVIOUS
    <3> QED
      BY <2>2, <2>3, <3>1
  <2> QED
    BY <1>1, <2>1, <2>3, <2>4
<1>2. CASE ~IsSet(m)
  <2>1. Units(m) = <<Part(m, 0)>> /\ Part(m, 0) \in Stream
    BY <1>2 DEF Units, Part, Stream
  <2> QED
    BY <1>2, <2>1
<1> QED
  BY <1>1, <1>2

(* Sending one message more.                                                 *)
LEMMA LiesAppend ==
  ASSUME NEW s \in Seq(Message), NEW t \in Seq(Stream), NEW n, NEW k,
         NEW m \in Message, Lies(s, t, n, k)
  PROVE  Lies(Append(s, m), t \o Units(m), n, k)
<1>1. PICK mess \in [1..(Len(t) + 1) -> Nat], part \in [1..(Len(t) + 1) -> Nat] :
        /\ mess[1] = n /\ part[1] = k
        /\ mess[Len(t) + 1] = Len(s) + 1 /\ part[Len(t) + 1] = 0
        /\ \A p \in 1..Len(t) :
             /\ mess[p] \in 1..Len(s)
             /\ t[p] = Part(s[mess[p]], part[p])
             /\ mess[p + 1] = IF Ends(s[mess[p]], part[p]) THEN mess[p] + 1 ELSE mess[p]
             /\ part[p + 1] = IF Ends(s[mess[p]], part[p]) THEN 0 ELSE part[p] + 1
  BY DEF Lies
<1> DEFINE w == IF IsSet(m) THEN 3 ELSE 1
           u == t \o Units(m)
           r == Append(s, m)
           messA == [p \in 1..(Len(u) + 1) |->
                       IF p <= Len(t) + 1 THEN mess[p]
                       ELSE IF p <= Len(t) + w THEN Len(s) + 1 ELSE Len(s) + 2]
           partA == [p \in 1..(Len(u) + 1) |->
                       IF p <= Len(t) + 1 THEN part[p]
                       ELSE IF p <= Len(t) + w THEN p - Len(t) - 1 ELSE 0]
<1>2. /\ Units(m) \in Seq(Stream) /\ Len(Units(m)) = w
      /\ \A q \in 1..w : Units(m)[q] = Part(m, q - 1)
  BY UnitsOf
<1>3. /\ Len(t) \in Nat /\ Len(s) \in Nat /\ w \in {1, 3} /\ Len(r) = Len(s) + 1
      /\ Len(u) = Len(t) + w
      /\ \A p \in 1..Len(t) : u[p] = t[p]
      /\ \A q \in 1..w : u[Len(t) + q] = Part(m, q - 1)
      /\ \A q \in 1..Len(s) : r[q] = s[q]
      /\ r[Len(s) + 1] = m
  <2>1. /\ Len(t) \in Nat /\ Len(s) \in Nat /\ w \in {1, 3} /\ Len(r) = Len(s) + 1
        /\ \A q \in 1..Len(s) : r[q] = s[q]
        /\ r[Len(s) + 1] = m
    BY AppendProperties
  <2> HIDE DEF w, r
  <2>2. /\ Len(u) = Len(t) + w
        /\ \A p \in 1..Len(u) : u[p] = IF p <= Len(t) THEN t[p] ELSE Units(m)[p - Len(t)]
    BY ZenonT(60), <1>2, ConcatProperties
  <2> HIDE DEF u
  <2>3. ASSUME NEW q \in 1..w
        PROVE  u[Len(t) + q] = Part(m, q - 1)
    <3>1. Len(t) + q \in 1..Len(u) /\ ~(Len(t) + q <= Len(t)) /\ (Len(t) + q) - Len(t) = q
      BY <2>1, <2>2
    <3> QED
      BY <1>2, <2>2, <3>1
  <2> QED
    BY <2>1, <2>2, <2>3
<1>4. w = 3 <=> IsSet(m)
  OBVIOUS
<1> HIDE DEF w, u, r
<1>5. /\ messA \in [1..(Len(u) + 1) -> Nat] /\ partA \in [1..(Len(u) + 1) -> Nat]
      /\ messA[1] = n /\ partA[1] = k
      /\ messA[Len(u) + 1] = Len(r) + 1 /\ partA[Len(u) + 1] = 0
  BY <1>1, <1>3
<1>6. ASSUME NEW p \in 1..Len(u)
      PROVE  /\ messA[p] \in 1..Len(r)
             /\ u[p] = Part(r[messA[p]], partA[p])
             /\ messA[p + 1] = IF Ends(r[messA[p]], partA[p]) THEN messA[p] + 1 ELSE messA[p]
             /\ partA[p + 1] = IF Ends(r[messA[p]], partA[p]) THEN 0 ELSE partA[p] + 1
  <2>1. CASE p <= Len(t)
    <3>1. /\ p \in 1..Len(t)
          /\ messA[p] = mess[p] /\ partA[p] = part[p]
          /\ messA[p + 1] = mess[p + 1] /\ partA[p + 1] = part[p + 1]
      BY SMTT(30), <1>3, <2>1
    <3>2. mess[p] \in 1..Len(s) /\ r[mess[p]] = s[mess[p]]
      BY <1>1, <1>3, <3>1
    <3> QED
      BY <1>1, <1>3, <3>1, <3>2
  <2>2. CASE p > Len(t)
    <3> DEFINE q == p - Len(t)
    <3>1. q \in 1..w /\ p = Len(t) + q
      BY <1>3, <2>2
    <3>2. messA[p] = Len(s) + 1 /\ partA[p] = q - 1
      BY <1>1, <1>3, <3>1
    <3>3. /\ messA[p + 1] = IF q = w THEN Len(s) + 2 ELSE Len(s) + 1
          /\ partA[p + 1] = IF q = w THEN 0 ELSE q
      BY <1>1, <1>3, <3>1
    <3> HIDE DEF q, messA, partA
    <3>4. u[p] = Part(m, q - 1) /\ r[messA[p]] = m
      BY <1>3, <3>1, <3>2
    <3>5. Ends(m, q - 1) <=> q = w
      <4>1. CASE IsSet(m)
        BY <1>4, <3>1, <4>1 DEF Ends
      <4>2. CASE ~IsSet(m)
        BY <1>3, <1>4, <3>1, <4>2 DEF Ends
      <4> QED
        BY <4>1, <4>2
    <3>6. messA[p] \in 1..Len(r)
      BY <1>3, <3>2
    <3>7. u[p] = Part(r[messA[p]], partA[p])
      BY <3>2, <3>4
    <3>8. Ends(r[messA[p]], partA[p]) <=> q = w
      BY <3>2, <3>4, <3>5
    <3>9. q \in Nat /\ Len(s) \in Nat
      BY <1>3, <3>1
    <3>10. CASE q = w
      BY <3>2, <3>3, <3>6, <3>7, <3>8, <3>9, <3>10
    <3>11. CASE q # w
      BY <3>2, <3>3, <3>6, <3>7, <3>8, <3>9, <3>11
    <3> QED
      BY <3>10, <3>11
  <2> QED
    BY <1>3, <2>1, <2>2
<1>7. Lies(r, u, n, k)
  <2> HIDE DEF messA, partA
  <2> QED
    BY <1>5, <1>6 DEF Lies
<1> QED
  BY <1>7 DEF r, u

-----------------------------------------------------------------------------
(* The inductive invariant. *)

(* The master waits on a channel that is there.                              *)
MasterInPlace ==
  /\ master.at >= 1
  /\ master.waits => /\ master.phase \in {"state", "tile"}
                     /\ master.at \in 1..Len(channel)
                     /\ channel[master.at] \notin lost

(* A slave may still read from its socket.                                   *)
Live(c) == connected[c] \/ reading[c].at # "idle"

Sockets ==
  \A c \in Clients :
    /\ socket[c] # 0 => link[socket[c]].client = c
    /\ Live(c) => socket[c] # 0 /\ c \in up

(* What is on the way to a slave follows what it has, up to the last that    *)
(* was sent.                                                                 *)
Follows(c) ==
  LET l == link[socket[c]]
      n == Len(l.got) + 1 IN
  /\ reading[c].at \in {"idle", "header"} => Lies(l.sent, l.stream, n, 0)
  /\ reading[c].at = "data" =>
       /\ n <= Len(l.sent) /\ l.sent[n] = reading[c].msg /\ IsSet(l.sent[n])
       /\ Lies(l.sent, l.stream, n, 1)
  /\ reading[c].at = "deliver" =>
       /\ n <= Len(l.sent) /\ l.sent[n] = reading[c].msg
       /\ Lies(l.sent, l.stream, n + 1, 0)

StreamsFollow == \A c \in Clients : Live(c) => Follows(c)

OrderInv ==
  TypeOK /\ MasterInPlace /\ Sockets /\ StreamsFollow /\ MessagesInOrder

-----------------------------------------------------------------------------
(* What each step does to the connections. *)

Link == [client : Clients, sent : Seq(Message), ack : BOOLEAN,
         stream : Seq(Stream), got : Seq(Message \cup {Garbage})]

(* Nothing but connection i changes.                                         *)
OnlyLink(i) ==
  /\ link' \in Seq(Link)
  /\ Len(link') = Len(link)
  /\ link'[i].client = link[i].client
  /\ \A j \in 1..Len(link) : j # i => link'[j] = link[j]

(* The connections of a well-typed state, as facts about each of them. *)
LEMMA Types ==
  ASSUME TypeOK
  PROVE  /\ link \in Seq(Link) /\ Conns = 1..Len(link) /\ Len(link) \in Nat
         /\ \A i \in Conns : /\ link[i] \in Link
                             /\ link[i].client \in Clients
                             /\ link[i].sent \in Seq(Message)
                             /\ link[i].stream \in Seq(Stream)
                             /\ link[i].got \in Seq(Message \cup {Garbage})
                             /\ link[i].ack \in BOOLEAN
<1>1. link \in Seq(Link)
  BY DEF TypeOK, Link, Stream
<1>2. Conns = 1..Len(link) /\ Len(link) \in Nat
  BY <1>1 DEF Conns
<1>3. \A i \in Conns : link[i] \in Link
  BY <1>1, <1>2
<1> QED
  BY <1>1, <1>2, <1>3 DEF Link

(* What the master sends is a message.                                       *)
LEMMA CurrentIsAMessage ==
  ASSUME TypeOK, Looping
  PROVE  Current \in Message
<1>1. /\ master.phase \in {"state", "tile", "step"}
      /\ master.tile \in Nat /\ version \in Nat /\ steps \in Nat
  BY TileAssumption DEF TypeOK, Looping, Idle, Aborted
<1> QED
  BY <1>1 DEF Current, Message

(* The master's send() appends the message to what one connection was sent, *)
(* and writes its units to the stream. *)
LEMMA SendDoes ==
  ASSUME TypeOK, master.at >= 1, Send, NEW i, i = channel[master.at]
  PROVE  /\ i \in Conns /\ i \notin lost /\ Current \in Message
         /\ master.at \in 1..Len(channel)
         /\ OnlyLink(i)
         /\ link'[i].sent = Append(link[i].sent, Current)
         /\ link'[i].stream = IF Reset(i) THEN <<>> ELSE link[i].stream \o Units(Current)
         /\ link'[i].ack = link[i].ack
         /\ link'[i].got = link[i].got
<1>1. /\ master.at \in 1..Len(channel) /\ i \in Conns /\ i \notin lost
      /\ Current \in Message
  BY CurrentIsAMessage DEF TypeOK, Send, Sending
<1> DEFINE A == Append(link[i].sent, Current)
           B == IF Reset(i) THEN <<>> ELSE link[i].stream \o Units(Current)
           r == [link[i] EXCEPT !.sent = A, !.stream = B]
<1>2. A \in Seq(Message) /\ B \in Seq(Stream)
  <2>1. link[i].sent \in Seq(Message) /\ link[i].stream \in Seq(Stream)
    BY <1>1, Types
  <2>2. Units(Current) \in Seq(Stream)
    BY <1>1, UnitsOf
  <2> QED
    BY <1>1, <2>1, <2>2
<1>3. link' = [link EXCEPT ![i].sent = A, ![i].stream = B]
  BY DEF Send
<1> HIDE DEF A, B
<1>4. /\ r \in Link /\ r.client = link[i].client /\ r.sent = A /\ r.stream = B
      /\ r.ack = link[i].ack /\ r.got = link[i].got
  <2>1. link[i] \in Link
    BY <1>1, Types
  <2> QED
    BY <1>2, <2>1 DEF Link
<1>5. link' = [link EXCEPT ![i] = r]
  BY <1>1, <1>3, Types
<1> HIDE DEF r
<1>6. OnlyLink(i) /\ link'[i] = r
  <2>1. link \in Seq(Link) /\ i \in 1..Len(link)
    BY <1>1, Types
  <2> QED
    BY <1>4, <1>5, <2>1, ExceptSeq DEF OnlyLink
<1> QED
  BY <1>1, <1>4, <1>6 DEF A, B

(* An update of one connection leaves the others alone. *)
LEMMA LinkUpdate ==
  ASSUME TypeOK, NEW i \in Conns, NEW r \in Link, r.client = link[i].client,
         link' = [link EXCEPT ![i] = r]
  PROVE  OnlyLink(i) /\ link'[i] = r
<1>1. link \in Seq(Link) /\ i \in 1..Len(link)
  BY Types
<1> QED
  BY <1>1, ExceptSeq DEF OnlyLink

(* Waiting for an ACK takes it off one connection. *)
LEMMA ReceiveAckDoes ==
  ASSUME TypeOK, MasterInPlace, ReceiveAck, NEW i, i = channel[master.at]
  PROVE  /\ i \in Conns
         /\ OnlyLink(i)
         /\ link'[i] = [link[i] EXCEPT !.ack = FALSE]
<1>1. i \in Conns
  BY DEF TypeOK, MasterInPlace, ReceiveAck
<1> DEFINE r == [link[i] EXCEPT !.ack = FALSE]
<1>2. r \in Link /\ r.client = link[i].client
  BY <1>1, Types DEF Link
<1>3. link' = [link EXCEPT ![i] = r]
  BY <1>1, Types DEF ReceiveAck
<1> HIDE DEF r
<1> QED
  BY <1>1, <1>2, <1>3, LinkUpdate DEF r

(* A slave that may read has a connection of its own.                        *)
LEMMA LiveSocket ==
  ASSUME OrderInv, NEW c \in Clients, Live(c), NEW i, i = socket[c]
  PROVE  /\ i \in Conns /\ link[i].client = c /\ c \in up /\ ~Reset(i)
         /\ Follows(c)
<1>1. /\ i \in Conns /\ link[i].client = c /\ c \in up
  BY DEF OrderInv, TypeOK, Sockets
<1> QED
  BY <1>1 DEF OrderInv, StreamsFollow, Reset

PollsHeader(c, i, n, m) ==
  /\ i = socket[c]
  /\ n = Len(link[i].got) + 1
  /\ m = link[i].sent[n]
  /\ i \in Conns /\ link[i].client = c
  /\ n \in 1..Len(link[i].sent) /\ m \in Message
  /\ OnlyLink(i)
  /\ link'[i] = [link[i] EXCEPT !.stream = Tail(link[i].stream)]
  /\ reading' = [reading EXCEPT ![c] = [at |-> IF IsSet(m) THEN "data" ELSE "deliver",
                                        msg |-> m]]
  /\ IF IsSet(m) THEN Lies(link'[i].sent, link'[i].stream, n, 1)
     ELSE Lies(link'[i].sent, link'[i].stream, n + 1, 0)

(* What a slave's poll does that finds a header. *)
LEMMA PollHeaderDoes ==
  ASSUME OrderInv, NEW c \in Clients, PollHeader(c), NEW i, i = socket[c],
         NEW n, n = Len(link[i].got) + 1, NEW m, m = link[i].sent[n]
  PROVE  PollsHeader(c, i, n, m)
<1> DEFINE l == link[i]
<1>1. /\ i \in Conns /\ link[i].client = c /\ reading[c].at = "header"
      /\ Lies(l.sent, l.stream, n, 0)
      /\ l.stream # <<>>
  <2>1. Live(c) /\ reading[c].at = "header" /\ l.stream # <<>>
    BY DEF PollHeader, At, Live
  <2> QED
    BY <2>1, LiveSocket DEF Follows
<1>2. l \in Link /\ l.sent \in Seq(Message) /\ l.stream \in Seq(Stream)
  BY <1>1, Types DEF OrderInv
<1>3. n \in 1..Len(l.sent) /\ Head(l.stream) = Part(m, 0)
  BY <1>1, <1>2, LiesHead
<1>4. IF Ends(m, 0) THEN Lies(l.sent, Tail(l.stream), n + 1, 0)
      ELSE Lies(l.sent, Tail(l.stream), n, 0 + 1)
  BY <1>1, <1>2, LiesTail
<1>5. m \in Message
  BY <1>2, <1>3
<1> DEFINE r == [l EXCEPT !.stream = Tail(l.stream)]
<1>6. r \in Link /\ r.client = l.client /\ r.sent = l.sent /\ r.stream = Tail(l.stream)
  <2>1. Tail(l.stream) \in Seq(Stream)
    BY <1>1, <1>2
  <2> QED
    BY <1>2, <2>1 DEF Link
<1>7. link' = [link EXCEPT ![i] = r]
  BY DEF PollHeader
<1>8. OnlyLink(i) /\ link'[i] = r
  <2> HIDE DEF r
  <2> QED
    BY <1>1, <1>6, <1>7, LinkUpdate DEF OrderInv
<1>9. reading' = [reading EXCEPT ![c] = [at |-> IF IsSet(m) THEN "data" ELSE "deliver",
                                          msg |-> m]]
  <2>1. Head(l.stream).part = "header" /\ Head(l.stream).msg = m
    BY <1>3 DEF Part
  <2> QED
    BY <2>1 DEF PollHeader, Goes
<1>10. Ends(m, 0) <=> ~IsSet(m)
  BY DEF Ends
<1>11. IF IsSet(m) THEN Lies(link'[i].sent, link'[i].stream, n, 1)
       ELSE Lies(link'[i].sent, link'[i].stream, n + 1, 0)
  <2> HIDE DEF l, r
  <2>1. 0 + 1 = 1 /\ link'[i].sent = l.sent /\ link'[i].stream = Tail(l.stream)
    BY <1>6, <1>8
  <2> QED
    BY <1>4, <1>10, <2>1
<1> QED
  BY <1>1, <1>3, <1>5, <1>8, <1>9, <1>11 DEF PollsHeader

ReadsPart(c, i) ==
  /\ i = socket[c]
  /\ i \in Conns /\ link[i].client = c
  /\ OnlyLink(i)
  /\ link'[i] = [link[i] EXCEPT !.stream = Tail(link[i].stream)]
  /\ reading' = [reading EXCEPT ![c] = [at |-> "idle", msg |-> Garbage]]
  /\ connected' = [connected EXCEPT ![c] = FALSE]

(* What a slave's read of a part of the payload does. *)
LEMMA ReadPartDoes ==
  ASSUME OrderInv, NEW c \in Clients, ReadPart(c), NEW i, i = socket[c]
  PROVE  ReadsPart(c, i)
<1>1. i \in Conns /\ link[i].client = c /\ link[i].stream # <<>>
  <2>1. Live(c) /\ link[i].stream # <<>>
    BY DEF ReadPart, At, Live
  <2> QED
    BY <2>1, LiveSocket
<1> DEFINE r == [link[i] EXCEPT !.stream = Tail(link[i].stream)]
<1>2. r \in Link /\ r.client = link[i].client
  <2>1. link[i] \in Link /\ Tail(link[i].stream) \in Seq(Stream)
    BY <1>1, Types DEF OrderInv
  <2> QED
    BY <2>1 DEF Link
<1>3. link' = [link EXCEPT ![i] = r]
  BY DEF ReadPart
<1>4. OnlyLink(i) /\ link'[i] = r
  <2> HIDE DEF r
  <2> QED
    BY <1>1, <1>2, <1>3, LinkUpdate DEF OrderInv
<1> QED
  BY <1>1, <1>4 DEF ReadPart, Goes, AfterShort, ReadsPart

(* Two units taken off a stream leave a stream. *)
LEMMA TwoTails ==
  ASSUME NEW t \in Seq(Stream), Len(t) >= 2
  PROVE  /\ t # <<>> /\ Tail(t) \in Seq(Stream) /\ Tail(t) # <<>>
         /\ Tail(Tail(t)) \in Seq(Stream)
<1>1. t # <<>>
  OBVIOUS
<1>2. PICK u \in Seq(Stream) : u = Tail(t) /\ Len(u) = Len(t) - 1
  BY <1>1, HeadTailProperties
<1>3. u # <<>>
  BY <1>2
<1>4. Tail(u) \in Seq(Stream)
  BY <1>3, HeadTailProperties
<1> QED
  BY <1>1, <1>2, <1>3, <1>4, Zenon

ReadsData(c, i, n) ==
  /\ i = socket[c]
  /\ n = Len(link[i].got) + 1
  /\ i \in Conns /\ link[i].client = c /\ c \in up
  /\ reading[c].at = "data"
  /\ n \in 1..Len(link[i].sent)
  /\ reading[c].msg = link[i].sent[n] /\ IsSet(link[i].sent[n])
  /\ OnlyLink(i)
  /\ link'[i] = [link[i] EXCEPT !.stream = Tail(Tail(link[i].stream)), !.ack = TRUE]
  /\ reading' = [reading EXCEPT ![c] = [at |-> "deliver", msg |-> reading[c].msg]]
  /\ Lies(link'[i].sent, link'[i].stream, n + 1, 0)

(* What a slave's read of the rest of a payload does. *)
LEMMA ReadDataDoes ==
  ASSUME OrderInv, NEW c \in Clients, ReadData(c), NEW i, i = socket[c],
         NEW n, n = Len(link[i].got) + 1
  PROVE  ReadsData(c, i, n)
<1> DEFINE l == link[i]
           m == l.sent[n]
<1>1. /\ i \in Conns /\ l.client = c /\ c \in up /\ reading[c].at = "data"
      /\ n <= Len(l.sent) /\ m = reading[c].msg /\ IsSet(m)
      /\ Lies(l.sent, l.stream, n, 1)
      /\ Len(l.stream) >= 2
  <2>1. Live(c) /\ reading[c].at = "data" /\ Len(l.stream) >= 2
    BY DEF ReadData, At, Live
  <2> QED
    BY <2>1, LiveSocket DEF Follows
<1>2. /\ l \in Link /\ l.sent \in Seq(Message) /\ l.stream \in Seq(Stream)
      /\ l.got \in Seq(Message \cup {Garbage})
  BY <1>1, Types DEF OrderInv
<1>3. n \in 1..Len(l.sent)
  BY <1>1, <1>2
<1> HIDE DEF l
<1>4. Lies(l.sent, Tail(l.stream), n, 2)
  <2>1. ~Ends(m, 1) /\ l.stream # <<>>
    BY <1>1, <1>2 DEF Ends
  <2>2. IF Ends(m, 1) THEN Lies(l.sent, Tail(l.stream), n + 1, 0)
        ELSE Lies(l.sent, Tail(l.stream), n, 1 + 1)
    BY <1>1, <1>2, <2>1, LiesTail
  <2> QED
    BY <2>1, <2>2
<1>5. Lies(l.sent, Tail(Tail(l.stream)), n + 1, 0)
  <2>1. Ends(m, 2)
    BY DEF Ends
  <2>2. Tail(l.stream) \in Seq(Stream) /\ Tail(l.stream) # <<>>
    BY <1>1, <1>2, TwoTails
  <2>3. IF Ends(m, 2) THEN Lies(l.sent, Tail(Tail(l.stream)), n + 1, 0)
        ELSE Lies(l.sent, Tail(Tail(l.stream)), n, 2 + 1)
    BY <1>4, <1>2, <2>2, LiesTail
  <2> QED
    BY <2>1, <2>3
<1> DEFINE r == [l EXCEPT !.stream = Tail(Tail(l.stream)), !.ack = TRUE]
<1>6. /\ r \in Link /\ r.client = l.client /\ r.sent = l.sent
      /\ r.stream = Tail(Tail(l.stream))
  <2>1. Tail(Tail(l.stream)) \in Seq(Stream)
    BY <1>1, <1>2, TwoTails
  <2> QED
    BY <1>2, <2>1 DEF Link
<1>7. link' = [link EXCEPT ![i] = r]
  <2>1. link' = [link EXCEPT ![i].stream = Tail(Tail(l.stream)), ![i].ack = TRUE]
    BY DEF ReadData, l
  <2> QED
    BY <1>1, <2>1, Types DEF OrderInv, l
<1>8. OnlyLink(i) /\ link'[i] = r
  <2> HIDE DEF r
  <2> QED
    BY <1>1, <1>6, <1>7, LinkUpdate DEF OrderInv, l
<1>9. reading' = [reading EXCEPT ![c] = [at |-> "deliver", msg |-> reading[c].msg]]
  BY DEF ReadData, Goes
<1> QED
  BY <1>1, <1>3, <1>5, <1>6, <1>8, <1>9 DEF l, ReadsData

Receives(c, i, n) ==
  /\ i = socket[c]
  /\ n = Len(link[i].got) + 1
  /\ i \in Conns /\ link[i].client = c /\ c \in up
  /\ reading[c].at = "deliver"
  /\ n \in 1..Len(link[i].sent) /\ reading[c].msg = link[i].sent[n]
  /\ reading[c].msg \in Message
  /\ OnlyLink(i)
  /\ link'[i] = [link[i] EXCEPT !.got = Append(link[i].got, reading[c].msg)]
  /\ reading' = [reading EXCEPT ![c] = [at |-> IF connected[c] THEN "header" ELSE "idle",
                                        msg |-> Garbage]]
  /\ Lies(link'[i].sent, link'[i].stream, n + 1, 0)

(* What a slave does with a message it has read. *)
LEMMA OnReceiveDoes ==
  ASSUME OrderInv, NEW c \in Clients, OnReceive(c), NEW i, i = socket[c],
         NEW n, n = Len(link[i].got) + 1
  PROVE  Receives(c, i, n)
<1> DEFINE l == link[i]
<1>1. /\ i \in Conns /\ l.client = c /\ c \in up /\ reading[c].at = "deliver"
      /\ n <= Len(l.sent) /\ l.sent[n] = reading[c].msg
      /\ Lies(l.sent, l.stream, n + 1, 0)
  <2>1. Live(c) /\ reading[c].at = "deliver"
    BY DEF OnReceive, At, Live
  <2> QED
    BY <2>1, LiveSocket DEF Follows
<1>2. /\ l \in Link /\ l.sent \in Seq(Message) /\ l.stream \in Seq(Stream)
      /\ l.got \in Seq(Message \cup {Garbage})
  BY <1>1, Types DEF OrderInv
<1>3. n \in 1..Len(l.sent) /\ reading[c].msg \in Message
  BY SMTT(30), <1>1, <1>2
<1> DEFINE r == [l EXCEPT !.got = Append(l.got, reading[c].msg)]
<1>4. /\ r \in Link /\ r.client = l.client /\ r.sent = l.sent /\ r.stream = l.stream
  <2>1. Append(l.got, reading[c].msg) \in Seq(Message \cup {Garbage})
    BY <1>2, <1>3
  <2> QED
    BY <1>2, <2>1 DEF Link
<1>5. link' = [link EXCEPT ![i] = r]
  BY DEF OnReceive
<1>6. OnlyLink(i) /\ link'[i] = r
  <2> HIDE DEF r
  <2> QED
    BY <1>1, <1>4, <1>5, LinkUpdate DEF OrderInv
<1>7. reading' = [reading EXCEPT ![c] = [at |-> IF connected[c] THEN "header" ELSE "idle",
                                         msg |-> Garbage]]
  BY DEF OnReceive, Goes
<1> QED
  BY <1>1, <1>3, <1>4, <1>6, <1>7 DEF Receives

(* A slave that ends empties the streams to it. *)
LEMMA QuitDoes ==
  ASSUME OrderInv, NEW c \in Clients, Quit(c)
  PROVE  /\ link' \in Seq(Link) /\ Len(link') = Len(link)
         /\ \A j \in 1..Len(link) :
              link'[j] = IF link[j].client = c THEN [link[j] EXCEPT !.stream = <<>>]
                         ELSE link[j]
<1>1. /\ link \in Seq(Link) /\ Conns = 1..Len(link) /\ Len(link) \in Nat
      /\ \A j \in Conns : link[j] \in Link
  BY Types DEF OrderInv
<1> DEFINE New(j) == IF link[j].client = c THEN [link[j] EXCEPT !.stream = <<>>] ELSE link[j]
<1>2. ASSUME NEW j \in 1..Len(link)
      PROVE  New(j) \in Link
  <2>1. <<>> \in Seq(Stream) /\ link[j] \in Link
    BY <1>1
  <2> QED
    BY <2>1 DEF Link
<1>3. link' = [j \in 1..Len(link) |-> New(j)]
  BY <1>1 DEF Quit
<1> HIDE DEF New
<1>4. link' \in Seq(Link) /\ Len(link') = Len(link) /\ \A j \in 1..Len(link) : link'[j] = New(j)
  BY <1>1, <1>2, <1>3
<1> QED
  BY <1>4 DEF New

-----------------------------------------------------------------------------
(* Messages stay in order. *)

(* The steps of the master that neither send nor receive.                    *)
Bookkeeping ==
  \/ Accept \/ Read \/ Step
  \/ SkipLost \/ SendFails \/ AckFails \/ EndOfLoop

(* No connection, no message: all is in order. *)
LEMMA OrderInit == Init => OrderInv
<1> SUFFICES ASSUME Init
             PROVE  OrderInv
  OBVIOUS
<1>1. TypeOK
  <2>1. link = <<>> /\ Conns = {} /\ backlog = <<>> /\ channel = <<>> /\ lost = {}
    BY DEF Init, Conns
  <2>2. master \in [phase : {"idle", "state", "tile", "step", "aborted"},
                    at : Nat, tile : Nat, waits : BOOLEAN]
    BY DEF Init, Rest
  <2>3. /\ up \subseteq Clients /\ version \in 0..MaxVersion /\ steps \in 0..MaxSteps
        /\ socket \in [Clients -> Conns \cup {0}]
        /\ tile \in [Clients -> Nat]
    BY TileAssumption DEF Init
  <2>4. connected \in [Clients -> BOOLEAN]
    BY DEF Init
  <2>5. reading \in [Clients -> [at : {"idle", "header", "data", "deliver"},
                                 msg : Message \cup {Garbage}]]
    BY DEF Init, NotReading
  <2> QED
    BY <2>1, <2>2, <2>3, <2>4, <2>5 DEF TypeOK
<1>2. MasterInPlace
  BY DEF MasterInPlace, Init, Rest
<1>3. \A c \in Clients : ~Live(c)
  BY DEF Live, Init, NotReading
<1>4. Sockets
  BY <1>3 DEF Sockets, Init
<1>5. StreamsFollow
  BY <1>3 DEF StreamsFollow
<1>6. MessagesInOrder
  BY DEF MessagesInOrder, Init, Conns
<1> QED
  BY <1>1, <1>2, <1>4, <1>5, <1>6 DEF OrderInv

(* Accepting, adding and choosing the next channel touch no slave and no *)
(* connection. *)
LEMMA BookkeepingFrame ==
  ASSUME Bookkeeping
  PROVE  UNCHANGED <<up, link, socket, connected, reading, tile>>
BY DEF Bookkeeping, Accept, Read, Step, SkipLost, SendFails, AckFails, EndOfLoop, slaveVars

MasterState ==
  [phase : {"idle", "state", "tile", "step", "aborted"}, at : Nat, tile : Nat,
   waits : BOOLEAN]

(* The loops start at the first channel, and go on from one to the next.     *)
LEMMA LoopStates ==
  ASSUME TypeOK, MasterInPlace
  PROVE  /\ Rest \in MasterState /\ Rest.at = 1 /\ ~Rest.waits
         /\ \A ph \in {"state", "tile", "step"} :
              /\ Does(ph) \in MasterState /\ Does(ph).at = 1 /\ ~Does(ph).waits
              /\ Does(ph).phase = ph /\ Does(ph).tile = 1
         /\ \A b \in BOOLEAN :
              /\ Onwards(b) \in MasterState /\ ~Onwards(b).waits
              /\ Onwards(b).at = master.at + 1 /\ Onwards(b).phase = master.phase
              /\ Onwards(b).tile = IF b /\ master.phase = "tile" THEN master.tile + 1
                                   ELSE master.tile
<1>1. Rest \in MasterState /\ Rest.at = 1 /\ ~Rest.waits /\ Rest.tile = 1
  BY DEF Rest, MasterState
<1>2. ASSUME NEW ph \in {"state", "tile", "step"}
      PROVE  /\ Does(ph) \in MasterState /\ Does(ph).at = 1 /\ ~Does(ph).waits
             /\ Does(ph).phase = ph /\ Does(ph).tile = 1
  BY <1>1 DEF Does, MasterState
<1>3. master \in MasterState
  BY DEF TypeOK, MasterState
<1>4. ASSUME NEW b \in BOOLEAN
      PROVE  /\ Onwards(b) \in MasterState /\ ~Onwards(b).waits
             /\ Onwards(b).at = master.at + 1 /\ Onwards(b).phase = master.phase
             /\ Onwards(b).tile = IF b /\ master.phase = "tile" THEN master.tile + 1
                                  ELSE master.tile
  <2> DEFINE v == IF b /\ master.phase = "tile" THEN master.tile + 1 ELSE master.tile
  <2>1. v \in Nat /\ master.at \in Nat
    BY <1>3 DEF MasterState
  <2>2. Onwards(b) = [master EXCEPT !.at = @ + 1, !.waits = FALSE, !.tile = v]
    BY <1>3 DEF Onwards, MasterState
  <2> HIDE DEF v
  <2>3. /\ Onwards(b) \in MasterState /\ ~Onwards(b).waits
        /\ Onwards(b).at = master.at + 1 /\ Onwards(b).phase = master.phase
        /\ Onwards(b).tile = v
    <3>1. /\ Onwards(b).at = master.at + 1 /\ Onwards(b).phase = master.phase
          /\ Onwards(b).tile = v /\ Onwards(b).waits = FALSE
      BY <1>3, <2>2 DEF MasterState
    <3>2. ASSUME NEW a \in Nat, NEW t \in Nat, NEW m \in MasterState
          PROVE  [m EXCEPT !.at = a, !.waits = FALSE, !.tile = t] \in MasterState
      BY DEF MasterState
    <3>3. Onwards(b) = [master EXCEPT !.at = master.at + 1, !.waits = FALSE, !.tile = v]
      BY <2>2
    <3>4. master.at + 1 \in Nat
      BY <2>1
    <3>5. [master EXCEPT !.at = master.at + 1, !.waits = FALSE, !.tile = v] \in MasterState
      BY <1>3, <2>1, <3>2, <3>4
    <3>6. Onwards(b) \in MasterState
      BY <3>3, <3>5, Zenon
    <3> QED
      BY <3>1, <3>6
  <2> QED
    BY <2>3 DEF v
<1> QED
  BY <1>1, <1>2, <1>4

(* The master's own variables keep their types.                              *)
LEMMA MasterTypes ==
  ASSUME TypeOK, MasterInPlace, Bookkeeping \/ Send \/ ReceiveAck,
         Conns' = Conns
  PROVE  /\ backlog' \in Seq(Conns) /\ channel' \in Seq(Conns) /\ lost' \subseteq Conns
         /\ version' \in 0..MaxVersion /\ steps' \in 0..MaxSteps
         /\ master' \in MasterState
         /\ MasterInPlace'
<1>1. /\ backlog \in Seq(Conns) /\ channel \in Seq(Conns) /\ lost \subseteq Conns
      /\ version \in 0..MaxVersion /\ steps \in 0..MaxSteps
      /\ master \in MasterState /\ master.at >= 1
      /\ MaxVersion \in Nat /\ MaxSteps \in Nat
  BY TileAssumption DEF TypeOK, MasterInPlace, MasterState
<1> DEFINE Quiet(m) == m \in MasterState /\ m.at >= 1 /\ ~m.waits
<1>2. Quiet(Rest) /\ Quiet(Does("state")) /\ Quiet(Does("tile")) /\ Quiet(Does("step"))
  BY LoopStates
<1>3. Quiet(Onwards(TRUE)) /\ Quiet(Onwards(FALSE))
  <2>1. master.at \in Nat
    BY <1>1 DEF MasterState
  <2>2. ASSUME NEW b \in BOOLEAN
        PROVE  Quiet(Onwards(b))
    BY <1>1, <2>1, <2>2, LoopStates
  <2> HIDE DEF Quiet
  <2> QED
    BY <2>2, Zenon
<1>4. Quiet(master') => master' \in MasterState /\ MasterInPlace'
  BY DEF MasterInPlace
<1>5. ASSUME ~master.waits, NEW ph \in {"aborted"}
      PROVE  Quiet([master EXCEPT !.phase = ph])
  BY <1>1, <1>5 DEF MasterState
<1>6. Quiet([master EXCEPT !.phase = "aborted", !.waits = FALSE])
  BY <1>1 DEF MasterState
<1> HIDE DEF Quiet
<1>7. CASE Accept
  <2>1. /\ channel' = Append(channel, Head(backlog)) /\ backlog' = Tail(backlog)
        /\ backlog # <<>>
        /\ master' = Does("state")
        /\ UNCHANGED <<lost, version, steps>>
    BY <1>7 DEF Accept
  <2>2. Head(backlog) \in Conns /\ Tail(backlog) \in Seq(Conns)
    BY <1>1, <2>1
  <2>3. Append(channel, Head(backlog)) \in Seq(Conns)
    BY <1>1, <2>2
  <2>4. Quiet(master')
    BY <1>2, <2>1
  <2> QED
    BY <1>1, <1>4, <2>1, <2>2, <2>3, <2>4
<1>8. CASE Read
  <2>1. Quiet(master') /\ version' \in 0..MaxVersion
    BY <1>1, <1>2, <1>8 DEF Read
  <2> QED
    BY <1>1, <1>4, <1>8, <2>1 DEF Read
<1>9. CASE Step
  <2>1. Quiet(master') /\ steps' \in 0..MaxSteps
    BY <1>1, <1>2, <1>9 DEF Step
  <2> QED
    BY <1>1, <1>4, <1>9, <2>1 DEF Step
<1>10. CASE SkipLost
  <2>1. Quiet(master')
    BY <1>3, <1>10 DEF SkipLost
  <2> QED
    BY <1>1, <1>4, <1>10, <2>1 DEF SkipLost
<1>11. CASE SendFails
  <2>1. Quiet(master')
    BY <1>3, <1>5, <1>11 DEF SendFails, Sending, Looping
  <2> QED
    BY <1>1, <1>4, <1>11, <2>1 DEF SendFails
<1>12. CASE AckFails
  <2>1. Quiet(master')
    BY <1>3, <1>6, <1>12 DEF AckFails
  <2>2. channel[master.at] \in Conns
    BY <1>1, <1>12 DEF AckFails, MasterInPlace
  <2> QED
    BY <1>1, <1>4, <1>12, <2>1, <2>2 DEF AckFails
<1>13. CASE EndOfLoop
  <2>1. Quiet(master')
    BY <1>2, <1>13 DEF EndOfLoop
  <2> QED
    BY <1>1, <1>4, <1>13, <2>1 DEF EndOfLoop
<1>14. CASE Send
  <2>1. /\ master' = AfterSend /\ channel[master.at] \notin lost
        /\ Looping /\ master.at \in 1..Len(channel)
        /\ UNCHANGED <<backlog, channel, lost, version, steps>>
    BY <1>1, <1>14 DEF Send, Sending, MasterState
  <2>2. CASE IsSet(Current)
    <3>1. master' = [master EXCEPT !.waits = TRUE]
      BY <2>1, <2>2 DEF AfterSend
    <3>2. master.phase \in {"state", "tile"}
      BY <2>2 DEF IsSet, Current
    <3>3. /\ master' \in MasterState /\ master'.at = master.at
          /\ master'.phase = master.phase
      BY <1>1, <3>1 DEF MasterState
    <3>4. MasterInPlace'
      BY <1>1, <2>1, <3>2, <3>3 DEF MasterInPlace
    <3> QED
      BY <1>1, <2>1, <3>3, <3>4
  <2>3. CASE ~IsSet(Current)
    <3>1. Quiet(master')
      BY <1>3, <2>1, <2>3 DEF AfterSend
    <3> QED
      BY <1>1, <1>4, <2>1, <3>1
  <2> QED
    BY <2>2, <2>3
<1>15. CASE ReceiveAck
  <2>1. Quiet(master')
    BY <1>3, <1>15 DEF ReceiveAck
  <2>2. lost' \subseteq lost \cup {channel[master.at]}
    BY <1>15 DEF ReceiveAck
  <2>3. channel[master.at] \in Conns
    BY <1>1, <1>15 DEF ReceiveAck, MasterInPlace
  <2> QED
    BY <1>1, <1>4, <1>15, <2>1, <2>2, <2>3 DEF ReceiveAck
<1> QED
  BY <1>7, <1>8, <1>9, <1>10, <1>11, <1>12, <1>13, <1>14, <1>15 DEF Bookkeeping

(* The master's own bookkeeping preserves the order. *)
LEMMA BookkeepingKeepsOrder ==
  ASSUME OrderInv, Bookkeeping
  PROVE  OrderInv'
<1>1. UNCHANGED <<up, link, socket, connected, reading, tile>>
  BY BookkeepingFrame
<1>2. Conns' = Conns
  BY <1>1 DEF Conns
<1>3. TypeOK' /\ MasterInPlace'
  BY <1>1, <1>2, MasterTypes DEF OrderInv, TypeOK, MasterState
<1>4. Sockets'
  BY <1>1 DEF OrderInv, Sockets, Live
<1>5. StreamsFollow'
  BY <1>1 DEF OrderInv, StreamsFollow, Live, Follows
<1>6. MessagesInOrder'
  BY <1>1, <1>2 DEF OrderInv, MessagesInOrder
<1> QED
  BY <1>3, <1>4, <1>5, <1>6 DEF OrderInv

(* A step on one connection makes none. *)
LEMMA ConnsKept ==
  ASSUME TypeOK, NEW i, OnlyLink(i)
  PROVE  Conns' = Conns
BY Types DEF OnlyLink, Conns

(* The master's send() preserves the order. *)
LEMMA SendKeepsOrder ==
  ASSUME OrderInv, Send
  PROVE  OrderInv'
<1> DEFINE i == channel[master.at]
<1>1. /\ i \in Conns /\ Current \in Message
      /\ OnlyLink(i)
      /\ link'[i].sent = Append(link[i].sent, Current)
      /\ link'[i].stream = IF Reset(i) THEN <<>> ELSE link[i].stream \o Units(Current)
      /\ link'[i].got = link[i].got
  BY SendDoes DEF OrderInv, MasterInPlace
<1> HIDE DEF i
<1>2. /\ Conns' = Conns /\ Conns = 1..Len(link)
      /\ link[i].sent \in Seq(Message) /\ link[i].stream \in Seq(Stream)
      /\ link[i].got \in Seq(Message \cup {Garbage})
  BY <1>1, ConnsKept, Types DEF OrderInv
<1>3. UNCHANGED <<up, slaveVars>> /\ UNCHANGED <<socket, connected, reading, tile>>
  BY DEF Send, slaveVars
<1>4. TypeOK' /\ MasterInPlace'
  <2>1. link' \in Seq(Link)
    BY <1>1 DEF OnlyLink
  <2> QED
    BY <1>2, <1>3, <2>1, MasterTypes DEF OrderInv, TypeOK, MasterState, Link, Stream
<1>5. Sockets'
  <2>1. \A j \in Conns : link'[j].client = link[j].client
    BY <1>1, <1>2 DEF OnlyLink
  <2>2. socket \in [Clients -> Conns \cup {0}]
    BY DEF OrderInv, TypeOK
  <2> QED
    BY <1>3, <2>1, <2>2 DEF OrderInv, Sockets, Live
<1>6. ASSUME NEW c \in Clients, Live(c)'
      PROVE  Follows(c)'
  <2>1. /\ Live(c) /\ reading'[c] = reading[c] /\ socket'[c] = socket[c]
        /\ socket[c] \in Conns /\ Follows(c) /\ ~Reset(socket[c])
    BY <1>3, <1>6, LiveSocket DEF Live
  <2>2. CASE socket[c] = i
    <3> DEFINE l == link[i]
               n == Len(l.got) + 1
    <3>1. \A m, k : Lies(l.sent, l.stream, m, k)
                      => Lies(link'[i].sent, link'[i].stream, m, k)
      BY <1>1, <1>2, <2>1, <2>2, LiesAppend
    <3>2. /\ Len(link'[i].sent) = Len(l.sent) + 1
          /\ \A m \in 1..Len(l.sent) : link'[i].sent[m] = l.sent[m]
      BY <1>1, <1>2, AppendProperties
    <3>3. n \in Nat \ {0} /\ Len(l.sent) \in Nat
      BY <1>2
    <3>4. /\ reading[c].at \in {"idle", "header"} => Lies(l.sent, l.stream, n, 0)
          /\ reading[c].at = "data" =>
               /\ n <= Len(l.sent) /\ l.sent[n] = reading[c].msg /\ IsSet(l.sent[n])
               /\ Lies(l.sent, l.stream, n, 1)
          /\ reading[c].at = "deliver" =>
               /\ n <= Len(l.sent) /\ l.sent[n] = reading[c].msg
               /\ Lies(l.sent, l.stream, n + 1, 0)
      BY <2>1, <2>2 DEF Follows
    <3> DEFINE k == link'[i]
    <3>5. ASSUME n <= Len(l.sent)
          PROVE  n <= Len(k.sent) /\ k.sent[n] = l.sent[n]
      <4>1. Len(k.sent) = Len(l.sent) + 1 /\ \A m \in 1..Len(l.sent) : k.sent[m] = l.sent[m]
        BY <3>2
      <4> HIDE DEF l, k, n
      <4>2. n \in 1..Len(l.sent) /\ n <= Len(l.sent) + 1
        BY <3>3, <3>5
      <4> QED
        BY <4>1, <4>2
    <3>6. Len(k.got) + 1 = n
      BY <1>1
    <3> HIDE DEF l, k, n
    <3>7. /\ reading[c].at \in {"idle", "header"} => Lies(k.sent, k.stream, n, 0)
          /\ reading[c].at = "data" =>
               /\ n <= Len(k.sent) /\ k.sent[n] = reading[c].msg /\ IsSet(k.sent[n])
               /\ Lies(k.sent, k.stream, n, 1)
          /\ reading[c].at = "deliver" =>
               /\ n <= Len(k.sent) /\ k.sent[n] = reading[c].msg
               /\ Lies(k.sent, k.stream, n + 1, 0)
      BY <3>1, <3>4, <3>5 DEF k
    <3>8. link'[socket'[c]] = k /\ reading'[c] = reading[c]
      BY <2>1, <2>2 DEF k
    <3> QED
      BY <3>6, <3>7, <3>8 DEF Follows
  <2>3. CASE socket[c] # i
    <3>1. link'[socket[c]] = link[socket[c]]
      BY <1>1, <1>2, <2>1, <2>3 DEF OnlyLink
    <3> QED
      BY <2>1, <3>1 DEF Follows
  <2> QED
    BY <2>2, <2>3
<1>7. MessagesInOrder'
  <2> SUFFICES ASSUME NEW j \in Conns
               PROVE  /\ Len(link'[j].got) <= Len(link'[j].sent)
                      /\ \A n \in DOMAIN link'[j].got : link'[j].got[n] = link'[j].sent[n]
    BY <1>2 DEF MessagesInOrder
  <2>1. /\ Len(link[j].got) <= Len(link[j].sent)
        /\ \A n \in DOMAIN link[j].got : link[j].got[n] = link[j].sent[n]
        /\ link[j].got \in Seq(Message \cup {Garbage}) /\ link[j].sent \in Seq(Message)
    BY Types DEF OrderInv, MessagesInOrder
  <2>2. CASE j = i
    <3>1. /\ Len(link'[i].sent) = Len(link[i].sent) + 1
          /\ \A m \in 1..Len(link[i].sent) : link'[i].sent[m] = link[i].sent[m]
      BY <1>1, <1>2, AppendProperties
    <3>2. /\ DOMAIN link[i].got = 1..Len(link[i].got)
          /\ Len(link[i].got) \in Nat /\ Len(link[i].sent) \in Nat
      BY <1>2
    <3> DEFINE g == link[i].got
    <3>3. link'[i].got = g /\ Len(g) <= Len(link'[i].sent)
      BY <1>1, <2>1, <2>2, <3>1, <3>2
    <3>4. ASSUME NEW n \in DOMAIN g
          PROVE  g[n] = link'[i].sent[n]
      <4>1. n \in 1..Len(link[i].sent) /\ g[n] = link[i].sent[n]
        BY <2>1, <2>2, <3>2
      <4> QED
        BY <3>1, <4>1
    <3> HIDE DEF g
    <3> QED
      BY <2>2, <3>3, <3>4
  <2>3. CASE j # i
    BY <1>1, <1>2, <2>1, <2>3 DEF OnlyLink
  <2> QED
    BY <2>2, <2>3
<1> QED
  BY <1>4, <1>5, <1>6, <1>7 DEF OrderInv, StreamsFollow

(* Receiving the ACK preserves the order. *)
LEMMA ReceiveAckKeepsOrder ==
  ASSUME OrderInv, ReceiveAck
  PROVE  OrderInv'
<1> DEFINE i == channel[master.at]
<1>1. i \in Conns /\ OnlyLink(i) /\ link'[i] = [link[i] EXCEPT !.ack = FALSE]
  BY ReceiveAckDoes DEF OrderInv
<1> HIDE DEF i
<1>2. Conns' = Conns /\ Conns = 1..Len(link)
  BY <1>1, ConnsKept, Types DEF OrderInv
<1>3. UNCHANGED <<up, socket, connected, reading, tile>>
  BY DEF ReceiveAck, slaveVars
<1>4. \A j \in Conns : /\ link'[j].client = link[j].client
                       /\ link'[j].sent = link[j].sent
                       /\ link'[j].stream = link[j].stream
                       /\ link'[j].got = link[j].got
  <2>1. link[i] \in Link
    BY <1>1, Types DEF OrderInv
  <2> QED
    BY <1>1, <1>2, <2>1, ZenonT(60) DEF OnlyLink, Link
<1>5. TypeOK' /\ MasterInPlace'
  <2>1. link' \in Seq(Link)
    BY <1>1 DEF OnlyLink
  <2> QED
    BY <1>2, <1>3, <2>1, MasterTypes DEF OrderInv, TypeOK, MasterState, Link, Stream
<1>6. \A c \in Clients : socket[c] \in Conns \cup {0}
  BY DEF OrderInv, TypeOK
<1>7. Sockets'
  <2>1. 0 \notin Conns
    BY <1>2
  <2> QED
    BY <1>3, <1>4, <1>6, <2>1 DEF OrderInv, Sockets, Live
<1>8. ASSUME NEW c \in Clients, Live(c)'
      PROVE  Follows(c)'
  <2>1. /\ Live(c) /\ reading'[c] = reading[c] /\ socket'[c] = socket[c]
        /\ socket[c] \in Conns /\ Follows(c)
    BY <1>3, <1>8, LiveSocket DEF Live
  <2> QED
    BY <1>4, <2>1 DEF Follows
<1>9. MessagesInOrder'
  BY <1>2, <1>4 DEF OrderInv, MessagesInOrder
<1> QED
  BY <1>5, <1>7, <1>8, <1>9 DEF OrderInv, StreamsFollow

-----------------------------------------------------------------------------
(* What a slave does concerns its own connections only. *)

InOrder(i) ==
  /\ Len(link[i].got) <= Len(link[i].sent)
  /\ \A n \in DOMAIN link[i].got : link[i].got[n] = link[i].sent[n]

Reading == [at : {"idle", "header", "data", "deliver"}, msg : Message \cup {Garbage}]

OfOneSlave(c) ==
  /\ UNCHANGED <<channel, lost, version, steps, master>>
  /\ link' \in Seq(Link) /\ Len(link') >= Len(link)
  /\ \A j \in 1..Len(link) : /\ link'[j].client = link[j].client
                             /\ link[j].client # c => link'[j] = link[j]
  /\ \A d \in Clients \ {c} : /\ socket'[d] = socket[d] /\ connected'[d] = connected[d]
                              /\ reading'[d] = reading[d] /\ tile'[d] = tile[d]
  /\ up' \subseteq up /\ up \ {c} \subseteq up'

(* ... so that its own part is all there is to prove.                        *)
LEMMA SlaveKeepsOrder ==
  ASSUME OrderInv, NEW c \in Clients, OfOneSlave(c),
         backlog' \in Seq(Conns'),
         socket' \in [Clients -> Conns' \cup {0}],
         connected' \in [Clients -> BOOLEAN],
         reading' \in [Clients -> Reading],
         tile' \in [Clients -> Nat],
         socket'[c] # 0 => link'[socket'[c]].client = c,
         Live(c)' => socket'[c] # 0 /\ c \in up' /\ Follows(c)',
         \A j \in Conns' : link'[j].client = c => InOrder(j)',
         \A j \in Conns' \ Conns : link'[j].client = c
  PROVE  OrderInv'
<1>1. /\ Conns = 1..Len(link) /\ Len(link) \in Nat
      /\ Conns' = 1..Len(link') /\ Len(link') \in Nat
      /\ Conns \subseteq Conns'
  <2>1. link' \in Seq(Link) /\ Len(link') >= Len(link)
    BY DEF OfOneSlave
  <2>2. Conns = 1..Len(link) /\ Len(link) \in Nat
    BY Types DEF OrderInv
  <2> QED
    BY <2>1, <2>2 DEF Conns
<1>2. TypeOK'
  <2>1. link' \in Seq(Link) /\ up' \subseteq Clients
    BY DEF OfOneSlave, OrderInv, TypeOK
  <2>2. channel' \in Seq(Conns')
    <3>1. channel \in Seq(Conns) /\ channel' = channel
      BY DEF OfOneSlave, OrderInv, TypeOK
    <3> QED
      BY <1>1, <3>1, SeqMonotonic
  <2>3. /\ lost' \subseteq Conns'
        /\ version' \in 0..MaxVersion /\ steps' \in 0..MaxSteps
        /\ master' \in MasterState
    BY <1>1 DEF OfOneSlave, OrderInv, TypeOK, MasterState
  <2> QED
    BY <2>1, <2>2, <2>3 DEF TypeOK, Link, Stream, MasterState, Reading
<1>3. MasterInPlace'
  BY DEF OfOneSlave, OrderInv, MasterInPlace
<1>4. ASSUME NEW d \in Clients, d # c
      PROVE  /\ socket'[d] # 0 => link'[socket'[d]].client = d
             /\ Live(d)' => socket'[d] # 0 /\ d \in up' /\ Follows(d)'
  <2>1. /\ socket'[d] = socket[d] /\ connected'[d] = connected[d]
        /\ reading'[d] = reading[d]
    BY <1>4 DEF OfOneSlave
  <2>2. /\ socket[d] # 0 => link[socket[d]].client = d
        /\ socket[d] \in Conns \cup {0}
    BY DEF OrderInv, Sockets, TypeOK
  <2>3. socket[d] # 0 => link'[socket[d]] = link[socket[d]]
    BY <1>1, <1>4, <2>2 DEF OfOneSlave
  <2>4. Live(d)' => Live(d)
    BY <2>1 DEF Live
  <2>5. Live(d) => socket[d] # 0 /\ d \in up /\ Follows(d)
    BY DEF OrderInv, Sockets, StreamsFollow
  <2>6. Live(d)' => Follows(d)'
    BY <2>1, <2>3, <2>4, <2>5 DEF Follows
  <2>7. d \in up => d \in up'
    BY <1>4 DEF OfOneSlave
  <2> QED
    BY <2>1, <2>2, <2>3, <2>4, <2>5, <2>6, <2>7
<1>5. Sockets'
  <2> SUFFICES ASSUME NEW d \in Clients
               PROVE  /\ socket'[d] # 0 => link'[socket'[d]].client = d
                      /\ Live(d)' => socket'[d] # 0 /\ d \in up'
    BY DEF Sockets
  <2> QED
    BY <1>4
<1>6. StreamsFollow'
  <2> SUFFICES ASSUME NEW d \in Clients, Live(d)'
               PROVE  Follows(d)'
    BY DEF StreamsFollow
  <2> QED
    BY <1>4
<1>7. MessagesInOrder'
  <2> SUFFICES ASSUME NEW j \in Conns'
               PROVE  InOrder(j)'
    BY DEF MessagesInOrder, InOrder
  <2>1. CASE link'[j].client = c
    BY <2>1
  <2>2. CASE link'[j].client # c
    <3>1. j \in Conns /\ link'[j] = link[j]
      BY <1>1, <2>2 DEF OfOneSlave
    <3> QED
      BY <3>1 DEF OrderInv, MessagesInOrder, InOrder
  <2> QED
    BY <2>1, <2>2
<1> QED
  BY <1>2, <1>3, <1>5, <1>6, <1>7 DEF OrderInv

(* A slave's step on its own connection touches nothing of others. *)
LEMMA OneLinkOfOneSlave ==
  ASSUME OrderInv, NEW c \in Clients, NEW i \in Conns, link[i].client = c, OnlyLink(i),
         UNCHANGED <<channel, lost, version, steps, master>>,
         \A d \in Clients \ {c} : /\ socket'[d] = socket[d] /\ connected'[d] = connected[d]
                                  /\ reading'[d] = reading[d] /\ tile'[d] = tile[d],
         up' = up
  PROVE  OfOneSlave(c) /\ Conns' = Conns
<1>1. Conns = 1..Len(link) /\ Conns' = Conns /\ Len(link) \in Nat
  BY Types, ConnsKept DEF OrderInv
<1> QED
  BY <1>1 DEF OfOneSlave, OnlyLink

(* What there is of the slave's variables.                                   *)
LEMMA SlaveTypes ==
  ASSUME OrderInv
  PROVE  /\ socket \in [Clients -> Conns \cup {0}]
         /\ connected \in [Clients -> BOOLEAN]
         /\ reading \in [Clients -> Reading]
         /\ tile \in [Clients -> Nat]
         /\ backlog \in Seq(Conns) /\ up \subseteq Clients
BY DEF OrderInv, TypeOK, Reading

(* A header read is that of the next message sent. *)
LEMMA PollHeaderKeepsOrder ==
  ASSUME OrderInv, NEW c \in Clients, PollHeader(c), NEW i, NEW n, NEW m,
         PollsHeader(c, i, n, m)
  PROVE  OrderInv' /\ OfOneSlave(c)
<1>1. /\ i = socket[c] /\ n = Len(link[i].got) + 1 /\ m = link[i].sent[n]
      /\ i \in Conns /\ link[i].client = c
      /\ n \in 1..Len(link[i].sent) /\ m \in Message
      /\ OnlyLink(i)
      /\ link'[i] = [link[i] EXCEPT !.stream = Tail(link[i].stream)]
      /\ reading' = [reading EXCEPT ![c] = [at |-> IF IsSet(m) THEN "data" ELSE "deliver",
                                            msg |-> m]]
      /\ IF IsSet(m) THEN Lies(link'[i].sent, link'[i].stream, n, 1)
         ELSE Lies(link'[i].sent, link'[i].stream, n + 1, 0)
  BY DEF PollsHeader
<1> DEFINE r == [at |-> IF IsSet(m) THEN "data" ELSE "deliver", msg |-> m]
<1>2. PICK b \in BOOLEAN : connected' = [connected EXCEPT ![c] = b]
  <2>1. StillConnected(c \in StaleErrno) \subseteq BOOLEAN
    BY DEF StillConnected
  <2> QED
    BY <2>1 DEF PollHeader
<1>3. UNCHANGED <<up, backlog, channel, lost, version, steps, master, socket, tile>>
  BY DEF PollHeader, masterVars
<1>4. r \in Reading /\ r.msg = m /\ r.at = IF IsSet(m) THEN "data" ELSE "deliver"
  BY <1>1 DEF Reading
<1> HIDE DEF r
<1>5. reading' \in [Clients -> Reading] /\ reading'[c] = r
  BY <1>1, <1>4, SlaveTypes DEF r
<1>6. connected' \in [Clients -> BOOLEAN]
  BY <1>2, SlaveTypes
<1>7. OfOneSlave(c) /\ Conns' = Conns
  BY <1>1, <1>2, <1>3, OneLinkOfOneSlave, SlaveTypes
<1>8. /\ link'[i].sent = link[i].sent /\ link'[i].got = link[i].got
      /\ link'[i].client = c
  BY <1>1, Types DEF OrderInv, Link
<1>9. Live(c)' => socket'[c] # 0 /\ c \in up' /\ Follows(c)'
  <2>1. i # 0 /\ c \in up /\ n <= Len(link[i].sent)
    <3>1. Live(c)
      BY DEF PollHeader, At, Live
    <3>2. i \in Conns /\ i # 0
      <4>1. Conns = 1..Len(link) /\ Len(link) \in Nat
        BY Types DEF OrderInv
      <4>2. i \in Conns
        BY <1>1
      <4> QED
        BY <4>1, <4>2
    <3>3. c \in up
      BY <3>1, LiveSocket
    <3>4. n \in 1..Len(link[i].sent) /\ Len(link[i].sent) \in Nat
      <4>1. link[i].sent \in Seq(Message)
        BY <3>2, Types DEF OrderInv
      <4>2. n \in 1..Len(link[i].sent)
        BY <1>1
      <4> QED
        BY <4>1, <4>2
    <3> QED
      BY <3>2, <3>3, <3>4
  <2>2. Follows(c)'
    <3>1. link'[socket'[c]] = link'[i] /\ Len(link'[i].got) + 1 = n
      BY <1>1, <1>3, <1>8
    <3> QED
      BY <1>1, <1>4, <1>5, <1>8, <2>1, <3>1, ZenonT(60) DEF Follows
  <2> QED
    BY <1>1, <1>3, <2>1, <2>2
<1>10. ASSUME NEW j \in Conns', link'[j].client = c
       PROVE  InOrder(j)'
  <2>1. link'[j].sent = link[j].sent /\ link'[j].got = link[j].got /\ j \in Conns
    BY <1>1, <1>7, <1>8, Types DEF OnlyLink, OrderInv
  <2> QED
    BY <2>1 DEF OrderInv, MessagesInOrder, InOrder
<1> QED
  BY <1>1, <1>3, <1>5, <1>6, <1>7, <1>8, <1>9, <1>10, SlaveKeepsOrder, SlaveTypes


(* So polling a header preserves the order. *)
LEMMA PollHeaderStep ==
  ASSUME OrderInv, NEW c \in Clients, PollHeader(c)
  PROVE  OrderInv' /\ OfOneSlave(c)
<1> DEFINE i == socket[c]
           n == Len(link[i].got) + 1
           m == link[i].sent[n]
<1>1. PollsHeader(c, i, n, m)
  BY PollHeaderDoes
<1> HIDE DEF i, n, m
<1> QED
  BY <1>1, PollHeaderKeepsOrder

(* A part of the payload read leaves the rest of the same message at the *)
(* front. *)
LEMMA ReadPartKeepsOrder ==
  ASSUME OrderInv, NEW c \in Clients, ReadPart(c), NEW i, ReadsPart(c, i)
  PROVE  OrderInv' /\ OfOneSlave(c)
<1>1. /\ i = socket[c] /\ i \in Conns /\ link[i].client = c
      /\ OnlyLink(i)
      /\ link'[i] = [link[i] EXCEPT !.stream = Tail(link[i].stream)]
      /\ reading' = [reading EXCEPT ![c] = [at |-> "idle", msg |-> Garbage]]
      /\ connected' = [connected EXCEPT ![c] = FALSE]
  BY DEF ReadsPart
<1>2. UNCHANGED <<up, backlog, channel, lost, version, steps, master, socket, tile>>
  BY DEF ReadPart, masterVars
<1>3. /\ reading' \in [Clients -> Reading] /\ reading'[c].at = "idle"
      /\ connected' \in [Clients -> BOOLEAN] /\ connected'[c] = FALSE
  BY <1>1, SlaveTypes DEF Reading
<1>4. OfOneSlave(c) /\ Conns' = Conns
  BY <1>1, <1>2, OneLinkOfOneSlave, SlaveTypes
<1>5. /\ link'[i].sent = link[i].sent /\ link'[i].got = link[i].got
      /\ link'[i].client = c
  BY <1>1, Types DEF OrderInv, Link
<1>6. ~Live(c)'
  BY <1>3 DEF Live
<1>7. ASSUME NEW j \in Conns', link'[j].client = c
      PROVE  InOrder(j)'
  <2>1. link'[j].sent = link[j].sent /\ link'[j].got = link[j].got /\ j \in Conns
    BY <1>1, <1>4, <1>5, Types DEF OnlyLink, OrderInv
  <2> QED
    BY <2>1 DEF OrderInv, MessagesInOrder, InOrder
<1> QED
  BY <1>1, <1>2, <1>3, <1>4, <1>5, <1>6, <1>7, SlaveKeepsOrder, SlaveTypes

(* So reading a part preserves the order. *)
LEMMA ReadPartStep ==
  ASSUME OrderInv, NEW c \in Clients, ReadPart(c)
  PROVE  OrderInv' /\ OfOneSlave(c)
<1> DEFINE i == socket[c]
<1>1. ReadsPart(c, i)
  BY ReadPartDoes
<1> HIDE DEF i
<1> QED
  BY <1>1, ReadPartKeepsOrder

(* A payload read completely is the next message, and the stream goes on *)
(* behind it. *)
LEMMA ReadDataKeepsOrder ==
  ASSUME OrderInv, NEW c \in Clients, ReadData(c), NEW i, NEW n, ReadsData(c, i, n)
  PROVE  OrderInv' /\ OfOneSlave(c)
<1>1. /\ i = socket[c] /\ n = Len(link[i].got) + 1
      /\ i \in Conns /\ link[i].client = c /\ c \in up
      /\ n \in 1..Len(link[i].sent)
      /\ reading[c].msg = link[i].sent[n]
      /\ OnlyLink(i)
      /\ link'[i] = [link[i] EXCEPT !.stream = Tail(Tail(link[i].stream)), !.ack = TRUE]
      /\ reading' = [reading EXCEPT ![c] = [at |-> "deliver", msg |-> reading[c].msg]]
      /\ Lies(link'[i].sent, link'[i].stream, n + 1, 0)
  BY DEF ReadsData
<1> DEFINE r == [at |-> "deliver", msg |-> reading[c].msg]
<1>2. PICK b \in BOOLEAN : connected' = [connected EXCEPT ![c] = connected[c] /\ b]
  <2>1. StillConnected(c \in StaleErrno) \subseteq BOOLEAN
    BY DEF StillConnected
  <2> QED
    BY <2>1 DEF ReadData
<1>3. UNCHANGED <<up, backlog, channel, lost, version, steps, master, socket, tile>>
  BY DEF ReadData, masterVars
<1>4. r \in Reading /\ r.msg = link[i].sent[n] /\ r.at = "deliver"
  <2>1. reading[c].msg \in Message \cup {Garbage}
    BY SlaveTypes DEF Reading
  <2> QED
    BY <1>1, <2>1 DEF Reading
<1> HIDE DEF r
<1>5. reading' \in [Clients -> Reading] /\ reading'[c] = r
  BY <1>1, <1>4, SlaveTypes DEF r
<1>6. connected' \in [Clients -> BOOLEAN]
  <2>1. (connected[c] /\ b) \in BOOLEAN
    OBVIOUS
  <2> QED
    BY <1>2, <2>1, SlaveTypes
<1>7. OfOneSlave(c) /\ Conns' = Conns
  BY <1>1, <1>2, <1>3, OneLinkOfOneSlave, SlaveTypes
<1>8. /\ link'[i].sent = link[i].sent /\ link'[i].got = link[i].got
      /\ link'[i].client = c
  BY <1>1, Types DEF OrderInv, Link
<1>9. Live(c)' => socket'[c] # 0 /\ c \in up' /\ Follows(c)'
  <2>1. i # 0 /\ c \in up /\ n <= Len(link[i].sent)
    BY <1>1, Types DEF OrderInv
  <2>2. Follows(c)'
    <3>1. link'[socket'[c]] = link'[i] /\ Len(link'[i].got) + 1 = n
      BY <1>1, <1>3, <1>8
    <3> QED
      BY <1>1, <1>4, <1>5, <1>8, <2>1, <3>1 DEF Follows
  <2> QED
    BY <1>1, <1>3, <2>1, <2>2
<1>10. ASSUME NEW j \in Conns', link'[j].client = c
       PROVE  InOrder(j)'
  <2>1. link'[j].sent = link[j].sent /\ link'[j].got = link[j].got /\ j \in Conns
    BY <1>1, <1>7, <1>8, Types DEF OnlyLink, OrderInv
  <2> QED
    BY <2>1 DEF OrderInv, MessagesInOrder, InOrder
<1> QED
  BY <1>1, <1>3, <1>5, <1>6, <1>7, <1>8, <1>9, <1>10, SlaveKeepsOrder, SlaveTypes

(* So reading a payload preserves the order. *)
LEMMA ReadDataStep ==
  ASSUME OrderInv, NEW c \in Clients, ReadData(c)
  PROVE  OrderInv' /\ OfOneSlave(c)
<1> DEFINE i == socket[c]
           n == Len(link[i].got) + 1
<1>1. ReadsData(c, i, n)
  BY ReadDataDoes
<1> HIDE DEF i, n
<1> QED
  BY <1>1, ReadDataKeepsOrder

(* Handing the message over puts it behind those received before. *)
LEMMA OnReceiveKeepsOrder ==
  ASSUME OrderInv, NEW c \in Clients, OnReceive(c), NEW i, NEW n, Receives(c, i, n)
  PROVE  OrderInv' /\ OfOneSlave(c)
<1>1. /\ i = socket[c] /\ n = Len(link[i].got) + 1
      /\ i \in Conns /\ link[i].client = c /\ c \in up
      /\ n \in 1..Len(link[i].sent) /\ reading[c].msg = link[i].sent[n]
      /\ reading[c].msg \in Message
      /\ OnlyLink(i)
      /\ link'[i] = [link[i] EXCEPT !.got = Append(link[i].got, reading[c].msg)]
      /\ reading' = [reading EXCEPT ![c] = [at |-> IF connected[c] THEN "header" ELSE "idle",
                                            msg |-> Garbage]]
      /\ Lies(link'[i].sent, link'[i].stream, n + 1, 0)
  BY DEF Receives
<1> DEFINE m == reading[c].msg
           r == [at |-> IF connected[c] THEN "header" ELSE "idle", msg |-> Garbage]
<1>2. UNCHANGED <<up, backlog, channel, lost, version, steps, master, socket, connected>>
  BY DEF OnReceive, masterVars
<1>3. r \in Reading /\ r.at \in {"idle", "header"}
  BY DEF Reading
<1> HIDE DEF r
<1>4. reading' \in [Clients -> Reading] /\ reading'[c] = r
  BY <1>1, <1>3, SlaveTypes DEF r
<1>5. /\ tile' \in [Clients -> Nat]
      /\ \A d \in Clients \ {c} : tile'[d] = tile[d] /\ reading'[d] = reading[d]
  <2>1. (IF m.kind = "tile" THEN m.val ELSE 0) \in Nat
    BY <1>1 DEF Message
  <2>2. tile' = IF ~IsSet(m) THEN tile
                ELSE [tile EXCEPT ![c] = IF m.kind = "tile" THEN m.val ELSE 0]
    BY DEF OnReceive
  <2> HIDE DEF m
  <2> QED
    BY <1>1, <2>1, <2>2, SlaveTypes
<1>6. OfOneSlave(c) /\ Conns' = Conns
  BY <1>1, <1>2, <1>5, OneLinkOfOneSlave
<1>7. /\ link'[i].sent = link[i].sent /\ link'[i].got = Append(link[i].got, m)
      /\ link'[i].client = c /\ link[i].got \in Seq(Message \cup {Garbage})
  BY <1>1, Types DEF OrderInv, Link
<1> HIDE DEF m
<1>8. /\ Len(link'[i].got) = n
      /\ \A k \in 1..(n - 1) : link'[i].got[k] = link[i].got[k]
      /\ link'[i].got[n] = link[i].sent[n]
      /\ n - 1 = Len(link[i].got) /\ n - 1 \in Nat
  <2>1. m \in Message \cup {Garbage} /\ m = link[i].sent[n]
    BY <1>1 DEF m
  <2> DEFINE g == link[i].got
  <2>2. g \in Seq(Message \cup {Garbage}) /\ n = Len(g) + 1
    BY <1>1, <1>7
  <2>3. /\ Len(Append(g, m)) = n
        /\ \A k \in 1..Len(g) : Append(g, m)[k] = g[k]
        /\ Append(g, m)[n] = m
    BY <2>1, <2>2, AppendProperties
  <2>4. n - 1 = Len(g) /\ n - 1 \in Nat
    BY <2>2
  <2> QED
    BY <1>7, <2>1, <2>3, <2>4
<1>9. Live(c)' => socket'[c] # 0 /\ c \in up' /\ Follows(c)'
  <2>1. i # 0
    BY <1>1, Types DEF OrderInv
  <2>2. Follows(c)'
    <3>1. link'[socket'[c]] = link'[i]
      BY <1>1, <1>2
    <3> QED
      BY <1>1, <1>3, <1>4, <1>7, <1>8, <3>1 DEF Follows
  <2> QED
    BY <1>1, <1>2, <2>1, <2>2
<1>10. ASSUME NEW j \in Conns', link'[j].client = c
       PROVE  InOrder(j)'
  <2>1. CASE j = i
    <3>1. /\ Len(link[i].got) <= Len(link[i].sent)
          /\ \A k \in DOMAIN link[i].got : link[i].got[k] = link[i].sent[k]
      BY <1>1 DEF OrderInv, MessagesInOrder
    <3>2. DOMAIN link'[i].got = 1..n /\ DOMAIN link[i].got = 1..(n - 1)
      <4>1. link'[i].got \in Seq(Message \cup {Garbage})
        <5>1. m \in Message \cup {Garbage}
          BY <1>1 DEF m
        <5>2. Append(link[i].got, m) \in Seq(Message \cup {Garbage})
          BY <1>7, <5>1, AppendProperties
        <5> QED
          BY <1>7, <5>2
      <4> QED
        BY <1>7, <1>8, <4>1
    <3>3. n <= Len(link'[i].sent)
      <4>1. n \in 1..Len(link[i].sent)
        BY <1>1
      <4>2. link'[i].sent = link[i].sent
        BY <1>7
      <4> QED
        BY <4>1, <4>2
    <3>4. ASSUME NEW k \in 1..n
          PROVE  link'[i].got[k] = link'[i].sent[k]
      <4>1. CASE k = n
        BY <1>7, <1>8, <4>1
      <4>2. CASE k # n
        <5>1. k \in 1..(n - 1)
          BY <1>8, <4>2
        <5> QED
          BY <1>7, <1>8, <3>1, <3>2, <5>1
      <4> QED
        BY <4>1, <4>2
    <3> QED
      BY <1>8, <2>1, <3>2, <3>3, <3>4 DEF InOrder
  <2>2. CASE j # i
    <3>1. link'[j] = link[j] /\ j \in Conns
      BY <1>1, <1>6, <2>2, Types DEF OnlyLink, OrderInv
    <3> QED
      BY <3>1 DEF OrderInv, MessagesInOrder, InOrder
  <2> QED
    BY <2>1, <2>2
<1> QED
  BY <1>1, <1>2, <1>4, <1>5, <1>6, <1>7, <1>9, <1>10, SlaveKeepsOrder, SlaveTypes

(* So handing a message over preserves the order. *)
LEMMA OnReceiveStep ==
  ASSUME OrderInv, NEW c \in Clients, OnReceive(c)
  PROVE  OrderInv' /\ OfOneSlave(c)
<1> DEFINE i == socket[c]
           n == Len(link[i].got) + 1
<1>1. Receives(c, i, n)
  BY OnReceiveDoes
<1> HIDE DEF i, n
<1> QED
  BY <1>1, OnReceiveKeepsOrder

(* A poll that finds nothing preserves the order. *)
LEMMA PollNothingStep ==
  ASSUME OrderInv, NEW c \in Clients, PollNothing(c)
  PROVE  OrderInv' /\ OfOneSlave(c)
<1> DEFINE r == [at |-> "idle", msg |-> Garbage]
<1>1. /\ UNCHANGED <<up, link, backlog, channel, lost, version, steps, master, socket, tile>>
      /\ reading' = [reading EXCEPT ![c] = r]
      /\ connected' = [connected EXCEPT ![c] = FALSE]
  BY DEF PollNothing, Goes, masterVars
<1>2. r \in Reading /\ r.at = "idle"
  BY DEF Reading
<1> HIDE DEF r
<1>3. /\ reading' \in [Clients -> Reading] /\ reading'[c].at = "idle"
      /\ connected' \in [Clients -> BOOLEAN] /\ connected'[c] = FALSE
      /\ \A d \in Clients \ {c} : connected'[d] = connected[d] /\ reading'[d] = reading[d]
  BY <1>1, <1>2, SlaveTypes
<1>4. link \in Seq(Link) /\ Conns' = Conns /\ Len(link) \in Nat
  BY <1>1, Types DEF OrderInv, Conns
<1>5. OfOneSlave(c)
  BY <1>1, <1>3, <1>4 DEF OfOneSlave
<1>6. ~Live(c)'
  BY <1>3 DEF Live
<1>7. socket'[c] # 0 => link'[socket'[c]].client = c
  BY <1>1 DEF OrderInv, Sockets
<1>8. \A j \in Conns' : InOrder(j)'
  BY <1>1, <1>4 DEF OrderInv, MessagesInOrder, InOrder
<1> QED
  BY <1>1, <1>3, <1>4, <1>5, <1>6, <1>7, <1>8, SlaveKeepsOrder, SlaveTypes

(* A new connection, on which nothing has been sent.                         *)
LEMMA TickStep ==
  ASSUME OrderInv, NEW c \in Clients, Tick(c)
  PROVE  OrderInv' /\ OfOneSlave(c)
<1> DEFINE r == [at |-> "header", msg |-> Garbage]
<1>1. /\ UNCHANGED <<up, channel, lost, version, steps, master, tile>>
      /\ reading' = [reading EXCEPT ![c] = r]
      /\ c \in up /\ reading[c].at = "idle"
  BY DEF Tick, At, Goes
<1>2. r \in Reading /\ r.at = "header"
  BY DEF Reading
<1> HIDE DEF r
<1>3. /\ reading' \in [Clients -> Reading] /\ reading'[c].at = "header"
      /\ \A d \in Clients \ {c} : reading'[d] = reading[d]
  BY <1>1, <1>2, SlaveTypes
<1>4. link \in Seq(Link) /\ Conns = 1..Len(link) /\ Len(link) \in Nat
  BY Types DEF OrderInv
<1>5. CASE connected[c]
  <2>1. UNCHANGED <<link, backlog, socket, connected>>
    BY <1>5 DEF Tick
  <2>2. Conns' = Conns
    BY <2>1 DEF Conns
  <2>3. OfOneSlave(c)
    BY <1>1, <1>3, <1>4, <2>1 DEF OfOneSlave
  <2>4. Live(c) /\ Follows(c) /\ socket[c] # 0
    BY <1>5 DEF Live, OrderInv, StreamsFollow, Sockets
  <2>5. socket'[c] # 0 /\ c \in up' /\ Follows(c)'
    BY <1>1, <1>3, <2>1, <2>4 DEF Follows
  <2>6. link'[socket'[c]].client = c
    BY <2>1, <2>4 DEF OrderInv, Sockets
  <2>7. \A j \in Conns' : InOrder(j)'
    BY <2>1, <2>2 DEF OrderInv, MessagesInOrder, InOrder
  <2> QED
    BY <1>1, <1>3, <2>1, <2>2, <2>3, <2>5, <2>6, <2>7, SlaveKeepsOrder, SlaveTypes
<1>6. CASE ~connected[c]
  <2> DEFINE x == Len(link) + 1
  <2>1. /\ link' = Append(link, NewLink(c))
        /\ backlog' = Append(backlog, Len(link'))
        /\ socket' = [socket EXCEPT ![c] = Len(link')]
        /\ connected' = [connected EXCEPT ![c] = TRUE]
    BY <1>6 DEF Tick
  <2>2. NewLink(c) \in Link
    <3>1. /\ <<>> \in Seq(Message) /\ <<>> \in Seq(Stream)
          /\ <<>> \in Seq(Message \cup {Garbage}) /\ FALSE \in BOOLEAN
      OBVIOUS
    <3> QED
      BY <3>1 DEF NewLink, Link
  <2>3. /\ link' \in Seq(Link) /\ Len(link') = x
        /\ \A j \in 1..Len(link) : link'[j] = link[j]
        /\ link'[x] = NewLink(c)
    BY <1>4, <2>1, <2>2, AppendProperties
  <2>4. Conns' = 1..x /\ Conns \subseteq Conns' /\ Conns' \ Conns = {x} /\ x \in Conns' /\ x # 0
    BY <1>4, <2>3 DEF Conns
  <2>5. backlog' \in Seq(Conns')
    <3>1. backlog \in Seq(Conns')
      BY <2>4, SlaveTypes, SeqMonotonic
    <3> QED
      BY <2>1, <2>3, <2>4, <3>1
  <2>6. /\ socket' \in [Clients -> Conns' \cup {0}] /\ socket'[c] = x
        /\ connected' \in [Clients -> BOOLEAN]
        /\ \A d \in Clients \ {c} : socket'[d] = socket[d] /\ connected'[d] = connected[d]
    <3>1. socket \in [Clients -> Conns' \cup {0}] /\ Len(link') \in Conns' \cup {0}
      BY <2>3, <2>4, SlaveTypes
    <3>2. socket' = [socket EXCEPT ![c] = x]
      BY <2>1, <2>3
    <3> QED
      BY <2>1, <2>3, <3>1, <3>2, SlaveTypes
  <2>7. OfOneSlave(c)
    BY <1>1, <1>3, <1>4, <2>3, <2>6 DEF OfOneSlave
  <2>8. /\ link'[x].client = c /\ link'[x].sent = <<>> /\ link'[x].stream = <<>>
        /\ link'[x].got = <<>>
    BY <2>3 DEF NewLink
  <2>9. socket'[c] # 0 /\ c \in up' /\ Follows(c)'
    <3>1. Len(link'[socket'[c]].got) + 1 = 1
      BY <2>6, <2>8
    <3>2. Lies(link'[socket'[c]].sent, link'[socket'[c]].stream, 1, 0)
      BY <2>6, <2>8, LiesEmpty
    <3> QED
      BY <1>1, <1>3, <2>4, <2>6, <3>1, <3>2 DEF Follows
  <2>10. ASSUME NEW j \in Conns'
         PROVE  InOrder(j)'
    <3>1. CASE j = x
      BY <2>8, <3>1 DEF InOrder
    <3>2. CASE j # x
      <4>1. j \in Conns /\ link'[j] = link[j]
        BY <1>4, <2>3, <2>4, <3>2
      <4> QED
        BY <4>1 DEF OrderInv, MessagesInOrder, InOrder
    <3> QED
      BY <3>1, <3>2
  <2> HIDE DEF x
  <2> QED
    BY <1>1, <1>3, <2>4, <2>5, <2>6, <2>7, <2>8, <2>9, <2>10, SlaveKeepsOrder, SlaveTypes
<1> QED
  BY <1>5, <1>6

(* The end of a slave preserves the order. *)
LEMMA QuitStep ==
  ASSUME OrderInv, NEW c \in Clients, Quit(c)
  PROVE  OrderInv' /\ OfOneSlave(c)
<1>1. /\ link' \in Seq(Link) /\ Len(link') = Len(link)
      /\ \A j \in 1..Len(link) :
           link'[j] = IF link[j].client = c THEN [link[j] EXCEPT !.stream = <<>>]
                      ELSE link[j]
  BY QuitDoes
<1>2. /\ Conns = 1..Len(link) /\ Conns' = Conns /\ Len(link) \in Nat
      /\ \A j \in Conns : link[j] \in Link
  BY <1>1, Types DEF OrderInv, Conns
<1>3. \A j \in Conns : /\ link'[j].client = link[j].client /\ link'[j].sent = link[j].sent
                       /\ link'[j].got = link[j].got
  BY <1>1, <1>2 DEF Link
<1>4. /\ UNCHANGED <<backlog, channel, lost, version, steps, master>>
      /\ up' = up \ {c}
      /\ socket' = [socket EXCEPT ![c] = 0]
      /\ connected' = [connected EXCEPT ![c] = FALSE]
      /\ reading' = [reading EXCEPT ![c] = NotReading]
      /\ tile' = [tile EXCEPT ![c] = 0]
  BY DEF Quit, masterVars
<1>5. NotReading \in Reading /\ NotReading.at = "idle"
  BY DEF NotReading, Reading
<1>6. /\ socket' \in [Clients -> Conns \cup {0}] /\ socket'[c] = 0
      /\ tile' \in [Clients -> Nat]
      /\ \A d \in Clients \ {c} : socket'[d] = socket[d] /\ tile'[d] = tile[d]
  BY <1>4, SlaveTypes
<1>7. /\ reading' \in [Clients -> Reading] /\ reading'[c].at = "idle"
      /\ connected' \in [Clients -> BOOLEAN] /\ connected'[c] = FALSE
      /\ \A d \in Clients \ {c} : connected'[d] = connected[d] /\ reading'[d] = reading[d]
  BY <1>4, <1>5, SlaveTypes
<1>8. OfOneSlave(c)
  <2>1. \A j \in 1..Len(link) : /\ link'[j].client = link[j].client
                                /\ link[j].client # c => link'[j] = link[j]
    BY <1>1, <1>2, <1>3
  <2> QED
    BY <1>1, <1>2, <1>4, <1>6, <1>7, <2>1 DEF OfOneSlave
<1>9. ~Live(c)'
  BY <1>7 DEF Live
<1>10. \A j \in Conns' : InOrder(j)'
  BY SMTT(30), <1>2, <1>3 DEF OrderInv, MessagesInOrder, InOrder
<1> QED
  BY <1>2, <1>4, <1>6, <1>7, <1>8, <1>9, <1>10, SlaveKeepsOrder, SlaveTypes

-----------------------------------------------------------------------------

(* Every step of a slave preserves the order, and touches nothing of other *)
(* slaves. *)
LEMMA SlaveStep ==
  ASSUME OrderInv, NEW c \in Clients, Slave(c)
  PROVE  OrderInv' /\ OfOneSlave(c)
BY PollHeaderStep, ReadPartStep, ReadDataStep, OnReceiveStep, PollNothingStep, TickStep,
   QuitStep DEF Slave

(* The order is inductive. *)
LEMMA OrderNext == OrderInv /\ [Next]_vars => OrderInv'
<1> SUFFICES ASSUME OrderInv, [Next]_vars
             PROVE  OrderInv'
  OBVIOUS
<1>1. CASE Master
  BY <1>1, BookkeepingKeepsOrder, SendKeepsOrder, ReceiveAckKeepsOrder
     DEF Master, Bookkeeping
<1>2. ASSUME NEW c \in Clients, Slave(c)
      PROVE  OrderInv'
  BY <1>2, SlaveStep
<1>3. CASE UNCHANGED vars
  <2>1. /\ UNCHANGED <<up, link, backlog, channel, lost, version, steps, master, socket,
                       connected, reading, tile>>
        /\ Conns' = Conns
    BY <1>3 DEF vars, masterVars, slaveVars, Conns
  <2>2. TypeOK' /\ MasterInPlace' /\ Sockets'
    BY <2>1 DEF OrderInv, TypeOK, MasterInPlace, Sockets, Live
  <2>3. StreamsFollow'
    BY <2>1 DEF OrderInv, StreamsFollow, Live, Follows
  <2>4. MessagesInOrder'
    BY <2>1 DEF OrderInv, MessagesInOrder
  <2> QED
    BY <2>2, <2>3, <2>4 DEF OrderInv
<1> QED
  BY <1>1, <1>2, <1>3 DEF Next

(* The order of messages, with what it rests on: where the streams stand.    *)
THEOREM OrderHolds == Spec => []OrderInv
BY OrderInit, OrderNext, PTL DEF Spec

(* The programs' variables keep their types.                                 *)
THEOREM TypeCorrect == Spec => []TypeOK
<1>1. OrderInv => TypeOK
  BY DEF OrderInv
<1> QED
  BY <1>1, OrderHolds, PTL

(* Whatever polls, short reads, errno and ends of programs come between, on  *)
(* each connection OnReceive gets what was sent, from the first on and in    *)
(* order: no header is ever looked for inside of a payload.                  *)
THEOREM MessagesArriveInOrder == Spec => []MessagesInOrder
<1>1. OrderInv => MessagesInOrder
  BY DEF OrderInv
<1> QED
  BY <1>1, OrderHolds, PTL

-----------------------------------------------------------------------------
(* An ACK means that the message was received. *)

AllReceived(i) ==
  \A n \in DOMAIN link[i].sent : IsSet(link[i].sent[n]) => n <= Received(i)

(* The one ACK on the way is the one that the master waits for, and it was   *)
(* sent for the last message: that is why an ACK need not say what it is     *)
(* for.                                                                      *)
AcksInOrder ==
  \A i \in Conns : link[i].ack => Awaited(i) /\ (~Reset(i) => AllReceived(i))

LastIsCurrent ==
  \A i \in Conns : Awaited(i) => /\ link[i].sent # <<>>
                                 /\ link[i].sent[Len(link[i].sent)] = Current

AckInv == AckMeansReceived /\ AcksInOrder /\ LastIsCurrent

(* No ACK is awaited at first. *)
LEMMA AckInit == Init => AckInv
<1> SUFFICES ASSUME Init
             PROVE  AckInv
  OBVIOUS
<1>1. Conns = {}
  BY DEF Init, Conns
<1> QED
  BY <1>1 DEF AckInv, AckMeansReceived, AcksInOrder, LastIsCurrent

(* If nothing is awaited, all has been received, and no ACK is on the way.   *)
LEMMA NothingAwaited ==
  ASSUME AckInv, NEW i \in Conns, ~Awaited(i)
  PROVE  ~link[i].ack /\ (~Reset(i) => AllReceived(i))
BY DEF AckInv, AckMeansReceived, AcksInOrder, AllReceived

(* The bookkeeping awaits no ACK, and gives one up only when the connection *)
(* failed. *)
LEMMA BookkeepingIsQuiet ==
  ASSUME OrderInv, Bookkeeping
  PROVE  /\ ~master'.waits
         /\ ~master.waits \/ AckFails
<1>1. master.waits => ~Idle /\ ~Looping
  BY DEF OrderInv, MasterInPlace, Idle, Looping
<1>2. ~master.waits \/ AckFails
  BY <1>1 DEF Bookkeeping, Accept, Read, Step, SkipLost, SendFails, EndOfLoop, Sending
<1>3. /\ ~Rest.waits /\ ~Does("state").waits /\ ~Does("tile").waits /\ ~Does("step").waits
      /\ \A b \in BOOLEAN : ~Onwards(b).waits
  BY LoopStates DEF OrderInv
<1>4. ~Onwards(TRUE).waits /\ ~Onwards(FALSE).waits
  BY <1>3, Zenon
<1>5. ~[master EXCEPT !.phase = "aborted", !.waits = FALSE].waits
  BY DEF OrderInv, TypeOK
<1>6. [master EXCEPT !.phase = "aborted"].waits = master.waits
  BY DEF OrderInv, TypeOK
<1>7. CASE Accept \/ Read \/ Step \/ EndOfLoop
  BY <1>2, <1>3, <1>7 DEF Accept, Read, Step, EndOfLoop, AckFails
<1>8. CASE SkipLost
  BY <1>2, <1>4, <1>8 DEF SkipLost
<1>9. CASE SendFails
  <2>1. ~master.waits
    BY <1>9 DEF SendFails, Sending, Looping
  <2> QED
    BY <1>4, <1>6, <1>9, <2>1 DEF SendFails
<1>10. CASE AckFails
  BY <1>4, <1>5, <1>10 DEF AckFails
<1> QED
  BY <1>2, <1>7, <1>8, <1>9, <1>10 DEF Bookkeeping

(* The bookkeeping preserves the meaning of ACKs. *)
LEMMA BookkeepingKeepsAcks ==
  ASSUME OrderInv, AckInv, Bookkeeping
  PROVE  AckInv'
<1>1. UNCHANGED <<up, link, socket, connected, reading, tile>>
  BY BookkeepingFrame
<1>2. Conns' = Conns /\ \A i \in Conns : (Reset(i)' <=> Reset(i)) /\ (AllReceived(i)' <=> AllReceived(i))
  BY <1>1 DEF Conns, Reset, AllReceived, Received
<1>3. ~master'.waits
  BY BookkeepingIsQuiet
<1>4. \A i \in Conns : ~Awaited(i) \/ (Reset(i) /\ ~link[i].ack)
  <2>1. CASE ~master.waits
    BY <2>1 DEF Awaited
  <2>2. CASE AckFails
    BY <2>2 DEF AckFails, Awaited
  <2> QED
    BY <2>1, <2>2, BookkeepingIsQuiet
<1>5. \A i \in Conns : ~link[i].ack /\ (~Reset(i) => AllReceived(i))
  BY <1>4, NothingAwaited
<1>7. \A i \in Conns' : ~Awaited(i)' /\ ~link'[i].ack
  BY <1>1, <1>2, <1>3, <1>5 DEF Awaited
<1>8. \A i \in Conns' : ~Reset(i)' => AllReceived(i)'
  BY <1>2, <1>5
<1> QED
  BY <1>7, <1>8 DEF AckInv, AckMeansReceived, AcksInOrder, LastIsCurrent, AllReceived

(* send() preserves the meaning of ACKs: a message just sent has none yet. *)
LEMMA SendKeepsAcks ==
  ASSUME OrderInv, AckInv, Send
  PROVE  AckInv'
<1> DEFINE i == channel[master.at]
<1>1. /\ i \in Conns /\ Current \in Message
      /\ OnlyLink(i)
      /\ link'[i].sent = Append(link[i].sent, Current)
      /\ link'[i].ack = link[i].ack
      /\ link'[i].got = link[i].got
  BY SendDoes DEF OrderInv, MasterInPlace
<1> HIDE DEF i
<1>2. /\ Conns' = Conns /\ Conns = 1..Len(link)
      /\ link[i].sent \in Seq(Message) /\ Len(link[i].sent) \in Nat
  BY <1>1, ConnsKept, Types DEF OrderInv
<1>3. UNCHANGED <<up, channel, lost, version, steps, socket, connected, reading, tile>>
  BY DEF Send, slaveVars
<1>4. /\ ~master.waits
      /\ IsSet(Current) => /\ Current' = Current /\ master'.at = master.at
      /\ ~IsSet(Current) => ~master'.waits
  <2>1. ~master.waits /\ master' = AfterSend
    BY DEF Send, Sending, Looping
  <2>2. ASSUME IsSet(Current)
        PROVE  Current' = Current /\ master'.at = master.at
    <3>1. master' = [master EXCEPT !.waits = TRUE]
      BY <2>1, <2>2 DEF AfterSend
    <3>2. /\ master'.at = master.at /\ master'.phase = master.phase
          /\ master'.tile = master.tile
      BY <3>1 DEF OrderInv, TypeOK
    <3> QED
      BY <1>3, <3>2 DEF Current
  <2>3. ASSUME ~IsSet(Current)
        PROVE  ~master'.waits
    <3>1. ~Onwards(TRUE).waits
      <4>1. \A b \in BOOLEAN : ~Onwards(b).waits
        BY LoopStates DEF OrderInv
      <4> QED
        BY <4>1, Zenon
    <3> QED
      BY <2>1, <2>3, <3>1 DEF AfterSend
  <2> QED
    BY <2>1, <2>2, <2>3
<1>5. \A j \in Conns : ~link[j].ack /\ (~Reset(j) => AllReceived(j))
  BY <1>4, NothingAwaited DEF Awaited
<1>6. \A j \in Conns : /\ link'[j].ack = link[j].ack
                       /\ Reset(j)' <=> Reset(j)
                       /\ Received(j)' = Received(j)
  BY <1>1, <1>2, <1>3 DEF OnlyLink, Reset, Received
<1>7. \A j \in Conns : Awaited(j)' => IsSet(Current) /\ j = i
  BY <1>3, <1>4 DEF Awaited, i
<1>8. IsSet(Current) => master'.waits
  <2>1. SUFFICES ASSUME IsSet(Current)
                 PROVE  master'.waits
    OBVIOUS
  <2>2. master' = [master EXCEPT !.waits = TRUE]
    BY <2>1 DEF Send, AfterSend
  <2> QED
    BY <2>2 DEF OrderInv, TypeOK
<1>10. /\ Len(link'[i].sent) = Len(link[i].sent) + 1
       /\ \A m \in 1..Len(link[i].sent) : link'[i].sent[m] = link[i].sent[m]
       /\ link'[i].sent[Len(link[i].sent) + 1] = Current
       /\ link'[i].sent \in Seq(Message) /\ link'[i].sent # <<>>
  BY <1>1, <1>2, AppendProperties
<1>11. AckMeansReceived'
  <2> SUFFICES ASSUME NEW j \in Conns, NEW n \in DOMAIN link'[j].sent,
                      IsSet(link'[j].sent[n]),
                      ~(Awaited(j)' /\ n = Len(link'[j].sent)), ~Reset(j)'
               PROVE  n <= Received(j)'
    BY <1>2 DEF AckMeansReceived
  <2>1. CASE j # i
    <3>1. link'[j] = link[j]
      BY <1>1, <1>2, <2>1 DEF OnlyLink
    <3> QED
      BY <1>5, <1>6, <3>1 DEF AllReceived
  <2>2. CASE j = i
    <3>1. n \in 1..(Len(link[i].sent) + 1)
      BY <1>10, <2>2
    <3>2. CASE n = Len(link[i].sent) + 1
      <4>1. IsSet(Current)
        BY <1>10, <2>2, <3>2
      <4>2. Awaited(j)'
        BY <1>3, <1>4, <1>8, <2>2, <4>1 DEF Awaited, i
      <4> QED
        BY <1>10, <2>2, <3>2, <4>2
    <3>3. CASE n # Len(link[i].sent) + 1
      <4>1. n \in DOMAIN link[i].sent /\ link'[i].sent[n] = link[i].sent[n]
        BY <1>2, <1>10, <3>1, <3>3
      <4> QED
        BY <1>1, <1>5, <1>6, <2>2, <4>1 DEF AllReceived
    <3> QED
      BY <3>2, <3>3
  <2> QED
    BY <2>1, <2>2
<1>12. AcksInOrder'
  BY <1>2, <1>5, <1>6 DEF AcksInOrder
<1>13. LastIsCurrent'
  <2> SUFFICES ASSUME NEW j \in Conns, Awaited(j)'
               PROVE  /\ link'[j].sent # <<>>
                      /\ link'[j].sent[Len(link'[j].sent)] = Current'
    BY <1>2 DEF LastIsCurrent
  <2> QED
    BY <1>4, <1>7, <1>10
<1> QED
  BY <1>11, <1>12, <1>13 DEF AckInv

(* An ACK that arrives is that of the last message sent. *)
LEMMA ReceiveAckKeepsAcks ==
  ASSUME OrderInv, AckInv, ReceiveAck
  PROVE  AckInv'
<1> DEFINE i == channel[master.at]
<1>1. /\ i \in Conns /\ OnlyLink(i) /\ link'[i] = [link[i] EXCEPT !.ack = FALSE]
      /\ link[i].ack
  BY ReceiveAckDoes DEF OrderInv, ReceiveAck
<1>2. \A j \in Conns : j # i => ~Awaited(j)
  BY DEF Awaited
<1> HIDE DEF i
<1>3. Conns' = Conns /\ Conns = 1..Len(link)
  BY <1>1, ConnsKept, Types DEF OrderInv
<1>4. UNCHANGED <<up, socket, connected, reading, tile>>
  BY DEF ReceiveAck, slaveVars
<1>5. \A j \in Conns : /\ link'[j].client = link[j].client
                       /\ link'[j].sent = link[j].sent
                       /\ link'[j].got = link[j].got
                       /\ link'[j].ack => j # i /\ link[j].ack
  <2>1. link[i] \in Link
    BY <1>1, Types DEF OrderInv
  <2>2. /\ link'[i].client = link[i].client /\ link'[i].sent = link[i].sent
        /\ link'[i].got = link[i].got /\ link'[i].ack = FALSE
    BY <1>1, <2>1 DEF Link
  <2> QED
    BY <1>1, <1>3, <2>2 DEF OnlyLink
<1>6. \A j \in Conns : /\ Reset(j)' <=> Reset(j)
                       /\ Received(j)' = Received(j)
                       /\ AllReceived(j)' <=> AllReceived(j)
  BY <1>4, <1>5 DEF Reset, Received, AllReceived
<1>7. ASSUME NEW j \in Conns
      PROVE  /\ ~Reset(j)' => AllReceived(j)'
             /\ ~link'[j].ack
  <2>1. CASE j = i
    <3>1. ~Reset(i) => AllReceived(i)
      BY <1>1 DEF AckInv, AcksInOrder
    <3> QED
      BY <1>5, <1>6, <2>1, <3>1
  <2>2. CASE j # i
    BY <1>2, <1>5, <1>6, <2>2, NothingAwaited
  <2> QED
    BY <2>1, <2>2
<1>8. ~master'.waits
  <2>1. \A b \in BOOLEAN : ~Onwards(b).waits
    BY LoopStates DEF OrderInv
  <2>2. ~Onwards(TRUE).waits
    BY <2>1, Zenon
  <2> QED
    BY <2>2 DEF ReceiveAck
<1>10. \A j \in Conns' : ~Awaited(j)' /\ ~link'[j].ack /\ (~Reset(j)' => AllReceived(j)')
  BY <1>3, <1>7, <1>8 DEF Awaited
<1> QED
  BY <1>10 DEF AckInv, AckMeansReceived, AcksInOrder, LastIsCurrent, AllReceived

(* What a connection has received is a number of messages. *)
LEMMA ReceivedIsNumber ==
  ASSUME TypeOK, NEW i \in Conns
  PROVE  Received(i) \in Nat
<1> DEFINE g == Len(link[i].got)
           x == IF socket[link[i].client] = i /\ reading[link[i].client].at = "deliver"
                THEN 1 ELSE 0
<1>1. g \in Nat
  BY Types
<1>2. x \in Nat
  OBVIOUS
<1>3. Received(i) = g + x
  BY DEF Received
<1> HIDE DEF g, x
<1> QED
  BY <1>1, <1>2, <1>3

(* A slave sends nothing but ACKs, forgets nothing it has received, and      *)
(* connects afresh.                                                          *)
SlaveProgress(c) ==
  /\ \A j \in Conns : /\ link'[j].sent = link[j].sent
                      /\ Reset(j) => Reset(j)'
                      /\ ~Reset(j)' => Received(j)' >= Received(j)
  /\ \A j \in Conns' \ Conns : link'[j].sent = <<>> /\ ~link'[j].ack

(* What it gets on its connection, and that nothing else changes there.      *)
GetsOn(c, i) ==
  /\ Conns' = Conns /\ up' = up /\ socket' = socket
  /\ i \in Conns /\ i = socket[c]
  /\ \A j \in Conns : link'[j].sent = link[j].sent
  /\ \A j \in Conns : j # i => link'[j].got = link[j].got
  /\ \/ /\ link'[i].got = link[i].got
        /\ reading[c].at = "deliver" => reading'[c].at = "deliver"
     \/ Len(link'[i].got) = Len(link[i].got) + 1

(* A slave that gets on with one connection loses nothing it received. *)
LEMMA GotProgress ==
  ASSUME OrderInv, NEW c \in Clients, OfOneSlave(c), NEW i, GetsOn(c, i)
  PROVE  SlaveProgress(c)
<1>0. /\ Conns' = Conns /\ up' = up /\ socket' = socket
      /\ i \in Conns /\ i = socket[c]
      /\ \A j \in Conns : link'[j].sent = link[j].sent
      /\ \A j \in Conns : j # i => link'[j].got = link[j].got
      /\ \/ /\ link'[i].got = link[i].got
            /\ reading[c].at = "deliver" => reading'[c].at = "deliver"
         \/ Len(link'[i].got) = Len(link[i].got) + 1
  BY DEF GetsOn
<1>1. /\ Conns = 1..Len(link)
      /\ \A j \in Conns : Len(link[j].got) \in Nat
  BY Types DEF OrderInv
<1>2. link[i].client = c
  BY <1>0, <1>1 DEF OrderInv, Sockets
<1>3. ASSUME NEW j \in Conns
      PROVE  Received(j)' >= Received(j)
  <2>1. link'[j].client = link[j].client
    BY <1>1 DEF OfOneSlave
  <2>2. CASE j = i
    <3> DEFINE g == Len(link[i].got)
               h == Len(link'[i].got)
               x == IF reading[c].at = "deliver" THEN 1 ELSE 0
               y == IF reading'[c].at = "deliver" THEN 1 ELSE 0
    <3>1. Received(j) = g + x /\ Received(j)' = h + y
      BY <1>0, <1>2, <2>1, <2>2 DEF Received
    <3>2. g \in Nat /\ x \in 0..1 /\ y \in 0..1
      BY <1>0, <1>1
    <3>3. h = g + 1 \/ (h = g /\ x <= y)
      BY <1>0
    <3> HIDE DEF g, h, x, y
    <3>4. h + y >= g + x
      BY <3>2, <3>3
    <3> QED
      BY <3>1, <3>4, Zenon
  <2>3. CASE j # i /\ link[j].client = c
    <3>1. link'[j].got = link[j].got /\ socket[link[j].client] # j
      BY <1>0, <2>3
    <3> QED
      BY <1>0, <1>1, <2>1, <3>1 DEF Received
  <2>4. CASE link[j].client # c
    <3>1. link[j].client \in Clients \ {c} /\ link'[j] = link[j]
      BY <1>1, <2>4, Types DEF OfOneSlave, OrderInv
    <3>2. reading'[link[j].client] = reading[link[j].client]
      BY <3>1 DEF OfOneSlave
    <3> QED
      BY <1>0, <1>1, <2>1, <3>1, <3>2 DEF Received
  <2> QED
    BY <1>2, <2>2, <2>3, <2>4
<1>4. \A j \in Conns : Reset(j)' <=> Reset(j)
  BY <1>0, <1>1 DEF OfOneSlave, Reset
<1> QED
  BY <1>0, <1>3, <1>4 DEF SlaveProgress

(* Polling a header loses nothing received and sends no ACK. *)
LEMMA PollHeaderProgress ==
  ASSUME OrderInv, NEW c \in Clients, PollHeader(c), NEW i, NEW n, NEW m,
         PollsHeader(c, i, n, m)
  PROVE  SlaveProgress(c) /\ Conns' = Conns /\ (\A j \in Conns : link'[j].ack => link[j].ack)
<1>1. /\ i = socket[c] /\ i \in Conns /\ OnlyLink(i)
      /\ link'[i] = [link[i] EXCEPT !.stream = Tail(link[i].stream)]
  BY DEF PollsHeader
<1>2. /\ Conns = 1..Len(link) /\ Conns' = Conns /\ link[i] \in Link
  BY <1>1, Types, ConnsKept DEF OrderInv
<1>3. \A j \in Conns : link'[j].sent = link[j].sent /\ link'[j].got = link[j].got
                       /\ (link'[j].ack <=> link[j].ack)
  BY ZenonT(60), <1>1, <1>2 DEF OnlyLink, Link
<1>4. up' = up /\ socket' = socket /\ reading[c].at = "header"
  BY DEF PollHeader, At
<1>5. OfOneSlave(c)
  BY PollHeaderStep
<1>6. SlaveProgress(c)
  <2>1. GetsOn(c, i)
    BY <1>1, <1>2, <1>3, <1>4 DEF GetsOn
  <2> QED
    BY <1>5, <2>1, GotProgress
<1> QED
  BY <1>2, <1>3, <1>6

(* Reading a part loses nothing received and sends no ACK. *)
LEMMA ReadPartProgress ==
  ASSUME OrderInv, NEW c \in Clients, ReadPart(c), NEW i, ReadsPart(c, i)
  PROVE  SlaveProgress(c) /\ Conns' = Conns /\ (\A j \in Conns : link'[j].ack => link[j].ack)
<1>1. /\ i = socket[c] /\ i \in Conns /\ OnlyLink(i)
      /\ link'[i] = [link[i] EXCEPT !.stream = Tail(link[i].stream)]
  BY DEF ReadsPart
<1>2. /\ Conns = 1..Len(link) /\ Conns' = Conns /\ link[i] \in Link
  BY <1>1, Types, ConnsKept DEF OrderInv
<1>3. \A j \in Conns : link'[j].sent = link[j].sent /\ link'[j].got = link[j].got
                       /\ (link'[j].ack <=> link[j].ack)
  BY ZenonT(60), <1>1, <1>2 DEF OnlyLink, Link
<1>4. up' = up /\ socket' = socket /\ reading[c].at = "data"
  BY DEF ReadPart, At
<1>5. OfOneSlave(c)
  BY ReadPartStep
<1>6. SlaveProgress(c)
  <2>1. GetsOn(c, i)
    BY <1>1, <1>2, <1>3, <1>4 DEF GetsOn
  <2> QED
    BY <1>5, <2>1, GotProgress
<1> QED
  BY <1>2, <1>3, <1>6

(* Reading a payload loses nothing received; only its own connection may get *)
(* an ACK. *)
LEMMA ReadDataProgress ==
  ASSUME OrderInv, NEW c \in Clients, ReadData(c), NEW i, NEW n, ReadsData(c, i, n)
  PROVE  /\ SlaveProgress(c) /\ Conns' = Conns
         /\ \A j \in Conns : j # i => (link'[j].ack => link[j].ack)
<1>1. /\ i = socket[c] /\ i \in Conns /\ OnlyLink(i) /\ reading[c].at = "data"
      /\ link'[i] = [link[i] EXCEPT !.stream = Tail(Tail(link[i].stream)), !.ack = TRUE]
  BY DEF ReadsData
<1>2. /\ Conns = 1..Len(link) /\ Conns' = Conns /\ link[i] \in Link
  BY <1>1, Types, ConnsKept DEF OrderInv
<1>3. \A j \in Conns : link'[j].sent = link[j].sent /\ link'[j].got = link[j].got
                       /\ (j # i => (link'[j].ack <=> link[j].ack))
  <2>1. link'[i].sent = link[i].sent /\ link'[i].got = link[i].got
    BY <1>1, <1>2 DEF Link
  <2>2. \A j \in Conns : j # i => link'[j] = link[j]
    BY <1>1, <1>2 DEF OnlyLink
  <2> QED
    BY <2>1, <2>2
<1>4. up' = up /\ socket' = socket
  BY DEF ReadData
<1>5. OfOneSlave(c)
  BY ReadDataStep
<1>6. SlaveProgress(c)
  <2>1. GetsOn(c, i)
    BY <1>1, <1>2, <1>3, <1>4 DEF GetsOn
  <2> QED
    BY <1>5, <2>1, GotProgress
<1> QED
  BY <1>2, <1>3, <1>6

(* Handing a message over loses nothing received and sends no ACK. *)
LEMMA OnReceiveProgress ==
  ASSUME OrderInv, NEW c \in Clients, OnReceive(c), NEW i, NEW n, Receives(c, i, n)
  PROVE  SlaveProgress(c) /\ Conns' = Conns /\ (\A j \in Conns : link'[j].ack => link[j].ack)
<1>1. /\ i = socket[c] /\ i \in Conns /\ OnlyLink(i) /\ reading[c].at = "deliver"
      /\ link'[i] = [link[i] EXCEPT !.got = Append(link[i].got, reading[c].msg)]
      /\ reading[c].msg \in Message
  BY DEF Receives
<1>2. /\ Conns = 1..Len(link) /\ Conns' = Conns /\ link[i] \in Link
      /\ link[i].got \in Seq(Message \cup {Garbage})
  BY <1>1, Types, ConnsKept DEF OrderInv
<1>3. /\ \A j \in Conns : link'[j].sent = link[j].sent
                       /\ (link'[j].ack <=> link[j].ack)
                       /\ (j # i => link'[j].got = link[j].got)
      /\ link'[i].got = Append(link[i].got, reading[c].msg)
  <2>1. /\ link'[i].sent = link[i].sent /\ link'[i].ack = link[i].ack
        /\ link'[i].got = Append(link[i].got, reading[c].msg)
    BY <1>1, <1>2 DEF Link
  <2>2. \A j \in Conns : j # i => link'[j] = link[j]
    BY <1>1, <1>2 DEF OnlyLink
  <2> QED
    BY <2>1, <2>2
<1>4. Len(link'[i].got) = Len(link[i].got) + 1
  <2>1. reading[c].msg \in Message \cup {Garbage}
    BY <1>1
  <2> QED
    BY <1>2, <1>3, <2>1, AppendProperties
<1>5. up' = up /\ socket' = socket
  BY DEF OnReceive
<1>6. OfOneSlave(c)
  BY OnReceiveStep
<1>7. SlaveProgress(c)
  <2>1. GetsOn(c, i)
    BY <1>1, <1>2, <1>3, <1>4, <1>5 DEF GetsOn
  <2> QED
    BY <1>6, <2>1, GotProgress
<1> QED
  BY <1>2, <1>3, <1>7


(* A poll that finds nothing loses nothing received and sends no ACK. *)
LEMMA PollNothingProgress ==
  ASSUME OrderInv, NEW c \in Clients, PollNothing(c)
  PROVE  SlaveProgress(c) /\ Conns' = Conns /\ (\A j \in Conns : link'[j].ack => link[j].ack)
<1>1. /\ UNCHANGED <<up, link, socket>>
      /\ reading' = [reading EXCEPT ![c] = [at |-> "idle", msg |-> Garbage]]
      /\ reading[c].at = "header"
  BY DEF PollNothing, Goes, At
<1>2. Conns' = Conns /\ Conns = 1..Len(link) /\ \A j \in Conns : Len(link[j].got) \in Nat
  BY <1>1, Types DEF OrderInv, Conns
<1>3. ASSUME NEW j \in Conns
      PROVE  Received(j)' >= Received(j)
  <2>1. link[j].client \in Clients
    BY <1>2, Types DEF OrderInv
  <2>2. reading'[link[j].client].at = "deliver" <=> reading[link[j].client].at = "deliver"
    BY <1>1, <2>1, SlaveTypes
  <2> QED
    BY <1>1, <1>2, <2>2 DEF Received
<1> QED
  BY <1>1, <1>2, <1>3 DEF SlaveProgress, Reset

(* A slave's tick, which may connect again, loses nothing received and sends *)
(* no ACK. *)
LEMMA TickProgress ==
  ASSUME OrderInv, NEW c \in Clients, Tick(c)
  PROVE  /\ SlaveProgress(c) /\ Conns \subseteq Conns'
         /\ \A j \in Conns : link'[j].ack => link[j].ack
<1>1. /\ up' = up
      /\ reading' = [reading EXCEPT ![c] = [at |-> "header", msg |-> Garbage]]
      /\ reading[c].at = "idle"
  BY DEF Tick, Goes, At
<1>2. /\ Conns = 1..Len(link) /\ link \in Seq(Link) /\ Len(link) \in Nat
      /\ \A j \in Conns : Len(link[j].got) \in Nat /\ link[j].client \in Clients
  BY Types DEF OrderInv
<1>3. /\ \A j \in Conns : link'[j] = link[j]
      /\ Conns \subseteq Conns'
      /\ \A j \in Conns' \ Conns : link'[j].sent = <<>> /\ ~link'[j].ack
      /\ \A d \in Clients \ {c} : socket'[d] = socket[d]
  <2>1. CASE connected[c]
    BY <2>1 DEF Tick, Conns
  <2>2. CASE ~connected[c]
    <3> DEFINE x == Len(link) + 1
    <3>1. link' = Append(link, NewLink(c)) /\ socket' = [socket EXCEPT ![c] = Len(link')]
      BY <2>2 DEF Tick
    <3>2. NewLink(c) \in Link
      <4>1. /\ <<>> \in Seq(Message) /\ <<>> \in Seq(Stream)
            /\ <<>> \in Seq(Message \cup {Garbage}) /\ FALSE \in BOOLEAN
        OBVIOUS
      <4> QED
        BY <4>1 DEF NewLink, Link
    <3>3. /\ Len(link') = x /\ link' \in Seq(Link)
          /\ \A j \in 1..Len(link) : link'[j] = link[j]
          /\ link'[x] = NewLink(c)
      BY <1>2, <3>1, <3>2, AppendProperties
    <3>4. Conns' = 1..x /\ Conns \subseteq Conns' /\ Conns' \ Conns = {x}
      BY <1>2, <3>3 DEF Conns
    <3>5. link'[x].sent = <<>> /\ ~link'[x].ack
      BY <3>3 DEF NewLink
    <3>6. \A d \in Clients \ {c} : socket'[d] = socket[d]
      BY <3>1, SlaveTypes
    <3> HIDE DEF x
    <3> QED
      BY <1>2, <3>3, <3>4, <3>5, <3>6
  <2> QED
    BY <2>1, <2>2
<1>4. ASSUME NEW j \in Conns
      PROVE  Received(j)' >= Received(j)
  <2> DEFINE d == link[j].client
  <2>1. d \in Clients /\ Len(link[j].got) \in Nat
    BY <1>2
  <2>2. link'[j].client = d /\ link'[j].got = link[j].got
    BY <1>3
  <2>3. (socket'[d] = j /\ reading'[d].at = "deliver")
          <=> (socket[d] = j /\ reading[d].at = "deliver")
    <3>1. CASE d = c
      BY <1>1, <2>1, <3>1, SlaveTypes
    <3>2. CASE d # c
      BY <1>1, <1>3, <2>1, <3>2, SlaveTypes
    <3> QED
      BY <3>1, <3>2
  <2> QED
    BY <2>1, <2>2, <2>3 DEF Received
<1> QED
  BY <1>1, <1>2, <1>3, <1>4 DEF SlaveProgress, Reset

(* The end of a slave loses nothing received and sends no ACK. *)
LEMMA QuitProgress ==
  ASSUME OrderInv, NEW c \in Clients, Quit(c)
  PROVE  SlaveProgress(c) /\ Conns' = Conns /\ (\A j \in Conns : link'[j].ack => link[j].ack)
<1>1. /\ link' \in Seq(Link) /\ Len(link') = Len(link)
      /\ \A j \in 1..Len(link) :
           link'[j] = IF link[j].client = c THEN [link[j] EXCEPT !.stream = <<>>]
                      ELSE link[j]
  BY QuitDoes
<1>2. /\ Conns = 1..Len(link) /\ Len(link) \in Nat /\ Conns' = Conns
      /\ \A j \in Conns : /\ link[j] \in Link /\ Len(link[j].got) \in Nat
                          /\ link[j].client \in Clients
  BY <1>1, Types DEF OrderInv, Conns
<1>3. \A j \in Conns : /\ link'[j].client = link[j].client /\ link'[j].sent = link[j].sent
                       /\ link'[j].got = link[j].got
                       /\ (link'[j].ack <=> link[j].ack)
  <2> SUFFICES ASSUME NEW j \in Conns
               PROVE  /\ link'[j].client = link[j].client /\ link'[j].sent = link[j].sent
                      /\ link'[j].got = link[j].got
                      /\ (link'[j].ack <=> link[j].ack)
    OBVIOUS
  <2>1. CASE link[j].client = c
    <3>1. link'[j] = [link[j] EXCEPT !.stream = <<>>]
      BY <1>1, <1>2, <2>1
    <3> QED
      BY <1>2, <3>1 DEF Link
  <2>2. CASE link[j].client # c
    <3>1. link'[j] = link[j]
      BY <1>1, <1>2, <2>2
    <3> QED
      BY <3>1
  <2> QED
    BY <2>1, <2>2
<1>4. /\ up' = up \ {c}
      /\ socket' = [socket EXCEPT ![c] = 0]
      /\ reading' = [reading EXCEPT ![c] = NotReading]
  BY DEF Quit
<1>5. ASSUME NEW j \in Conns, ~Reset(j)'
      PROVE  Received(j)' >= Received(j)
  <2>1. link[j].client # c /\ link[j].client \in Clients
    BY <1>2, <1>3, <1>4, <1>5 DEF Reset
  <2>2. /\ socket'[link[j].client] = socket[link[j].client]
        /\ reading'[link[j].client] = reading[link[j].client]
    BY <1>4, <2>1, SlaveTypes
  <2>3. Received(j)' = Received(j)
    BY <1>3, <2>2 DEF Received
  <2>4. Received(j) \in Nat
    BY ReceivedIsNumber DEF OrderInv
  <2> QED
    BY <2>3, <2>4
<1> QED
  BY <1>2, <1>3, <1>4, <1>5 DEF SlaveProgress, Reset


(* ... so that only the ACKs it sends remain to be looked at.                *)
LEMMA ProgressKeepsAcks ==
  ASSUME OrderInv, OrderInv', AckInv, NEW c \in Clients, OfOneSlave(c), SlaveProgress(c),
         Conns \subseteq Conns',
         \A j \in Conns : link'[j].ack => link[j].ack \/ (Awaited(j) /\ AllReceived(j)')
  PROVE  AckInv'
<1>1. /\ \A j \in Conns : /\ link'[j].sent = link[j].sent
                          /\ Reset(j) => Reset(j)'
                          /\ ~Reset(j)' => Received(j)' >= Received(j)
      /\ \A j \in Conns' \ Conns : link'[j].sent = <<>> /\ ~link'[j].ack
  BY DEF SlaveProgress
<1>2. UNCHANGED <<channel, lost, version, steps, master>>
  BY DEF OfOneSlave
<1>3. Current' = Current /\ \A j : Awaited(j)' <=> Awaited(j)
  BY <1>2 DEF Current, Awaited
<1>4. \A j \in Conns : /\ Received(j) \in Nat /\ Received(j)' \in Nat
                       /\ DOMAIN link[j].sent \subseteq Nat
  <2>1. \A j \in Conns : Received(j) \in Nat /\ DOMAIN link[j].sent \subseteq Nat
    BY ReceivedIsNumber, Types DEF OrderInv
  <2>2. link' \in Seq(Link)
    BY DEF OrderInv, TypeOK, Link, Stream
  <2>3. ASSUME NEW j \in Conns
        PROVE  Received(j)' \in Nat
    <3> DEFINE g == Len(link'[j].got)
               x == IF socket'[link'[j].client] = j
                         /\ reading'[link'[j].client].at = "deliver" THEN 1 ELSE 0
    <3>1. link'[j] \in Link
      BY <2>2 DEF Conns
    <3>2. g \in Nat
      BY <3>1 DEF Link
    <3>3. x \in Nat
      OBVIOUS
    <3>4. Received(j)' = g + x
      BY DEF Received
    <3> HIDE DEF g, x
    <3> QED
      BY <3>2, <3>3, <3>4
  <2> QED
    BY <2>1, <2>3
<1>5. \A j \in Conns : \A n \in Nat : ~Reset(j)' /\ n <= Received(j) => n <= Received(j)'
  BY <1>1, <1>4
<1>7. AckMeansReceived'
  <2> SUFFICES ASSUME NEW j \in Conns', NEW n \in DOMAIN link'[j].sent,
                      IsSet(link'[j].sent[n]),
                      ~(Awaited(j)' /\ n = Len(link'[j].sent)), ~Reset(j)'
               PROVE  n <= Received(j)'
    BY DEF AckMeansReceived
  <2>1. CASE j \notin Conns
    BY <1>1, <2>1
  <2>2. CASE j \in Conns
    <3>1. n \in DOMAIN link[j].sent /\ n \in Nat /\ link'[j].sent = link[j].sent /\ ~Reset(j)
      BY <1>1, <1>4, <2>2
    <3>2. n <= Received(j)
      BY <1>3, <2>2, <3>1 DEF AckInv, AckMeansReceived
    <3> QED
      BY <1>5, <2>2, <3>1, <3>2
  <2> QED
    BY <2>1, <2>2
<1>8. AcksInOrder'
  <2> SUFFICES ASSUME NEW j \in Conns', link'[j].ack
               PROVE  Awaited(j)' /\ (~Reset(j)' => AllReceived(j)')
    BY DEF AcksInOrder
  <2>1. j \in Conns
    BY <1>1
  <2>2. CASE link[j].ack
    <3>1. Awaited(j) /\ (~Reset(j) => AllReceived(j))
      BY <2>1, <2>2 DEF AckInv, AcksInOrder
    <3>2. ASSUME ~Reset(j)', NEW n \in DOMAIN link'[j].sent, IsSet(link'[j].sent[n])
          PROVE  n <= Received(j)'
      <4>1. ~Reset(j) /\ n \in DOMAIN link[j].sent /\ n \in Nat /\ IsSet(link[j].sent[n])
        BY <1>1, <1>4, <2>1, <3>2
      <4>2. n <= Received(j)
        BY <3>1, <4>1 DEF AllReceived
      <4> QED
        BY <1>5, <2>1, <3>2, <4>1, <4>2
    <3> QED
      BY <1>3, <3>1, <3>2 DEF AllReceived
  <2>3. CASE Awaited(j) /\ AllReceived(j)'
    BY <1>3, <2>3
  <2> QED
    BY <2>1, <2>2, <2>3
<1>9. LastIsCurrent'
  <2> SUFFICES ASSUME NEW j \in Conns', Awaited(j)'
               PROVE  /\ link'[j].sent # <<>>
                      /\ link'[j].sent[Len(link'[j].sent)] = Current'
    BY DEF LastIsCurrent
  <2>1. Awaited(j) /\ j \in Conns
    <3>1. Awaited(j)
      BY <1>3
    <3>2. j \in Conns
      BY <3>1, SMTT(30) DEF Awaited, OrderInv, MasterInPlace, Sending, Looping, TypeOK
    <3> QED
      BY <3>1, <3>2
  <2> QED
    BY <1>1, <1>3, <2>1 DEF AckInv, LastIsCurrent
<1> QED
  BY <1>7, <1>8, <1>9 DEF AckInv

(* The ACK of a message is awaited when it is sent.                          *)
LEMMA ReadDataAcknowledges ==
  ASSUME OrderInv, AckInv, NEW c \in Clients, ReadData(c), NEW i, NEW n, ReadsData(c, i, n)
  PROVE  Awaited(i) /\ n = Len(link[i].sent) /\ AllReceived(i)'
<1>1. /\ i = socket[c] /\ n = Len(link[i].got) + 1
      /\ i \in Conns /\ link[i].client = c /\ c \in up
      /\ reading[c].at = "data" /\ n \in 1..Len(link[i].sent) /\ IsSet(link[i].sent[n])
      /\ OnlyLink(i)
      /\ link'[i] = [link[i] EXCEPT !.stream = Tail(Tail(link[i].stream)), !.ack = TRUE]
      /\ reading' = [reading EXCEPT ![c] = [at |-> "deliver", msg |-> reading[c].msg]]
  BY DEF ReadsData
<1>2. /\ link[i] \in Link /\ link[i].sent \in Seq(Message) /\ Len(link[i].got) \in Nat
      /\ Len(link[i].sent) \in Nat
  BY <1>1, Types DEF OrderInv
<1>3. ~Reset(i) /\ Received(i) = Len(link[i].got)
  BY <1>1, <1>2 DEF Reset, Received
<1>4. n \in DOMAIN link[i].sent /\ ~(n <= Received(i))
  BY SMTT(30), <1>1, <1>2, <1>3
<1>5. Awaited(i) /\ n = Len(link[i].sent)
  BY <1>1, <1>3, <1>4 DEF AckInv, AckMeansReceived
<1>6. link'[i].sent = link[i].sent /\ link'[i].got = link[i].got /\ link'[i].client = c
  BY <1>1, <1>2 DEF Link
<1>7. Received(i)' = n
  <2>1. socket' = socket /\ reading'[c].at = "deliver"
    BY <1>1, SlaveTypes DEF ReadData
  <2> QED
    BY <1>1, <1>2, <1>6, <2>1 DEF Received
<1>8. AllReceived(i)'
  <2>1. \A m \in DOMAIN link'[i].sent : m <= n
    BY <1>2, <1>5, <1>6
  <2> QED
    BY <1>7, <2>1 DEF AllReceived
<1> QED
  BY <1>5, <1>8


(* Every step of a slave preserves the meaning of ACKs. *)
LEMMA SlaveKeepsAcks ==
  ASSUME OrderInv, AckInv, NEW c \in Clients, Slave(c)
  PROVE  AckInv'
<1>1. OrderInv' /\ OfOneSlave(c)
  BY SlaveStep
<1>2. ASSUME SlaveProgress(c), Conns' = Conns, \A j \in Conns : link'[j].ack => link[j].ack
      PROVE  AckInv'
  BY <1>1, <1>2, ProgressKeepsAcks
<1>3. CASE PollHeader(c)
  <2> DEFINE i == socket[c]
             n == Len(link[i].got) + 1
             m == link[i].sent[n]
  <2>1. PollsHeader(c, i, n, m)
    BY <1>3, PollHeaderDoes
  <2> HIDE DEF i, n, m
  <2> QED
    BY <1>2, <1>3, <2>1, PollHeaderProgress
<1>4. CASE ReadPart(c)
  <2> DEFINE i == socket[c]
  <2>1. ReadsPart(c, i)
    BY <1>4, ReadPartDoes
  <2> HIDE DEF i
  <2> QED
    BY <1>2, <1>4, <2>1, ReadPartProgress
<1>5. CASE ReadData(c)
  <2> DEFINE k == socket[c]
             n == Len(link[k].got) + 1
  <2>1. ReadsData(c, k, n)
    BY <1>5, ReadDataDoes
  <2> HIDE DEF k, n
  <2>2. PICK i : ReadsData(c, i, n) /\ i = k
    BY <2>1
  <2>3. /\ SlaveProgress(c) /\ Conns' = Conns
        /\ \A j \in Conns : j # i => (link'[j].ack => link[j].ack)
    BY <1>5, <2>2, ReadDataProgress
  <2>4. Awaited(i) /\ AllReceived(i)'
    BY <1>5, <2>2, ReadDataAcknowledges
  <2>5. \A j \in Conns : link'[j].ack => link[j].ack \/ (Awaited(j) /\ AllReceived(j)')
    <3> SUFFICES ASSUME NEW j \in Conns, link'[j].ack, ~link[j].ack
                 PROVE  Awaited(j) /\ AllReceived(j)'
      OBVIOUS
    <3>1. j = i
      BY <2>3
    <3> QED
      BY <2>4, <3>1 DEF AllReceived, Received
  <2> QED
    BY <1>1, <2>3, <2>5, ProgressKeepsAcks
<1>6. CASE OnReceive(c)
  <2> DEFINE i == socket[c]
             n == Len(link[i].got) + 1
  <2>1. Receives(c, i, n)
    BY <1>6, OnReceiveDoes
  <2> HIDE DEF i, n
  <2> QED
    BY <1>2, <1>6, <2>1, OnReceiveProgress
<1>7. CASE PollNothing(c)
  BY <1>2, <1>7, PollNothingProgress
<1>8. CASE Tick(c)
  BY <1>1, <1>8, TickProgress, ProgressKeepsAcks
<1>9. CASE Quit(c)
  BY <1>2, <1>9, QuitProgress
<1> QED
  BY <1>3, <1>4, <1>5, <1>6, <1>7, <1>8, <1>9 DEF Slave

(* The meaning of ACKs is inductive, given the order. *)
LEMMA AckNext == OrderInv /\ AckInv /\ [Next]_vars => AckInv'
<1> SUFFICES ASSUME OrderInv, AckInv, [Next]_vars
             PROVE  AckInv'
  OBVIOUS
<1>1. CASE Master
  BY <1>1, BookkeepingKeepsAcks, SendKeepsAcks, ReceiveAckKeepsAcks DEF Master, Bookkeeping
<1>2. ASSUME NEW c \in Clients, Slave(c)
      PROVE  AckInv'
  BY <1>2, SlaveKeepsAcks
<1>3. CASE UNCHANGED vars
  <2>1. /\ UNCHANGED <<up, link, backlog, channel, lost, version, steps, master, socket,
                       connected, reading, tile>>
        /\ Conns' = Conns
    BY <1>3 DEF vars, masterVars, slaveVars, Conns
  <2>2. /\ Current' = Current
        /\ \A i : /\ Awaited(i)' <=> Awaited(i)
                  /\ Reset(i)' <=> Reset(i)
                  /\ Received(i)' = Received(i)
                  /\ AllReceived(i)' <=> AllReceived(i)
    BY <2>1 DEF Current, Awaited, Reset, Received, AllReceived
  <2> QED
    BY <2>1, <2>2 DEF AckInv, AckMeansReceived, AcksInOrder, LastIsCurrent
<1> QED
  BY <1>1, <1>2, <1>3 DEF Next

(* The order of ACKs: the one on the way is that of the last message sent on *)
(* the channel for which the master waits.                                   *)
THEOREM AcksHold == Spec => []AckInv
<1>1. Init => AckInv
  BY AckInit
<1>2. OrderInv /\ AckInv /\ [Next]_vars => AckInv'
  BY AckNext
<1> QED
  BY <1>1, <1>2, OrderHolds, PTL DEF Spec

(* When send() with ACK returns, the slave has received the message, unless  *)
(* its program has ended, whatever polls, reconnects and short reads come    *)
(* between: no ACK of an earlier message or of another connection is ever    *)
(* taken for it.                                                             *)
THEOREM AcksMeanReceived == Spec => []AckMeansReceived
<1>1. AckInv => AckMeansReceived
  BY DEF AckInv
<1> QED
  BY <1>1, AcksHold, PTL


-----------------------------------------------------------------------------
(* No two slaves have the same tile. *)

(* The slave that has acknowledged its tile has it, or is about to.          *)
Takes(c) ==
  \/ reading[c].at = "deliver" /\ reading[c].msg = Current
  \/ /\ tile[c] = master.tile
     /\ reading[c].at = "deliver" => ~IsSet(reading[c].msg)

TileTaken ==
  \A i \in Conns :
    (link[i].ack /\ master.phase = "tile" /\ ~Reset(i)) => Takes(link[i].client)

Places == Nat \ {0}

Gone(q) == q \in 1..Len(channel) /\ channel[q] \in lost

Holds(c) == c \in up /\ Kept(c) /\ Given(c) # 0

(* A lower bound for the tile of each place of _channel, now and in all the  *)
(* rounds to come: as channels are only given up, the number a place gets in *)
(* a round is at most the one it got before.                                 *)
Bounds(w) ==
  /\ w \in [Places -> Places]
  /\ \A p, q \in Places : (p < q /\ ~Gone(p) /\ ~Gone(q)) => w[p] < w[q]
  /\ master.phase = "tile" =>
       /\ master.tile >= 1
       /\ \A q \in Places : ~Gone(q) => IF q < master.at THEN w[q] < master.tile
                                        ELSE master.tile <= w[q]

(* The slave c has its tile through the place q.                             *)
HasPlace(c, q) ==
  q \in 1..Len(channel) /\ channel[q] \in Conns /\ link[channel[q]].client = c

Bounded(c, q, w) ==
  /\ w[q] <= Given(c)
  /\ (master.phase = "tile" /\ q < master.at) => Given(c) < master.tile

Ascending(via) ==
  \A c, d \in Clients : (Holds(c) /\ Holds(d) /\ via[c] < via[d]) => Given(c) < Given(d)

Numbered(via, w) ==
  /\ Bounds(w)
  /\ via \in [Clients -> Nat]
  /\ \A c \in Clients : Holds(c) => HasPlace(c, via[c]) /\ Bounded(c, via[c], w)
  /\ Ascending(via)

TileInv == TileTaken /\ (\E via, w : Numbered(via, w))

(* Nobody has a tile at first. *)
LEMMA TileInit == Init => TileInv
<1> SUFFICES ASSUME Init
             PROVE  TileInv
  OBVIOUS
<1> DEFINE via == [c \in Clients |-> 0]
           w == [q \in Places |-> q]
<1>1. /\ Conns = {} /\ \A q : ~Gone(q)
      /\ \A c \in Clients : Given(c) = 0
      /\ master.phase # "tile"
  BY DEF Init, Conns, Gone, Given, NotReading, Rest
<1>2. TileTaken
  BY <1>1 DEF TileTaken
<1>3. w \in [Places -> Places] /\ \A q \in Places : w[q] = q
  OBVIOUS
<1>4. via \in [Clients -> Nat]
  OBVIOUS
<1> HIDE DEF via, w
<1>5. Bounds(w)
  BY <1>1, <1>3 DEF Bounds
<1>6. Numbered(via, w)
  BY <1>1, <1>4, <1>5 DEF Numbered, Holds, Ascending
<1> QED
  BY <1>2, <1>6 DEF TileInv

(* The tile last given to a slave is a number. *)
LEMMA GivenIsNumber ==
  ASSUME TypeOK, NEW c \in Clients
  PROVE  Given(c) \in Nat
<1>1. tile[c] \in Nat /\ reading[c].msg \in Message \cup {Garbage}
  BY DEF TypeOK
<1>2. reading[c].msg.kind = "tile" => reading[c].msg.val \in Nat
  BY <1>1 DEF Message, Garbage
<1> QED
  BY <1>1, <1>2 DEF Given

(* What the master does leaves the slaves and the places of its channels     *)
(* alone.                                                                    *)
PlacesStay ==
  /\ UNCHANGED <<up, reading, tile>>
  /\ Len(channel) \in Nat /\ Len(channel') \in Nat /\ Len(channel') >= Len(channel)
  /\ \A q \in 1..Len(channel) : channel'[q] = channel[q]
  /\ Conns \subseteq Conns' /\ \A i \in Conns : link'[i].client = link[i].client
  /\ lost \subseteq Conns /\ lost \subseteq lost'

(* ... so that the new bounds are all there is to prove.                     *)
LEMMA NewBounds ==
  ASSUME PlacesStay, NEW via, NEW w, Numbered(via, w), NEW v, Bounds(v)',
         \A c \in Clients : Holds(c) =>
           /\ v[via[c]] <= Given(c)
           /\ (master'.phase = "tile" /\ via[c] < master'.at) => Given(c) < master'.tile
  PROVE  \E x, y : Numbered(x, y)'
<1>1. \A c : Given(c)' = Given(c) /\ (Holds(c)' => Holds(c))
  <2>1. \A c : Kept(c)' => Kept(c)
    BY DEF PlacesStay, Kept
  <2> QED
    BY <2>1 DEF PlacesStay, Given, Holds
<1>2. \A c, q : HasPlace(c, q) => HasPlace(c, q)'
  BY DEF PlacesStay, HasPlace
<1>3. \A c \in Clients : Holds(c)' => HasPlace(c, via[c])' /\ Bounded(c, via[c], v)'
  BY <1>1, <1>2 DEF Numbered, Bounded
<1>4. Ascending(via)'
  BY <1>1 DEF Numbered, Ascending
<1>5. Numbered(via, v)'
  BY <1>3, <1>4 DEF Numbered
<1> QED
  BY <1>5

(* Outside of the numbering, and when it starts, the bounds stay.            *)
LEMMA SameBounds ==
  ASSUME PlacesStay, NEW via, NEW w, Numbered(via, w),
         \/ master'.phase # "tile"
         \/ master'.at = 1 /\ master'.tile = 1
         \/ UNCHANGED <<master.phase, master.at, master.tile>>
  PROVE  \E x, y : Numbered(x, y)'
<1>1. \A q : Gone(q) => Gone(q)'
  BY DEF PlacesStay, Gone
<1>2. \A q \in Places : w[q] \in Places
  BY DEF Numbered, Bounds
<1>3. Bounds(w)'
  <2>1. /\ w \in [Places -> Places]
        /\ \A p, q \in Places : (p < q /\ ~Gone(p)' /\ ~Gone(q)') => w[p] < w[q]
    BY <1>1 DEF Numbered, Bounds
  <2>2. ASSUME master'.phase = "tile"
        PROVE  /\ master'.tile >= 1
               /\ \A q \in Places : ~Gone(q)' => IF q < master'.at THEN w[q] < master'.tile
                                                 ELSE master'.tile <= w[q]
    <3>1. CASE master'.at = 1 /\ master'.tile = 1
      BY <1>2, <3>1 DEF Places
    <3>2. CASE UNCHANGED <<master.phase, master.at, master.tile>>
      BY <1>1, <2>2, <3>2 DEF Numbered, Bounds
    <3> QED
      BY <2>2, <3>1, <3>2
  <2> QED
    BY <2>1, <2>2 DEF Bounds
<1>4. ASSUME NEW c \in Clients, Holds(c)
      PROVE  /\ w[via[c]] <= Given(c)
             /\ (master'.phase = "tile" /\ via[c] < master'.at) => Given(c) < master'.tile
  <2>1. via[c] \in Places /\ Bounded(c, via[c], w)
    BY <1>4 DEF Numbered, HasPlace, Places
  <2> QED
    BY <2>1 DEF Bounded, Places
<1> QED
  BY <1>3, <1>4, NewBounds


(* A channel that is given up is passed over.                                *)
LEMMA SkippedBounds ==
  ASSUME TypeOK, PlacesStay, NEW via, NEW w, Numbered(via, w),
         master.phase = "tile", Gone(master.at), master.at \in Places,
         UNCHANGED <<master.phase, master.tile>>, master'.at = master.at + 1
  PROVE  \E x, y : Numbered(x, y)'
<1> DEFINE a == master.at
           t == master.tile
<1>1. a \in Places /\ t \in Nat /\ Gone(a)
  BY DEF TypeOK
<1>2. \A q : Gone(q) => Gone(q)'
  BY DEF PlacesStay, Gone
<1>3. /\ w \in [Places -> Places] /\ t >= 1
      /\ \A q \in Places : ~Gone(q) => IF q < a THEN w[q] < t ELSE t <= w[q]
      /\ \A p, q \in Places : (p < q /\ ~Gone(p) /\ ~Gone(q)) => w[p] < w[q]
  BY DEF Numbered, Bounds
<1>4. master'.at = a + 1 /\ master'.tile = t /\ master'.phase = "tile"
  OBVIOUS
<1>5. \A c \in Clients : Holds(c) => HasPlace(c, via[c]) /\ Bounded(c, via[c], w)
  BY DEF Numbered
<1>6. \A c \in Clients : Bounded(c, via[c], w) <=>
        /\ w[via[c]] <= Given(c)
        /\ via[c] < a => Given(c) < t
  BY DEF Bounded
<1> HIDE DEF a, t
<1>7. Bounds(w)'
  <2>1. \A p, q \in Places : (p < q /\ ~Gone(p)' /\ ~Gone(q)') => w[p] < w[q]
    BY <1>2, <1>3
  <2>2. ASSUME NEW q \in Places, ~Gone(q)'
        PROVE  IF q < a + 1 THEN w[q] < t ELSE t <= w[q]
    <3>1. ~Gone(q) /\ q # a
      BY <1>1, <1>2, <2>2
    <3>2. (q < a + 1) <=> (q < a)
      BY <1>1, <3>1 DEF Places
    <3> QED
      BY <1>3, <3>1, <3>2
  <2> QED
    BY <1>3, <1>4, <2>1, <2>2 DEF Bounds
<1>8. ASSUME NEW c \in Clients, Holds(c)
      PROVE  /\ w[via[c]] <= Given(c)
             /\ (master'.phase = "tile" /\ via[c] < master'.at) => Given(c) < master'.tile
  <2>1. via[c] # a
    BY <1>1, <1>5, <1>8 DEF HasPlace, Gone, Kept, Holds
  <2>2. via[c] \in Nat
    BY <1>5, <1>8 DEF HasPlace
  <2>3. via[c] < a + 1 => via[c] < a
    BY <1>1, <2>1, <2>2 DEF Places
  <2> QED
    BY <1>4, <1>5, <1>6, <1>8, <2>3
<1> QED
  BY <1>7, <1>8, NewBounds

(* A number is counted: the place at which the master is has got it.         *)
LEMMA CountedBounds ==
  ASSUME TypeOK, PlacesStay, NEW via, NEW w, Numbered(via, w),
         master.phase = "tile", ~Gone(master.at), master.at \in Places,
         \A c \in Clients : Holds(c) /\ via[c] = master.at => Given(c) = master.tile,
         master'.phase = "tile", master'.tile = master.tile + 1,
         master'.at = master.at + 1
  PROVE  \E x, y : Numbered(x, y)'
<1> DEFINE a == master.at
           t == master.tile
<1>1. a \in Places /\ t \in Nat /\ ~Gone(a)
  BY DEF TypeOK
<1>2. \A q : Gone(q) => Gone(q)'
  BY DEF PlacesStay, Gone
<1>3. /\ w \in [Places -> Places] /\ t >= 1
      /\ \A q \in Places : ~Gone(q) => IF q < a THEN w[q] < t ELSE t <= w[q]
      /\ \A p, q \in Places : (p < q /\ ~Gone(p) /\ ~Gone(q)) => w[p] < w[q]
  BY DEF Numbered, Bounds
<1>4. master'.at = a + 1 /\ master'.tile = t + 1 /\ master'.phase = "tile"
  OBVIOUS
<1>5. \A c \in Clients : Holds(c) => HasPlace(c, via[c]) /\ Bounded(c, via[c], w)
  BY DEF Numbered
<1>6. \A c \in Clients : Bounded(c, via[c], w) <=>
        /\ w[via[c]] <= Given(c)
        /\ via[c] < a => Given(c) < t
  BY DEF Bounded
<1>7. \A c \in Clients : Holds(c) /\ via[c] = a => Given(c) = t
  OBVIOUS
<1> PICK v : v = [w EXCEPT ![a] = t]
  OBVIOUS
<1>8. /\ v \in [Places -> Places] /\ v[a] = t
      /\ \A q \in Places : q # a => v[q] = w[q]
  BY <1>1, <1>3 DEF Places
<1> HIDE DEF a, t
<1>9. Bounds(v)'
  <2>1. ASSUME NEW p \in Places, NEW q \in Places, p < q, ~Gone(p)', ~Gone(q)'
        PROVE  v[p] < v[q]
    <3>1. ~Gone(p) /\ ~Gone(q) /\ w[p] \in Nat /\ w[q] \in Nat
      BY <1>2, <1>3, <2>1 DEF Places
    <3>2. w[p] < w[q]
      BY <1>3, <2>1, <3>1
    <3>3. CASE p = a
      <4>1. q # a /\ t <= w[a] /\ v[p] = t /\ v[q] = w[q]
        BY <1>1, <1>3, <1>8, <2>1, <3>1, <3>3 DEF Places
      <4> QED
        BY <1>1, <3>1, <3>2, <3>3, <4>1
    <3>4. CASE q = a
      <4>1. p < a /\ v[q] = t /\ v[p] = w[p]
        BY <1>1, <1>8, <2>1, <3>4 DEF Places
      <4> QED
        BY <1>3, <3>1, <4>1
    <3>5. CASE p # a /\ q # a
      BY <1>8, <3>2, <3>5
    <3> QED
      BY <3>3, <3>4, <3>5
  <2>2. ASSUME NEW q \in Places, ~Gone(q)'
        PROVE  IF q < a + 1 THEN v[q] < t + 1 ELSE t + 1 <= v[q]
    <3>1. ~Gone(q) /\ w[q] \in Nat /\ w[a] \in Nat /\ t \in Nat /\ q \in Nat /\ a \in Nat
      BY <1>1, <1>2, <1>3, <2>2 DEF Places
    <3>2. CASE q < a
      <4>1. v[q] = w[q] /\ w[q] < t
        BY <1>3, <1>8, <3>1, <3>2
      <4> QED
        BY <3>1, <3>2, <4>1
    <3>3. CASE q = a
      BY <1>8, <3>1, <3>3
    <3>4. CASE a < q
      <4>1. v[q] = w[q] /\ w[a] < w[q] /\ t <= w[a]
        BY <1>1, <1>3, <1>8, <3>1, <3>4
      <4> QED
        BY <3>1, <3>4, <4>1
    <3> QED
      BY <3>1, <3>2, <3>3, <3>4
  <2>3. t + 1 >= 1
    BY <1>1
  <2> QED
    BY <1>4, <1>8, <2>1, <2>2, <2>3 DEF Bounds
<1>10. ASSUME NEW c \in Clients, Holds(c)
       PROVE  /\ v[via[c]] <= Given(c)
              /\ (master'.phase = "tile" /\ via[c] < master'.at) => Given(c) < master'.tile
  <2>1. via[c] \in Places /\ Given(c) \in Nat /\ via[c] \in Nat
    BY <1>5, <1>10, GivenIsNumber DEF HasPlace, Places
  <2>2. CASE via[c] = a
    <3>1. Given(c) = t /\ v[via[c]] = t
      BY <1>7, <1>8, <1>10, <2>2
    <3> QED
      BY <1>1, <1>4, <3>1
  <2>3. CASE via[c] # a
    <3>1. v[via[c]] = w[via[c]] /\ w[via[c]] <= Given(c) /\ (via[c] < a => Given(c) < t)
      BY <1>5, <1>6, <1>8, <1>10, <2>1, <2>3
    <3>2. via[c] < a + 1 => Given(c) < t + 1
      BY <1>1, <2>1, <2>3, <3>1 DEF Places
    <3> QED
      BY <1>4, <3>1, <3>2
  <2> QED
    BY <2>2, <2>3
<1> QED
  BY <1>9, <1>10, NewBounds


(* The master's steps leave each slave's place among the tiles of a version. *)
LEMMA MasterLeavesPlaces ==
  ASSUME OrderInv, OrderInv', Master
  PROVE  PlacesStay
<1>1. /\ Conns = 1..Len(link) /\ Len(link) \in Nat
      /\ channel \in Seq(Conns) /\ backlog \in Seq(Conns)
  BY Types DEF OrderInv, TypeOK
<1>2. UNCHANGED <<up, reading, tile>>
  <2>1. CASE Bookkeeping
    BY <2>1, BookkeepingFrame
  <2>2. CASE Send
    BY <2>2 DEF Send, slaveVars
  <2>3. CASE ReceiveAck
    BY <2>3 DEF ReceiveAck, slaveVars
  <2> QED
    BY <2>1, <2>2, <2>3 DEF Master, Bookkeeping
<1>3. Conns \subseteq Conns' /\ \A i \in Conns : link'[i].client = link[i].client
  <2>1. CASE Bookkeeping
    BY <2>1, BookkeepingFrame DEF Conns
  <2>2. CASE Send
    <3> DEFINE i == channel[master.at]
    <3>1. OnlyLink(i)
      BY <2>2, SendDoes DEF OrderInv, MasterInPlace
    <3> HIDE DEF i
    <3> QED
      BY <1>1, <3>1, ConnsKept DEF OrderInv, OnlyLink
  <2>3. CASE ReceiveAck
    <3> DEFINE i == channel[master.at]
    <3>1. OnlyLink(i)
      BY <2>3, ReceiveAckDoes DEF OrderInv
    <3> HIDE DEF i
    <3> QED
      BY <1>1, <3>1, ConnsKept DEF OrderInv, OnlyLink
  <2> QED
    BY <2>1, <2>2, <2>3 DEF Master, Bookkeeping
<1>4. lost \subseteq Conns /\ lost \subseteq lost'
  BY DEF OrderInv, TypeOK, Master, Accept, Read, Step, SkipLost, Send, SendFails, ReceiveAck, AckFails, EndOfLoop
<1>5. /\ Len(channel) \in Nat /\ Len(channel') \in Nat /\ Len(channel') >= Len(channel)
      /\ \A q \in 1..Len(channel) : channel'[q] = channel[q]
  <2>1. CASE Accept
    <3>1. channel' = Append(channel, Head(backlog)) /\ Head(backlog) \in Conns
      BY <1>1, <2>1 DEF Accept
    <3> QED
      BY <1>1, <3>1, AppendProperties
  <2>2. CASE ~Accept
    <3>1. channel' = channel
      BY <2>2 DEF Master, Read, Step, SkipLost, Send, SendFails, ReceiveAck, AckFails, EndOfLoop
    <3> QED
      BY <1>1, <3>1
  <2> QED
    BY <2>1, <2>2
<1> QED
  BY <1>2, <1>3, <1>4, <1>5 DEF PlacesStay

(* Going on to the next channel counts a tile exactly if this one took it. *)
LEMMA OnwardsIs ==
  ASSUME OrderInv, NEW b \in BOOLEAN, master' = Onwards(b)
  PROVE  /\ master'.at = master.at + 1 /\ master'.phase = master.phase
         /\ master.phase = "tile" =>
              master'.tile = IF b THEN master.tile + 1 ELSE master.tile
BY LoopStates DEF OrderInv

(* If the slave at this place has the tile, or has ended, it is counted.     *)
LEMMA OnwardsCounts ==
  ASSUME OrderInv, OrderInv', Master, NEW via, NEW w, Numbered(via, w),
         master' = Onwards(TRUE), master.at \in 1..Len(channel),
         channel[master.at] \notin lost,
         \/ Reset(channel[master.at])
         \/ master.phase = "tile" => Takes(link[channel[master.at]].client)
  PROVE  \E x, y : Numbered(x, y)'
<1>1. /\ PlacesStay /\ TypeOK
      /\ master'.at = master.at + 1 /\ master'.phase = master.phase
      /\ master.phase = "tile" => master'.tile = master.tile + 1
  BY MasterLeavesPlaces, OnwardsIs, Zenon DEF OrderInv
<1>2. CASE master.phase # "tile"
  BY <1>1, <1>2, SameBounds
<1>3. CASE master.phase = "tile"
  <2>1. master.at \in Places /\ ~Gone(master.at)
    BY <1>1 DEF Places, Gone, TypeOK
  <2>2. ASSUME NEW c \in Clients, Holds(c), via[c] = master.at
        PROVE  Given(c) = master.tile
    <3>1. link[channel[master.at]].client = c /\ c \in up
      BY <2>2 DEF Numbered, HasPlace, Holds
    <3>2. Takes(c)
      BY <1>3, <3>1 DEF Reset
    <3>3. Current = [kind |-> "tile", val |-> master.tile]
      BY <1>3 DEF Current
    <3>4. CASE reading[c].at = "deliver" /\ reading[c].msg = Current
      BY <3>3, <3>4 DEF Given
    <3>5. CASE tile[c] = master.tile /\ (reading[c].at = "deliver" => ~IsSet(reading[c].msg))
      BY <3>5 DEF Given, IsSet
    <3> QED
      BY <3>2, <3>4, <3>5 DEF Takes
  <2> QED
    BY <1>1, <1>3, <2>1, <2>2, CountedBounds
<1> QED
  BY <1>2, <1>3

(* The master's steps keep the tiles numbered in the order of the channels. *)
LEMMA MasterKeepsNumbers ==
  ASSUME OrderInv, OrderInv', AckInv, TileInv, Master
  PROVE  \E x, y : Numbered(x, y)'
<1>1. PICK via, w : Numbered(via, w)
  BY DEF TileInv
<1>2. PlacesStay /\ TypeOK
  BY MasterLeavesPlaces DEF OrderInv
<1>3. master.at \in Nat /\ master.at >= 1 /\ Len(channel) \in Nat
  BY <1>2 DEF OrderInv, MasterInPlace, TypeOK, PlacesStay
<1>4. CASE Accept \/ Read \/ Step \/ EndOfLoop
  <2>1. master'.phase # "tile" \/ (master'.at = 1 /\ master'.tile = 1)
    BY <1>4, LoopStates DEF OrderInv, Accept, Read, Step, EndOfLoop, Rest
  <2> QED
    BY <1>1, <1>2, <2>1, SameBounds
<1>5. CASE SkipLost
  <2>1. /\ master'.at = master.at + 1 /\ master'.phase = master.phase
        /\ master.phase = "tile" => master'.tile = master.tile
    BY <1>5, OnwardsIs DEF SkipLost
  <2>2. Gone(master.at) /\ master.at \in Places
    BY <1>3, <1>5 DEF SkipLost, Sending, Gone, Places
  <2>3. CASE master.phase = "tile"
    BY <1>1, <1>2, <2>1, <2>2, <2>3, SkippedBounds
  <2>4. CASE master.phase # "tile"
    BY <1>1, <1>2, <2>1, <2>4, SameBounds
  <2> QED
    BY <2>3, <2>4
<1>6. CASE Send
  <2>1. CASE IsSet(Current)
    <3>1. master' = [master EXCEPT !.waits = TRUE]
      BY <1>6, <2>1 DEF Send, AfterSend
    <3>2. UNCHANGED <<master.phase, master.at, master.tile>>
      BY <1>2, <3>1 DEF TypeOK
    <3> QED
      BY <1>1, <1>2, <3>2, SameBounds
  <2>2. CASE ~IsSet(Current)
    <3>1. master.phase # "tile"
      BY <2>2 DEF IsSet, Current
    <3>2. master'.phase = master.phase
      BY <1>6, <2>2, OnwardsIs DEF Send, AfterSend
    <3> QED
      BY <1>1, <1>2, <3>1, <3>2, SameBounds
  <2> QED
    BY <2>1, <2>2
<1>7. CASE SendFails
  <2>1. CASE master' = Onwards(TRUE)
    <3>1. /\ master.at \in 1..Len(channel) /\ channel[master.at] \notin lost
          /\ Reset(channel[master.at])
      BY <1>3, <1>7 DEF SendFails, Sending
    <3> QED
      BY <1>1, <2>1, <3>1, OnwardsCounts
  <2>2. CASE master' = [master EXCEPT !.phase = "aborted"]
    <3>1. master'.phase # "tile"
      BY <1>2, <2>2 DEF TypeOK
    <3> QED
      BY <1>1, <1>2, <3>1, SameBounds
  <2> QED
    BY <1>7, <2>1, <2>2 DEF SendFails
<1>8. master.waits => master.at \in 1..Len(channel) /\ channel[master.at] \notin lost
  BY DEF OrderInv, MasterInPlace
<1>9. CASE ReceiveAck
  <2>1. /\ master.waits /\ link[channel[master.at]].ack /\ master' = Onwards(TRUE)
        /\ channel[master.at] \in Conns
    BY <1>2, <1>8, <1>9 DEF ReceiveAck, TypeOK
  <2>2. ~Reset(channel[master.at]) =>
          (master.phase = "tile" => Takes(link[channel[master.at]].client))
    BY <2>1 DEF TileInv, TileTaken
  <2> QED
    BY <1>1, <1>8, <2>1, <2>2, OnwardsCounts
<1>10. CASE AckFails
  <2>1. CASE master' = Onwards(TRUE)
    <3>1. master.waits /\ Reset(channel[master.at])
      BY <1>10 DEF AckFails
    <3> QED
      BY <1>1, <1>8, <2>1, <3>1, OnwardsCounts
  <2>2. CASE master' = [master EXCEPT !.phase = "aborted", !.waits = FALSE]
    <3>1. master'.phase # "tile"
      BY <1>2, <2>2 DEF TypeOK
    <3> QED
      BY <1>1, <1>2, <3>1, SameBounds
  <2> QED
    BY <1>10, <2>1, <2>2 DEF AckFails
<1> QED
  BY <1>4, <1>5, <1>6, <1>7, <1>9, <1>10 DEF Master

(* No ACK is on the way after a step of the master.                          *)
LEMMA MasterKeepsTaken ==
  ASSUME OrderInv, AckInv, AckInv', Master
  PROVE  TileTaken'
<1>1. CASE ~master'.waits
  BY <1>1 DEF AckInv, AcksInOrder, Awaited, TileTaken
<1>2. CASE Send
  <2> DEFINE i == channel[master.at]
  <2>1. i \in Conns /\ OnlyLink(i) /\ link'[i].ack = link[i].ack /\ ~master.waits
    BY <1>2, SendDoes DEF OrderInv, MasterInPlace, Send, Sending, Looping
  <2> HIDE DEF i
  <2>2. Conns' = Conns /\ Conns = 1..Len(link)
    BY <2>1, ConnsKept, Types DEF OrderInv
  <2>3. \A j \in Conns : ~link[j].ack
    BY <2>1, NothingAwaited DEF Awaited
  <2>4. \A j \in Conns' : ~link'[j].ack
    BY <2>1, <2>2, <2>3 DEF OnlyLink
  <2> QED
    BY <2>4 DEF TileTaken
<1>3. CASE Bookkeeping
  BY <1>1, <1>3, BookkeepingIsQuiet
<1>4. CASE ReceiveAck
  <2>1. \A b \in BOOLEAN : ~Onwards(b).waits
    BY LoopStates DEF OrderInv
  <2>2. ~Onwards(TRUE).waits
    BY <2>1, Zenon
  <2> QED
    BY <1>1, <1>4, <2>2 DEF ReceiveAck
<1> QED
  BY <1>2, <1>3, <1>4 DEF Master, Bookkeeping


(* Apart from reading a payload, a slave keeps its tile, or takes that of    *)
(* the master for the state.                                                 *)
TileProgress(c) ==
  c \in up' =>
    /\ Given(c)' \in {Given(c), 0}
    /\ (master.phase = "tile" /\ Takes(c)) => Takes(c)'

(* A read that is not yet a message gives no tile. *)
LEMMA ReadingProgress ==
  ASSUME NEW c \in Clients, UNCHANGED <<master, version, steps>>, tile'[c] = tile[c],
         reading[c].at # "deliver",
         reading'[c].at = "deliver" => ~IsSet(reading'[c].msg)
  PROVE  TileProgress(c)
<1>1. Given(c)' = Given(c)
  BY DEF Given, IsSet
<1>2. Takes(c) => Takes(c)'
  BY DEF Takes
<1> QED
  BY <1>1, <1>2 DEF TileProgress

(* A message handed over gives the tile it names, or none. *)
LEMMA ReceiveProgress ==
  ASSUME OrderInv, NEW c \in Clients, OnReceive(c)
  PROVE  TileProgress(c)
<1> DEFINE m == reading[c].msg
           t == IF m.kind = "tile" THEN m.val ELSE 0
<1>1. /\ reading' = [reading EXCEPT ![c] = [at |-> IF connected[c] THEN "header" ELSE "idle",
                                            msg |-> Garbage]]
      /\ UNCHANGED <<master, version, steps>> /\ reading[c].at = "deliver"
  BY DEF OnReceive, Goes, At, masterVars
<1>2. reading'[c].at # "deliver"
  BY <1>1, SlaveTypes
<1>3. tile'[c] = IF IsSet(m) THEN t ELSE tile[c]
  BY SlaveTypes DEF OnReceive
<1>4. Given(c) = (IF m.kind = "tile" THEN m.val ELSE tile[c]) /\ Given(c)' = tile'[c]
  BY <1>1, <1>2 DEF Given
<1>5. Given(c)' \in {Given(c), 0}
  BY <1>3, <1>4 DEF IsSet
<1>6. ASSUME master.phase = "tile", Takes(c)
      PROVE  tile'[c] = master.tile
  <2>1. CASE m = Current
    <3>1. m.kind = "tile" /\ m.val = master.tile
      BY <1>6, <2>1 DEF Current
    <3> QED
      BY <1>3, <3>1 DEF IsSet
  <2>2. CASE tile[c] = master.tile /\ ~IsSet(m)
    BY <1>3, <2>2
  <2> QED
    BY <1>1, <1>6, <2>1, <2>2 DEF Takes
<1>7. (master.phase = "tile" /\ Takes(c)) => Takes(c)'
  BY <1>1, <1>2, <1>6 DEF Takes
<1> QED
  BY <1>5, <1>7 DEF TileProgress

(* What every step of a slave but ReadData does.                             *)
LEMMA OtherProgress ==
  ASSUME OrderInv, NEW c \in Clients, Slave(c), ~ReadData(c)
  PROVE  TileProgress(c) /\ \A j \in Conns : link'[j].ack => link[j].ack
<1>1. CASE PollHeader(c)
  <2> DEFINE i == socket[c]
             n == Len(link[i].got) + 1
             m == link[i].sent[n]
  <2>1. PollsHeader(c, i, n, m)
    BY <1>1, PollHeaderDoes
  <2> HIDE DEF i, n, m
  <2>2. \A j \in Conns : link'[j].ack => link[j].ack
    BY <1>1, <2>1, PollHeaderProgress
  <2>3. /\ UNCHANGED <<master, version, steps, tile>> /\ reading[c].at = "header"
        /\ reading'[c] = [at |-> IF IsSet(m) THEN "data" ELSE "deliver", msg |-> m]
    BY <1>1, <2>1, SlaveTypes DEF PollHeader, masterVars, At, PollsHeader
  <2>4. reading'[c].at = "deliver" => ~IsSet(reading'[c].msg)
    BY <2>3
  <2> QED
    BY <2>2, <2>3, <2>4, ReadingProgress
<1>2. CASE ReadPart(c)
  <2> DEFINE i == socket[c]
  <2>1. ReadsPart(c, i)
    BY <1>2, ReadPartDoes
  <2> HIDE DEF i
  <2>2. \A j \in Conns : link'[j].ack => link[j].ack
    BY <1>2, <2>1, ReadPartProgress
  <2>3. /\ UNCHANGED <<master, version, steps, tile>> /\ reading[c].at = "data"
        /\ reading'[c].at = "idle"
    BY <1>2, <2>1, SlaveTypes DEF ReadPart, masterVars, At, ReadsPart
  <2> QED
    BY <2>2, <2>3, ReadingProgress
<1>3. CASE OnReceive(c)
  <2> DEFINE i == socket[c]
             n == Len(link[i].got) + 1
  <2>1. Receives(c, i, n)
    BY <1>3, OnReceiveDoes
  <2> HIDE DEF i, n
  <2> QED
    BY <1>3, <2>1, OnReceiveProgress, ReceiveProgress
<1>4. CASE PollNothing(c)
  <2>1. /\ UNCHANGED <<master, version, steps, tile>> /\ reading[c].at = "header"
        /\ reading'[c].at = "idle"
    BY <1>4, SlaveTypes DEF PollNothing, Goes, masterVars, At
  <2> QED
    BY <1>4, <2>1, ReadingProgress, PollNothingProgress
<1>5. CASE Tick(c)
  <2>1. /\ UNCHANGED <<master, version, steps, tile>> /\ reading[c].at = "idle"
        /\ reading'[c].at = "header"
    BY <1>5, SlaveTypes DEF Tick, Goes, At
  <2> QED
    BY <1>5, <2>1, ReadingProgress, TickProgress
<1>6. CASE Quit(c)
  <2>1. c \notin up'
    BY <1>6 DEF Quit
  <2> QED
    BY <1>6, <2>1, QuitProgress DEF TileProgress
<1> QED
  BY <1>1, <1>2, <1>3, <1>4, <1>5, <1>6 DEF Slave

(* The payload that is read is that of the message for which the master      *)
(* waits.                                                                    *)
LEMMA ReadsCurrent ==
  ASSUME OrderInv, AckInv, NEW c \in Clients, ReadData(c)
  PROVE  /\ master.waits /\ channel[master.at] \in Conns
         /\ link[channel[master.at]].client = c
         /\ c \in up /\ UNCHANGED <<up, tile>>
         /\ reading[c].at = "data" /\ reading'[c].at = "deliver"
         /\ reading'[c].msg = Current
<1> DEFINE k == socket[c]
           l == Len(link[k].got) + 1
<1>1. ReadsData(c, k, l)
  BY ReadDataDoes
<1> HIDE DEF k, l
<1>2. PICK i, n : ReadsData(c, i, n)
  BY <1>1
<1>3. Awaited(i) /\ n = Len(link[i].sent)
  BY <1>2, ReadDataAcknowledges
<1>4. /\ i \in Conns /\ link[i].client = c /\ c \in up /\ reading[c].at = "data"
      /\ reading[c].msg = link[i].sent[n]
      /\ reading' = [reading EXCEPT ![c] = [at |-> "deliver", msg |-> reading[c].msg]]
  BY <1>2 DEF ReadsData
<1>5. link[i].sent[n] = Current
  BY <1>3, <1>4 DEF AckInv, LastIsCurrent
<1>6. reading'[c].at = "deliver" /\ reading'[c].msg = Current
  BY <1>4, <1>5, SlaveTypes
<1>7. UNCHANGED <<up, tile>>
  BY DEF ReadData
<1> QED
  BY <1>3, <1>4, <1>6, <1>7 DEF Awaited

(* Every slave's tile stays one that the master gave it. *)
LEMMA SlaveKeepsTaken ==
  ASSUME OrderInv, AckInv, AckInv', TileInv, NEW c \in Clients, Slave(c)
  PROVE  TileTaken'
<1>1. OfOneSlave(c)
  BY SlaveStep
<1>2. /\ UNCHANGED <<channel, version, steps, master>> /\ Current' = Current
      /\ Conns = 1..Len(link)
      /\ \A d \in Clients \ {c} : reading'[d] = reading[d] /\ tile'[d] = tile[d]
      /\ up' \subseteq up
  BY <1>1, Types DEF OfOneSlave, Current, OrderInv
<1> SUFFICES ASSUME NEW i \in Conns', NEW d, d = link'[i].client,
                    link'[i].ack, master'.phase = "tile", ~Reset(i)'
             PROVE  Takes(d)'
  BY DEF TileTaken, Takes
<1>3. i = channel[master.at] /\ master.waits
  BY <1>2 DEF AckInv, AcksInOrder, Awaited
<1>4. i \in Conns
  BY <1>3 DEF OrderInv, MasterInPlace, TypeOK
<1>5. /\ link[i].client = d /\ d \in Clients
      /\ d # c => link'[i] = link[i]
  BY <1>1, <1>2, <1>4, Types DEF OfOneSlave, OrderInv
<1>6. d \in up /\ d \in up' /\ ~Reset(i)
  BY <1>2, <1>5 DEF Reset
<1>7. CASE d # c
  <2>1. Takes(d)
    BY <1>2, <1>4, <1>5, <1>6, <1>7 DEF TileInv, TileTaken
  <2> QED
    BY <1>2, <1>5, <1>7, <2>1 DEF Takes
<1>8. CASE d = c /\ ReadData(c)
  BY <1>2, <1>5, <1>8, ReadsCurrent DEF Takes
<1>9. CASE d = c /\ ~ReadData(c)
  <2>1. TileProgress(c) /\ link[i].ack
    BY <1>4, <1>9, OtherProgress
  <2>2. Takes(c)
    BY <1>2, <1>4, <1>5, <1>6, <1>9, <2>1 DEF TileInv, TileTaken
  <2> QED
    BY <1>2, <1>5, <1>6, <1>9, <2>1, <2>2 DEF TileProgress
<1> QED
  BY <1>7, <1>8, <1>9


(* A slave's step drops nobody.                                              *)
LEMMA KeptStays ==
  ASSUME OrderInv, NEW c \in Clients, OfOneSlave(c), NEW d
  PROVE  Kept(d)' <=> Kept(d)
<1>1. lost \subseteq Conns /\ Conns = 1..Len(link)
  BY Types DEF OrderInv, TypeOK
<1>2. lost' = lost /\ \A j \in Conns : link'[j].client = link[j].client
  BY <1>1 DEF OfOneSlave
<1> QED
  BY <1>1, <1>2 DEF Kept

(* A slave that keeps its tile, or has none any more, keeps its place.       *)
LEMMA SamePlaces ==
  ASSUME OrderInv, NEW c \in Clients, OfOneSlave(c), NEW via, NEW w, Numbered(via, w),
         c \in up' => Given(c)' \in {Given(c), 0}
  PROVE  \E x, y : Numbered(x, y)'
<1>1. /\ UNCHANGED <<channel, lost, master>> /\ Conns = 1..Len(link)
      /\ link' \in Seq(Link) /\ Len(link') >= Len(link) /\ Len(link) \in Nat
      /\ \A j \in Conns : link'[j].client = link[j].client
      /\ \A d \in Clients \ {c} : reading'[d] = reading[d] /\ tile'[d] = tile[d]
      /\ up' \subseteq up
  BY Types DEF OfOneSlave, OrderInv
<1>2. \A d \in Clients : Holds(d)' => Holds(d) /\ Given(d)' = Given(d)
  <2>1. \A d \in Clients \ {c} : Given(d)' = Given(d)
    BY <1>1 DEF Given
  <2>2. \A d : Kept(d)' <=> Kept(d)
    BY KeptStays
  <2> QED
    BY <1>1, <2>1, <2>2 DEF Holds
<1>3. Conns \subseteq Conns'
  <2>1. Conns' = 1..Len(link') /\ Len(link') \in Nat
    BY <1>1 DEF Conns
  <2> QED
    BY <1>1, <2>1
<1>4. \A d, q : HasPlace(d, q) => HasPlace(d, q)'
  BY <1>1, <1>3 DEF HasPlace
<1>5. Bounds(w)'
  BY <1>1 DEF Numbered, Bounds, Gone
<1>6. \A d \in Clients : Holds(d)' => HasPlace(d, via[d])' /\ Bounded(d, via[d], w)'
  BY <1>1, <1>2, <1>4 DEF Numbered, Bounded
<1>7. Ascending(via)'
  BY <1>2 DEF Numbered, Ascending
<1>8. Numbered(via, w)'
  BY <1>5, <1>6, <1>7 DEF Numbered
<1> QED
  BY <1>8

(* The channel of a slave that the master keeps is not given up.             *)
LEMMA LostIsNoPlace ==
  ASSUME NEW c, NEW q, HasPlace(c, q), Kept(c)
  PROVE  ~Gone(q)
BY DEF Kept, HasPlace, Gone

(* The slave at whose channel the master is takes the number of the master:  *)
(* it is not above the bound of its place, and thus below what the places    *)
(* behind it have, and above what has been given to those before it.         *)
LEMMA NewTile ==
  ASSUME OrderInv, NEW c \in Clients, OfOneSlave(c), NEW via, NEW w, Numbered(via, w),
         master.phase = "tile", HasPlace(c, master.at), ~Gone(master.at),
         Given(c)' = master.tile
  PROVE  \E x, y : Numbered(x, y)'
<1>1. /\ UNCHANGED <<channel, lost, master>> /\ Conns = 1..Len(link)
      /\ link' \in Seq(Link) /\ Len(link') >= Len(link) /\ Len(link) \in Nat
      /\ \A j \in Conns : link'[j].client = link[j].client
      /\ \A d \in Clients \ {c} : reading'[d] = reading[d] /\ tile'[d] = tile[d]
      /\ up' \subseteq up
  BY Types DEF OfOneSlave, OrderInv
<1>2. /\ \A d \in Clients \ {c} : Given(d)' = Given(d)
      /\ \A d \in Clients : d # c /\ Holds(d)' => Holds(d)
  <2>1. \A d \in Clients \ {c} : Given(d)' = Given(d)
    BY <1>1 DEF Given
  <2>2. \A d : Kept(d)' <=> Kept(d)
    BY KeptStays
  <2> QED
    BY <1>1, <2>1, <2>2 DEF Holds
<1>3. Conns \subseteq Conns'
  <2>1. Conns' = 1..Len(link') /\ Len(link') \in Nat
    BY <1>1 DEF Conns
  <2> QED
    BY <1>1, <2>1
<1>4. \A d, q : HasPlace(d, q) => HasPlace(d, q)'
  BY <1>1, <1>3 DEF HasPlace
<1>5. PICK a, t : a = master.at /\ t = master.tile
  OBVIOUS
<1>6. a \in Places /\ t \in Nat /\ ~Gone(a) /\ HasPlace(c, a)
  BY <1>5 DEF OrderInv, TypeOK, HasPlace, Places
<1>7. /\ w \in [Places -> Places] /\ t >= 1
      /\ \A q \in Places : ~Gone(q) => IF q < a THEN w[q] < t ELSE t <= w[q]
      /\ \A p, q \in Places : (p < q /\ ~Gone(p) /\ ~Gone(q)) => w[p] < w[q]
  BY <1>5 DEF Numbered, Bounds
<1>8. /\ via \in [Clients -> Nat]
      /\ \A d \in Clients : Holds(d) =>
           /\ HasPlace(d, via[d]) /\ via[d] \in Places /\ Given(d) \in Nat
           /\ w[via[d]] <= Given(d) /\ (via[d] < a => Given(d) < t)
  BY <1>5, GivenIsNumber DEF Numbered, Bounded, HasPlace, Places, OrderInv
<1> PICK u, v : u = [via EXCEPT ![c] = a] /\ v = [w EXCEPT ![a] = t]
  OBVIOUS
<1>9. /\ u \in [Clients -> Nat] /\ u[c] = a
      /\ \A d \in Clients : d # c => u[d] = via[d]
      /\ v \in [Places -> Places] /\ v[a] = t
      /\ \A q \in Places : q # a => v[q] = w[q]
  BY <1>6, <1>7, <1>8 DEF Places
<1>10. /\ master'.at = a /\ master'.tile = t /\ master'.phase = "tile"
       /\ \A q : Gone(q)' <=> Gone(q)
  BY <1>1, <1>5 DEF Gone
<1>11. Bounds(v)'
  <2>1. ASSUME NEW p \in Places, NEW q \in Places, p < q, ~Gone(p), ~Gone(q)
        PROVE  v[p] < v[q]
    <3>1. w[p] \in Nat /\ w[q] \in Nat /\ w[p] < w[q]
      BY <1>7, <2>1 DEF Places
    <3>2. CASE p = a
      <4>1. q # a /\ t <= w[a] /\ v[p] = t /\ v[q] = w[q]
        BY <1>6, <1>7, <1>9, <2>1, <3>2 DEF Places
      <4> QED
        BY <1>6, <3>1, <3>2, <4>1
    <3>3. CASE q = a
      <4>1. p < a /\ v[q] = t /\ v[p] = w[p]
        BY <1>6, <1>9, <2>1, <3>3 DEF Places
      <4> QED
        BY <1>7, <2>1, <4>1
    <3>4. CASE p # a /\ q # a
      BY <1>9, <3>1, <3>4
    <3> QED
      BY <3>2, <3>3, <3>4
  <2>2. ASSUME NEW q \in Places, ~Gone(q)
        PROVE  IF q < a THEN v[q] < t ELSE t <= v[q]
    <3>1. CASE q = a
      BY <1>6, <1>9, <3>1 DEF Places
    <3>2. CASE q # a
      BY <1>7, <1>9, <2>2, <3>2
    <3> QED
      BY <3>1, <3>2
  <2> QED
    BY <1>7, <1>9, <1>10, <2>1, <2>2 DEF Bounds
(* The others stand at other places.                                         *)
<1>12. ASSUME NEW d \in Clients, d # c, Holds(d)'
       PROVE  /\ HasPlace(d, u[d])' /\ u[d] \in Places /\ u[d] # a
              /\ Given(d)' = Given(d) /\ Given(d) \in Nat
              /\ v[u[d]] <= Given(d) /\ (u[d] < a => Given(d) < t)
              /\ (a < u[d] => t < Given(d))
  <2>1. Holds(d) /\ u[d] = via[d] /\ Given(d)' = Given(d)
    BY <1>2, <1>9, <1>12
  <2>2. u[d] # a
    BY <1>6, <1>8, <1>12, <2>1 DEF HasPlace
  <2>3. v[u[d]] = w[u[d]] /\ u[d] \in Places /\ Given(d) \in Nat /\ w[u[d]] <= Given(d)
    BY <1>8, <1>9, <2>1, <2>2
  <2>4. HasPlace(d, u[d])'
    BY <1>4, <1>8, <2>1
  <2>5. ASSUME a < u[d]
        PROVE  t < Given(d)
    <3>1. ~Gone(u[d])
      BY <1>8, <2>1, LostIsNoPlace DEF Holds
    <3>2. t <= w[a] /\ w[a] < w[u[d]] /\ w[a] \in Nat /\ w[u[d]] \in Nat
      BY <1>6, <1>7, <2>3, <2>5, <3>1 DEF Places
    <3> QED
      BY <1>6, <2>3, <3>2
  <2> QED
    BY <1>8, <2>1, <2>2, <2>3, <2>4, <2>5
<1>13. HasPlace(c, u[c])' /\ v[u[c]] = t /\ Given(c)' = t
  BY <1>4, <1>5, <1>6, <1>9
<1>14. ASSUME NEW d \in Clients, Holds(d)'
       PROVE  HasPlace(d, u[d])' /\ Bounded(d, u[d], v)'
  <2>1. CASE d = c
    BY <1>6, <1>9, <1>10, <1>13, <2>1 DEF Bounded, Places
  <2>2. CASE d # c
    BY <1>10, <1>12, <1>14, <2>2 DEF Bounded
  <2> QED
    BY <2>1, <2>2
<1>15. ASSUME NEW d \in Clients, NEW e \in Clients, Holds(d)', Holds(e)', u[d] < u[e]
       PROVE  Given(d)' < Given(e)'
  <2>1. CASE d = c
    <3>1. e # c
      BY <1>6, <1>9, <1>15, <2>1 DEF Places
    <3> QED
      BY <1>9, <1>12, <1>13, <1>15, <2>1, <3>1
  <2>2. CASE e = c /\ d # c
    BY <1>9, <1>12, <1>13, <1>15, <2>2
  <2>3. CASE d # c /\ e # c
    <3>1. Holds(d) /\ Holds(e) /\ via[d] < via[e]
      BY <1>2, <1>9, <1>15, <2>3
    <3>2. Given(d) < Given(e)
      BY <3>1 DEF Numbered, Ascending
    <3> QED
      BY <1>12, <1>15, <2>3, <3>2
  <2> QED
    BY <2>1, <2>2, <2>3
<1>16. Numbered(u, v)'
  BY <1>9, <1>11, <1>14, <1>15 DEF Numbered, Ascending
<1> QED
  BY <1>16


(* The slaves' steps keep the tiles numbered. *)
LEMMA SlaveKeepsNumbers ==
  ASSUME OrderInv, AckInv, TileInv, NEW c \in Clients, Slave(c)
  PROVE  \E x, y : Numbered(x, y)'
<1>1. OfOneSlave(c)
  BY SlaveStep
<1>2. PICK via, w : Numbered(via, w)
  BY DEF TileInv
<1>3. CASE ~ReadData(c)
  <2>1. c \in up' => Given(c)' \in {Given(c), 0}
    BY <1>3, OtherProgress DEF TileProgress
  <2> QED
    BY <1>1, <1>2, <2>1, SamePlaces
<1>4. CASE ReadData(c)
  <2>1. /\ master.waits /\ channel[master.at] \in Conns
        /\ link[channel[master.at]].client = c
        /\ c \in up /\ UNCHANGED <<up, tile>>
        /\ reading[c].at = "data" /\ reading'[c].at = "deliver"
        /\ reading'[c].msg = Current
    BY <1>4, ReadsCurrent
  <2>2. CASE master.phase = "tile"
    <3>1. Current = [kind |-> "tile", val |-> master.tile]
      BY <2>2 DEF Current
    <3>2. Given(c)' = master.tile
      BY <2>1, <3>1 DEF Given
    <3>3. HasPlace(c, master.at) /\ ~Gone(master.at)
      BY <2>1 DEF HasPlace, Gone, OrderInv, MasterInPlace
    <3> QED
      BY <1>1, <1>2, <2>2, <3>2, <3>3, NewTile
  <2>3. CASE master.phase # "tile"
    <3>1. Current.kind # "tile"
      BY <2>3 DEF Current
    <3>2. Given(c)' = Given(c)
      BY <2>1, <3>1 DEF Given
    <3> QED
      BY <1>1, <1>2, <3>2, SamePlaces
  <2> QED
    BY <2>2, <2>3
<1> QED
  BY <1>3, <1>4

(* The numbering of tiles is inductive, given the order and the ACKs. *)
LEMMA TileNext ==
  OrderInv /\ OrderInv' /\ AckInv /\ AckInv' /\ TileInv /\ [Next]_vars => TileInv'
<1> SUFFICES ASSUME OrderInv, OrderInv', AckInv, AckInv', TileInv, [Next]_vars
             PROVE  TileInv'
  OBVIOUS
<1>1. CASE Master
  BY <1>1, MasterKeepsTaken, MasterKeepsNumbers DEF TileInv
<1>2. ASSUME NEW c \in Clients, Slave(c)
      PROVE  TileInv'
  BY <1>2, SlaveKeepsTaken, SlaveKeepsNumbers DEF TileInv
<1>3. CASE UNCHANGED vars
  <2>1. /\ UNCHANGED <<up, link, channel, lost, version, steps, master, reading, tile>>
        /\ Conns' = Conns
    BY <1>3 DEF vars, masterVars, slaveVars, Conns
  <2>2. TileTaken'
    BY <2>1 DEF TileInv, TileTaken, Reset, Takes, Current
  <2>3. PICK via, w : Numbered(via, w)
    BY DEF TileInv
  <2>4. /\ \A c : (Given(c)' = Given(c)) /\ (Holds(c)' <=> Holds(c))
        /\ \A c, q : HasPlace(c, q)' <=> HasPlace(c, q)
        /\ \A q : Gone(q)' <=> Gone(q)
    BY <2>1 DEF Given, Holds, Kept, HasPlace, Gone
  <2>5. Bounds(w)'
    BY <2>1, <2>3, <2>4 DEF Numbered, Bounds
  <2>6. Numbered(via, w)'
    BY <2>1, <2>3, <2>4, <2>5 DEF Numbered, Bounded, Ascending
  <2> QED
    BY <2>2, <2>6 DEF TileInv
<1> QED
  BY <1>1, <1>2, <1>3 DEF Next

(* Two slaves stand at different places, and numbers ascend with places.     *)
LEMMA NumbersDiffer ==
  ASSUME OrderInv, TileInv
  PROVE  TilesDiffer
<1>1. PICK via, w : Numbered(via, w)
  BY DEF TileInv
<1> SUFFICES ASSUME NEW c \in up, NEW d \in up, c # d, Kept(c), Kept(d),
                    Given(c) # 0, Given(c) = Given(d)
             PROVE  FALSE
  BY DEF TilesDiffer
<1>2. /\ c \in Clients /\ d \in Clients /\ Holds(c) /\ Holds(d)
      /\ Given(c) \in Nat
  BY GivenIsNumber DEF OrderInv, TypeOK, Holds
<1>3. HasPlace(c, via[c]) /\ HasPlace(d, via[d]) /\ via[c] \in Nat /\ via[d] \in Nat
  BY <1>1, <1>2 DEF Numbered
<1>4. via[c] # via[d]
  BY <1>3 DEF HasPlace
<1>5. via[c] < via[d] \/ via[d] < via[c]
  BY <1>3, <1>4
<1>6. Given(c) < Given(d) \/ Given(d) < Given(c)
  BY <1>1, <1>2, <1>5 DEF Numbered, Ascending
<1> QED
  BY <1>2, <1>6

(* No two slaves that the master has kept have the same tile, although       *)
(* numbers are given anew, in one message after the other, each time a slave *)
(* comes, and to fewer channels when some are given up: the new number of a  *)
(* place is at most the old one, and the ACKs keep it behind those before it. *)
THEOREM NoTileTwice == Spec => []TilesDiffer
<1>1. Init => TileInv
  BY TileInit
<1>2. OrderInv /\ OrderInv' /\ AckInv /\ AckInv' /\ TileInv /\ [Next]_vars => TileInv'
  BY TileNext
<1>3. OrderInv /\ TileInv => TilesDiffer
  BY NumbersDiffer
<1> QED
  BY <1>1, <1>2, <1>3, OrderHolds, AcksHold, PTL DEF Spec

-----------------------------------------------------------------------------
(* Where the master's recv() meets no errno of another call. *)

(* A channel is given up only when the slave's program has ended.            *)
LostAreDown == \A i \in lost : Reset(i)

(* The master gives up a channel for recv() having returned 0.               *)
LEMMA LostNext ==
  ASSUME ~MasterErrno, OrderInv, OrderInv', LostAreDown, [Next]_vars
  PROVE  LostAreDown'
<1>1. lost \subseteq Conns /\ Conns = 1..Len(link)
  BY Types DEF OrderInv, TypeOK
<1>2. CASE Master
  <2>1. /\ \A i \in Conns : link'[i].client = link[i].client
        /\ up' = up
    BY <1>2, MasterLeavesPlaces DEF PlacesStay
  <2>2. \A i \in Conns : Reset(i)' <=> Reset(i)
    BY <2>1 DEF Reset
  <2>3. CASE AckFails
    <3>1. lost' = lost \cup {channel[master.at]} /\ Reset(channel[master.at])
      BY <2>3 DEF AckFails
    <3>2. channel[master.at] \in Conns
      BY <2>3 DEF AckFails, OrderInv, MasterInPlace, TypeOK
    <3> QED
      BY <1>1, <2>2, <3>1, <3>2 DEF LostAreDown
  <2>4. CASE ~AckFails
    <3>1. lost' = lost
      BY <1>2, <2>4 DEF Master, Accept, Read, Step, SkipLost, Send, SendFails, ReceiveAck,
           EndOfLoop, StillConnected
    <3> QED
      BY <1>1, <2>2, <3>1 DEF LostAreDown
  <2> QED
    BY <2>3, <2>4
<1>3. ASSUME NEW c \in Clients, Slave(c)
      PROVE  LostAreDown'
  <2>1. OfOneSlave(c)
    BY <1>3, SlaveStep
  <2>2. lost' = lost /\ up' \subseteq up /\ \A i \in Conns : link'[i].client = link[i].client
    BY <1>1, <2>1 DEF OfOneSlave
  <2> QED
    BY <1>1, <2>2 DEF LostAreDown, Reset
<1>4. CASE UNCHANGED vars
  BY <1>4 DEF vars, masterVars, LostAreDown, Reset
<1> QED
  BY <1>2, <1>3, <1>4 DEF Next

(* Where no errno is left over for the master's recv(), the master keeps     *)
(* every slave that runs, and no two of all these have the same tile.        *)
COROLLARY NoTileTwiceAtAll == ASSUME ~MasterErrno PROVE Spec => []AllTilesDiffer
<1>1. Init => LostAreDown
  BY DEF Init, LostAreDown
<1>2. OrderInv /\ OrderInv' /\ LostAreDown /\ [Next]_vars => LostAreDown'
  BY LostNext
<1>3. LostAreDown /\ TilesDiffer => AllTilesDiffer
  BY DEF LostAreDown, Reset, Kept, TilesDiffer, AllTilesDiffer
<1> QED
  BY <1>1, <1>2, <1>3, OrderHolds, NoTileTwice, PTL DEF Spec

=============================================================================
