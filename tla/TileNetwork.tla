---------------------------- MODULE TileNetwork -----------------------------
(***************************************************************************)
(* One picture on several machines: the master (GripsServer) sends its     *)
(* state, the tile to draw and the simulation steps to the slaves          *)
(* (GripsClient) over GltSocketProtocol.  Each program is one thread: while *)
(* the master waits in recv() for an ACK it does nothing else.             *)
(*                                                                         *)
(* A connection is a stream of units, a header and the payload in two      *)
(* parts; recv() sees any prefix of what is on the way.  As connected() of  *)
(* a slave is false after each poll that finds nothing, and connect() makes *)
(* a new socket without closing the old one, a slave may have several      *)
(* connections open and reads only from the last.                          *)
(*                                                                         *)
(* Assumed: the 12 bytes of a header arrive together, and the sockets'     *)
(* buffers take what is sent.  The operating system is external.           *)
(***************************************************************************)
EXTENDS Naturals, Sequences

CONSTANTS
  Clients,     \* the slaves
  Mortal,      \* the slaves whose program may end
  Slaves,      \* tileX*tileY-1
  MaxConns,    \* how often slaves connect: bound of the model
  MaxVersion,  \* how often the master's settings change: bound of the model
  MaxSteps,    \* how often the master iterates: bound of the model
  StaleErrno,  \* the slaves whose recv() may meet an errno that another call left
  MasterErrno  \* may that happen to the master?

ASSUME TileAssumption ==
  /\ Mortal \subseteq Clients
  /\ Slaves \in Nat /\ MaxConns \in Nat /\ MaxVersion \in Nat /\ MaxSteps \in Nat
  /\ StaleErrno \subseteq Clients /\ MasterErrno \in BOOLEAN

VARIABLES
  up,         \* the slaves whose program runs
  link,       \* the connections, in the order in which they were made
  backlog,    \* those that accept() has still to return
  channel,    \* _channel
  lost,       \* the members of _channel with connected() false
  version,    \* the master's settings
  steps,      \* the iterations of the master
  master,     \* what the thread of the master is doing
  socket,     \* of a slave: the connection _socket stands for, 0 at first
  connected,  \* of a slave: _socket._connected
  reading,    \* of a slave: where protocol recv() is, and with which message
  tile        \* of a slave: grips.display.tile.index

masterVars == <<backlog, channel, lost, version, steps, master>>
slaveVars  == <<socket, connected, reading, tile>>
vars == <<up, link, masterVars, slaveVars>>

-----------------------------------------------------------------------------
(* Messages. *)

Message == [kind : {"state", "tile", "step"}, val : Nat]

(* What a header is taken for if it is not one.                              *)
Garbage == [kind |-> "garbage", val |-> 0]

(* MESSAGE_SET, for the state and for the tile, carries text and wants ACK.  *)
IsSet(m) == m.kind \in {"state", "tile"}

Units(m) ==
  <<[part |-> "header", msg |-> m]>>
    \o (IF IsSet(m) THEN <<[part |-> "data", msg |-> m], [part |-> "data", msg |-> m]>>
        ELSE <<>>)

NewLink(c) == [client |-> c, sent |-> <<>>, stream |-> <<>>, ack |-> FALSE,
               got |-> <<>>]

Conns == DOMAIN link

(* The connections of a program are closed when it ends, not before.         *)
Reset(i) == link[i].client \notin up

(* What _connected is after a recv() that got what it asked for.             *)
StillConnected(stale) == IF stale THEN BOOLEAN ELSE {TRUE}

-----------------------------------------------------------------------------
(* The master. *)

Rest == [phase |-> "idle", at |-> 1, tile |-> 1, waits |-> FALSE]

Does(phase) == [Rest EXCEPT !.phase = phase]

Idle == master.phase = "idle"

Aborted == master.phase = "aborted"

Looping == ~Idle /\ ~Aborted /\ ~master.waits

Sending == Looping /\ master.at <= Len(channel)

(* accept(), and the state and the tiles for all.                            *)
Accept ==
  /\ Idle
  /\ Len(channel) < Slaves
  /\ backlog # <<>>
  /\ channel' = Append(channel, Head(backlog))
  /\ backlog' = Tail(backlog)
  /\ master' = Does("state")
  /\ UNCHANGED <<up, link, lost, version, steps, slaveVars>>

(* Grips::read(): new settings, the state and the tiles for all.             *)
Read ==
  /\ Idle
  /\ version < MaxVersion
  /\ version' = version + 1
  /\ master' = Does("state")
  /\ UNCHANGED <<up, link, backlog, channel, lost, steps, slaveVars>>

(* Grips::step(): the step for all, then the master's own.                   *)
Step ==
  /\ Idle
  /\ steps < MaxSteps
  /\ steps' = steps + 1
  /\ master' = Does("step")
  /\ UNCHANGED <<up, link, backlog, channel, lost, version, slaveVars>>

Current ==
  [kind |-> master.phase,
   val  |-> CASE master.phase = "state" -> version
              [] master.phase = "tile"  -> master.tile
              [] master.phase = "step"  -> steps]

(* Mistake: the number of the tile is not counted. *)
OnwardsUncounted(counted) ==
  [master EXCEPT !.at = @ + 1, !.waits = FALSE]

(* The loops go on with the next channel; a tile given away is counted.      *)
Onwards(counted) ==
  [master EXCEPT !.at = @ + 1, !.waits = FALSE,
                 !.tile = IF counted /\ master.phase = "tile" THEN @ + 1 ELSE @]

(* Mistake: send() does not wait for the ACK. *)
AfterSendAtOnce == Onwards(TRUE)

AfterSend ==
  IF IsSet(Current) THEN [master EXCEPT !.waits = TRUE] ELSE Onwards(TRUE)

SkipLost ==
  /\ Sending /\ channel[master.at] \in lost
  /\ master' = Onwards(FALSE)
  /\ UNCHANGED <<up, link, backlog, channel, lost, version, steps, slaveVars>>

(* Sockets of a slave that has ended swallow what is sent to them.           *)
Send ==
  LET i == channel[master.at] IN
  /\ Sending /\ i \notin lost
  /\ link' = [link EXCEPT ![i].sent = Append(@, Current),
                          ![i].stream = IF Reset(i) THEN <<>> ELSE @ \o Units(Current)]
  /\ master' = AfterSend
  /\ UNCHANGED <<up, backlog, channel, lost, version, steps, slaveVars>>

(* ... or send() reports an error: send() of the protocol fails its          *)
(* assertion, or returns without waiting for the ACK.                        *)
SendFails ==
  LET i == channel[master.at] IN
  /\ Sending /\ i \notin lost /\ Reset(i)
  /\ master' \in {[master EXCEPT !.phase = "aborted"], Onwards(TRUE)}
  /\ UNCHANGED <<up, link, backlog, channel, lost, version, steps, slaveVars>>

(* The ACK is there.  recv() returns it, but takes an errno that another     *)
(* call has left, such as the EPIPE of a send() to a slave that has ended,   *)
(* for an error of its own: the channel counts as not connected from now on. *)
ReceiveAck ==
  LET i == channel[master.at] IN
  /\ master.waits
  /\ link[i].ack
  /\ link' = [link EXCEPT ![i].ack = FALSE]
  /\ \E b \in StillConnected(MasterErrno) : lost' = IF b THEN lost ELSE lost \cup {i}
  /\ master' = Onwards(TRUE)
  /\ UNCHANGED <<up, backlog, channel, version, steps, slaveVars>>

(* recv() returns 0: the channel is not connected any more; the assertion.   *)
AckFails ==
  LET i == channel[master.at] IN
  /\ master.waits
  /\ ~link[i].ack /\ Reset(i)
  /\ lost' = lost \cup {i}
  /\ master' \in {[master EXCEPT !.phase = "aborted", !.waits = FALSE], Onwards(TRUE)}
  /\ UNCHANGED <<up, link, backlog, channel, version, steps, slaveVars>>

EndOfLoop ==
  /\ Looping /\ master.at > Len(channel)
  /\ master' = IF master.phase = "state" THEN Does("tile") ELSE Rest
  /\ UNCHANGED <<up, link, backlog, channel, lost, version, steps, slaveVars>>

-----------------------------------------------------------------------------
(* A slave. *)

NotReading == [at |-> "idle", msg |-> Garbage]

At(c, pc) == c \in up /\ reading[c].at = pc

Goes(c, pc, m) == reading' = [reading EXCEPT ![c] = [at |-> pc, msg |-> m]]

(* OnTick: connect() if the socket counts as not connected.                  *)
Tick(c) ==
  /\ At(c, "idle")
  /\ Goes(c, "header", Garbage)
  /\ IF connected[c]
     THEN UNCHANGED <<link, backlog, socket, connected>>
     ELSE /\ Len(link) < MaxConns
          /\ link' = Append(link, NewLink(c))
          /\ backlog' = Append(backlog, Len(link'))
          /\ socket' = [socket EXCEPT ![c] = Len(link')]
          /\ connected' = [connected EXCEPT ![c] = TRUE]
  /\ UNCHANGED <<up, channel, lost, version, steps, master, tile>>

(* The poll for a header finds nothing.                                      *)
PollNothing(c) ==
  /\ At(c, "header")
  /\ Goes(c, "idle", Garbage)
  /\ connected' = [connected EXCEPT ![c] = FALSE]
  /\ UNCHANGED <<up, link, masterVars, socket, tile>>

PollHeader(c) ==
  LET i == socket[c]
      u == Head(link[i].stream)
      m == IF u.part = "header" THEN u.msg ELSE Garbage IN
  /\ At(c, "header")
  /\ link[i].stream # <<>>
  /\ link' = [link EXCEPT ![i].stream = Tail(@)]
  /\ Goes(c, IF IsSet(m) THEN "data" ELSE "deliver", m)
  /\ \E b \in StillConnected(c \in StaleErrno) : connected' = [connected EXCEPT ![c] = b]
  /\ UNCHANGED <<up, masterVars, socket, tile>>

(* Mistake: less than the whole payload is not taken for a disconnection. *)
ShortKeeps(c) == connected[c]

(* What _connected is after a blocking recv() of a part.                     *)
AfterShort(c) == FALSE

(* recv() blocks until there is something; what is there may be less.        *)
ReadPart(c) ==
  LET i == socket[c] IN
  /\ At(c, "data")
  /\ link[i].stream # <<>>
  /\ link' = [link EXCEPT ![i].stream = Tail(@)]
  /\ Goes(c, IF AfterShort(c) THEN "header" ELSE "idle", Garbage)
  /\ connected' = [connected EXCEPT ![c] = AfterShort(c)]
  /\ UNCHANGED <<up, masterVars, socket, tile>>

(* The whole payload; the ACK is sent before OnReceive.                      *)
ReadData(c) ==
  LET i == socket[c] IN
  /\ At(c, "data")
  /\ Len(link[i].stream) >= 2
  /\ link' = [link EXCEPT ![i].stream = Tail(Tail(@)), ![i].ack = TRUE]
  /\ Goes(c, "deliver", reading[c].msg)
  /\ \E b \in StillConnected(c \in StaleErrno) :
       connected' = [connected EXCEPT ![c] = connected[c] /\ b]
  /\ UNCHANGED <<up, masterVars, socket, tile>>

(* OnReceive, and the loop of recv() again if the socket is connected.  The  *)
(* state includes the number of the master's own tile, which is 0.           *)
OnReceive(c) ==
  LET m == reading[c].msg IN
  /\ At(c, "deliver")
  /\ link' = [link EXCEPT ![socket[c]].got = Append(@, m)]
  /\ tile' = IF ~IsSet(m) THEN tile
             ELSE [tile EXCEPT ![c] = IF m.kind = "tile" THEN m.val ELSE 0]
  /\ Goes(c, IF connected[c] THEN "header" ELSE "idle", Garbage)
  /\ UNCHANGED <<up, masterVars, socket, connected>>

(* The program ends, wherever it is.                                         *)
Quit(c) ==
  /\ c \in up \cap Mortal
  /\ up' = up \ {c}
  /\ link' = [i \in Conns |-> IF link[i].client = c THEN [link[i] EXCEPT !.stream = <<>>]
                              ELSE link[i]]
  /\ socket' = [socket EXCEPT ![c] = 0]
  /\ connected' = [connected EXCEPT ![c] = FALSE]
  /\ reading' = [reading EXCEPT ![c] = NotReading]
  /\ tile' = [tile EXCEPT ![c] = 0]
  /\ UNCHANGED masterVars

-----------------------------------------------------------------------------

Init ==
  /\ up = Clients
  /\ link = <<>> /\ backlog = <<>> /\ channel = <<>> /\ lost = {}
  /\ version = 0 /\ steps = 0
  /\ master = Rest
  /\ socket = [c \in Clients |-> 0]
  /\ connected = [c \in Clients |-> FALSE]
  /\ reading = [c \in Clients |-> NotReading]
  /\ tile = [c \in Clients |-> 0]

Master ==
  \/ Accept \/ Read \/ Step
  \/ SkipLost \/ Send \/ SendFails \/ ReceiveAck \/ AckFails \/ EndOfLoop

Slave(c) ==
  \/ Tick(c) \/ PollNothing(c) \/ PollHeader(c)
  \/ ReadPart(c) \/ ReadData(c) \/ OnReceive(c)
  \/ Quit(c)

(* The model ends with the program of the master.                            *)
Next == Master \/ \E c \in Clients : ~Aborted /\ Slave(c)

Spec == Init /\ [][Next]_vars

-----------------------------------------------------------------------------
(* Properties. *)

TypeOK ==
  /\ up \subseteq Clients
  /\ link \in Seq([client : Clients, sent : Seq(Message), ack : BOOLEAN,
                   stream : Seq([part : {"header", "data"}, msg : Message]),
                   got : Seq(Message \cup {Garbage})])
  /\ backlog \in Seq(Conns) /\ channel \in Seq(Conns) /\ lost \subseteq Conns
  /\ version \in 0..MaxVersion /\ steps \in 0..MaxSteps
  /\ master \in [phase : {"idle", "state", "tile", "step", "aborted"},
                 at : Nat, tile : Nat, waits : BOOLEAN]
  /\ socket \in [Clients -> Conns \cup {0}]
  /\ connected \in [Clients -> BOOLEAN]
  /\ reading \in [Clients -> [at : {"idle", "header", "data", "deliver"},
                              msg : Message \cup {Garbage}]]
  /\ tile \in [Clients -> Nat]

(* On every connection OnReceive gets the messages that were sent, in the    *)
(* order in which they were sent, from the first on: what is cut off is cut  *)
(* off at the end, and never taken for something else.                       *)
MessagesInOrder ==
  \A i \in Conns : /\ Len(link[i].got) <= Len(link[i].sent)
                   /\ \A n \in DOMAIN link[i].got : link[i].got[n] = link[i].sent[n]

Awaited(i) == master.waits /\ channel[master.at] = i

(* What the slave has received, OnReceive or not.                            *)
Received(i) ==
  Len(link[i].got)
    + (IF socket[link[i].client] = i /\ reading[link[i].client].at = "deliver"
       THEN 1 ELSE 0)

(* send() with ACK has returned: the slave has the message, unless its       *)
(* program has ended.  The master's picture waits for the slaves' settings.  *)
AckMeansReceived ==
  \A i \in Conns : \A n \in DOMAIN link[i].sent :
    (IsSet(link[i].sent[n]) /\ ~(Awaited(i) /\ n = Len(link[i].sent)) /\ ~Reset(i))
      => n <= Received(i)

(* No two slaves have the same tile, also when tiles are numbered again      *)
(* since one of them has ended: the ACKs keep the new numbers behind the old *)
(* ones.  (The ACK is sent before OnReceive, so a slave may still have to    *)
(* take its new tile over when the next one has done so.)  Only slaves the   *)
(* master has kept are meant: one that it has dropped though it runs, for an *)
(* errno of another call, keeps its tile, which is then given to another.    *)
Given(c) ==
  IF reading[c].at = "deliver" /\ reading[c].msg.kind = "tile"
  THEN reading[c].msg.val ELSE tile[c]

Kept(c) == \A i \in lost : link[i].client # c

TilesDiffer ==
  \A c, d \in up : (c # d /\ Kept(c) /\ Kept(d) /\ Given(c) # 0) => Given(c) # Given(d)

(* Of all slaves that run: what the code promises where no errno is left     *)
(* over, and does not keep otherwise.                                        *)
AllTilesDiffer ==
  \A c, d \in up : (c # d /\ Given(c) # 0) => Given(c) # Given(d)

(* "In slave mode, wait for sync signals from master node": a slave that     *)
(* has its tile does not iterate by itself, as step() does when the client   *)
(* is not connected.  The code does not keep this: each OnTick of a slave    *)
(* ends with a poll that finds nothing.                                      *)
SlavesWait ==
  \A c \in up : tile[c] # 0 => ~(reading[c].at = "idle" /\ ~connected[c])

=============================================================================
