-------------------------------- MODULE Session --------------------------------
(***************************************************************************)
(* A WebSocketClient (ws-rs/src/client.rs) and the server's end of its     *)
(* connection (ws-rs/src/server.rs), composed over the two directions of a *)
(* TCP connection, from the first message to the end of both sockets.      *)
(*                                                                         *)
(* The two ends run the same two tasks; ServerConnection and WsClient have *)
(* the details of each.  They differ in who holds the sending half of the  *)
(* outgoing channel, and in what the receive task does with a message that *)
(* nobody takes.  A direction holds a bounded number of frames, and what   *)
(* is in it is lost in part when the connection breaks.  tungstenite and   *)
(* TCP are external.                                                       *)
(***************************************************************************)
EXTENDS Naturals, Sequences

CONSTANTS
  Capacity,    \* of both outgoing channels
  WireCap,     \* bound on the frames in one direction: TCP's buffers
  MaxData      \* bound on the messages each program hands over

ASSUME CapacityAssumption == Capacity \in Nat \ {0}
ASSUME WireCapAssumption == WireCap \in Nat \ {0}
ASSUME MaxDataAssumption == MaxData \in Nat

VARIABLES
  link,       \* "up" or "gone"
  wire,       \* the frames on their way to each side
  ws,         \* tungstenite's state on each side
  queue,      \* the outgoing channel of each side
  writing,    \* the message in the hand of each send task
  sendTask,   \* the send task of each side
  recvTask,   \* the receive task of each side, or why it ended
  held,       \* whether the program holds the sending half; the server's
              \* application: a clone of the ConnectionInterface
  listening,  \* the client's program holds the receiving half
  registered, \* the server's map holds the ConnectionInterface
  keepalive,  \* the server's application has a periodic sender
  accepted,   \* how many messages each program has handed over
  promised,   \* history: how many of them before it asked for the close
  read        \* history: the data frames each side has read, in order

vars == <<link, wire, ws, queue, writing, sendTask, recvTask, held, listening,
          registered, keepalive, accepted, promised, read>>

-----------------------------------------------------------------------------
Sides == {"client", "server"}
Peer(s) == IF s = "client" THEN "server" ELSE "client"

Data == 1 .. MaxData
Ping == 0                     \* a periodic message
CloseFrame == MaxData + 1
NoMessage == MaxData + 2

(* "closedByUs": our close frame is sent.  "closedByPeer": the peer's is   *)
(* read and the reply waits for a flush.  "acked": both.                   *)
TypeOK ==
  /\ link \in {"up", "gone"}
  /\ wire \in [Sides -> Seq(0 .. MaxData + 1)]
  /\ \A s \in Sides : Len(wire[s]) <= WireCap
  /\ ws \in [Sides -> {"active", "closedByUs", "closedByPeer", "acked"}]
  /\ queue \in [Sides -> Seq(0 .. MaxData + 1)]
  /\ \A s \in Sides : Len(queue[s]) <= Capacity
  /\ writing \in [Sides -> 0 .. MaxData + 2]
  /\ sendTask \in [Sides -> {"recv", "write", "close", "ended"}]
  /\ recvTask \in [Sides -> {"next", "closeFrame", "unheard", "broken"}]
  /\ held \in [Sides -> BOOLEAN]
  /\ listening \in BOOLEAN /\ registered \in BOOLEAN /\ keepalive \in BOOLEAN
  /\ accepted \in [Sides -> 0 .. MaxData]
  /\ promised \in [Sides -> 0 .. MaxData]
  /\ read \in [Sides -> Seq(Data)]

Init ==
  /\ link = "up"
  /\ wire = [s \in Sides |-> <<>>]
  /\ ws = [s \in Sides |-> "active"]
  /\ queue = [s \in Sides |-> <<>>]
  /\ writing = [s \in Sides |-> NoMessage]
  /\ sendTask = [s \in Sides |-> "recv"]
  /\ recvTask = [s \in Sides |-> "next"]
  /\ held = [s \in Sides |-> TRUE]
  /\ listening = TRUE /\ registered = TRUE
  /\ keepalive \in BOOLEAN
  /\ accepted = [s \in Sides |-> 0]
  /\ promised = [s \in Sides |-> 0]
  /\ read = [s \in Sides |-> <<>>]

network == <<link, wire, ws, read>>
tasks == <<writing, sendTask, recvTask>>
holders == <<held, listening, registered, keepalive>>

(* Both halves of the WebSocket are dropped with the tasks that own them,  *)
(* and the socket with them.                                               *)
SocketClosed(s) == sendTask[s] = "ended" /\ recvTask[s] # "next"

-----------------------------------------------------------------------------
(* The programs.  They take what arrives; what becomes of a message that   *)
(* waits for a slow program is the matter of the two detailed modules.     *)

(* Mutant: an unbounded channel.                                           *)
QueuesUnbounded(s, m) ==
  /\ held[s]
  /\ sendTask[s] # "ended"
  /\ queue' = [queue EXCEPT ![s] = Append(@, m)]

Queues(s, m) ==
  /\ held[s]
  /\ sendTask[s] # "ended"
  /\ Len(queue[s]) < Capacity
  /\ queue' = [queue EXCEPT ![s] = Append(@, m)]

CloseQueued(s) ==
  \/ ws[s] \in {"closedByUs", "acked"} \/ writing[s] = CloseFrame
  \/ \E k \in 1 .. Len(queue[s]) : queue[s][k] = CloseFrame

(* send_message of either side.                                            *)
SendMessage(s) ==
  /\ accepted[s] < MaxData
  /\ Queues(s, accepted[s] + 1)
  /\ accepted' = [accepted EXCEPT ![s] = @ + 1]
  /\ promised' = IF CloseQueued(s) THEN promised
                                   ELSE [promised EXCEPT ![s] = @ + 1]
  /\ UNCHANGED <<network, tasks, holders>>

(* The application sends WsMessage::Close.                                 *)
ServerAsksToClose ==
  /\ Queues("server", CloseFrame)
  /\ UNCHANGED <<network, tasks, holders, accepted, promised>>

(* The periodic sender looks at is_connected and sends.                    *)
ServerPings ==
  /\ keepalive
  /\ Queues("server", Ping)
  /\ UNCHANGED <<network, tasks, holders, accepted, promised>>

(* The application gives its last clone up when receive_message yields     *)
(* None and, if it has a periodic sender, that has failed.                 *)
ServerDropsInterface ==
  /\ held["server"]
  /\ recvTask["server"] # "next"
  /\ keepalive => sendTask["server"] = "ended"
  /\ held' = [held EXCEPT !["server"] = FALSE]
  /\ UNCHANGED <<network, queue, tasks, listening, registered, keepalive,
                 accepted, promised>>

ClientCloses ==
  /\ held["client"]
  /\ held' = [held EXCEPT !["client"] = FALSE]
  /\ UNCHANGED <<network, queue, tasks, listening, registered, keepalive,
                 accepted, promised>>

(* close returns with the first of the two tasks and drops the receiver.   *)
ClientCloseReturns ==
  /\ ~held["client"] /\ listening
  /\ sendTask["client"] = "ended" \/ recvTask["client"] # "next"
  /\ listening' = FALSE
  /\ UNCHANGED <<network, queue, tasks, held, registered, keepalive, accepted,
                 promised>>

-----------------------------------------------------------------------------
(* The send task of side s.                                                *)

SendTakes(s) ==
  /\ sendTask[s] = "recv"
  /\ queue[s] # <<>>
  /\ writing' = [writing EXCEPT ![s] = Head(queue[s])]
  /\ queue' = [queue EXCEPT ![s] = Tail(@)]
  /\ sendTask' = [sendTask EXCEPT ![s] = "write"]
  /\ UNCHANGED <<network, recvTask, holders, accepted, promised>>

(* The write waits while the direction is full.                            *)
SendWrites(s) ==
  /\ sendTask[s] = "write"
  /\ link = "up" /\ ws[s] = "active"
  /\ Len(wire[Peer(s)]) < WireCap
  /\ wire' = [wire EXCEPT ![Peer(s)] = Append(@, writing[s])]
  /\ ws' = IF writing[s] = CloseFrame THEN [ws EXCEPT ![s] = "closedByUs"] ELSE ws
  /\ writing' = [writing EXCEPT ![s] = NoMessage]
  /\ sendTask' = [sendTask EXCEPT ![s] = "recv"]
  /\ UNCHANGED <<link, read, queue, recvTask, holders, accepted, promised>>

SendFails(s) ==
  /\ sendTask[s] = "write"
  /\ link = "gone" \/ ws[s] # "active"
  /\ writing' = [writing EXCEPT ![s] = NoMessage]
  /\ sendTask' = [sendTask EXCEPT ![s] = "close"]
  /\ UNCHANGED <<network, queue, recvTask, holders, accepted, promised>>

(* The channel is closed: nobody holds its sending half.                   *)
ChannelClosed(s) == ~held[s] /\ (s = "server" => ~registered)

(* Mutant: what is still queued is not waited for.                         *)
SendStops(s) ==
  /\ sendTask[s] = "recv"
  /\ ChannelClosed(s)
  /\ sendTask' = [sendTask EXCEPT ![s] = "close"]
  /\ UNCHANGED <<network, queue, writing, recvTask, holders, accepted, promised>>

SendDrained(s) ==
  /\ sendTask[s] = "recv"
  /\ queue[s] = <<>>
  /\ ChannelClosed(s)
  /\ sendTask' = [sendTask EXCEPT ![s] = "close"]
  /\ UNCHANGED <<network, queue, writing, recvTask, holders, accepted, promised>>

(* The server's entry goes with either task.                               *)
Deregisters(s) == registered' = (registered /\ s # "server")

(* Mutant: the task ends without ws_sender.close().                        *)
SendSkipsClose(s) ==
  /\ sendTask[s] = "close"
  /\ queue' = [queue EXCEPT ![s] = <<>>]
  /\ sendTask' = [sendTask EXCEPT ![s] = "ended"]
  /\ Deregisters(s)
  /\ UNCHANGED <<network, writing, recvTask, held, listening, keepalive, accepted,
                 promised>>

(* Mutant: the task sends a close frame whether one has been sent or not.  *)
SendClosesAgain(s) ==
  /\ sendTask[s] = "close"
  /\ IF link = "up"
     THEN /\ Len(wire[Peer(s)]) < WireCap
          /\ wire' = [wire EXCEPT ![Peer(s)] = Append(@, CloseFrame)]
          /\ ws' = [ws EXCEPT ![s] = IF @ = "closedByPeer" THEN "acked" ELSE "closedByUs"]
     ELSE UNCHANGED <<wire, ws>>
  /\ queue' = [queue EXCEPT ![s] = <<>>]
  /\ sendTask' = [sendTask EXCEPT ![s] = "ended"]
  /\ Deregisters(s)
  /\ UNCHANGED <<link, read, writing, recvTask, held, listening, keepalive,
                 accepted, promised>>

(* ws_sender.close() sends our close frame, or flushes the reply to the    *)
(* peer's; it does nothing more if we closed before.                       *)
SendCloses(s) ==
  /\ sendTask[s] = "close"
  /\ IF link = "up" /\ ws[s] \in {"active", "closedByPeer"}
     THEN /\ Len(wire[Peer(s)]) < WireCap
          /\ wire' = [wire EXCEPT ![Peer(s)] = Append(@, CloseFrame)]
          /\ ws' = [ws EXCEPT ![s] = IF @ = "active" THEN "closedByUs" ELSE "acked"]
     ELSE UNCHANGED <<wire, ws>>
  /\ queue' = [queue EXCEPT ![s] = <<>>]
  /\ sendTask' = [sendTask EXCEPT ![s] = "ended"]
  /\ Deregisters(s)
  /\ UNCHANGED <<link, read, writing, recvTask, held, listening, keepalive,
                 accepted, promised>>

-----------------------------------------------------------------------------
(* The receive task of side s.                                             *)

(* A message for a program that no longer listens ends the client's task;  *)
(* the server's drops it and goes on.                                      *)
ReceiveData(s) ==
  /\ recvTask[s] = "next"
  /\ wire[s] # <<>> /\ Head(wire[s]) # CloseFrame
  /\ wire' = [wire EXCEPT ![s] = Tail(@)]
  /\ IF s = "client" /\ ~listening
     THEN recvTask' = [recvTask EXCEPT ![s] = "unheard"] /\ UNCHANGED read
     ELSE /\ read' = IF Head(wire[s]) = Ping THEN read
                     ELSE [read EXCEPT ![s] = Append(@, Head(wire[s]))]
          /\ UNCHANGED recvTask
  /\ UNCHANGED <<link, ws, queue, writing, sendTask, holders, accepted, promised>>

(* Mutant: the entry is left to the send task.                             *)
ReceiveLeavesEntry(s, reason) ==
  /\ recvTask[s] = "next"
  /\ recvTask' = [recvTask EXCEPT ![s] = reason]
  /\ UNCHANGED <<link, read, queue, writing, sendTask, holders, accepted, promised>>

ReceiveEnds(s, reason) ==
  /\ recvTask[s] = "next"
  /\ recvTask' = [recvTask EXCEPT ![s] = reason]
  /\ Deregisters(s)
  /\ UNCHANGED <<link, read, queue, writing, sendTask, held, listening, keepalive,
                 accepted, promised>>

ReceiveClose(s) ==
  /\ wire[s] # <<>> /\ Head(wire[s]) = CloseFrame
  /\ wire' = [wire EXCEPT ![s] = Tail(@)]
  /\ ws' = [ws EXCEPT ![s] = IF @ = "active" THEN "closedByPeer" ELSE "acked"]
  /\ ReceiveEnds(s, "closeFrame")

(* The stream ends without a close frame.                                  *)
ReceiveError(s) ==
  /\ wire[s] = <<>>
  /\ link = "gone" \/ SocketClosed(Peer(s))
  /\ UNCHANGED <<wire, ws>>
  /\ ReceiveEnds(s, "broken")

-----------------------------------------------------------------------------
(* TCP.                                                                    *)

(* What was under way arrives up to some point, if at all.                 *)
Breaks ==
  /\ link = "up"
  /\ link' = "gone"
  /\ \E kept \in [Sides -> 0 .. WireCap] :
       /\ \A s \in Sides : kept[s] <= Len(wire[s])
       /\ wire' = [s \in Sides |-> SubSeq(wire[s], 1, kept[s])]
  /\ UNCHANGED <<ws, read, queue, tasks, holders, accepted, promised>>

(* A socket that is closed while data for it is unread, or comes later,    *)
(* resets the connection.                                                  *)
Resets(s) == SocketClosed(s) /\ wire[s] # <<>> /\ Breaks

-----------------------------------------------------------------------------
TaskNext(s) ==
  \/ SendTakes(s) \/ SendWrites(s) \/ SendFails(s) \/ SendDrained(s)
  \/ SendCloses(s) \/ ReceiveData(s) \/ ReceiveClose(s) \/ ReceiveError(s)

ProgramNext ==
  \/ \E s \in Sides : SendMessage(s)
  \/ ServerAsksToClose \/ ServerPings \/ ServerDropsInterface
  \/ ClientCloses \/ ClientCloseReturns

Next ==
  \/ ProgramNext \/ Breaks
  \/ \E s \in Sides : TaskNext(s) \/ Resets(s)

Safety == Init /\ [][Next]_vars

(* Tasks that can go on do, the periodic sender keeps sending, an          *)
(* application whose client is gone drops its interface, and a program     *)
(* whose stream has ended closes.                                          *)
Fairness ==
  /\ \A s \in Sides :
       /\ WF_vars(SendTakes(s)) /\ WF_vars(SendWrites(s)) /\ WF_vars(SendFails(s))
       /\ WF_vars(SendDrained(s)) /\ WF_vars(SendCloses(s))
       /\ WF_vars(ReceiveData(s)) /\ WF_vars(ReceiveClose(s))
       /\ WF_vars(ReceiveError(s)) /\ WF_vars(Resets(s))
  /\ SF_vars(ServerPings) /\ WF_vars(ServerDropsInterface)
  /\ WF_vars(recvTask["client"] # "next" /\ ClientCloses)
  /\ WF_vars(ClientCloseReturns)

Spec == Safety /\ Fairness

-----------------------------------------------------------------------------
(* A side that is closed by its peer, without having closed itself, has    *)
(* read all the peer's program handed over before it asked for the close:  *)
(* dropping the sender, draining the channel, the close frame and the end  *)
(* of the receive task come in the right order through both programs.      *)
ClosedByPeerHasReadAll ==
  \A s \in Sides :
    ws[s] = "closedByPeer" =>
      /\ Len(read[s]) >= promised[Peer(s)]
      /\ \A k \in 1 .. Len(read[s]) : read[s][k] = k

(* As long as the connection holds neither side sees it end without a      *)
(* close frame: the last task to let go of a socket never forgets the      *)
(* close, nor the reply to the peer's.                                     *)
NoAbruptEnd == link = "up" => \A s \in Sides : recvTask[s] # "broken"

(* No order in which the two sides close, or answer the other's close,     *)
(* resets the connection: a socket is closed over what it has not read     *)
(* only if the client's program gave up its receiver and data still came.  *)
OnlyUnheardDataResets ==
  link = "up" =>
    \A s \in Sides :
      SocketClosed(s) /\ wire[s] # <<>> => s = "client" /\ recvTask[s] = "unheard" /\ ~listening

(* Once either side asks for the close, or the connection breaks, both     *)
(* sockets are closed and the server forgets the client.                   *)
SessionEnds ==
  ~held["client"] \/ CloseQueued("server") \/ link = "gone"
    ~> SocketClosed("client") /\ SocketClosed("server") /\ ~registered
=============================================================================
