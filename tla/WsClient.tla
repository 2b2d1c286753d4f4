------------------------------- MODULE WsClient -------------------------------
(***************************************************************************)
(* WebSocketClient (ws-rs/src/client.rs): the retry loop of connect, the   *)
(* two tasks of a connection, close, reconnect, and connections that are   *)
(* replaced or dropped while their tasks still run.                        *)
(*                                                                         *)
(* The program owns one client and makes one call at a time (connect,      *)
(* close, reconnect and the receive calls take &mut self).  Each           *)
(* successful attempt makes a connection with its own channels and tasks;  *)
(* the struct keeps at most the halves of the last one.  The server and    *)
(* the network are external.  Outgoing messages are counted; incoming data *)
(* frames are numbered, because their order and loss matter.               *)
(***************************************************************************)
EXTENDS Naturals, Sequences, FiniteSets

CONSTANTS
  AutoReconnect,  \* WSClientConfig.auto_reconnect
  MaxReconnects,  \* WSClientConfig.max_reconnect_attempts
  Capacity,       \* WSClientConfig.channel_capacity
  MaxConns,       \* bound on the connections made
  MaxSends,       \* bound on the messages accepted per connection
  MaxFrames       \* bound on the data frames of the server per connection

ASSUME AutoReconnectAssumption == AutoReconnect \in BOOLEAN
ASSUME MaxReconnectsAssumption == MaxReconnects \in Nat
ASSUME CapacityAssumption == Capacity \in Nat \ {0}
ASSUME BoundsAssumption ==
  MaxConns \in Nat /\ MaxSends \in Nat /\ MaxFrames \in Nat

VARIABLES
  client,   \* the fields of the struct that change
  call,     \* the call in progress
  result,   \* what the last finished call returned
  made,     \* how many connections have been made
  conn      \* the connections, by their number: network, channels, tasks

vars == <<client, call, result, made, conn>>

-----------------------------------------------------------------------------
Conns == 1 .. MaxConns
NoConn == 0
Frames == 1 .. MaxFrames         \* data frames, numbered by the server
ControlFrame == 0                \* a ping, a pong or a raw frame
CloseFrame == MaxFrames + 1

(* sender, receiver, wsHandle: the connection whose half is held.  params: *)
(* connect has saved server_url and cert_paths.                            *)
Client ==
  [isConnected : BOOLEAN, params : BOOLEAN, sender : Conns \cup {NoConn},
   receiver : Conns \cup {NoConn}, wsHandle : Conns \cup {NoConn}]

(* at: where the call stands.  attempt: current_attempt.  tries, pauses    *)
(* (history): the attempts of this connect, and the sleeps of              *)
(* reconnect_delay since the last of them.                                 *)
Call ==
  [at : {"idle", "attempt", "innerDelay", "outerDelay", "await",
         "awaitThenConnect", "dropped"},
   attempt : 0 .. MaxReconnects, tries : 0 .. MaxReconnects + 1, pauses : 0 .. 2]

(* ws: tungstenite's state.  queued: messages in the outgoing channel.     *)
(* rxQ: the incoming channel.  hand: the frame the receive task delivers.  *)
(* inbound: what the server has sent.  accepted, written, received         *)
(* (history): messages that send_message queued, that were written, and    *)
(* frames the program has got.                                             *)
Connection ==
  [link : {"up", "gone"}, ws : {"active", "closed"},
   queued : 0 .. Capacity, rxQ : Seq(Frames),
   sendTask : {"none", "recv", "write", "close", "ended"},
   recvTask : {"none", "next", "deliver", "ended"},
   hand : 0 .. MaxFrames,
   inbound : Seq(0 .. MaxFrames + 1),
   sent : 0 .. MaxFrames,
   accepted : 0 .. MaxSends, written : 0 .. MaxSends, received : Seq(Frames)]

TypeOK ==
  /\ client \in Client
  /\ call \in Call
  /\ result \in {"pending", "ok", "err", "none", "true", "false"}
  /\ made \in 0 .. MaxConns
  /\ conn \in [Conns -> Connection]
  /\ \A g \in Conns : Len(conn[g].rxQ) <= Capacity

NewConnection ==
  [link |-> "up", ws |-> "active", queued |-> 0, rxQ |-> <<>>,
   sendTask |-> "recv", recvTask |-> "next", hand |-> 0, inbound |-> <<>>,
   sent |-> 0, accepted |-> 0, written |-> 0, received |-> <<>>]

Init ==
  /\ client = [isConnected |-> FALSE, params |-> FALSE, sender |-> NoConn,
               receiver |-> NoConn, wsHandle |-> NoConn]
  /\ call = [at |-> "idle", attempt |-> 0, tries |-> 0, pauses |-> 0]
  /\ result = "pending"
  /\ made = 0
  /\ conn = [g \in Conns |-> [NewConnection EXCEPT !.sendTask = "none",
                                                   !.recvTask = "none"]]

Idle == [at |-> "idle", attempt |-> 0, tries |-> 0, pauses |-> 0]

FirstAttempt == [Idle EXCEPT !.at = "attempt"]

Returns(r) == call' = Idle /\ result' = r

-----------------------------------------------------------------------------
(* connect.                                                                *)

Connect ==
  /\ call.at = "idle"
  /\ made < MaxConns
  /\ client' = [client EXCEPT !.params = TRUE]
  /\ call' = FirstAttempt
  /\ result' = "pending"
  /\ UNCHANGED <<made, conn>>

(* create_tls_config or the request headers fail: connect does not retry.  *)
AttemptRejected ==
  /\ call.at = "attempt"
  /\ Returns("err")
  /\ UNCHANGED <<client, made, conn>>

(* Mutant: off by one.                                                     *)
MayRetryOnceMore == AutoReconnect /\ call.attempt <= MaxReconnects

MayRetry == AutoReconnect /\ call.attempt < MaxReconnects

(* The server refuses, the handshake fails or connection_timeout passes.   *)
AttemptFails ==
  /\ call.at = "attempt"
  /\ IF MayRetry
     THEN /\ call' = [call EXCEPT !.at = "innerDelay", !.tries = @ + 1,
                                  !.pauses = 0]
          /\ UNCHANGED result
     ELSE Returns("err")
  /\ UNCHANGED <<client, made, conn>>

(* connect_internal sleeps before it returns __RETRY_CONNECTION_<n>.       *)
InnerDelay ==
  /\ call.at = "innerDelay"
  /\ call' = [call EXCEPT !.at = "outerDelay", !.attempt = @ + 1,
                          !.pauses = @ + 1]
  /\ UNCHANGED <<client, result, made, conn>>

(* connect sleeps when it has parsed the attempt number from that error.   *)
OuterDelay ==
  /\ call.at = "outerDelay"
  /\ call' = [call EXCEPT !.at = "attempt", !.pauses = @ + 1]
  /\ UNCHANGED <<client, result, made, conn>>

(* The halves of an earlier connection are replaced: its sender and        *)
(* receiver are dropped and its handle is detached.                        *)
AttemptSucceeds ==
  /\ call.at = "attempt"
  /\ made < MaxConns
  /\ made' = made + 1
  /\ conn' = [conn EXCEPT ![made + 1] = NewConnection]
  /\ client' = [client EXCEPT !.isConnected = TRUE, !.sender = made + 1,
                              !.receiver = made + 1, !.wsHandle = made + 1]
  /\ Returns("ok")

-----------------------------------------------------------------------------
(* close, reconnect and Drop.                                              *)

(* A call of close, or of reconnect, which closes only when is_connected.  *)
Close ==
  /\ call.at = "idle"
  /\ client' = [client EXCEPT !.sender = NoConn]
  /\ call' = [Idle EXCEPT !.at = "await"]
  /\ result' = "pending"
  /\ UNCHANGED <<made, conn>>

Reconnect ==
  /\ call.at = "idle"
  /\ made < MaxConns
  /\ IF ~client.params THEN Returns("err") /\ UNCHANGED client
     ELSE /\ result' = "pending"
          /\ IF client.isConnected
             THEN /\ client' = [client EXCEPT !.sender = NoConn]
                  /\ call' = [Idle EXCEPT !.at = "awaitThenConnect"]
             ELSE UNCHANGED client /\ call' = FirstAttempt
  /\ UNCHANGED <<made, conn>>

(* Mutant: the handle joins the two tasks.                                 *)
HandleJoins(g) == conn[g].sendTask = "ended" /\ conn[g].recvTask = "ended"

(* The handle ends with the first of the two tasks.                        *)
HandleEnds(g) == conn[g].sendTask = "ended" \/ conn[g].recvTask = "ended"

CloseReturns ==
  /\ call.at \in {"await", "awaitThenConnect"}
  /\ client.wsHandle # NoConn => HandleEnds(client.wsHandle)
  /\ client' = [client EXCEPT !.wsHandle = NoConn, !.receiver = NoConn,
                              !.isConnected = FALSE]
  /\ IF call.at = "await" THEN Returns("ok")
                          ELSE call' = FirstAttempt /\ UNCHANGED result
  /\ UNCHANGED <<made, conn>>

DropClient ==
  /\ call.at = "idle"
  /\ client' = [client EXCEPT !.sender = NoConn, !.receiver = NoConn,
                              !.wsHandle = NoConn]
  /\ call' = [Idle EXCEPT !.at = "dropped"]
  /\ result' = "pending"
  /\ UNCHANGED <<made, conn>>

-----------------------------------------------------------------------------
(* Sending and receiving.                                                  *)

(* Mutant: an unbounded channel.                                           *)
QueuesUnbounded(g) ==
  /\ conn[g].sendTask # "ended"
  /\ conn[g].accepted < MaxSends
  /\ conn' = [conn EXCEPT ![g].queued = @ + 1, ![g].accepted = @ + 1]

(* sender.send waits for room; it fails once the send task has ended.      *)
Queues(g) ==
  /\ conn[g].sendTask # "ended"
  /\ conn[g].queued < Capacity
  /\ conn[g].accepted < MaxSends
  /\ conn' = [conn EXCEPT ![g].queued = @ + 1, ![g].accepted = @ + 1]

Refused(g) ==
  /\ g # NoConn => conn[g].sendTask = "ended"
  /\ UNCHANGED conn

(* send_message, send_text, send_binary and ping.                          *)
SendMessage ==
  /\ call.at = "idle"
  /\ \/ client.sender # NoConn /\ Queues(client.sender) /\ result' = "ok"
     \/ Refused(client.sender) /\ result' = "err"
  /\ UNCHANGED <<client, call, made>>

CheckConnection ==
  /\ call.at = "idle"
  /\ \/ ~client.isConnected /\ UNCHANGED conn /\ result' = "false"
     \/ /\ client.isConnected
        /\ \/ client.sender # NoConn /\ Queues(client.sender) /\ result' = "true"
           \/ Refused(client.sender) /\ result' = "false"
  /\ UNCHANGED <<client, call, made>>

(* receive_message, or receive_message_timeout before its deadline; when   *)
(* that passes nothing changes.                                            *)
ReceiveMessage ==
  /\ call.at = "idle"
  /\ client.receiver # NoConn
  /\ conn[client.receiver].rxQ # <<>>
  /\ conn' = [conn EXCEPT ![client.receiver].rxQ = Tail(@),
                          ![client.receiver].received =
                             Append(@, Head(conn[client.receiver].rxQ))]
  /\ result' = "ok"
  /\ UNCHANGED <<client, call, made>>

ReceiveNone ==
  /\ call.at = "idle"
  /\ client.receiver # NoConn =>
       /\ conn[client.receiver].rxQ = <<>>
       /\ conn[client.receiver].recvTask = "ended"
  /\ result' = "none"
  /\ UNCHANGED <<client, call, made, conn>>

-----------------------------------------------------------------------------
(* The send task of connection g.                                          *)

SendTakes(g) ==
  /\ conn[g].sendTask = "recv"
  /\ conn[g].queued > 0
  /\ conn' = [conn EXCEPT ![g].queued = @ - 1, ![g].sendTask = "write"]
  /\ UNCHANGED <<client, call, result, made>>

SendWrites(g) ==
  /\ conn[g].sendTask = "write"
  /\ conn[g].link = "up" /\ conn[g].ws = "active"
  /\ conn' = [conn EXCEPT ![g].written = @ + 1, ![g].sendTask = "recv"]
  /\ UNCHANGED <<client, call, result, made>>

(* Mutant: a failed send is logged and the loop goes on.                   *)
SendFailureIgnored(g) ==
  /\ conn[g].sendTask = "write"
  /\ conn[g].link = "gone" \/ conn[g].ws = "closed"
  /\ conn' = [conn EXCEPT ![g].sendTask = "recv"]
  /\ UNCHANGED <<client, call, result, made>>

SendFails(g) ==
  /\ conn[g].sendTask = "write"
  /\ conn[g].link = "gone" \/ conn[g].ws = "closed"
  /\ conn' = [conn EXCEPT ![g].sendTask = "close"]
  /\ UNCHANGED <<client, call, result, made>>

(* Mutant: the task stops at once when the sender is dropped.              *)
SendStops(g) ==
  /\ conn[g].sendTask = "recv"
  /\ client.sender # g
  /\ conn' = [conn EXCEPT ![g].sendTask = "close"]
  /\ UNCHANGED <<client, call, result, made>>

(* Mutant: only close() ends the task, not the replacement of its sender.  *)
SendDrainedByClose(g) ==
  /\ conn[g].sendTask = "recv"
  /\ conn[g].queued = 0
  /\ client.sender = NoConn
  /\ conn' = [conn EXCEPT ![g].sendTask = "close"]
  /\ UNCHANGED <<client, call, result, made>>

(* rx_sender.recv() yields None: the sender is dropped and all is written. *)
SendDrained(g) ==
  /\ conn[g].sendTask = "recv"
  /\ conn[g].queued = 0
  /\ client.sender # g
  /\ conn' = [conn EXCEPT ![g].sendTask = "close"]
  /\ UNCHANGED <<client, call, result, made>>

(* ws_sender.close(): the task ends, and with it the channel.              *)
SendCloses(g) ==
  /\ conn[g].sendTask = "close"
  /\ conn' = [conn EXCEPT ![g].ws = "closed", ![g].queued = 0,
                          ![g].sendTask = "ended"]
  /\ UNCHANGED <<client, call, result, made>>

-----------------------------------------------------------------------------
(* The receive task of connection g.                                       *)

ReceiveFrame(g) ==
  /\ conn[g].recvTask = "next"
  /\ conn[g].inbound # <<>>
  /\ LET frame == Head(conn[g].inbound)
         read == [conn EXCEPT ![g].inbound = Tail(@)]
     IN  \/ /\ frame \in Frames
            /\ conn' = [read EXCEPT ![g].hand = frame, ![g].recvTask = "deliver"]
         \/ frame = ControlFrame /\ conn' = read
         \/ /\ frame = CloseFrame
            /\ conn' = [read EXCEPT ![g].ws = "closed", ![g].recvTask = "ended"]
  /\ UNCHANGED <<client, call, result, made>>

(* ws_receiver.next() yields an error, or None on a connection that is     *)
(* closed in both directions.                                              *)
ReceiveError(g) ==
  /\ conn[g].recvTask = "next"
  /\ conn' = [conn EXCEPT ![g].recvTask = "ended"]
  /\ UNCHANGED <<client, call, result, made>>

(* Mutant: a frame that finds the channel full is dropped (try_send).      *)
ReceiveTriesToDeliver(g) ==
  /\ conn[g].recvTask = "deliver"
  /\ conn' = [conn EXCEPT ![g].rxQ = IF Len(@) < Capacity
                                     THEN Append(@, conn[g].hand) ELSE @,
                          ![g].hand = 0, ![g].recvTask = "next"]
  /\ UNCHANGED <<client, call, result, made>>

(* Mutant: the wait for room does not notice that the receiver is dropped. *)
ReceiveWaitsForRoom(g) ==
  /\ conn[g].recvTask = "deliver"
  /\ Len(conn[g].rxQ) < Capacity
  /\ conn' = [conn EXCEPT ![g].rxQ = Append(@, conn[g].hand),
                          ![g].hand = 0, ![g].recvTask = "next"]
  /\ UNCHANGED <<client, call, result, made>>

(* tx_receiver.send: waits for room, fails when the receiver is dropped.   *)
ReceiveDelivers(g) ==
  /\ conn[g].recvTask = "deliver"
  /\ \/ /\ client.receiver = g
        /\ Len(conn[g].rxQ) < Capacity
        /\ conn' = [conn EXCEPT ![g].rxQ = Append(@, conn[g].hand),
                                ![g].hand = 0, ![g].recvTask = "next"]
     \/ /\ client.receiver # g
        /\ conn' = [conn EXCEPT ![g].hand = 0, ![g].recvTask = "ended"]
  /\ UNCHANGED <<client, call, result, made>>

-----------------------------------------------------------------------------
(* The server and the network.                                             *)

ServerMaySend(g) ==
  /\ g <= made
  /\ conn[g].link = "up"
  /\ \A k \in 1 .. Len(conn[g].inbound) : conn[g].inbound[k] # CloseFrame

ServerSendsData(g) ==
  /\ ServerMaySend(g)
  /\ conn[g].ws = "active"
  /\ conn[g].sent < MaxFrames
  /\ conn' = [conn EXCEPT ![g].sent = @ + 1,
                          ![g].inbound = Append(@, conn[g].sent + 1)]
  /\ UNCHANGED <<client, call, result, made>>

ServerSendsControl(g) ==
  /\ ServerMaySend(g)
  /\ conn[g].ws = "active"
  /\ conn[g].inbound = <<>>
  /\ conn' = [conn EXCEPT ![g].inbound = <<ControlFrame>>]
  /\ UNCHANGED <<client, call, result, made>>

(* The server closes, on its own or in answer to the client's close frame. *)
ServerCloses(g) ==
  /\ ServerMaySend(g)
  /\ conn[g].recvTask # "ended"
  /\ conn' = [conn EXCEPT ![g].inbound = Append(@, CloseFrame)]
  /\ UNCHANGED <<client, call, result, made>>

LinkBreaks(g) ==
  /\ g <= made
  /\ conn[g].link = "up"
  /\ conn' = [conn EXCEPT ![g].link = "gone"]
  /\ UNCHANGED <<client, call, result, made>>

-----------------------------------------------------------------------------
ConnectNext ==
  \/ Connect \/ AttemptRejected \/ AttemptFails \/ InnerDelay \/ OuterDelay
  \/ AttemptSucceeds

CloseNext == Close \/ Reconnect \/ CloseReturns \/ DropClient

UseNext == SendMessage \/ CheckConnection \/ ReceiveMessage \/ ReceiveNone

SendTaskNext(g) ==
  SendTakes(g) \/ SendWrites(g) \/ SendFails(g) \/ SendDrained(g) \/ SendCloses(g)

ReceiveTaskNext(g) == ReceiveFrame(g) \/ ReceiveError(g) \/ ReceiveDelivers(g)

ServerNext(g) ==
  \/ ServerSendsData(g) \/ ServerSendsControl(g) \/ ServerCloses(g)
  \/ LinkBreaks(g)

Next ==
  \/ ConnectNext \/ CloseNext \/ UseNext
  \/ \E g \in Conns : SendTaskNext(g) \/ ReceiveTaskNext(g) \/ ServerNext(g)

Safety == Init /\ [][Next]_vars

(* The client's own steps: the runtime polls its tasks and its timers      *)
(* fire, so an attempt ends at the latest with its timeout.  A lost link   *)
(* is noticed by a read.                                                   *)
ClientFairness ==
  /\ WF_vars(AttemptFails)
  /\ WF_vars(InnerDelay)
  /\ WF_vars(OuterDelay)
  /\ WF_vars(CloseReturns)
  /\ \A g \in Conns :
       /\ WF_vars(SendTakes(g))
       /\ WF_vars(SendFails(g))
       /\ WF_vars(SendDrained(g))
       /\ WF_vars(SendCloses(g))
       /\ WF_vars(ReceiveFrame(g))
       /\ WF_vars(conn[g].link = "gone" /\ ReceiveError(g))
       /\ WF_vars(ReceiveDelivers(g))

(* A server that reads what it is sent, so that writes complete, and that  *)
(* answers a close frame.                                                  *)
ServerFairness ==
  \A g \in Conns :
    /\ WF_vars(SendWrites(g))
    /\ WF_vars(conn[g].sendTask = "ended" /\ ServerCloses(g))

Spec == Safety /\ ClientFairness /\ ServerFairness

-----------------------------------------------------------------------------
(* The program gets the server's data frames in order and without a gap:   *)
(* the receive task waits for room and never drops one.                    *)
ReceivesWithoutGap ==
  \A g \in Conns :
    LET got == conn[g].received \o conn[g].rxQ
                 \o (IF conn[g].hand = 0 THEN <<>> ELSE <<conn[g].hand>>)
    IN  \A k \in 1 .. Len(got) : got[k] = k

(* At most Capacity + 1 messages that send_message accepted are never      *)
(* written: a program that keeps sending on a dead connection, or keeps    *)
(* asking check_connection, is told "true" that often and then no more.    *)
LossIsBounded ==
  \A g \in Conns : conn[g].accepted <= conn[g].written + Capacity + 1

(* A close that was not forestalled by the server or the network returns   *)
(* only when every message accepted before it has been written.            *)
CloseWritesEverything ==
  [][\A g \in Conns :
       /\ CloseReturns
       /\ client.wsHandle = g
       /\ conn[g].link = "up"
       /\ conn[g].recvTask # "ended"
       => conn[g].written = conn[g].accepted]_vars

(* A connect makes one attempt, and auto_reconnect at most                 *)
(* max_reconnect_attempts more.                                            *)
AttemptsAreBounded ==
  call.tries + (IF call.at = "attempt" THEN 1 ELSE 0)
    <= 1 + (IF AutoReconnect THEN MaxReconnects ELSE 0)

(* Connect and close come back, in whatever state the connection's tasks   *)
(* are, a receive task stuck on a full channel included.  Close relies on  *)
(* a server that reads what it is sent and answers a close frame, or on    *)
(* the loss of the link.                                                   *)
CallsReturn == call.at \notin {"idle", "dropped"} ~> call.at \in {"idle", "dropped"}

(* A connection the struct no longer holds - closed, replaced by another   *)
(* connect or dropped with the client - does not linger: both its tasks    *)
(* end, although nobody holds a handle to stop them.                       *)
AbandonedConnectionEnds ==
  \A g \in Conns :
    g <= made /\ client.sender # g /\ client.receiver # g
      ~> conn[g].sendTask = "ended" /\ conn[g].recvTask = "ended"

(* "Delay between reconnection attempts" (client.rs, reconnect_delay): one *)
(* delay is slept between two attempts.                                    *)
OneDelayBetweenAttempts == call.at = "attempt" => call.pauses <= 1
=============================================================================
