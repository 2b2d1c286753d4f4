--------------------------- MODULE ServerConnection ---------------------------
(***************************************************************************)
(* One established connection of the server (ws-rs/src/server.rs:          *)
(* start_message_tasks, ConnectionInterface) and the application tasks     *)
(* that ws_server/src/main.rs runs on it.                                  *)
(*                                                                         *)
(*   client --inbound--> receive task --appQ--> handler, reader            *)
(*   client <--(wire)--- send task <--txQ-- handler, reader, tickers       *)
(*                                                                         *)
(* Both queues are bounded mpsc channels.  The receive task drops a        *)
(* message that finds appQ full; a sender waits while txQ is full.  The    *)
(* handler (blocking) and the reader (every 500 ms) share the receiving    *)
(* half of appQ behind a FIFO mutex.  The WebSocket and TCP layers are     *)
(* external: a write succeeds, fails or blocks.  A frame is its position   *)
(* in the client's stream and its kind.                                    *)
(***************************************************************************)
EXTENDS Naturals, Sequences, FiniteSets

CONSTANTS
  AppCap,      \* capacity of the channel to the application (100)
  TxCap,       \* capacity of the channel to the client (100)
  Kinds,       \* the kinds of frames the client sends
  Tickers,     \* the periodic senders: "ping" (30 s), "status" (60 s)
  MaxFrames    \* bound on the frames the client sends before it closes

ASSUME AppCapAssumption == AppCap \in Nat \ {0}
ASSUME TxCapAssumption == TxCap \in Nat \ {0}
(* "request": text or binary data.  "urgent": text that starts with        *)
(* "URGENT:".  "control": a ping, pong or raw frame.                       *)
ASSUME KindsAssumption == Kinds \subseteq {"request", "urgent", "control"}
ASSUME TickersAssumption == Tickers \subseteq {"ping", "status"}
ASSUME MaxFramesAssumption == MaxFrames \in Nat

VARIABLES
  sent,        \* how many frames the client has sent, its close not counted
  inbound,     \* frames on their way from the client
  link,        \* "up", or "gone" once the TCP connection is lost
  ws,          \* tungstenite's view: "active"; "replying" when the client's
               \* close frame is read and the reply to it waits for a flush;
               \* "closed" when the server has sent its close frame
  recvTask,    \* "run", "remove" (cleanup pending) or "ended"
  sendTask,    \* "recv", "write", "close", "remove" or "ended"
  writing,     \* the message in the send task's hand
  registered,  \* the connection is in the ConnectionManager
  appQ, txQ,   \* the contents of the two channels
  rxLock,      \* tasks at the mutex around the receiving half of appQ; the
               \* head holds it, the others wait in order
  handler,     \* main.rs handle_connection_interface
  reader,      \* main.rs the non-blocking reader
  ticker,      \* main.rs the ping and the status task
  inHand,      \* the frame each consumer is answering
  delivered,   \* history: the frames the application took, in order
  answers      \* history: the answers written to the client, in order

taskVars == <<recvTask, sendTask, writing, registered>>
appVars == <<handler, reader, ticker, inHand, delivered, rxLock>>
netVars == <<sent, inbound, link, ws>>
vars == <<sent, inbound, link, ws, recvTask, sendTask, writing, registered,
          appQ, txQ, rxLock, handler, reader, ticker, inHand, delivered,
          answers>>

-----------------------------------------------------------------------------
Frame == [n : 1 .. MaxFrames, kind : Kinds]
CloseFrame == [n |-> 0, kind |-> "close"]
NoFrame == [n |-> 0, kind |-> "none"]

Consumers == {"handler", "reader"}

(* What the application sends: who sends it, and the frame it answers.     *)
Outgoing ==
  [from : {"welcome", "info"} \cup Tickers \cup Consumers, re : 0 .. MaxFrames]
Notice(who) == [from |-> who, re |-> 0]
Answer(who) == [from |-> who, re |-> inHand[who].n]
NoMessage == Notice("none")

TypeOK ==
  /\ sent \in 0 .. MaxFrames
  /\ inbound \in Seq(Frame \cup {CloseFrame})
  /\ link \in {"up", "gone"}
  /\ ws \in {"active", "replying", "closed"}
  /\ recvTask \in {"run", "remove", "ended"}
  /\ sendTask \in {"recv", "write", "close", "remove", "ended"}
  /\ writing \in Outgoing \cup {NoMessage}
  /\ registered \in BOOLEAN
  /\ appQ \in Seq(Frame) /\ Len(appQ) <= AppCap
  /\ txQ \in Seq(Outgoing) /\ Len(txQ) <= TxCap
  /\ rxLock \in {<<>>, <<"handler">>, <<"reader">>, <<"handler", "reader">>,
                 <<"reader", "handler">>}
  /\ handler \in {"welcome", "info", "spawn", "receive", "lock", "answer", "done"}
  /\ reader \in {"none", "tick", "try", "lock", "answer", "done"}
  /\ ticker \in [Tickers -> {"none", "tick", "send", "done"}]
  /\ inHand \in [Consumers -> Frame \cup {NoFrame}]
  /\ delivered \in Seq([frame : Frame, by : Consumers])
  /\ answers \in Seq(Outgoing)

Init ==
  /\ sent = 0
  /\ inbound = <<>>
  /\ link = "up"
  /\ ws = "active"
  /\ recvTask = "run"
  /\ sendTask = "recv"
  /\ writing = NoMessage
  /\ registered = TRUE
  /\ appQ = <<>> /\ txQ = <<>>
  /\ rxLock = <<>>
  /\ handler = "welcome"
  /\ reader = "none"
  /\ ticker = [t \in Tickers |-> "none"]
  /\ inHand = [c \in Consumers |-> NoFrame]
  /\ delivered = <<>>
  /\ answers = <<>>

-----------------------------------------------------------------------------
(* The client and the network.                                             *)

ClientSends(kind) ==
  /\ link = "up"
  /\ sent < MaxFrames
  /\ \A k \in 1 .. Len(inbound) : inbound[k] # CloseFrame
  /\ ws = "active"
  /\ sent' = sent + 1
  /\ inbound' = Append(inbound, [n |-> sent + 1, kind |-> kind])
  /\ UNCHANGED <<link, ws, taskVars, appQ, txQ, appVars, answers>>

ClientCloses ==
  /\ link = "up"
  /\ \A k \in 1 .. Len(inbound) : inbound[k] # CloseFrame
  /\ ws = "active"
  /\ inbound' = Append(inbound, CloseFrame)
  /\ UNCHANGED <<sent, link, ws, taskVars, appQ, txQ, appVars, answers>>

LinkBreaks ==
  /\ link = "up"
  /\ link' = "gone"
  /\ UNCHANGED <<sent, inbound, ws, taskVars, appQ, txQ, appVars, answers>>

-----------------------------------------------------------------------------
(* The receive task.                                                       *)

(* Mutant: one message is dropped too early, when the channel is nearly    *)
(* full.                                                                   *)
ReceiveDropsEarly ==
  /\ recvTask = "run"
  /\ inbound # <<>>
  /\ Head(inbound) # CloseFrame
  /\ inbound' = Tail(inbound)
  /\ appQ' = IF Len(appQ) + 1 < AppCap THEN Append(appQ, Head(inbound)) ELSE appQ
  /\ UNCHANGED <<sent, link, ws, taskVars, txQ, appVars, answers>>

(* try_send: a frame that finds the channel full is dropped.               *)
ReceiveFrame ==
  /\ recvTask = "run"
  /\ inbound # <<>>
  /\ Head(inbound) # CloseFrame
  /\ inbound' = Tail(inbound)
  /\ appQ' = IF Len(appQ) < AppCap THEN Append(appQ, Head(inbound)) ELSE appQ
  /\ UNCHANGED <<sent, link, ws, taskVars, txQ, appVars, answers>>

(* The loop breaks and does not read again: tungstenite has prepared the   *)
(* reply, and only the send task can still flush it.                       *)
ReceiveClose ==
  /\ recvTask = "run"
  /\ inbound # <<>>
  /\ Head(inbound) = CloseFrame
  /\ inbound' = Tail(inbound)
  /\ ws' = IF ws = "active" THEN "replying" ELSE ws
  /\ recvTask' = "remove"
  /\ UNCHANGED <<sent, link, sendTask, writing, registered, appQ, txQ, appVars,
                 answers>>

(* ws_receiver.next() fails: the link is lost, or a frame is malformed or  *)
(* too large.  The latter leaves the WebSocket open for writing.           *)
ReceiveError ==
  /\ recvTask = "run"
  /\ recvTask' = "remove"
  /\ UNCHANGED <<netVars, sendTask, writing, registered, appQ, txQ, appVars,
                 answers>>

ReceiveCleanup ==
  /\ recvTask = "remove"
  /\ recvTask' = "ended"
  /\ registered' = FALSE
  /\ UNCHANGED <<netVars, sendTask, writing, appQ, txQ, appVars, answers>>

-----------------------------------------------------------------------------
(* The send task.                                                          *)

SendTakes ==
  /\ sendTask = "recv"
  /\ txQ # <<>>
  /\ writing' = Head(txQ)
  /\ txQ' = Tail(txQ)
  /\ sendTask' = "write"
  /\ UNCHANGED <<netVars, recvTask, registered, appQ, appVars, answers>>

SendWrites ==
  /\ sendTask = "write"
  /\ link = "up" /\ ws = "active"
  /\ answers' = IF writing.from \in Consumers THEN Append(answers, writing)
                                              ELSE answers
  /\ writing' = NoMessage
  /\ sendTask' = "recv"
  /\ UNCHANGED <<netVars, recvTask, registered, appQ, txQ, appVars>>

(* Mutant: a failed send is logged and the loop goes on.                   *)
SendFailureIgnored ==
  /\ sendTask = "write"
  /\ link = "gone" \/ ws # "active"
  /\ writing' = NoMessage
  /\ sendTask' = "recv"
  /\ UNCHANGED <<netVars, recvTask, registered, appQ, txQ, appVars, answers>>

SendFails ==
  /\ sendTask = "write"
  /\ link = "gone" \/ ws # "active"
  /\ writing' = NoMessage
  /\ sendTask' = "close"
  /\ UNCHANGED <<netVars, recvTask, registered, appQ, txQ, appVars, answers>>

(* Mutant: the task ends without a close.                                  *)
SendSkipsClose ==
  /\ sendTask = "close"
  /\ sendTask' = "remove"
  /\ UNCHANGED <<netVars, recvTask, writing, registered, appQ, txQ, appVars,
                 answers>>

(* ws_sender.close() writes the server's close frame, or flushes the reply *)
(* that is pending; its outcome is ignored.                                *)
SendCloses ==
  /\ sendTask = "close"
  /\ ws' = "closed"
  /\ sendTask' = "remove"
  /\ UNCHANGED <<sent, inbound, link, recvTask, writing, registered, appQ, txQ,
                 appVars, answers>>

(* The interface is removed, and the future with the receiving half of txQ *)
(* is dropped: what was still queued is lost.                              *)
SendCleanup ==
  /\ sendTask = "remove"
  /\ registered' = FALSE
  /\ txQ' = <<>>
  /\ sendTask' = "ended"
  /\ UNCHANGED <<netVars, recvTask, writing, appQ, appVars, answers>>

-----------------------------------------------------------------------------
(* ConnectionInterface.                                                    *)

(* is_connected: the channel to the send task is open.                     *)
IsConnected == sendTask # "ended"

(* Mutant: an unbounded channel.                                           *)
QueuesUnbounded(m) ==
  /\ IsConnected
  /\ txQ' = Append(txQ, m)

(* send_message waits for room and queues m, or fails on a closed channel. *)
Queues(m) ==
  /\ IsConnected
  /\ Len(txQ) < TxCap
  /\ txQ' = Append(txQ, m)

SendRefused == ~IsConnected /\ UNCHANGED txQ

(* A consumer joins the queue of the mutex, in its first poll of lock().   *)
Locks(c) == rxLock' = Append(rxLock, c)

HoldsLock(c) == rxLock # <<>> /\ Head(rxLock) = c

(* The holder takes the first frame of the channel and unlocks.            *)
Takes(c) ==
  /\ HoldsLock(c)
  /\ appQ # <<>>
  /\ inHand' = [inHand EXCEPT ![c] = Head(appQ)]
  /\ delivered' = Append(delivered, [frame |-> Head(appQ), by |-> c])
  /\ appQ' = Tail(appQ)
  /\ rxLock' = Tail(rxLock)

(* recv() yields None only on an empty channel whose sending half, owned   *)
(* by the receive task, is gone.                                           *)
EndOfStream == appQ = <<>> /\ recvTask # "run"

-----------------------------------------------------------------------------
(* The connection handler.                                                 *)

HandlerNotice(at, next) ==
  /\ handler = at
  /\ Queues(Notice(at)) \/ SendRefused
  /\ handler' = next
  /\ UNCHANGED <<netVars, taskVars, appQ, rxLock, reader, ticker, inHand,
                 delivered, answers>>

SendsWelcome == HandlerNotice("welcome", "info")

SendsInfo == HandlerNotice("info", "spawn")

StartsBackgroundTasks ==
  /\ handler = "spawn"
  /\ handler' = "receive"
  /\ reader' = "tick"
  /\ ticker' = [t \in Tickers |-> "tick"]
  /\ UNCHANGED <<netVars, taskVars, appQ, txQ, rxLock, inHand, delivered, answers>>

HandlerLocks ==
  /\ handler = "receive"
  /\ Locks("handler")
  /\ handler' = "lock"
  /\ UNCHANGED <<netVars, taskVars, appQ, txQ, reader, ticker, inHand, delivered,
                 answers>>

(* receive_message yields a message; the lock was held until it came.      *)
HandlerReceives ==
  /\ handler = "lock"
  /\ Takes("handler")
  /\ handler' = "answer"
  /\ UNCHANGED <<netVars, taskVars, txQ, reader, ticker, answers>>

HandlerEnds ==
  /\ handler = "lock"
  /\ HoldsLock("handler")
  /\ EndOfStream
  /\ rxLock' = Tail(rxLock)
  /\ handler' = "done"
  /\ UNCHANGED <<netVars, taskVars, appQ, txQ, reader, ticker, inHand, delivered,
                 answers>>

(* Mutant: the answer is dropped when the channel is full (try_send).      *)
HandlerTriesToAnswer ==
  /\ handler = "answer"
  /\ \/ /\ IF Len(txQ) < TxCap THEN Queues(Answer("handler")) ELSE UNCHANGED txQ
        /\ handler' = "receive"
     \/ SendRefused /\ handler' = "done"
  /\ inHand' = [inHand EXCEPT !["handler"] = NoFrame]
  /\ UNCHANGED <<netVars, taskVars, appQ, rxLock, reader, ticker, delivered, answers>>

(* Every message of any kind is answered; a failed send ends the handler.  *)
HandlerAnswers ==
  /\ handler = "answer"
  /\ \/ Queues(Answer("handler")) /\ handler' = "receive"
     \/ SendRefused /\ handler' = "done"
  /\ inHand' = [inHand EXCEPT !["handler"] = NoFrame]
  /\ UNCHANGED <<netVars, taskVars, appQ, rxLock, reader, ticker, delivered, answers>>

-----------------------------------------------------------------------------
(* The non-blocking reader.                                                *)

ReaderTick ==
  /\ reader = "tick"
  /\ reader' = IF IsConnected THEN "try" ELSE "done"
  /\ UNCHANGED <<netVars, taskVars, appQ, txQ, rxLock, handler, ticker, inHand,
                 delivered, answers>>

ReaderLocks ==
  /\ reader = "try"
  /\ Locks("reader")
  /\ reader' = "lock"
  /\ inHand' = [inHand EXCEPT !["reader"] = NoFrame]
  /\ UNCHANGED <<netVars, taskVars, appQ, txQ, handler, ticker, delivered, answers>>

(* Mutant: what is not urgent goes back to the end of the channel.         *)
ReaderPutsBack ==
  /\ reader = "lock"
  /\ IF appQ # <<>> /\ Head(appQ).kind # "urgent"
     THEN /\ HoldsLock("reader")
          /\ appQ' = Append(Tail(appQ), Head(appQ))
          /\ rxLock' = Tail(rxLock)
          /\ reader' = "tick"
          /\ UNCHANGED <<inHand, delivered>>
     ELSE Takes("reader") /\ reader' = "answer"
  /\ UNCHANGED <<netVars, taskVars, txQ, handler, ticker, answers>>

(* Mutant: the reader answers an urgent message without taking it out.     *)
ReaderPeeks ==
  /\ reader = "lock"
  /\ HoldsLock("reader")
  /\ appQ # <<>>
  /\ Head(appQ).kind = "urgent"
  /\ inHand' = [inHand EXCEPT !["reader"] = Head(appQ)]
  /\ rxLock' = Tail(rxLock)
  /\ reader' = "answer"
  /\ UNCHANGED <<netVars, taskVars, appQ, txQ, handler, ticker, delivered, answers>>

(* try_receive_message yields a message; only an urgent one is answered.   *)
ReaderReceives ==
  /\ reader = "lock"
  /\ Takes("reader")
  /\ reader' = IF Head(appQ).kind = "urgent" THEN "answer" ELSE "try"
  /\ UNCHANGED <<netVars, taskVars, txQ, handler, ticker, answers>>

ReaderFindsNone ==
  /\ reader = "lock"
  /\ HoldsLock("reader")
  /\ appQ = <<>>
  /\ rxLock' = Tail(rxLock)
  /\ reader' = "tick"
  /\ UNCHANGED <<netVars, taskVars, appQ, txQ, handler, ticker, inHand, delivered,
                 answers>>

(* Mutant: an urgent message that finds no room for its answer is dropped. *)
ReaderTriesToAnswer ==
  /\ reader = "answer"
  /\ \/ IF Len(txQ) < TxCap THEN Queues(Answer("reader")) ELSE UNCHANGED txQ
     \/ SendRefused
  /\ reader' = "try"
  /\ UNCHANGED <<netVars, taskVars, appQ, rxLock, handler, ticker, inHand,
                 delivered, answers>>

ReaderAnswers ==
  /\ reader = "answer"
  /\ Queues(Answer("reader")) \/ SendRefused
  /\ reader' = "try"
  /\ UNCHANGED <<netVars, taskVars, appQ, rxLock, handler, ticker, inHand,
                 delivered, answers>>

-----------------------------------------------------------------------------
(* The ping and the status task.                                           *)

Tick(t) ==
  /\ ticker[t] = "tick"
  /\ ticker' = [ticker EXCEPT ![t] = IF IsConnected THEN "send" ELSE "done"]
  /\ UNCHANGED <<netVars, taskVars, appQ, txQ, rxLock, handler, reader, inHand,
                 delivered, answers>>

TickSends(t) ==
  /\ ticker[t] = "send"
  /\ \/ Queues(Notice(t)) /\ ticker' = [ticker EXCEPT ![t] = "tick"]
     \/ SendRefused /\ ticker' = [ticker EXCEPT ![t] = "done"]
  /\ UNCHANGED <<netVars, taskVars, appQ, rxLock, handler, reader, inHand,
                 delivered, answers>>

-----------------------------------------------------------------------------
ClientNext == (\E kind \in Kinds : ClientSends(kind)) \/ ClientCloses \/ LinkBreaks

ReceiveNext == ReceiveFrame \/ ReceiveClose \/ ReceiveError \/ ReceiveCleanup

SendNext == SendTakes \/ SendWrites \/ SendFails \/ SendCloses \/ SendCleanup

HandlerNext ==
  \/ SendsWelcome \/ SendsInfo \/ StartsBackgroundTasks
  \/ HandlerLocks \/ HandlerReceives \/ HandlerEnds \/ HandlerAnswers

ReaderNext ==
  ReaderTick \/ ReaderLocks \/ ReaderReceives \/ ReaderFindsNone \/ ReaderAnswers

TickerNext(t) == Tick(t) \/ TickSends(t)

Next ==
  \/ ClientNext \/ ReceiveNext \/ SendNext \/ HandlerNext \/ ReaderNext
  \/ \E t \in Tickers : TickerNext(t)

Safety == Init /\ [][Next]_vars

(* The runtime polls a task that can go on, and its mutexes and channels   *)
(* serve their waiters in order, so a waiter whose turn keeps coming gets  *)
(* it.  Nothing is assumed of the client, nor that a write to it ever      *)
(* completes; a lost link is noticed by a read and by a write.             *)
Fairness ==
  /\ WF_vars(ReceiveFrame)
  /\ WF_vars(ReceiveClose)
  /\ WF_vars(link = "gone" /\ ReceiveError)
  /\ WF_vars(ReceiveCleanup)
  /\ WF_vars(SendTakes)
  /\ WF_vars(SendFails)
  /\ WF_vars(link = "gone" /\ SendCloses)
  /\ WF_vars(SendCleanup)
  /\ WF_vars(SendsWelcome)
  /\ WF_vars(SendsInfo)
  /\ WF_vars(StartsBackgroundTasks)
  /\ WF_vars(HandlerLocks)
  /\ WF_vars(HandlerReceives)
  /\ WF_vars(HandlerEnds)
  /\ SF_vars(HandlerAnswers)
  /\ WF_vars(ReaderTick)
  /\ WF_vars(ReaderLocks)
  /\ WF_vars(ReaderReceives)
  /\ WF_vars(ReaderFindsNone)
  /\ SF_vars(ReaderAnswers)
  /\ \A t \in Tickers : WF_vars(Tick(t)) /\ SF_vars(TickSends(t))

Spec == Safety /\ Fairness

(* A client that reads what it is sent: writes and flushes complete.       *)
ReadingClientSpec == Spec /\ WF_vars(SendWrites) /\ WF_vars(SendCloses)

-----------------------------------------------------------------------------
Increasing(s) == \A j, k \in 1 .. Len(s) : j < k => s[j] < s[k]

(* What the application has taken and what still waits for it are frames   *)
(* of the client in the order it sent them, none twice, although two tasks *)
(* take them and some are dropped.                                         *)
DeliveryInOrder ==
  Increasing([k \in 1 .. Len(delivered) |-> delivered[k].frame.n]
             \o [k \in 1 .. Len(appQ) |-> appQ[k].n])

(* The frames on their way, and how many the receive task has read.        *)
FramesInbound ==
  Len(inbound) -
    (IF inbound # <<>> /\ inbound[Len(inbound)] = CloseFrame THEN 1 ELSE 0)
FramesRead == sent - FramesInbound

ToApplication ==
  INSTANCE Mailbox WITH
    Cap <- AppCap, offered <- FramesRead,
    box <- [k \in 1 .. Len(appQ) |-> appQ[k].n],
    taken <- [k \in 1 .. Len(delivered) |-> delivered[k].frame.n]

(* The channel to the application is a mailbox: the receive task drops a   *)
(* frame only when the channel is full at that moment (a closed channel,   *)
(* for which try_send fails too, has no reader left), and no sequence of   *)
(* blocking and non-blocking receives loses or repeats one.                *)
ImplementsMailbox == ToApplication!Spec

(* What has left for the client: written, being written and queued.        *)
Outbound ==
  answers \o (IF writing = NoMessage THEN <<>> ELSE <<writing>>) \o txQ

(* Each task's answers leave in the order of the requests, no request is   *)
(* answered twice, and only the task that took a request answers it.       *)
AnswersMatchRequests ==
  \A k \in 1 .. Len(Outbound) :
    Outbound[k].from \in Consumers =>
      /\ \E d \in 1 .. Len(delivered) :
           /\ delivered[d].frame.n = Outbound[k].re
           /\ delivered[d].by = Outbound[k].from
      /\ \A j \in 1 .. k - 1 :
           Outbound[j].from = Outbound[k].from => Outbound[j].re < Outbound[k].re

(* The reader sees no need to answer what is not urgent.                   *)
Unneeded(taken) == taken.by = "reader" /\ taken.frame.kind # "urgent"

Busy(c) == IF c = "handler" THEN handler = "answer" ELSE reader = "answer"

(* As long as no write has failed, every frame that a consumer has taken   *)
(* out of the channel is answered: the answer is written, being written or *)
(* queued, or the consumer is about to queue it.  Between the taking and   *)
(* the queuing, which waits for room and for the other senders, the frame  *)
(* is nowhere but in the hand of one task.                                 *)
TakenFramesAreAnswered ==
  sendTask \in {"recv", "write"} =>
    \A d \in 1 .. Len(delivered) :
      \/ Unneeded(delivered[d])
      \/ Busy(delivered[d].by) /\ inHand[delivered[d].by] = delivered[d].frame
      \/ \E k \in 1 .. Len(Outbound) :
           /\ Outbound[k].from = delivered[d].by
           /\ Outbound[k].re = delivered[d].frame.n

(* Nothing of a lost connection remains: all its tasks end, the entry is   *)
(* removed and the mutex is free.                                          *)
TornDown ==
  /\ recvTask = "ended" /\ sendTask = "ended" /\ ~registered
  /\ handler = "done" /\ reader = "done" /\ \A t \in Tickers : ticker[t] = "done"
  /\ rxLock = <<>>

(* A lost link is torn down completely, wherever the tasks stand when it   *)
(* breaks: none of them waits forever for the lock, for room in txQ or for *)
(* a message.                                                              *)
LostLinkIsTornDown == link = "gone" ~> TornDown

(* A client that closes gets the reply to its close frame and everything   *)
(* of its connection ends, although the receive task has stopped reading   *)
(* and the send task only learns of the close from its next write.         *)
ClosedClientIsTornDown == ws = "replying" ~> ws = "closed" /\ TornDown

Answered(n) == \E k \in 1 .. Len(answers) : answers[k].re = n

Swallowed(n) ==
  \E d \in 1 .. Len(delivered) :
    delivered[d].frame.n = n /\ Unneeded(delivered[d])

(* A frame that reached the application's channel is answered, unless the  *)
(* reader takes it and sees no need to, as long as the connection lasts    *)
(* and the client reads its answers: consumers that wait for each other,   *)
(* for the lock and for room in a full channel never get stuck.            *)
QueuedFramesAreAnswered ==
  \A n \in 1 .. MaxFrames :
    (\E k \in 1 .. Len(appQ) : appQ[k].n = n)
      ~> Answered(n) \/ Swallowed(n) \/ link = "gone" \/ ws # "active"

(* "It returns immediately with None if no message is available"           *)
(* (server.rs, try_receive_message): a call always comes back.             *)
TryReceiveReturns == reader = "lock" ~> reader # "lock"

(* "indicates that the client connection is still active" (server.rs,      *)
(* is_connected): the interface of a connection that the server has        *)
(* deregistered, and will not read from again, comes to say so.            *)
DeregisteredIsDisconnected == ~registered ~> ~IsConnected
=============================================================================
