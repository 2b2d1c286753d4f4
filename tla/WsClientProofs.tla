----------------------------- MODULE WsClientProofs -----------------------------
(***************************************************************************)
(* Proofs about WsClient for any capacity, number of retries, connections, *)
(* messages and frames: its types, ReceivesWithoutGap, AttemptsAreBounded, *)
(* LossIsBounded and CloseWritesEverything.                                *)
(***************************************************************************)
EXTENDS WsClient, TLAPS

(* Attempts are counted: every pause follows a failed attempt.             *)
CallInv ==
  /\ call.at = "innerDelay"
       => call.tries = call.attempt + 1 /\ call.attempt < MaxReconnects /\ call.pauses = 0
  /\ call.at = "outerDelay" => call.tries = call.attempt /\ call.pauses = 1
  /\ call.at \notin {"innerDelay", "outerDelay"} => call.tries = call.attempt
  /\ call.attempt > 0 \/ call.at \in {"innerDelay", "outerDelay"} => AutoReconnect

(* The outgoing half of a connection.  Nothing is lost before a write      *)
(* fails, which takes a lost link or the end of the other task; a send     *)
(* task that stops otherwise has written all, and gets no more.            *)
SendOK(c, isSender) ==
  /\ c.sendTask \in {"none", "recv"} => c.accepted = c.written + c.queued
  /\ c.sendTask = "write" => c.accepted = c.written + c.queued + 1
  /\ c.sendTask = "close" => c.written <= c.accepted /\ c.accepted <= c.written + c.queued + 1
  /\ c.sendTask = "ended" => c.written <= c.accepted /\ c.accepted <= c.written + Capacity + 1
  /\ c.ws = "closed" => c.recvTask = "ended" \/ c.sendTask = "ended"
  /\ c.sendTask \in {"close", "ended"} /\ c.link = "up" /\ c.recvTask # "ended"
       => c.written = c.accepted /\ c.queued = 0
  /\ c.sendTask = "close" /\ c.link = "up" /\ c.recvTask # "ended" => ~isSender

(* How many data frames the connection has read and kept.                  *)
Got(c) == Len(c.received) + Len(c.rxQ) + (IF c.hand = 0 THEN 0 ELSE 1)

Control(in) == IF in # <<>> /\ in[1] = ControlFrame THEN 1 ELSE 0
Closing(in) == IF in # <<>> /\ in[Len(in)] = CloseFrame THEN 1 ELSE 0

(* What is on its way to a connection that has read n data frames: perhaps *)
(* a control frame, then the data frames from n + 1 to the last sent, then *)
(* perhaps a close frame.                                                  *)
InboundOK(in, n, sent) ==
  /\ \A k \in 1 .. Len(in) :
       /\ in[k] = ControlFrame => k = 1
       /\ in[k] = CloseFrame => k = Len(in)
       /\ in[k] \in Frames => in[k] = n + k - Control(in)
  /\ sent = n + Len(in) - Control(in) - Closing(in)

(* The incoming half.                                                      *)
ReceiveOK(c) ==
  /\ \A k \in 1 .. Len(c.received) : c.received[k] = k
  /\ \A k \in 1 .. Len(c.rxQ) : c.rxQ[k] = Len(c.received) + k
  /\ c.recvTask = "deliver" <=> c.hand # 0
  /\ c.hand # 0 => c.hand = Len(c.received) + Len(c.rxQ) + 1
  /\ c.recvTask # "ended" => InboundOK(c.inbound, Got(c), c.sent)

ConnInv == \A g \in Conns : SendOK(conn[g], client.sender = g) /\ ReceiveOK(conn[g])

IInv == TypeOK /\ CallInv /\ ConnInv

(***************************************************************************)
(* Connections that do not change, or change in one half.                  *)
(***************************************************************************)

(* A step that leaves the connections alone and gives no connection a      *)
(* sender.                                                                 *)
LEMMA ConnsKeep ==
  ASSUME ConnInv, UNCHANGED conn, client'.sender \in {client.sender, NoConn}
  PROVE  ConnInv'
<1> SUFFICES ASSUME NEW g \in Conns
             PROVE  SendOK(conn[g], client'.sender = g) /\ ReceiveOK(conn[g])
  BY DEF ConnInv
<1>1. client'.sender = g => client.sender = g
  BY DEF Conns, NoConn
<1> QED BY <1>1 DEF ConnInv, SendOK

(* A step of connection g that makes a record of it that is right.         *)
LEMMA ConnChanges ==
  ASSUME IInv, NEW g \in Conns, NEW c \in Connection, Len(c.rxQ) <= Capacity,
         conn' = [conn EXCEPT ![g] = c],
         SendOK(c, client.sender = g), ReceiveOK(c),
         UNCHANGED <<client, call, made>>,
         result' \in {"pending", "ok", "err", "none", "true", "false"}
  PROVE  IInv'
<1>1. \A h \in Conns : conn'[h] = IF h = g THEN c ELSE conn[h]
  BY DEF IInv, TypeOK
<1>2. TypeOK'
  BY <1>1 DEF IInv, TypeOK
<1>3. CallInv'
  BY DEF IInv, CallInv
<1>4. ConnInv'
  BY <1>1 DEF IInv, ConnInv
<1> QED BY <1>2, <1>3, <1>4 DEF IInv

(* The other half of a record does not matter.                             *)
LEMMA ReceiveKeeps ==
  ASSUME NEW c, NEW d, ReceiveOK(c),
         d.received = c.received, d.rxQ = c.rxQ, d.hand = c.hand,
         d.recvTask = c.recvTask, d.inbound = c.inbound, d.sent = c.sent
  PROVE  ReceiveOK(d)
  BY DEF ReceiveOK, Got

LEMMA NewIsRight ==
  /\ NewConnection \in Connection
  /\ ReceiveOK(NewConnection)
  /\ SendOK(NewConnection, TRUE) /\ SendOK(NewConnection, FALSE)
<1>1. NewConnection \in Connection
  BY CapacityAssumption, BoundsAssumption DEF NewConnection, Connection, Frames
<1>2. ReceiveOK(NewConnection)
  BY DEF NewConnection, ReceiveOK, InboundOK, Got, Control, Closing
<1>3. SendOK(NewConnection, TRUE) /\ SendOK(NewConnection, FALSE)
  BY DEF NewConnection, SendOK
<1> QED BY <1>1, <1>2, <1>3

LEMMA InitIInv == Init => IInv
<1> SUFFICES ASSUME Init PROVE IInv
  OBVIOUS
<1> DEFINE c == [NewConnection EXCEPT !.sendTask = "none", !.recvTask = "none"]
<1>0. c \in Connection /\ c.rxQ = <<>> /\ SendOK(c, FALSE) /\ ReceiveOK(c)
  <2>1. c \in Connection /\ c.rxQ = <<>>
    BY NewIsRight DEF NewConnection, Connection
  <2>2. SendOK(c, FALSE)
    BY DEF NewConnection, SendOK
  <2>3. ReceiveOK(c)
    BY DEF NewConnection, ReceiveOK, InboundOK, Got, Control, Closing
  <2> QED BY <2>1, <2>2, <2>3
<1> HIDE DEF c
<1>1. conn = [g \in Conns |-> c]
  BY DEF Init, c
<1>2. TypeOK
  <2>1. client \in Client /\ result = "pending" /\ made \in 0 .. MaxConns
    BY BoundsAssumption DEF Init, Client, NoConn
  <2>2. call \in Call
    BY MaxReconnectsAssumption DEF Init, Call
  <2>3. conn \in [Conns -> Connection] /\ \A g \in Conns : Len(conn[g].rxQ) <= Capacity
    BY <1>0, <1>1, CapacityAssumption
  <2> QED BY <2>1, <2>2, <2>3 DEF TypeOK
<1>3. CallInv
  BY DEF Init, CallInv
<1>4. ConnInv
  <2> SUFFICES ASSUME NEW g \in Conns
               PROVE  SendOK(conn[g], client.sender = g) /\ ReceiveOK(conn[g])
    BY DEF ConnInv
  <2>1. conn[g] = c /\ ~(client.sender = g)
    BY <1>1 DEF Init, Conns, NoConn
  <2> QED BY <1>0, <2>1 DEF SendOK
<1> QED BY <1>2, <1>3, <1>4 DEF IInv

(***************************************************************************)
(* Calls.                                                                  *)
(***************************************************************************)

LEMMA CallChanges ==
  ASSUME call \in Call, NEW p \in {"attempt", "innerDelay", "outerDelay"},
         NEW a \in 0 .. MaxReconnects, NEW t \in 0 .. MaxReconnects + 1, NEW u \in 0 .. 2,
         call' = [call EXCEPT !.at = p, !.attempt = a, !.tries = t, !.pauses = u]
  PROVE  /\ call' \in Call
         /\ call'.at = p /\ call'.attempt = a /\ call'.tries = t /\ call'.pauses = u
  BY DEF Call

LEMMA CallsIInv ==
  ASSUME IInv,
         Connect \/ AttemptRejected \/ AttemptFails \/ InnerDelay \/ OuterDelay
           \/ CloseNext \/ ReceiveNone
  PROVE  IInv'
<1> USE MaxReconnectsAssumption DEF IInv
<1>0. client \in Client /\ call \in Call
  BY DEF TypeOK
<1>1. UNCHANGED <<made, conn>>
  BY DEF Connect, AttemptRejected, AttemptFails, InnerDelay, OuterDelay, CloseNext,
         Close, Reconnect, CloseReturns, DropClient, ReceiveNone
<1>2. client' \in Client /\ client'.sender \in {client.sender, NoConn}
  BY <1>0 DEF Connect, AttemptRejected, AttemptFails, InnerDelay, OuterDelay, CloseNext,
              Close, Reconnect, CloseReturns, DropClient, ReceiveNone, Client
<1>3. call' \in Call /\ CallInv'
  <2>1. CASE Connect
    BY <1>0, <2>1 DEF Connect, FirstAttempt, Idle, Call, CallInv
  <2>2. CASE AttemptRejected
    BY <1>0, <2>2 DEF AttemptRejected, Returns, Idle, Call, CallInv
  <2>3. CASE AttemptFails
    <3>1. CASE MayRetry
      <4>1. /\ call.attempt < MaxReconnects /\ AutoReconnect /\ call.tries = call.attempt
            /\ call.tries \in Nat /\ call.attempt \in 0 .. MaxReconnects
        BY <1>0, <2>3, <3>1 DEF AttemptFails, MayRetry, CallInv, Call
      <4>2. call' = [call EXCEPT !.at = "innerDelay", !.attempt = call.attempt,
                                 !.tries = call.tries + 1, !.pauses = 0]
        BY <1>0, <2>3, <3>1 DEF AttemptFails, Call
      <4>3. call.tries + 1 \in 0 .. MaxReconnects + 1 /\ 0 \in 0 .. 2
        BY <4>1
      <4>4. /\ call' \in Call /\ call'.at = "innerDelay" /\ call'.attempt = call.attempt
            /\ call'.tries = call.tries + 1 /\ call'.pauses = 0
        BY <1>0, <4>1, <4>2, <4>3, CallChanges, ZenonT(60)
      <4> QED BY <4>1, <4>4 DEF CallInv
    <3>2. CASE ~MayRetry
      BY <1>0, <2>3, <3>2 DEF AttemptFails, Returns, Idle, Call, CallInv
    <3> QED BY <3>1, <3>2
  <2>4. CASE InnerDelay
    <3>1. /\ call.attempt < MaxReconnects /\ AutoReconnect /\ call.tries = call.attempt + 1
          /\ call.pauses = 0 /\ call.attempt \in 0 .. MaxReconnects
          /\ call.tries \in 0 .. MaxReconnects + 1
      BY <1>0, <2>4 DEF InnerDelay, CallInv, Call
    <3>2. call' = [call EXCEPT !.at = "outerDelay", !.attempt = call.attempt + 1,
                               !.tries = call.tries, !.pauses = call.pauses + 1]
      BY <1>0, <2>4 DEF InnerDelay, Call
    <3>3. call.attempt + 1 \in 0 .. MaxReconnects /\ call.pauses + 1 \in 0 .. 2
      BY <3>1
    <3>4. /\ call' \in Call /\ call'.at = "outerDelay" /\ call'.attempt = call.attempt + 1
          /\ call'.tries = call.tries /\ call'.pauses = call.pauses + 1
      BY <1>0, <3>1, <3>2, <3>3 DEF Call
    <3> QED BY <3>1, <3>4 DEF CallInv
  <2>5. CASE OuterDelay
    <3>1. /\ AutoReconnect /\ call.tries = call.attempt
          /\ call.pauses = 1 /\ call.attempt \in 0 .. MaxReconnects
          /\ call.tries \in 0 .. MaxReconnects + 1
      BY <1>0, <2>5 DEF OuterDelay, CallInv, Call
    <3>2. call' = [call EXCEPT !.at = "attempt", !.attempt = call.attempt,
                               !.tries = call.tries, !.pauses = call.pauses + 1]
      BY <1>0, <2>5 DEF OuterDelay, Call
    <3>3. call.pauses + 1 \in 0 .. 2
      BY <3>1
    <3>4. /\ call' \in Call /\ call'.at = "attempt" /\ call'.attempt = call.attempt
          /\ call'.tries = call.tries /\ call'.pauses = call.pauses + 1
      BY <1>0, <3>1, <3>2, <3>3, CallChanges, ZenonT(60)
    <3> QED BY <3>1, <3>4 DEF CallInv
  <2>6. CASE Close
    BY <1>0, <2>6 DEF Close, Idle, Call, CallInv
  <2>7. CASE Reconnect
    BY <1>0, <2>7 DEF Reconnect, Returns, FirstAttempt, Idle, Call, CallInv
  <2>8. CASE CloseReturns
    BY <1>0, <2>8 DEF CloseReturns, Returns, FirstAttempt, Idle, Call, CallInv
  <2>9. CASE DropClient
    BY <1>0, <2>9 DEF DropClient, Idle, Call, CallInv
  <2>10. CASE ReceiveNone
    BY <1>0, <2>10 DEF ReceiveNone, CallInv
  <2> QED BY <2>1, <2>2, <2>3, <2>4, <2>5, <2>6, <2>7, <2>8, <2>9, <2>10 DEF CloseNext
<1>4. result' \in {"pending", "ok", "err", "none", "true", "false"}
  BY DEF Connect, AttemptRejected, AttemptFails, InnerDelay, OuterDelay, CloseNext,
         Close, Reconnect, CloseReturns, DropClient, ReceiveNone, Returns, TypeOK
<1>5. TypeOK'
  BY <1>1, <1>2, <1>3, <1>4 DEF TypeOK
<1>6. ConnInv'
  BY <1>1, <1>2, ConnsKeep
<1> QED BY <1>3, <1>5, <1>6

LEMMA AttemptSucceedsIInv == ASSUME IInv, AttemptSucceeds PROVE IInv'
<1> USE DEF AttemptSucceeds
<1>0. made + 1 \in Conns
  BY BoundsAssumption DEF IInv, TypeOK, Conns
<1>1. \A h \in Conns : conn'[h] = IF h = made + 1 THEN NewConnection ELSE conn[h]
  BY DEF IInv, TypeOK
<1>2. client' \in Client /\ client'.sender = made + 1
  BY <1>0 DEF IInv, TypeOK, Client
<1>3. call' \in Call /\ CallInv' /\ result' = "ok"
  BY MaxReconnectsAssumption DEF Returns, Idle, Call, CallInv
<1>4. TypeOK'
  <2>1. conn' \in [Conns -> Connection]
    BY <1>0, NewIsRight DEF IInv, TypeOK
  <2>2. \A h \in Conns : Len(conn'[h].rxQ) <= Capacity
    BY <1>1, CapacityAssumption DEF IInv, TypeOK, NewConnection
  <2>3. made' \in 0 .. MaxConns
    BY BoundsAssumption DEF IInv, TypeOK
  <2> QED BY <1>2, <1>3, <2>1, <2>2, <2>3 DEF TypeOK
<1>5. ConnInv'
  <2> SUFFICES ASSUME NEW h \in Conns
               PROVE  SendOK(conn'[h], client'.sender = h) /\ ReceiveOK(conn'[h])
    BY DEF ConnInv
  <2>1. CASE h = made + 1
    BY <1>1, <1>2, <2>1, NewIsRight
  <2>2. CASE h # made + 1
    BY <1>1, <1>2, <2>2 DEF IInv, ConnInv, SendOK
  <2> QED BY <2>1, <2>2
<1> QED BY <1>3, <1>4, <1>5 DEF IInv

(***************************************************************************)
(* The outgoing half.                                                      *)
(***************************************************************************)

(* Connection g before a step.                                             *)
LEMMA ConnFacts ==
  ASSUME IInv, NEW g \in Conns
  PROVE  /\ conn[g] \in Connection /\ Len(conn[g].rxQ) <= Capacity
         /\ SendOK(conn[g], client.sender = g) /\ ReceiveOK(conn[g])
         /\ result \in {"pending", "ok", "err", "none", "true", "false"}
  BY DEF IInv, TypeOK, ConnInv

OutgoingNat(c) ==
  c.queued \in 0 .. Capacity /\ c.queued \in Nat /\ c.accepted \in Nat /\ c.written \in Nat

LEMMA Outgoing == ASSUME NEW c \in Connection PROVE OutgoingNat(c)
  BY CapacityAssumption, BoundsAssumption DEF Connection, OutgoingNat

SameIncoming(d, c) ==
  /\ d.received = c.received /\ d.rxQ = c.rxQ /\ d.hand = c.hand
  /\ d.recvTask = c.recvTask /\ d.inbound = c.inbound /\ d.sent = c.sent

(* A step that changes the outgoing half of connection g.                  *)
LEMMA SendStep ==
  ASSUME IInv, NEW g \in Conns, NEW c \in Connection, SameIncoming(c, conn[g]),
         conn' = [conn EXCEPT ![g] = c], SendOK(c, client.sender = g),
         UNCHANGED <<client, call, made>>,
         result' \in {result, "ok", "true"}
  PROVE  IInv'
<1>1. ReceiveOK(c) /\ Len(c.rxQ) <= Capacity
  BY ConnFacts, ReceiveKeeps DEF SameIncoming
<1>2. result' \in {"pending", "ok", "err", "none", "true", "false"}
  BY DEF IInv, TypeOK
<1> QED BY <1>1, <1>2, ConnChanges

LEMMA QueuesIInv ==
  ASSUME IInv, NEW g \in Conns, client.sender = g, Queues(g),
         UNCHANGED <<client, call, made>>, result' \in {"ok", "true"}
  PROVE  IInv'
<1> DEFINE old == conn[g]
           new == [old EXCEPT !.queued = @ + 1, !.accepted = @ + 1]
<1>1. old \in Connection /\ SendOK(old, TRUE)
  BY DEF IInv, TypeOK, ConnInv
<1>2. conn' = [conn EXCEPT ![g] = new]
  BY DEF Queues
<1>3. old.queued < Capacity /\ old.accepted < MaxSends /\ old.sendTask # "ended"
  BY DEF Queues
<1> HIDE DEF old
<1>4. OutgoingNat(old)
  BY <1>1, Outgoing
<1>5. old.queued + 1 \in 0 .. Capacity /\ old.accepted + 1 \in 0 .. MaxSends
  BY <1>3, <1>4, CapacityAssumption, BoundsAssumption DEF OutgoingNat
<1>6. /\ new \in Connection /\ SameIncoming(new, old)
      /\ new.queued = old.queued + 1 /\ new.accepted = old.accepted + 1
      /\ new.written = old.written /\ new.sendTask = old.sendTask /\ new.ws = old.ws
      /\ new.link = old.link /\ new.recvTask = old.recvTask
  BY <1>1, <1>5 DEF Connection, SameIncoming
<1> HIDE DEF new
<1>7. SendOK(new, TRUE)
  <2>1. old.sendTask \in {"none", "recv", "write", "close", "ended"}
    BY <1>1 DEF Connection
  <2>2. CASE new.sendTask \in {"none", "recv"}
    BY <1>1, <1>4, <1>6, <2>2 DEF SendOK, OutgoingNat
  <2>3. CASE new.sendTask = "write"
    BY <1>1, <1>4, <1>6, <2>3 DEF SendOK, OutgoingNat
  <2>4. CASE new.sendTask = "close"
    BY <1>1, <1>4, <1>6, <2>4 DEF SendOK, OutgoingNat
  <2> QED BY <1>3, <1>6, <2>1, <2>2, <2>3, <2>4
<1>8. SendOK(new, client.sender = g)
  BY <1>7 DEF SendOK
<1> QED BY <1>2, <1>6, <1>8, SendStep DEF old

LEMMA SendTakesIInv == ASSUME IInv, NEW g \in Conns, SendTakes(g) PROVE IInv'
<1> DEFINE old == conn[g]
           new == [old EXCEPT !.queued = @ - 1, !.sendTask = "write"]
<1>1. old \in Connection /\ SendOK(old, client.sender = g)
  BY ConnFacts
<1>2. conn' = [conn EXCEPT ![g] = new] /\ UNCHANGED <<client, call, result, made>>
  BY DEF SendTakes
<1>3. old.sendTask = "recv" /\ old.queued > 0
  BY DEF SendTakes
<1> HIDE DEF old
<1>4. OutgoingNat(old)
  BY <1>1, Outgoing
<1>5. old.queued - 1 \in 0 .. Capacity
  BY <1>1, <1>3, <1>4, CapacityAssumption, BoundsAssumption DEF Connection, SendOK
<1>6. /\ new \in Connection /\ SameIncoming(new, old)
      /\ new.accepted = old.accepted /\ new.link = old.link /\ new.recvTask = old.recvTask
      /\ new.queued = old.queued - 1 /\ new.written = old.written
      /\ new.sendTask = "write" /\ new.ws = old.ws
  BY <1>1, <1>5 DEF Connection, SameIncoming
<1> HIDE DEF new
<1>7. SendOK(new, client.sender = g)
  BY <1>1, <1>3, <1>4, <1>6 DEF SendOK, OutgoingNat
<1> QED BY <1>2, <1>6, <1>7, SendStep DEF old

LEMMA SendWritesIInv == ASSUME IInv, NEW g \in Conns, SendWrites(g) PROVE IInv'
<1> DEFINE old == conn[g]
           new == [old EXCEPT !.written = @ + 1, !.sendTask = "recv"]
<1>1. old \in Connection /\ SendOK(old, client.sender = g)
  BY ConnFacts
<1>2. conn' = [conn EXCEPT ![g] = new] /\ UNCHANGED <<client, call, result, made>>
  BY DEF SendWrites
<1>3. old.sendTask = "write" /\ old.ws = "active"
  BY DEF SendWrites
<1> HIDE DEF old
<1>4. OutgoingNat(old)
  BY <1>1, Outgoing
<1>5. old.written + 1 \in 0 .. MaxSends
  <2>1. old.accepted = old.written + old.queued + 1
    BY <1>1, <1>3 DEF SendOK
  <2>2. old.accepted \in 0 .. MaxSends /\ old.queued \in Nat /\ old.written \in Nat
    BY <1>1, <1>4 DEF Connection, OutgoingNat
  <2> QED BY <2>1, <2>2, BoundsAssumption
<1>6. /\ new \in Connection /\ SameIncoming(new, old)
      /\ new.accepted = old.accepted /\ new.link = old.link /\ new.recvTask = old.recvTask
      /\ new.queued = old.queued /\ new.written = old.written + 1
      /\ new.sendTask = "recv" /\ new.ws = old.ws
  BY <1>1, <1>5 DEF Connection, SameIncoming
<1> HIDE DEF new
<1>7. SendOK(new, client.sender = g)
  BY <1>1, <1>3, <1>4, <1>6 DEF SendOK, OutgoingNat
<1> QED BY <1>2, <1>6, <1>7, SendStep DEF old

LEMMA SendFailsIInv == ASSUME IInv, NEW g \in Conns, SendFails(g) PROVE IInv'
<1> DEFINE old == conn[g]
           new == [old EXCEPT !.sendTask = "close"]
<1>1. old \in Connection /\ SendOK(old, client.sender = g)
  BY ConnFacts
<1>2. conn' = [conn EXCEPT ![g] = new] /\ UNCHANGED <<client, call, result, made>>
  BY DEF SendFails
<1>3. old.sendTask = "write" /\ (old.link = "gone" \/ old.ws = "closed")
  BY DEF SendFails
<1> HIDE DEF old
<1>4. OutgoingNat(old)
  BY <1>1, Outgoing
<1>5. TRUE
  BY <1>1, <1>3, <1>4, CapacityAssumption, BoundsAssumption DEF Connection, SendOK
<1>6. /\ new \in Connection /\ SameIncoming(new, old)
      /\ new.accepted = old.accepted /\ new.link = old.link /\ new.recvTask = old.recvTask
      /\ new.queued = old.queued /\ new.written = old.written
      /\ new.sendTask = "close" /\ new.ws = old.ws
  BY <1>1, <1>5 DEF Connection, SameIncoming
<1> HIDE DEF new
<1>7. SendOK(new, client.sender = g)
  BY <1>1, <1>3, <1>4, <1>6 DEF SendOK, OutgoingNat
<1> QED BY <1>2, <1>6, <1>7, SendStep DEF old

LEMMA SendDrainedIInv == ASSUME IInv, NEW g \in Conns, SendDrained(g) PROVE IInv'
<1> DEFINE old == conn[g]
           new == [old EXCEPT !.sendTask = "close"]
<1>1. old \in Connection /\ SendOK(old, client.sender = g)
  BY ConnFacts
<1>2. conn' = [conn EXCEPT ![g] = new] /\ UNCHANGED <<client, call, result, made>>
  BY DEF SendDrained
<1>3. old.sendTask = "recv" /\ old.queued = 0 /\ client.sender # g
  BY DEF SendDrained
<1> HIDE DEF old
<1>4. OutgoingNat(old)
  BY <1>1, Outgoing
<1>5. TRUE
  BY <1>1, <1>3, <1>4, CapacityAssumption, BoundsAssumption DEF Connection, SendOK
<1>6. /\ new \in Connection /\ SameIncoming(new, old)
      /\ new.accepted = old.accepted /\ new.link = old.link /\ new.recvTask = old.recvTask
      /\ new.queued = old.queued /\ new.written = old.written
      /\ new.sendTask = "close" /\ new.ws = old.ws
  BY <1>1, <1>5 DEF Connection, SameIncoming
<1> HIDE DEF new
<1>7. SendOK(new, client.sender = g)
  <2>1. old.accepted = old.written
    BY <1>1, <1>3, <1>4 DEF SendOK, OutgoingNat
  <2>2. /\ new.written <= new.accepted
        /\ new.accepted <= new.written + new.queued + 1
    BY <1>3, <1>4, <1>6, <2>1 DEF OutgoingNat
  <2>3. new.ws = "closed" => new.recvTask = "ended"
    BY <1>1, <1>3, <1>6 DEF SendOK
  <2> QED BY <1>3, <1>6, <2>1, <2>2, <2>3 DEF SendOK
<1> QED BY <1>2, <1>6, <1>7, SendStep DEF old

LEMMA SendClosesIInv == ASSUME IInv, NEW g \in Conns, SendCloses(g) PROVE IInv'
<1> DEFINE old == conn[g]
           new == [old EXCEPT !.ws = "closed", !.queued = 0, !.sendTask = "ended"]
<1>1. old \in Connection /\ SendOK(old, client.sender = g)
  BY ConnFacts
<1>2. conn' = [conn EXCEPT ![g] = new] /\ UNCHANGED <<client, call, result, made>>
  BY DEF SendCloses
<1>3. old.sendTask = "close"
  BY DEF SendCloses
<1> HIDE DEF old
<1>4. OutgoingNat(old)
  BY <1>1, Outgoing
<1>5. 0 \in 0 .. Capacity
  BY <1>1, <1>3, <1>4, CapacityAssumption, BoundsAssumption DEF Connection, SendOK
<1>6. /\ new \in Connection /\ SameIncoming(new, old)
      /\ new.accepted = old.accepted /\ new.link = old.link /\ new.recvTask = old.recvTask
      /\ new.queued = 0 /\ new.written = old.written
      /\ new.sendTask = "ended" /\ new.ws = "closed"
  BY <1>1, <1>5 DEF Connection, SameIncoming
<1> HIDE DEF new
<1>7. SendOK(new, client.sender = g)
  <2>1. /\ old.written <= old.accepted /\ old.accepted <= old.written + old.queued + 1
        /\ old.link = "up" /\ old.recvTask # "ended" => old.written = old.accepted
    BY <1>1, <1>3 DEF SendOK
  <2>2. old.queued <= Capacity
    BY <1>4, CapacityAssumption DEF OutgoingNat
  <2>3. old.accepted <= old.written + Capacity + 1
    BY <1>4, <2>1, <2>2, CapacityAssumption DEF OutgoingNat
  <2> QED BY <1>6, <2>1, <2>3 DEF SendOK
<1> QED BY <1>2, <1>6, <1>7, SendStep DEF old

(***************************************************************************)
(* The incoming half.                                                      *)
(***************************************************************************)

(* The outgoing half does not change, except that the link may be lost and *)
(* that the receive task may end and close the connection.                 *)
SameOutgoing(d, c) ==
  /\ d.queued = c.queued /\ d.accepted = c.accepted /\ d.written = c.written
  /\ d.sendTask = c.sendTask /\ d.link \in {c.link, "gone"}
  /\ d.ws = c.ws \/ d.recvTask = "ended"
  /\ c.recvTask = "ended" => d.recvTask = "ended"

(* A step that changes the incoming half of connection g.                  *)
LEMMA ReceiveStep ==
  ASSUME IInv, NEW g \in Conns, NEW c \in Connection, SameOutgoing(c, conn[g]),
         conn' = [conn EXCEPT ![g] = c], ReceiveOK(c), Len(c.rxQ) <= Capacity,
         UNCHANGED <<client, call, made>>, result' \in {result, "ok"}
  PROVE  IInv'
<1>1. SendOK(c, client.sender = g)
  BY ConnFacts DEF SendOK, SameOutgoing
<1>2. result' \in {"pending", "ok", "err", "none", "true", "false"}
  BY ConnFacts
<1> QED BY <1>1, <1>2, ConnChanges

LEMMA LinkBreaksIInv == ASSUME IInv, NEW g \in Conns, LinkBreaks(g) PROVE IInv'
<1> DEFINE old == conn[g]
           new == [old EXCEPT !.link = "gone"]
<1>1. old \in Connection /\ ReceiveOK(old) /\ Len(old.rxQ) <= Capacity
  BY ConnFacts
<1>2. conn' = [conn EXCEPT ![g] = new] /\ UNCHANGED <<client, call, result, made>>
  BY DEF LinkBreaks
<1> HIDE DEF old
<1>3. new \in Connection /\ SameIncoming(new, old) /\ SameOutgoing(new, old)
  BY <1>1 DEF Connection, SameIncoming, SameOutgoing
<1> HIDE DEF new
<1>4. ReceiveOK(new) /\ Len(new.rxQ) <= Capacity
  BY <1>1, <1>3, ReceiveKeeps DEF SameIncoming
<1> QED BY <1>2, <1>3, <1>4, ReceiveStep DEF old

LEMMA ReceiveErrorIInv == ASSUME IInv, NEW g \in Conns, ReceiveError(g) PROVE IInv'
<1> DEFINE old == conn[g]
           new == [old EXCEPT !.recvTask = "ended"]
<1>1. old \in Connection /\ ReceiveOK(old) /\ Len(old.rxQ) <= Capacity
  BY ConnFacts
<1>2. conn' = [conn EXCEPT ![g] = new] /\ UNCHANGED <<client, call, result, made>>
  BY DEF ReceiveError
<1>3. old.recvTask = "next"
  BY DEF ReceiveError
<1> HIDE DEF old
<1>4. /\ new \in Connection /\ SameOutgoing(new, old) /\ new.recvTask = "ended"
      /\ new.received = old.received /\ new.rxQ = old.rxQ /\ new.hand = old.hand
  BY <1>1, <1>3 DEF Connection, SameOutgoing
<1> HIDE DEF new
<1>5. ReceiveOK(new) /\ Len(new.rxQ) <= Capacity
  BY <1>1, <1>3, <1>4 DEF ReceiveOK
<1> QED BY <1>2, <1>4, <1>5, ReceiveStep DEF old

(***************************************************************************)
(* What is on its way.                                                     *)
(***************************************************************************)

Inbound == Seq(0 .. MaxFrames + 1)

LEMMA TailFacts ==
  ASSUME NEW in \in Inbound, in # <<>>
  PROVE  /\ Tail(in) \in Inbound /\ Len(in) \in Nat /\ Len(in) >= 1
         /\ Len(Tail(in)) = Len(in) - 1 /\ Head(in) = in[1]
         /\ \A k \in 1 .. Len(Tail(in)) :
               k + 1 \in 1 .. Len(in) /\ Tail(in)[k] = in[k + 1]
  BY DEF Inbound

LEMMA TailControl ==
  ASSUME NEW in \in Inbound, in # <<>>, NEW n, NEW sent, InboundOK(in, n, sent)
  PROVE  Control(Tail(in)) = 0
<1>1. CASE Tail(in) # <<>>
  <2>1. 1 \in 1 .. Len(Tail(in)) /\ 2 \in 1 .. Len(in) /\ Tail(in)[1] = in[2]
    BY <1>1, TailFacts DEF Inbound
  <2> QED BY <2>1 DEF Control, InboundOK
<1> QED BY <1>1 DEF Control

LEMMA TailClosing ==
  ASSUME NEW in \in Inbound, in # <<>>, in[1] # CloseFrame
  PROVE  Closing(Tail(in)) = Closing(in)
<1>1. CASE Tail(in) # <<>>
  <2>1. Len(Tail(in)) \in 1 .. Len(Tail(in)) /\ Len(Tail(in)) + 1 = Len(in)
    BY <1>1, TailFacts DEF Inbound
  <2>2. Tail(in)[Len(Tail(in))] = in[Len(in)]
    BY <2>1, TailFacts
  <2> QED BY <1>1, <2>2 DEF Closing
<1>2. CASE Tail(in) = <<>>
  <2>0. Len(<<>>) = 0
    OBVIOUS
  <2>1. Len(in) - 1 = 0 /\ Len(in) \in Nat
    BY <1>2, <2>0, TailFacts, Zenon
  <2>2. Len(in) = 1
    BY <2>1
  <2> QED BY <1>2, <2>2 DEF Closing
<1> QED BY <1>1, <1>2

LEMMA DataTaken ==
  ASSUME NEW in \in Inbound, in # <<>>, NEW n \in Nat, NEW sent \in Nat,
         in[1] \in Frames, InboundOK(in, n, sent)
  PROVE  in[1] = n + 1 /\ InboundOK(Tail(in), n + 1, sent)
<1>1. in[1] # ControlFrame /\ in[1] # CloseFrame
  BY BoundsAssumption DEF Frames, ControlFrame, CloseFrame
<1>2. Control(in) = 0 /\ Control(Tail(in)) = 0 /\ Closing(Tail(in)) = Closing(in)
  BY <1>1, TailControl, TailClosing DEF Control
<1>3. Closing(in) \in 0 .. 1
  BY DEF Closing
<1>4. in[1] = n + 1
  BY <1>2, TailFacts DEF InboundOK
<1>5. \A k \in 1 .. Len(Tail(in)) :
        /\ Tail(in)[k] = ControlFrame => k = 1
        /\ Tail(in)[k] = CloseFrame => k = Len(Tail(in))
        /\ Tail(in)[k] \in Frames => Tail(in)[k] = n + 1 + k - 0
  <2> SUFFICES ASSUME NEW k \in 1 .. Len(Tail(in))
               PROVE  /\ Tail(in)[k] = ControlFrame => k = 1
                      /\ Tail(in)[k] = CloseFrame => k = Len(Tail(in))
                      /\ Tail(in)[k] \in Frames => Tail(in)[k] = n + 1 + k - 0
    OBVIOUS
  <2>1. k \in Nat /\ k + 1 \in 1 .. Len(in) /\ Tail(in)[k] = in[k + 1]
    BY TailFacts
  <2>2. /\ in[k + 1] = ControlFrame => k + 1 = 1
        /\ in[k + 1] = CloseFrame => k + 1 = Len(in)
        /\ in[k + 1] \in Frames => in[k + 1] = n + (k + 1) - 0
    BY <1>2, <2>1 DEF InboundOK
  <2> QED BY <2>1, <2>2, TailFacts
<1>6. sent = n + 1 + Len(Tail(in)) - 0 - Closing(Tail(in))
  BY <1>2, <1>3, TailFacts DEF InboundOK
<1> QED BY <1>2, <1>4, <1>5, <1>6 DEF InboundOK

LEMMA ControlTaken ==
  ASSUME NEW in \in Inbound, in # <<>>, NEW n \in Nat, NEW sent \in Nat,
         in[1] = ControlFrame, InboundOK(in, n, sent)
  PROVE  InboundOK(Tail(in), n, sent)
<1>1. in[1] # CloseFrame
  BY BoundsAssumption DEF ControlFrame, CloseFrame
<1>2. Control(in) = 1 /\ Control(Tail(in)) = 0 /\ Closing(Tail(in)) = Closing(in)
  BY <1>1, TailControl, TailClosing DEF Control
<1>3. Closing(in) \in 0 .. 1
  BY DEF Closing
<1>5. \A k \in 1 .. Len(Tail(in)) :
        /\ Tail(in)[k] = ControlFrame => k = 1
        /\ Tail(in)[k] = CloseFrame => k = Len(Tail(in))
        /\ Tail(in)[k] \in Frames => Tail(in)[k] = n + k - 0
  <2> SUFFICES ASSUME NEW k \in 1 .. Len(Tail(in))
               PROVE  /\ Tail(in)[k] = ControlFrame => k = 1
                      /\ Tail(in)[k] = CloseFrame => k = Len(Tail(in))
                      /\ Tail(in)[k] \in Frames => Tail(in)[k] = n + k - 0
    OBVIOUS
  <2>1. k \in Nat /\ k + 1 \in 1 .. Len(in) /\ Tail(in)[k] = in[k + 1]
    BY TailFacts
  <2>2. /\ in[k + 1] = ControlFrame => k + 1 = 1
        /\ in[k + 1] = CloseFrame => k + 1 = Len(in)
        /\ in[k + 1] \in Frames => in[k + 1] = n + (k + 1) - 1
    BY <1>2, <2>1 DEF InboundOK
  <2> QED BY <2>1, <2>2, TailFacts
<1>6. sent = n + Len(Tail(in)) - 0 - Closing(Tail(in))
  BY <1>2, <1>3, TailFacts DEF InboundOK
<1> QED BY <1>2, <1>5, <1>6 DEF InboundOK

(* A frame is put behind those on their way, none of which is the close    *)
(* frame.                                                                  *)
LEMMA FrameAdded ==
  ASSUME NEW in \in Inbound, NEW n \in Nat, NEW sent \in Nat, InboundOK(in, n, sent),
         \A k \in 1 .. Len(in) : in[k] # CloseFrame
  PROVE  /\ sent + 1 \in Frames => InboundOK(Append(in, sent + 1), n, sent + 1)
         /\ InboundOK(Append(in, CloseFrame), n, sent)
<1>1. Closing(in) = 0 /\ Control(in) \in 0 .. 1 /\ Len(in) \in Nat
  BY DEF Closing, Control, Inbound
<1>2. sent = n + Len(in) - Control(in)
  BY <1>1 DEF InboundOK
<1>3. ASSUME NEW x \in 1 .. MaxFrames + 1
      PROVE  /\ Append(in, x) # <<>> /\ Len(Append(in, x)) = Len(in) + 1
             /\ Append(in, x)[Len(in) + 1] = x
             /\ \A k \in 1 .. Len(in) : Append(in, x)[k] = in[k]
             /\ Control(Append(in, x)) = Control(in)
  <2>1. /\ Append(in, x) # <<>> /\ Len(Append(in, x)) = Len(in) + 1
        /\ Append(in, x)[Len(in) + 1] = x
        /\ \A k \in 1 .. Len(in) : Append(in, x)[k] = in[k]
    BY BoundsAssumption DEF Inbound
  <2>2. x # ControlFrame
    BY BoundsAssumption DEF ControlFrame
  <2>3. in # <<>> => 1 \in 1 .. Len(in)
    BY DEF Inbound
  <2>4. in = <<>> => Len(in) = 0
    OBVIOUS
  <2> QED BY <2>1, <2>2, <2>3, <2>4 DEF Control
<1>4. ASSUME sent + 1 \in Frames PROVE InboundOK(Append(in, sent + 1), n, sent + 1)
  <2>1. sent + 1 \in 1 .. MaxFrames + 1 /\ sent + 1 # CloseFrame /\ sent + 1 # ControlFrame
    BY <1>4, BoundsAssumption DEF Frames, CloseFrame, ControlFrame
  <2> DEFINE out == Append(in, sent + 1)
  <2>2. /\ out # <<>> /\ Len(out) = Len(in) + 1 /\ out[Len(in) + 1] = sent + 1
        /\ \A k \in 1 .. Len(in) : out[k] = in[k]
        /\ Control(out) = Control(in)
    BY <1>3, <2>1
  <2> HIDE DEF out
  <2>3. Closing(out) = 0
    BY <2>1, <2>2 DEF Closing
  <2>4. ASSUME NEW k \in 1 .. Len(out)
        PROVE  /\ out[k] = ControlFrame => k = 1
               /\ out[k] = CloseFrame => k = Len(out)
               /\ out[k] \in Frames => out[k] = n + k - Control(out)
    <3>1. CASE k \in 1 .. Len(in)
      BY <2>2, <3>1 DEF InboundOK
    <3>2. CASE k = Len(in) + 1
      BY <1>1, <1>2, <2>1, <2>2, <3>2, SMTT(30)
    <3>3. k \in 1 .. Len(in) \/ k = Len(in) + 1
      <4>1. Len(in) \in Nat /\ k \in 1 .. Len(in) + 1
        BY <1>1, <2>2
      <4> QED BY <4>1
    <3> QED BY <3>1, <3>2, <3>3
  <2>5. sent + 1 = n + Len(out) - Control(out) - Closing(out)
    BY <1>1, <1>2, <2>2, <2>3
  <2>6. InboundOK(out, n, sent + 1)
    BY <2>4, <2>5 DEF InboundOK
  <2> QED BY <2>6 DEF out
<1>5. InboundOK(Append(in, CloseFrame), n, sent)
  <2>1. CloseFrame \in 1 .. MaxFrames + 1 /\ CloseFrame \notin Frames /\ CloseFrame # ControlFrame
    BY BoundsAssumption DEF Frames, CloseFrame, ControlFrame
  <2> DEFINE out == Append(in, CloseFrame)
  <2>2. /\ out # <<>> /\ Len(out) = Len(in) + 1 /\ out[Len(in) + 1] = CloseFrame
        /\ \A k \in 1 .. Len(in) : out[k] = in[k]
        /\ Control(out) = Control(in)
    BY <1>3, <2>1
  <2> HIDE DEF out
  <2>3. Closing(out) = 1
    BY <2>2 DEF Closing
  <2>4. ASSUME NEW k \in 1 .. Len(out)
        PROVE  /\ out[k] = ControlFrame => k = 1
               /\ out[k] = CloseFrame => k = Len(out)
               /\ out[k] \in Frames => out[k] = n + k - Control(out)
    <3>1. CASE k \in 1 .. Len(in)
      BY <2>2, <3>1 DEF InboundOK
    <3>2. CASE k = Len(in) + 1
      BY <2>1, <2>2, <3>2
    <3> QED BY <1>1, <2>2, <3>1, <3>2
  <2> QED BY <1>1, <1>2, <2>2, <2>3, <2>4 DEF InboundOK, out
<1> QED BY <1>4, <1>5

LEMMA ControlAdded ==
  ASSUME NEW n \in Nat, NEW sent \in Nat, InboundOK(<<>>, n, sent)
  PROVE  InboundOK(<<ControlFrame>>, n, sent)
<1>1. sent = n
  BY DEF InboundOK, Control, Closing
<1>2. /\ Len(<<ControlFrame>>) = 1 /\ <<ControlFrame>>[1] = ControlFrame
      /\ ControlFrame \notin Frames /\ ControlFrame # CloseFrame
  BY BoundsAssumption DEF Frames, ControlFrame, CloseFrame
<1>3. Control(<<ControlFrame>>) = 1 /\ Closing(<<ControlFrame>>) = 0
  BY <1>2 DEF Control, Closing
<1> QED BY <1>1, <1>2, <1>3 DEF InboundOK

(***************************************************************************)
(* Steps of the receive task, the program and the server.                  *)
(***************************************************************************)

LEMMA GotFacts ==
  ASSUME NEW c \in Connection
  PROVE  /\ c.sent \in Nat /\ c.inbound \in Inbound
         /\ Len(c.received) \in Nat /\ Len(c.rxQ) \in Nat /\ Got(c) \in Nat
         /\ c.hand = 0 => Got(c) = Len(c.received) + Len(c.rxQ)
         /\ c.hand # 0 => Got(c) = Len(c.received) + Len(c.rxQ) + 1
<1>1. c.received \in Seq(Frames) /\ c.rxQ \in Seq(Frames)
  BY DEF Connection
<1>2. Len(c.received) \in Nat /\ Len(c.rxQ) \in Nat
  BY <1>1
<1>3. c.sent \in Nat /\ c.inbound \in Inbound
  BY BoundsAssumption DEF Connection, Inbound
<1>4. c.hand = 0 => Got(c) = Len(c.received) + Len(c.rxQ)
  BY <1>2 DEF Got
<1>5. c.hand # 0 => Got(c) = Len(c.received) + Len(c.rxQ) + 1
  BY <1>2 DEF Got
<1>6. \A a, b \in Nat : a + b \in Nat /\ a + b + 1 \in Nat
  OBVIOUS
<1>7. Got(c) \in Nat
  BY <1>2, <1>4, <1>5, <1>6, Zenon
<1> QED BY <1>2, <1>3, <1>4, <1>5, <1>7

LEMMA ReceiveFrameIInv == ASSUME IInv, NEW g \in Conns, ReceiveFrame(g) PROVE IInv'
<1> DEFINE old == conn[g]
           rest == Tail(old.inbound)
           frame == Head(old.inbound)
           data == [old EXCEPT !.inbound = rest, !.hand = frame, !.recvTask = "deliver"]
           control == [old EXCEPT !.inbound = rest]
           close == [old EXCEPT !.inbound = rest, !.ws = "closed", !.recvTask = "ended"]
<1>1. old \in Connection /\ ReceiveOK(old) /\ Len(old.rxQ) <= Capacity
  BY ConnFacts
<1>2. /\ old.recvTask = "next" /\ old.inbound # <<>>
      /\ UNCHANGED <<client, call, result, made>>
      /\ \/ frame \in Frames /\ conn' = [conn EXCEPT ![g] = data]
         \/ frame = ControlFrame /\ conn' = [conn EXCEPT ![g] = control]
         \/ frame = CloseFrame /\ conn' = [conn EXCEPT ![g] = close]
  BY <1>1 DEF ReceiveFrame, IInv, TypeOK
<1> HIDE DEF old
<1>3. /\ old.hand = 0 /\ InboundOK(old.inbound, Got(old), old.sent)
      /\ Got(old) = Len(old.received) + Len(old.rxQ)
      /\ Got(old) \in Nat /\ old.sent \in Nat /\ old.inbound \in Inbound
      /\ Len(old.received) \in Nat /\ Len(old.rxQ) \in Nat
  BY <1>1, <1>2, GotFacts DEF ReceiveOK
<1>4. frame = old.inbound[1] /\ rest \in Inbound
  BY <1>2, <1>3, TailFacts
<1>5. frame \in Frames => frame = Got(old) + 1 /\ InboundOK(rest, Got(old) + 1, old.sent)
  BY <1>2, <1>3, <1>4, DataTaken
<1>6. frame = ControlFrame => InboundOK(rest, Got(old), old.sent)
  BY <1>2, <1>3, <1>4, ControlTaken
<1> HIDE DEF frame, rest
<1>7. CASE frame \in Frames /\ conn' = [conn EXCEPT ![g] = data]
  <2>1. frame \in 0 .. MaxFrames /\ frame # 0
    BY <1>7, BoundsAssumption DEF Frames
  <2>2. /\ data \in Connection /\ SameOutgoing(data, old) /\ data.rxQ = old.rxQ
        /\ data.received = old.received /\ data.sent = old.sent /\ data.hand = frame
        /\ data.inbound = rest /\ data.recvTask = "deliver"
    BY <1>1, <1>2, <1>4, <2>1 DEF Connection, SameOutgoing, Inbound
  <2> HIDE DEF data
  <2>3. Got(data) = Got(old) + 1 /\ data.hand = Len(data.received) + Len(data.rxQ) + 1
    BY <1>3, <1>5, <1>7, <2>1, <2>2 DEF Got
  <2>4. ReceiveOK(data)
    BY <1>1, <1>5, <1>7, <2>1, <2>2, <2>3 DEF ReceiveOK
  <2> QED BY <1>1, <1>2, <1>7, <2>2, <2>4, ReceiveStep DEF old
<1>8. CASE frame = ControlFrame /\ conn' = [conn EXCEPT ![g] = control]
  <2>1. /\ control \in Connection /\ SameOutgoing(control, old) /\ control.rxQ = old.rxQ
        /\ control.received = old.received /\ control.sent = old.sent /\ control.hand = 0
        /\ control.inbound = rest /\ control.recvTask = "next"
    BY <1>1, <1>2, <1>3, <1>4, ZenonT(60) DEF Connection, SameOutgoing, Inbound
  <2> HIDE DEF control
  <2>2. Got(control) = Got(old)
    BY <1>3, <2>1 DEF Got
  <2>3. ReceiveOK(control)
    BY <1>1, <1>6, <1>8, <2>1, <2>2 DEF ReceiveOK
  <2> QED BY <1>1, <1>2, <1>8, <2>1, <2>3, ReceiveStep DEF old
<1>9. CASE frame = CloseFrame /\ conn' = [conn EXCEPT ![g] = close]
  <2>1. /\ close \in Connection /\ SameOutgoing(close, old) /\ close.rxQ = old.rxQ
        /\ close.received = old.received /\ close.hand = 0 /\ close.recvTask = "ended"
    BY <1>1, <1>2, <1>3, <1>4, ZenonT(60) DEF Connection, SameOutgoing, Inbound
  <2> HIDE DEF close
  <2>2. ReceiveOK(close)
    BY <1>1, <2>1 DEF ReceiveOK
  <2> QED BY <1>1, <1>2, <1>9, <2>1, <2>2, ReceiveStep DEF old
<1> QED BY <1>2, <1>7, <1>8, <1>9

LEMMA ReceiveDeliversIInv == ASSUME IInv, NEW g \in Conns, ReceiveDelivers(g) PROVE IInv'
<1> DEFINE old == conn[g]
           box == Append(old.rxQ, old.hand)
           kept == [old EXCEPT !.rxQ = box, !.hand = 0, !.recvTask = "next"]
           lost == [old EXCEPT !.hand = 0, !.recvTask = "ended"]
<1>1. old \in Connection /\ ReceiveOK(old) /\ Len(old.rxQ) <= Capacity
  BY ConnFacts
<1>2. /\ old.recvTask = "deliver"
      /\ UNCHANGED <<client, call, result, made>>
      /\ \/ Len(old.rxQ) < Capacity /\ conn' = [conn EXCEPT ![g] = kept]
         \/ conn' = [conn EXCEPT ![g] = lost]
  BY <1>1 DEF ReceiveDelivers, IInv, TypeOK
<1> HIDE DEF old
<1>3. /\ old.hand # 0 /\ old.hand = Len(old.received) + Len(old.rxQ) + 1
      /\ Got(old) = Len(old.received) + Len(old.rxQ) + 1
      /\ InboundOK(old.inbound, Got(old), old.sent)
      /\ \A k \in 1 .. Len(old.rxQ) : old.rxQ[k] = Len(old.received) + k
      /\ Len(old.received) \in Nat /\ Len(old.rxQ) \in Nat
  BY <1>1, <1>2, GotFacts DEF ReceiveOK
<1>4. old.rxQ \in Seq(Frames) /\ old.hand \in Frames
  <2>1. old.rxQ \in Seq(Frames) /\ old.hand \in 0 .. MaxFrames
    BY <1>1 DEF Connection
  <2>2. old.hand \in Nat /\ old.hand <= MaxFrames
    BY <2>1, BoundsAssumption
  <2>a. \A x \in Nat : x # 0 /\ x <= MaxFrames => x \in 1 .. MaxFrames
    BY BoundsAssumption
  <2>3. old.hand \in 1 .. MaxFrames
    BY <1>3, <2>2, <2>a
  <2> QED BY <2>1, <2>3 DEF Frames
<1>5. /\ box \in Seq(Frames) /\ Len(box) = Len(old.rxQ) + 1
      /\ box[Len(old.rxQ) + 1] = old.hand /\ \A k \in 1 .. Len(old.rxQ) : box[k] = old.rxQ[k]
  BY <1>4
<1> HIDE DEF box
<1>z. 0 \in 0 .. MaxFrames
  BY BoundsAssumption
<1>6. CASE Len(old.rxQ) < Capacity /\ conn' = [conn EXCEPT ![g] = kept]
  <2>1. /\ kept \in Connection /\ SameOutgoing(kept, old) /\ kept.rxQ = box
        /\ kept.received = old.received /\ kept.sent = old.sent /\ kept.hand = 0
        /\ kept.inbound = old.inbound /\ kept.recvTask = "next"
    BY <1>1, <1>2, <1>5, <1>z DEF Connection, SameOutgoing
  <2> HIDE DEF kept
  <2>a. Len(kept.rxQ) = Len(old.rxQ) + 1 /\ Len(kept.received) = Len(old.received)
    BY <1>5, <2>1
  <2>b. \A a, b \in Nat : a + (b + 1) = a + b + 1
    OBVIOUS
  <2>c. Got(kept) = Len(old.received) + (Len(old.rxQ) + 1)
    BY <2>1, <2>a, GotFacts, Zenon
  <2>2. Got(kept) = Got(old)
    BY <1>3, <2>b, <2>c, Zenon
  <2>3. ASSUME NEW k \in 1 .. Len(box) PROVE box[k] = Len(old.received) + k
    <3>1. CASE k \in 1 .. Len(old.rxQ)
      BY <1>3, <1>5, <3>1
    <3>2. CASE k = Len(old.rxQ) + 1
      <4>1. box[k] = old.hand /\ old.hand = Len(old.received) + Len(old.rxQ) + 1
        BY <1>3, <1>5, <3>2
      <4>2. \A a, b \in Nat : a + b + 1 = a + (b + 1)
        OBVIOUS
      <4> QED BY <1>3, <3>2, <4>1, <4>2, Zenon
    <3> QED BY <1>3, <1>5, <3>1, <3>2
  <2>4. ReceiveOK(kept)
    BY <1>1, <1>3, <2>1, <2>2, <2>3 DEF ReceiveOK
  <2>5. Len(kept.rxQ) <= Capacity
    BY <1>3, <1>5, <1>6, <2>1, CapacityAssumption
  <2> QED BY <1>2, <1>6, <2>1, <2>4, <2>5, ReceiveStep DEF old
<1>7. CASE conn' = [conn EXCEPT ![g] = lost]
  <2>1. /\ lost \in Connection /\ SameOutgoing(lost, old) /\ lost.rxQ = old.rxQ
        /\ lost.received = old.received /\ lost.hand = 0 /\ lost.recvTask = "ended"
    BY <1>1, <1>2, <1>z DEF Connection, SameOutgoing
  <2> HIDE DEF lost
  <2>2. ReceiveOK(lost)
    BY <1>1, <2>1 DEF ReceiveOK
  <2> QED BY <1>1, <1>2, <1>7, <2>1, <2>2, ReceiveStep DEF old
<1> QED BY <1>2, <1>6, <1>7

LEMMA ReceiveMessageIInv == ASSUME IInv, ReceiveMessage PROVE IInv'
<1> DEFINE g == client.receiver
           old == conn[g]
           rest == Tail(old.rxQ)
           got == Append(old.received, Head(old.rxQ))
           new == [old EXCEPT !.rxQ = rest, !.received = got]
<1>0. g \in Conns
  BY DEF ReceiveMessage, IInv, TypeOK, Client
<1>1. old \in Connection /\ ReceiveOK(old) /\ Len(old.rxQ) <= Capacity
  BY <1>0, ConnFacts
<1>2. /\ old.rxQ # <<>> /\ conn' = [conn EXCEPT ![g] = new] /\ result' = "ok"
      /\ UNCHANGED <<client, call, made>>
  BY <1>0, <1>1 DEF ReceiveMessage, IInv, TypeOK
<1> HIDE DEF old, g
<1>3. old.rxQ \in Seq(Frames) /\ old.received \in Seq(Frames)
  BY <1>1 DEF Connection
<1>4. /\ rest \in Seq(Frames) /\ Len(old.rxQ) \in Nat /\ Len(old.rxQ) >= 1
      /\ Len(rest) = Len(old.rxQ) - 1 /\ Head(old.rxQ) = old.rxQ[1] /\ old.rxQ[1] \in Frames
      /\ \A k \in 1 .. Len(rest) : k + 1 \in 1 .. Len(old.rxQ) /\ rest[k] = old.rxQ[k + 1]
  BY <1>2, <1>3
<1>5. /\ got \in Seq(Frames) /\ Len(old.received) \in Nat /\ Len(got) = Len(old.received) + 1
      /\ got[Len(old.received) + 1] = old.rxQ[1]
      /\ \A k \in 1 .. Len(old.received) : got[k] = old.received[k]
  BY <1>3, <1>4
<1> HIDE DEF rest, got
<1>6. /\ new \in Connection /\ SameOutgoing(new, old) /\ new.rxQ = rest
      /\ new.received = got /\ new.sent = old.sent /\ new.hand = old.hand
      /\ new.inbound = old.inbound /\ new.recvTask = old.recvTask
  BY <1>1, <1>4, <1>5 DEF Connection, SameOutgoing
<1> HIDE DEF new
<1>7. /\ \A k \in 1 .. Len(old.received) : old.received[k] = k
      /\ \A k \in 1 .. Len(old.rxQ) : old.rxQ[k] = Len(old.received) + k
      /\ old.recvTask = "deliver" <=> old.hand # 0
      /\ old.hand # 0 => old.hand = Len(old.received) + Len(old.rxQ) + 1
      /\ old.recvTask # "ended" => InboundOK(old.inbound, Got(old), old.sent)
  BY <1>1 DEF ReceiveOK
<1>8. Len(got) + Len(rest) = Len(old.received) + Len(old.rxQ)
  <2>1. \A a, b \in Nat : (a + 1) + (b - 1) = a + b
    OBVIOUS
  <2>2. Len(got) + Len(rest) = (Len(old.received) + 1) + (Len(old.rxQ) - 1)
    BY <1>4, <1>5
  <2> QED BY <1>4, <1>5, <2>1, <2>2
<1>9. Got(new) = Got(old)
  BY <1>6, <1>8 DEF Got
<1>10. ASSUME NEW k \in 1 .. Len(got) PROVE got[k] = k
  <2>1. CASE k \in 1 .. Len(old.received)
    BY <1>5, <1>7, <2>1
  <2>2. CASE k = Len(old.received) + 1
    <3>1. 1 \in 1 .. Len(old.rxQ)
      BY <1>4
    <3> QED BY <1>5, <1>7, <2>2, <3>1
  <2> QED BY <1>5, <2>1, <2>2
<1>11. ASSUME NEW k \in 1 .. Len(rest) PROVE rest[k] = Len(got) + k
  <2>1. k + 1 \in 1 .. Len(old.rxQ) /\ rest[k] = old.rxQ[k + 1]
    BY <1>4
  <2>2. old.rxQ[k + 1] = Len(old.received) + (k + 1)
    BY <1>7, <2>1
  <2>3. \A a, b \in Nat : a + (b + 1) = (a + 1) + b
    OBVIOUS
  <2>4. k \in Nat /\ Len(old.received) \in Nat
    BY <1>5
  <2>5. Len(old.received) + (k + 1) = (Len(old.received) + 1) + k
    BY <2>3, <2>4, Zenon
  <2> QED BY <1>5, <2>1, <2>2, <2>5
<1>12. new.hand # 0 => new.hand = Len(new.received) + Len(new.rxQ) + 1
  BY <1>6, <1>7, <1>8
<1>13. ReceiveOK(new)
  BY <1>6, <1>7, <1>9, <1>10, <1>11, <1>12 DEF ReceiveOK
<1>14. Len(new.rxQ) <= Capacity
  BY <1>1, <1>4, <1>6, CapacityAssumption
<1> QED BY <1>0, <1>2, <1>6, <1>13, <1>14, ReceiveStep DEF old

(* A step of the server, which changes only what is on its way.            *)
LEMMA ServerStep ==
  ASSUME IInv, NEW g \in Conns, NEW in \in Inbound, NEW n \in 0 .. MaxFrames,
         conn[g].recvTask # "ended" => InboundOK(in, Got(conn[g]), n),
         conn' = [conn EXCEPT ![g] = [conn[g] EXCEPT !.inbound = in, !.sent = n]],
         UNCHANGED <<client, call, result, made>>
  PROVE  IInv'
<1> DEFINE old == conn[g]
           new == [old EXCEPT !.inbound = in, !.sent = n]
<1>1. old \in Connection /\ ReceiveOK(old) /\ Len(old.rxQ) <= Capacity
  BY ConnFacts
<1>2. conn' = [conn EXCEPT ![g] = new] /\ (old.recvTask # "ended" => InboundOK(in, Got(old), n))
  OBVIOUS
<1> HIDE DEF old
<1>3. /\ new \in Connection /\ SameOutgoing(new, old) /\ new.rxQ = old.rxQ
      /\ new.received = old.received /\ new.sent = n /\ new.hand = old.hand
      /\ new.inbound = in /\ new.recvTask = old.recvTask
  BY <1>1 DEF Connection, SameOutgoing, Inbound
<1> HIDE DEF new
<1>4. Got(new) = Got(old)
  BY <1>3 DEF Got
<1>5. ReceiveOK(new)
  BY <1>1, <1>2, <1>3, <1>4 DEF ReceiveOK
<1> QED BY <1>1, <1>2, <1>3, <1>5, ReceiveStep DEF old

LEMMA ServerIInv ==
  ASSUME IInv, NEW g \in Conns, ServerSendsData(g) \/ ServerSendsControl(g) \/ ServerCloses(g)
  PROVE  IInv'
<1> DEFINE old == conn[g]
<1>1. old \in Connection /\ conn \in [Conns -> Connection]
  BY ConnFacts DEF IInv, TypeOK
<1>2. old.recvTask # "ended" => InboundOK(old.inbound, Got(old), old.sent)
  BY ConnFacts DEF ReceiveOK
<1>3. /\ old.sent \in 0 .. MaxFrames /\ old.sent \in Nat /\ old.inbound \in Inbound
      /\ Got(old) \in Nat
  BY <1>1, GotFacts DEF Connection
<1>4. CASE ServerSendsData(g)
  <2>1. /\ old.sent < MaxFrames /\ \A k \in 1 .. Len(old.inbound) : old.inbound[k] # CloseFrame
        /\ conn' = [conn EXCEPT ![g] = [old EXCEPT !.inbound = Append(old.inbound, old.sent + 1),
                                                   !.sent = old.sent + 1]]
        /\ UNCHANGED <<client, call, result, made>>
    BY <1>1, <1>4 DEF ServerSendsData, ServerMaySend, Connection
  <2>2. /\ old.sent + 1 \in 0 .. MaxFrames /\ old.sent + 1 \in Frames
        /\ old.sent + 1 \in 0 .. MaxFrames + 1
    BY <1>3, <2>1, BoundsAssumption DEF Frames
  <2>3. Append(old.inbound, old.sent + 1) \in Inbound
    BY <1>3, <2>2 DEF Inbound
  <2>4. old.recvTask # "ended"
          => InboundOK(Append(old.inbound, old.sent + 1), Got(old), old.sent + 1)
    BY <1>2, <1>3, <2>1, <2>2, FrameAdded
  <2> HIDE DEF old
  <2> QED BY <2>1, <2>2, <2>3, <2>4, ServerStep DEF old
<1>5. CASE ServerSendsControl(g)
  <2>1. /\ old.inbound = <<>>
        /\ conn' = [conn EXCEPT ![g] = [old EXCEPT !.inbound = <<ControlFrame>>,
                                                   !.sent = old.sent]]
        /\ UNCHANGED <<client, call, result, made>>
    BY <1>1, <1>5 DEF ServerSendsControl, ServerMaySend, Connection
  <2>2. <<ControlFrame>> \in Inbound
    BY BoundsAssumption DEF Inbound, ControlFrame
  <2>3. old.recvTask # "ended" => InboundOK(<<ControlFrame>>, Got(old), old.sent)
    BY <1>2, <1>3, <2>1, ControlAdded
  <2> QED BY <1>3, <2>1, <2>2, <2>3, ServerStep
<1>6. CASE ServerCloses(g)
  <2>1. /\ \A k \in 1 .. Len(old.inbound) : old.inbound[k] # CloseFrame
        /\ conn' = [conn EXCEPT ![g] = [old EXCEPT !.inbound = Append(old.inbound, CloseFrame),
                                                   !.sent = old.sent]]
        /\ UNCHANGED <<client, call, result, made>>
    BY <1>1, <1>6 DEF ServerCloses, ServerMaySend, Connection
  <2>2. Append(old.inbound, CloseFrame) \in Inbound
    BY <1>3, BoundsAssumption DEF Inbound, CloseFrame
  <2>3. old.recvTask # "ended" => InboundOK(Append(old.inbound, CloseFrame), Got(old), old.sent)
    BY <1>2, <1>3, <2>1, FrameAdded
  <2> QED BY <1>3, <2>1, <2>2, <2>3, ServerStep
<1> QED BY <1>4, <1>5, <1>6

LEMMA UseIInv == ASSUME IInv, SendMessage \/ CheckConnection PROVE IInv'
<1>1. UNCHANGED <<client, call, made>> /\ result' \in {"ok", "err", "true", "false"}
  BY DEF SendMessage, CheckConnection
<1>2. CASE client.sender # NoConn /\ Queues(client.sender) /\ result' \in {"ok", "true"}
  <2>1. client.sender \in Conns
    BY <1>2 DEF IInv, TypeOK, Client
  <2> QED BY <1>1, <1>2, <2>1, QueuesIInv
<1>3. CASE UNCHANGED conn
  <2>1. TypeOK'
    BY <1>1, <1>3 DEF IInv, TypeOK
  <2>2. CallInv'
    BY <1>1 DEF IInv, CallInv
  <2>3. ConnInv'
    BY <1>1, <1>3, ConnsKeep DEF IInv
  <2> QED BY <2>1, <2>2, <2>3 DEF IInv
<1> QED BY <1>2, <1>3 DEF SendMessage, CheckConnection, Refused

LEMMA StutterIInv == ASSUME IInv, UNCHANGED vars PROVE IInv'
<1>1. UNCHANGED <<client, call, result, made, conn>>
  BY DEF vars
<1>2. TypeOK' /\ CallInv'
  BY <1>1 DEF IInv, TypeOK, CallInv
<1>3. ConnInv'
  BY <1>1, ConnsKeep DEF IInv
<1> QED BY <1>2, <1>3 DEF IInv

LEMMA NextIInv == IInv /\ [Next]_vars => IInv'
<1> SUFFICES ASSUME IInv, [Next]_vars PROVE IInv'
  OBVIOUS
<1>1. CASE ConnectNext
  BY <1>1, CallsIInv, AttemptSucceedsIInv DEF ConnectNext
<1>2. CASE CloseNext
  BY <1>2, CallsIInv
<1>3. CASE UseNext
  BY <1>3, CallsIInv, UseIInv, ReceiveMessageIInv DEF UseNext
<1>4. ASSUME NEW g \in Conns, SendTaskNext(g) PROVE IInv'
  BY <1>4, SendTakesIInv, SendWritesIInv, SendFailsIInv, SendDrainedIInv, SendClosesIInv
     DEF SendTaskNext
<1>5. ASSUME NEW g \in Conns, ReceiveTaskNext(g) PROVE IInv'
  BY <1>5, ReceiveFrameIInv, ReceiveErrorIInv, ReceiveDeliversIInv DEF ReceiveTaskNext
<1>6. ASSUME NEW g \in Conns, ServerNext(g) PROVE IInv'
  BY <1>6, ServerIInv, LinkBreaksIInv DEF ServerNext
<1>7. CASE UNCHANGED vars
  BY <1>7, StutterIInv
<1> QED BY <1>1, <1>2, <1>3, <1>4, <1>5, <1>6, <1>7 DEF Next

(* The inductive invariant holds in every behaviour.                       *)
THEOREM ClientInvariant == Safety => []IInv
  BY InitIInv, NextIInv, PTL DEF Safety

(***************************************************************************)
(* What follows from it.                                                   *)
(***************************************************************************)

(* The variables of the client and its connections keep their types; no    *)
(* incoming channel holds more than its capacity.                          *)
THEOREM ClientTypeOK == Safety => []TypeOK
<1>1. IInv => TypeOK
  BY DEF IInv
<1> QED BY <1>1, ClientInvariant, PTL

(* connect makes at most 1 + max_reconnect_attempts attempts, and one      *)
(* without auto_reconnect.                                                 *)
THEOREM ClientAttemptsAreBounded == Safety => []AttemptsAreBounded
<1>1. ASSUME IInv PROVE AttemptsAreBounded
  <2>1. /\ call.attempt \in 0 .. MaxReconnects /\ call.tries \in 0 .. MaxReconnects + 1
        /\ call.at \in {"idle", "attempt", "innerDelay", "outerDelay", "await",
                        "awaitThenConnect", "dropped"}
    BY <1>1 DEF IInv, TypeOK, Call
  <2>2. call.attempt \in Nat /\ call.tries \in Nat /\ call.attempt <= MaxReconnects
    BY <2>1, MaxReconnectsAssumption
  <2>3. CASE call.at = "innerDelay"
    BY <1>1, <2>2, <2>3, MaxReconnectsAssumption DEF IInv, CallInv, AttemptsAreBounded
  <2>4. CASE call.at # "innerDelay"
    <3>1. call.tries = call.attempt /\ (call.attempt > 0 => AutoReconnect)
      BY <1>1, <2>1, <2>4 DEF IInv, CallInv
    <3> QED BY <2>2, <2>4, <3>1, MaxReconnectsAssumption DEF AttemptsAreBounded
  <2> QED BY <2>3, <2>4
<1> QED BY <1>1, ClientInvariant, PTL

(* What send_message accepted and the send task never wrote fits in the    *)
(* channel and the task's hand.                                            *)
THEOREM ClientLossIsBounded == Safety => []LossIsBounded
<1>1. ASSUME IInv PROVE LossIsBounded
  <2> SUFFICES ASSUME NEW g \in Conns
               PROVE  conn[g].accepted <= conn[g].written + Capacity + 1
    BY DEF LossIsBounded
  <2> DEFINE c == conn[g]
  <2>1. c \in Connection /\ SendOK(c, client.sender = g)
    BY <1>1, ConnFacts
  <2> HIDE DEF c
  <2>2. OutgoingNat(c) /\ c.sendTask \in {"none", "recv", "write", "close", "ended"}
    BY <2>1, Outgoing DEF Connection
  <2>3. c.queued <= Capacity /\ c.queued \in Nat /\ c.accepted \in Nat /\ c.written \in Nat
    BY <2>2, CapacityAssumption DEF OutgoingNat
  <2>4. c.accepted <= c.written + Capacity + 1
    <3>1. CASE c.sendTask \in {"none", "recv"}
      BY <2>1, <2>3, <3>1, CapacityAssumption DEF SendOK
    <3>2. CASE c.sendTask = "write"
      BY <2>1, <2>3, <3>2, CapacityAssumption DEF SendOK
    <3>3. CASE c.sendTask = "close"
      BY <2>1, <2>3, <3>3, CapacityAssumption DEF SendOK
    <3>4. CASE c.sendTask = "ended"
      BY <2>1, <3>4 DEF SendOK
    <3> QED BY <2>2, <3>1, <3>2, <3>3, <3>4
  <2> QED BY <2>4 DEF c
<1> QED BY <1>1, ClientInvariant, PTL

(* A close that was not forestalled returns when everything accepted has   *)
(* been written.                                                           *)
THEOREM ClientCloseWritesEverything == Safety => CloseWritesEverything
<1>1. ASSUME IInv, NEW g \in Conns, CloseReturns, client.wsHandle = g,
             conn[g].link = "up", conn[g].recvTask # "ended"
      PROVE  conn[g].written = conn[g].accepted
  <2>1. conn[g].sendTask = "ended"
    BY <1>1 DEF CloseReturns, HandleEnds, Conns, NoConn
  <2> QED BY <1>1, <2>1, ConnFacts DEF SendOK
<1>2. IInv => \A g \in Conns :
                /\ CloseReturns
                /\ client.wsHandle = g
                /\ conn[g].link = "up"
                /\ conn[g].recvTask # "ended"
                => conn[g].written = conn[g].accepted
  BY <1>1
<1> QED BY <1>2, ClientInvariant, PTL DEF Safety, CloseWritesEverything

(* The program receives the server's data frames in order, none skipped.   *)
THEOREM ClientReceivesWithoutGap == Safety => []ReceivesWithoutGap
<1>1. ASSUME IInv PROVE ReceivesWithoutGap
  <2> SUFFICES ASSUME NEW g \in Conns,
                      NEW k \in 1 .. Len(conn[g].received \o conn[g].rxQ
                             \o (IF conn[g].hand = 0 THEN <<>> ELSE <<conn[g].hand>>))
               PROVE  (conn[g].received \o conn[g].rxQ
                        \o (IF conn[g].hand = 0 THEN <<>> ELSE <<conn[g].hand>>))[k] = k
    BY DEF ReceivesWithoutGap
  <2> DEFINE a == conn[g].received
             b == conn[g].rxQ
             h == conn[g].hand
             last == IF h = 0 THEN <<>> ELSE <<h>>
  <2>1. /\ a \in Seq(Frames) /\ b \in Seq(Frames) /\ h \in 0 .. MaxFrames
        /\ \A i \in 1 .. Len(a) : a[i] = i
        /\ \A i \in 1 .. Len(b) : b[i] = Len(a) + i
        /\ h # 0 => h = Len(a) + Len(b) + 1
    BY <1>1, ConnFacts DEF Connection, ReceiveOK
  <2>2. k \in 1 .. Len(a \o b \o last)
    OBVIOUS
  <2> HIDE DEF a, b, h, last
  <2>3. /\ a \o b \in Seq(Frames) /\ Len(a \o b) = Len(a) + Len(b)
        /\ Len(a) \in Nat /\ Len(b) \in Nat
        /\ \A i \in 1 .. Len(a) + Len(b) :
              (a \o b)[i] = IF i <= Len(a) THEN a[i] ELSE b[i - Len(a)]
    BY <2>1
  <2>4. ASSUME NEW i \in 1 .. Len(a) + Len(b) PROVE (a \o b)[i] = i
    <3>1. CASE i <= Len(a)
      BY <2>1, <2>3, <3>1
    <3>2. CASE i > Len(a)
      <4>1. i - Len(a) \in 1 .. Len(b)
        BY <2>3, <3>2
      <4>2. b[i - Len(a)] = Len(a) + (i - Len(a))
        BY <2>1, <4>1
      <4> QED BY <2>3, <3>2, <4>2
    <3> QED BY <2>3, <3>1, <3>2
  <2>5. CASE h = 0
    <3>1. last = <<>> /\ a \o b \o last = a \o b
      BY <2>3, <2>5 DEF last
    <3>2. k \in 1 .. Len(a) + Len(b) /\ (a \o b \o last)[k] = k
      BY <2>2, <2>3, <2>4, <3>1
    <3> QED BY <3>2 DEF a, b, h, last
  <2>6. CASE h # 0
    <3>1. last = <<h>> /\ h \in Nat /\ h = Len(a) + Len(b) + 1
      BY <2>1, <2>6 DEF last
    <3>2. /\ Len(a \o b \o <<h>>) = Len(a) + Len(b) + 1
          /\ \A i \in 1 .. Len(a) + Len(b) : (a \o b \o <<h>>)[i] = (a \o b)[i]
          /\ (a \o b \o <<h>>)[Len(a) + Len(b) + 1] = h
      BY <2>3, <3>1
    <3>3. k \in 1 .. Len(a) + Len(b) => (a \o b \o last)[k] = k
      BY <2>4, <3>1, <3>2
    <3>4. k = Len(a) + Len(b) + 1 => (a \o b \o last)[k] = k
      BY <3>1, <3>2
    <3>5. k \in 1 .. Len(a) + Len(b) + 1
      BY <2>2, <3>1, <3>2, Zenon
    <3>6. (a \o b \o last)[k] = k
      <4>1. Len(a) + Len(b) \in Nat
        BY <2>3
      <4>2. \A m \in Nat : k \in 1 .. m + 1 => k \in 1 .. m \/ k = m + 1
        OBVIOUS
      <4>3. k \in 1 .. Len(a) + Len(b) \/ k = Len(a) + Len(b) + 1
        BY <3>5, <4>1, <4>2, Zenon
      <4> QED BY <3>3, <3>4, <4>3, Zenon
    <3> QED BY <3>6 DEF a, b, h, last
  <2> QED BY <2>5, <2>6
<1> QED BY <1>1, ClientInvariant, PTL
=============================================================================
