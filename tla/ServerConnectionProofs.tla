------------------------ MODULE ServerConnectionProofs ------------------------
(***************************************************************************)
(* Proofs about ServerConnection for any capacities, kinds of frames,      *)
(* tickers and number of frames: its types, DeliveryInOrder,               *)
(* AnswersMatchRequests, TakenFramesAreAnswered and ImplementsMailbox.     *)
(***************************************************************************)
EXTENDS ServerConnection, SequenceTheorems, TLAPS

USE AppCapAssumption, TxCapAssumption, MaxFramesAssumption

(* A consumer is in the queue of the mutex exactly while it is at "lock";  *)
(* the handler starts the reader.                                          *)
LockInv ==
  /\ handler = "lock"
       <=> rxLock \in {<<"handler">>, <<"handler", "reader">>, <<"reader", "handler">>}
  /\ reader = "lock"
       <=> rxLock \in {<<"reader">>, <<"handler", "reader">>, <<"reader", "handler">>}
  /\ handler \in {"welcome", "info", "spawn"} => reader = "none"

TypeInv == TypeOK /\ LockInv

LEMMA Messages ==
  ASSUME TypeOK
  PROVE  /\ \A t \in Tickers : Notice(t) \in Outgoing
         /\ Notice("welcome") \in Outgoing /\ Notice("info") \in Outgoing
         /\ \A c \in Consumers : Answer(c) \in Outgoing
<1>1. 0 \in 0 .. MaxFrames
  OBVIOUS
<1>2. \A c \in Consumers : inHand[c].n \in 0 .. MaxFrames
  <2> SUFFICES ASSUME NEW c \in Consumers PROVE inHand[c].n \in 0 .. MaxFrames
    OBVIOUS
  <2>1. inHand[c] \in Frame \cup {NoFrame}
    BY DEF TypeOK
  <2>2. CASE inHand[c] \in Frame
    BY <2>2 DEF Frame
  <2>3. CASE inHand[c] = NoFrame
    BY <2>3, <1>1 DEF NoFrame
  <2> QED BY <2>1, <2>2, <2>3
<1> QED BY <1>1, <1>2 DEF Notice, Answer, Outgoing

LEMMA InitTypeInv == Init => TypeInv
<1> SUFFICES ASSUME Init PROVE TypeInv
  OBVIOUS
<1>1. 0 \in 0 .. MaxFrames /\ 0 <= AppCap /\ 0 <= TxCap /\ Len(<<>>) = 0
  OBVIOUS
<1>2. TypeOK
  BY <1>1 DEF Init, TypeOK, Consumers
<1>3. LockInv
  BY DEF Init, LockInv
<1> QED BY <1>2, <1>3 DEF TypeInv

LEMMA NetTypeInv == ASSUME TypeInv, ClientNext \/ ReceiveNext PROVE TypeInv'
<1> USE DEF TypeInv
<1>1. UNCHANGED <<sendTask, writing, txQ, appVars, answers>>
  BY DEF ClientNext, ClientSends, ClientCloses, LinkBreaks, ReceiveNext, ReceiveFrame,
         ReceiveClose, ReceiveError, ReceiveCleanup, netVars, taskVars
<1>2. LockInv'
  BY <1>1 DEF LockInv, appVars
<1>3. sent' \in 0 .. MaxFrames /\ inbound' \in Seq(Frame \cup {CloseFrame})
  <2>1. inbound \in Seq(Frame \cup {CloseFrame}) /\ sent \in 0 .. MaxFrames
    BY DEF TypeOK
  <2>2. ASSUME NEW kind \in Kinds, ClientSends(kind)
        PROVE  sent' \in 0 .. MaxFrames /\ inbound' \in Seq(Frame \cup {CloseFrame})
    <3>1. sent' = sent + 1 /\ sent < MaxFrames
      BY <2>2 DEF ClientSends
    <3>2. sent + 1 \in 1 .. MaxFrames /\ sent + 1 \in 0 .. MaxFrames
      BY <2>1, <3>1
    <3>3. [n |-> sent + 1, kind |-> kind] \in Frame
      BY <3>2 DEF Frame
    <3> QED BY <2>1, <2>2, <3>1, <3>2, <3>3 DEF ClientSends
  <2>3. CASE ClientCloses
    BY <2>1, <2>3 DEF ClientCloses
  <2>4. CASE ReceiveFrame \/ ReceiveClose
    <3>1. inbound # <<>> /\ inbound' = Tail(inbound) /\ sent' = sent
      BY <2>4 DEF ReceiveFrame, ReceiveClose
    <3> QED BY <2>1, <3>1
  <2>5. CASE UNCHANGED <<sent, inbound>>
    BY <2>1, <2>5
  <2> QED BY <2>2, <2>3, <2>4, <2>5 DEF ClientNext, ReceiveNext, LinkBreaks, ReceiveError,
                                        ReceiveCleanup, netVars
<1>4. appQ' \in Seq(Frame) /\ Len(appQ') <= AppCap
  <2>1. appQ \in Seq(Frame) /\ Len(appQ) <= AppCap /\ inbound \in Seq(Frame \cup {CloseFrame})
    BY DEF TypeOK
  <2>2. CASE ReceiveFrame
    <3>1. Head(inbound) \in Frame
      BY <2>1, <2>2 DEF ReceiveFrame
    <3> QED BY <2>1, <2>2, <3>1 DEF ReceiveFrame
  <2>3. CASE UNCHANGED appQ
    BY <2>1, <2>3
  <2> QED BY <2>2, <2>3 DEF ClientNext, ClientSends, ClientCloses, LinkBreaks, ReceiveNext,
                            ReceiveClose, ReceiveError, ReceiveCleanup
<1>5. /\ link' \in {"up", "gone"} /\ ws' \in {"active", "replying", "closed"}
      /\ recvTask' \in {"run", "remove", "ended"} /\ registered' \in BOOLEAN
  BY DEF TypeOK, ClientNext, ClientSends, ClientCloses, LinkBreaks, ReceiveNext, ReceiveFrame,
         ReceiveClose, ReceiveError, ReceiveCleanup, netVars, taskVars
<1>6. TypeOK'
  BY <1>1, <1>3, <1>4, <1>5 DEF TypeOK, appVars
<1> QED BY <1>2, <1>6

LEMMA SendTypeInv == ASSUME TypeInv, SendNext PROVE TypeInv'
<1> USE DEF TypeInv
<1>1. UNCHANGED <<sent, inbound, link, recvTask, appQ, appVars>>
  BY DEF SendNext, SendTakes, SendWrites, SendFails, SendCloses, SendCleanup, netVars
<1>2. LockInv'
  BY <1>1 DEF LockInv, appVars
<1>3. txQ \in Seq(Outgoing) /\ Len(txQ) <= TxCap /\ answers \in Seq(Outgoing)
      /\ writing \in Outgoing \cup {NoMessage}
  BY DEF TypeOK
<1>4. txQ' \in Seq(Outgoing) /\ Len(txQ') <= TxCap
  <2>1. Len(<<>>) = 0 /\ <<>> \in Seq(Outgoing)
    OBVIOUS
  <2>2. txQ # <<>> => Tail(txQ) \in Seq(Outgoing) /\ Len(Tail(txQ)) <= TxCap
    BY <1>3
  <2>3. txQ' = txQ \/ txQ' = <<>> \/ (txQ # <<>> /\ txQ' = Tail(txQ))
    <3>1. CASE SendTakes
      BY <3>1 DEF SendTakes
    <3>2. CASE SendWrites \/ SendFails \/ SendCloses
      <4>1. txQ' = txQ
        BY <3>2 DEF SendWrites, SendFails, SendCloses
      <4> QED BY <4>1
    <3>3. CASE SendCleanup
      BY <3>3, Zenon DEF SendCleanup
    <3> QED BY <3>1, <3>2, <3>3 DEF SendNext
  <2>4. CASE txQ' = txQ
    BY <1>3, <2>4
  <2>5. CASE txQ' = <<>>
    BY <2>1, <2>5
  <2>6. CASE txQ # <<>> /\ txQ' = Tail(txQ)
    BY <2>2, <2>6
  <2> QED BY <2>3, <2>4, <2>5, <2>6
<1>5. writing' \in Outgoing \cup {NoMessage}
  BY <1>3 DEF SendNext, SendTakes, SendWrites, SendFails, SendCloses, SendCleanup
<1>6. answers' \in Seq(Outgoing)
  <2>1. writing.from \in Consumers => writing \in Outgoing
    BY <1>3 DEF NoMessage, Notice, Consumers
  <2> QED BY <1>3, <2>1 DEF SendNext, SendTakes, SendWrites, SendFails, SendCloses, SendCleanup
<1>7. /\ sendTask' \in {"recv", "write", "close", "remove", "ended"}
      /\ registered' \in BOOLEAN /\ ws' \in {"active", "replying", "closed"}
  BY DEF TypeOK, SendNext, SendTakes, SendWrites, SendFails, SendCloses, SendCleanup, netVars
<1>8. TypeOK'
  BY <1>1, <1>4, <1>5, <1>6, <1>7 DEF TypeOK, appVars
<1> QED BY <1>2, <1>8

(* What the application's steps do to the channels.                        *)
LEMMA QueuesType ==
  ASSUME TypeOK, NEW m \in Outgoing, Queues(m) \/ SendRefused
  PROVE  txQ' \in Seq(Outgoing) /\ Len(txQ') <= TxCap
<1>1. txQ \in Seq(Outgoing) /\ Len(txQ) <= TxCap
  BY DEF TypeOK
<1> QED BY <1>1 DEF Queues, SendRefused

LEMMA TakesType ==
  ASSUME TypeOK, NEW c \in Consumers, Takes(c)
  PROVE  /\ appQ # <<>> /\ Head(appQ) \in Frame /\ inHand' = [inHand EXCEPT ![c] = Head(appQ)]
         /\ appQ' \in Seq(Frame) /\ Len(appQ') <= AppCap
         /\ inHand' \in [Consumers -> Frame \cup {NoFrame}]
         /\ delivered' \in Seq([frame : Frame, by : Consumers])
<1>1. appQ \in Seq(Frame) /\ Len(appQ) <= AppCap /\ appQ # <<>>
  BY DEF TypeOK, Takes
<1>2. Head(appQ) \in Frame /\ [frame |-> Head(appQ), by |-> c] \in [frame : Frame, by : Consumers]
  BY <1>1
<1> QED BY <1>1, <1>2 DEF TypeOK, Takes

LEMMA LockShapes ==
  ASSUME TypeOK
  PROVE  /\ HoldsLock("handler") => rxLock \in {<<"handler">>, <<"handler", "reader">>}
         /\ HoldsLock("reader") => rxLock \in {<<"reader">>, <<"reader", "handler">>}
         /\ Tail(<<"handler">>) = <<>> /\ Tail(<<"reader">>) = <<>>
         /\ Tail(<<"handler", "reader">>) = <<"reader">>
         /\ Tail(<<"reader", "handler">>) = <<"handler">>
         /\ <<"handler">> # <<"reader">> /\ <<"handler", "reader">> # <<"reader", "handler">>
         /\ <<"handler">> # <<>> /\ <<"reader">> # <<>> /\ <<"handler", "reader">> # <<>>
         /\ <<"reader", "handler">> # <<>>
         /\ <<"handler">> # <<"handler", "reader">> /\ <<"handler">> # <<"reader", "handler">>
         /\ <<"reader">> # <<"handler", "reader">> /\ <<"reader">> # <<"reader", "handler">>
         /\ Append(<<>>, "handler") = <<"handler">> /\ Append(<<>>, "reader") = <<"reader">>
         /\ Append(<<"handler">>, "reader") = <<"handler", "reader">>
         /\ Append(<<"reader">>, "handler") = <<"reader", "handler">>
<1>1. /\ HoldsLock("handler") => rxLock \in {<<"handler">>, <<"handler", "reader">>}
      /\ HoldsLock("reader") => rxLock \in {<<"reader">>, <<"reader", "handler">>}
  BY DEF TypeOK, HoldsLock
<1>2. Tail(<<"handler">>) = <<>> /\ Tail(<<"reader">>) = <<>>
  OBVIOUS
<1>3. Tail(<<"handler", "reader">>) = <<"reader">>
  OBVIOUS
<1>4. Tail(<<"reader", "handler">>) = <<"handler">>
  OBVIOUS
<1>5. <<"handler">> # <<"reader">> /\ <<"handler", "reader">> # <<"reader", "handler">>
  OBVIOUS
<1>6. /\ <<"handler">> # <<>> /\ <<"reader">> # <<>> /\ <<"handler", "reader">> # <<>>
      /\ <<"reader", "handler">> # <<>>
  OBVIOUS
<1>7. /\ <<"handler">> # <<"handler", "reader">> /\ <<"handler">> # <<"reader", "handler">>
      /\ <<"reader">> # <<"handler", "reader">> /\ <<"reader">> # <<"reader", "handler">>
  OBVIOUS
<1>8. Append(<<>>, "handler") = <<"handler">> /\ Append(<<>>, "reader") = <<"reader">>
  OBVIOUS
<1>9. Append(<<"handler">>, "reader") = <<"handler", "reader">>
  <2> DEFINE s == Append(<<"handler">>, "reader")
             t == <<"handler", "reader">>
  <2>1. /\ s \in Seq(Consumers) /\ Len(s) = 2 /\ s[1] = "handler" /\ s[2] = "reader"
        /\ t \in Seq(Consumers) /\ Len(t) = 2 /\ t[1] = "handler" /\ t[2] = "reader"
    BY DEF Consumers
  <2> HIDE DEF s, t
  <2>2. s = t
    BY <2>1, SeqEqual
  <2> QED BY <2>2 DEF s, t
<1>10. Append(<<"reader">>, "handler") = <<"reader", "handler">>
  <2> DEFINE s == Append(<<"reader">>, "handler")
             t == <<"reader", "handler">>
  <2>1. /\ s \in Seq(Consumers) /\ Len(s) = 2 /\ s[1] = "reader" /\ s[2] = "handler"
        /\ t \in Seq(Consumers) /\ Len(t) = 2 /\ t[1] = "reader" /\ t[2] = "handler"
    BY DEF Consumers
  <2> HIDE DEF s, t
  <2>2. s = t
    BY <2>1, SeqEqual
  <2> QED BY <2>2 DEF s, t
<1> QED BY <1>1, <1>2, <1>3, <1>4, <1>5, <1>6, <1>7, <1>8, <1>9, <1>10

LEMMA HandlerTypeInv == ASSUME TypeInv, HandlerNext PROVE TypeInv'
<1> USE DEF TypeInv
<1>1. UNCHANGED <<netVars, taskVars, answers>>
  BY DEF HandlerNext, SendsWelcome, SendsInfo, HandlerNotice, StartsBackgroundTasks, HandlerLocks,
         HandlerReceives, HandlerEnds, HandlerAnswers
<1>2. txQ' \in Seq(Outgoing) /\ Len(txQ') <= TxCap
  <2>1. CASE UNCHANGED txQ
    BY <2>1 DEF TypeOK
  <2>2. CASE \E m \in Outgoing : Queues(m) \/ SendRefused
    BY <2>2, QueuesType
  <2> QED BY <2>1, <2>2, Messages DEF HandlerNext, SendsWelcome, SendsInfo, HandlerNotice,
             StartsBackgroundTasks, HandlerLocks, HandlerReceives, HandlerEnds, HandlerAnswers,
             Consumers
<1>3. /\ appQ' \in Seq(Frame) /\ Len(appQ') <= AppCap
      /\ delivered' \in Seq([frame : Frame, by : Consumers])
  <2>1. CASE UNCHANGED <<appQ, delivered>>
    BY <2>1 DEF TypeOK
  <2>2. CASE HandlerReceives
    BY <2>2, TakesType DEF HandlerReceives, Consumers
  <2> QED BY <2>1, <2>2 DEF HandlerNext, SendsWelcome, SendsInfo, HandlerNotice,
             StartsBackgroundTasks, HandlerLocks, HandlerEnds, HandlerAnswers
<1>4. /\ handler' \in {"welcome", "info", "spawn", "receive", "lock", "answer", "done"}
      /\ reader' \in {"none", "tick", "try", "lock", "answer", "done"}
      /\ ticker' \in [Tickers -> {"none", "tick", "send", "done"}]
  BY DEF TypeOK, HandlerNext, SendsWelcome, SendsInfo, HandlerNotice, StartsBackgroundTasks,
         HandlerLocks, HandlerReceives, HandlerEnds, HandlerAnswers
<1>5. inHand' \in [Consumers -> Frame \cup {NoFrame}]
  <2>1. inHand \in [Consumers -> Frame \cup {NoFrame}] /\ "handler" \in Consumers
    BY DEF TypeOK, Consumers
  <2>2. CASE HandlerReceives
    BY <2>1, <2>2, TakesType DEF HandlerReceives
  <2>3. CASE HandlerAnswers
    BY <2>1, <2>3 DEF HandlerAnswers
  <2>4. CASE UNCHANGED inHand
    BY <2>1, <2>4
  <2> QED BY <2>2, <2>3, <2>4 DEF HandlerNext, SendsWelcome, SendsInfo, HandlerNotice,
             StartsBackgroundTasks, HandlerLocks, HandlerEnds
<1>6. /\ rxLock' \in {<<>>, <<"handler">>, <<"reader">>, <<"handler", "reader">>,
                      <<"reader", "handler">>}
      /\ LockInv'
  <2>1. /\ rxLock \in {<<>>, <<"handler">>, <<"reader">>, <<"handler", "reader">>,
                       <<"reader", "handler">>}
    BY DEF TypeOK
  <2>2. CASE HandlerLocks
    <3>1. handler = "receive" /\ handler' = "lock" /\ reader' = reader
          /\ rxLock' = Append(rxLock, "handler")
      BY <2>2 DEF HandlerLocks, Locks
    <3>2. CASE rxLock = <<>>
      BY <3>1, <3>2, LockShapes DEF LockInv
    <3>3. CASE rxLock = <<"reader">>
      BY <3>1, <3>3, LockShapes DEF LockInv
    <3> QED BY <2>1, <3>1, <3>2, <3>3 DEF LockInv
  <2>3. CASE HandlerReceives \/ HandlerEnds
    <3>1. handler = "lock" /\ handler' \in {"answer", "done"} /\ reader' = reader
          /\ rxLock' = Tail(rxLock) /\ HoldsLock("handler")
      BY <2>3 DEF HandlerReceives, HandlerEnds, Takes
    <3>2. CASE rxLock = <<"handler">>
      BY <3>1, <3>2, LockShapes DEF LockInv
    <3>3. CASE rxLock = <<"handler", "reader">>
      BY <3>1, <3>3, LockShapes DEF LockInv
    <3> QED BY <3>1, <3>2, <3>3, LockShapes
  <2>4. CASE /\ handler # "lock" /\ handler' # "lock" /\ UNCHANGED rxLock
             /\ handler' \in {"welcome", "info", "spawn"}
                  => handler \in {"welcome", "info", "spawn"} /\ reader' = reader
             /\ reader' = reader \/ (reader = "none" /\ reader' = "tick")
    BY <2>1, <2>4 DEF LockInv
  <2>5. CASE SendsWelcome \/ SendsInfo
    <3>1. /\ handler \in {"welcome", "info"} /\ handler' # "lock" /\ reader' = reader
          /\ rxLock' = rxLock
      BY <2>5 DEF SendsWelcome, SendsInfo, HandlerNotice
    <3> QED BY <2>4, <3>1
  <2>6. CASE StartsBackgroundTasks
    BY <2>4, <2>6 DEF StartsBackgroundTasks, LockInv
  <2>7. CASE HandlerAnswers
    <3>1. /\ handler = "answer" /\ handler' \in {"receive", "done"} /\ reader' = reader
          /\ rxLock' = rxLock
      BY <2>7 DEF HandlerAnswers
    <3> QED BY <2>4, <3>1
  <2> QED BY <2>2, <2>3, <2>5, <2>6, <2>7 DEF HandlerNext
<1>7. TypeOK'
  BY <1>1, <1>2, <1>3, <1>4, <1>5, <1>6 DEF TypeOK, netVars, taskVars
<1> QED BY <1>6, <1>7

LEMMA ReaderTypeInv == ASSUME TypeInv, ReaderNext PROVE TypeInv'
<1> USE DEF TypeInv
<1>1. UNCHANGED <<netVars, taskVars, answers, handler, ticker>>
  BY DEF ReaderNext, ReaderTick, ReaderLocks, ReaderReceives, ReaderFindsNone, ReaderAnswers
<1>2. txQ' \in Seq(Outgoing) /\ Len(txQ') <= TxCap
  <2>1. CASE UNCHANGED txQ
    BY <2>1 DEF TypeOK
  <2>2. CASE \E m \in Outgoing : Queues(m) \/ SendRefused
    BY <2>2, QueuesType
  <2> QED BY <2>1, <2>2, Messages DEF ReaderNext, ReaderTick, ReaderLocks, ReaderReceives,
             ReaderFindsNone, ReaderAnswers, Consumers
<1>3. /\ appQ' \in Seq(Frame) /\ Len(appQ') <= AppCap
      /\ delivered' \in Seq([frame : Frame, by : Consumers])
  <2>1. CASE UNCHANGED <<appQ, delivered>>
    BY <2>1 DEF TypeOK
  <2>2. CASE ReaderReceives
    BY <2>2, TakesType DEF ReaderReceives, Consumers
  <2> QED BY <2>1, <2>2 DEF ReaderNext, ReaderTick, ReaderLocks, ReaderFindsNone, ReaderAnswers
<1>4. reader' \in {"none", "tick", "try", "lock", "answer", "done"}
  BY DEF TypeOK, ReaderNext, ReaderTick, ReaderLocks, ReaderReceives, ReaderFindsNone,
         ReaderAnswers
<1>5. inHand' \in [Consumers -> Frame \cup {NoFrame}]
  <2>1. inHand \in [Consumers -> Frame \cup {NoFrame}]
    BY DEF TypeOK
  <2>2. CASE ReaderReceives
    BY <2>2, TakesType DEF ReaderReceives, Consumers
  <2>3. CASE ReaderLocks
    BY <2>1, <2>3 DEF ReaderLocks
  <2>4. CASE UNCHANGED inHand
    BY <2>1, <2>4
  <2> QED BY <2>2, <2>3, <2>4 DEF ReaderNext, ReaderTick, ReaderFindsNone, ReaderAnswers
<1>6. /\ rxLock' \in {<<>>, <<"handler">>, <<"reader">>, <<"handler", "reader">>,
                      <<"reader", "handler">>}
      /\ LockInv'
  <2>1. /\ rxLock \in {<<>>, <<"handler">>, <<"reader">>, <<"handler", "reader">>,
                       <<"reader", "handler">>}
    BY DEF TypeOK
  <2>0. handler \notin {"welcome", "info", "spawn"}
    BY DEF LockInv, ReaderNext, ReaderTick, ReaderLocks, ReaderReceives, ReaderFindsNone,
           ReaderAnswers
  <2>2. CASE ReaderLocks
    <3>1. reader = "try" /\ reader' = "lock" /\ rxLock' = Append(rxLock, "reader")
      BY <2>2 DEF ReaderLocks, Locks
    <3>2. CASE rxLock = <<>>
      BY <1>1, <2>0, <3>1, <3>2, LockShapes DEF LockInv
    <3>3. CASE rxLock = <<"handler">>
      BY <1>1, <2>0, <3>1, <3>3, LockShapes DEF LockInv
    <3> QED BY <2>1, <3>1, <3>2, <3>3 DEF LockInv
  <2>3. CASE ReaderReceives \/ ReaderFindsNone
    <3>1. reader = "lock" /\ reader' # "lock" /\ rxLock' = Tail(rxLock) /\ HoldsLock("reader")
      BY <2>3 DEF ReaderReceives, ReaderFindsNone, Takes
    <3>2. CASE rxLock = <<"reader">>
      BY <1>1, <2>0, <3>1, <3>2, LockShapes DEF LockInv
    <3>3. CASE rxLock = <<"reader", "handler">>
      BY <1>1, <2>0, <3>1, <3>3, LockShapes DEF LockInv
    <3> QED BY <3>1, <3>2, <3>3, LockShapes
  <2>4. CASE reader # "lock" /\ reader' # "lock" /\ UNCHANGED rxLock
    BY <1>1, <2>0, <2>1, <2>4 DEF LockInv
  <2> QED BY <2>2, <2>3, <2>4 DEF ReaderNext, ReaderTick, ReaderAnswers
<1>7. TypeOK'
  BY <1>1, <1>2, <1>3, <1>4, <1>5, <1>6 DEF TypeOK, netVars, taskVars
<1> QED BY <1>6, <1>7

LEMMA TickerTypeInv == ASSUME TypeInv, NEW t \in Tickers, TickerNext(t) PROVE TypeInv'
<1> USE DEF TypeInv
<1>1. UNCHANGED <<netVars, taskVars, answers, appQ, rxLock, handler, reader, inHand, delivered>>
  BY DEF TickerNext, Tick, TickSends
<1>2. txQ' \in Seq(Outgoing) /\ Len(txQ') <= TxCap
  <2>1. CASE UNCHANGED txQ
    BY <2>1 DEF TypeOK
  <2>2. CASE \E m \in Outgoing : Queues(m) \/ SendRefused
    BY <2>2, QueuesType
  <2> QED BY <2>1, <2>2, Messages DEF TickerNext, Tick, TickSends
<1>3. ticker' \in [Tickers -> {"none", "tick", "send", "done"}]
  BY DEF TypeOK, TickerNext, Tick, TickSends
<1>4. LockInv'
  BY <1>1 DEF LockInv
<1>5. TypeOK'
  BY <1>1, <1>2, <1>3 DEF TypeOK, netVars, taskVars
<1> QED BY <1>4, <1>5

LEMMA StutterTypeInv == ASSUME TypeInv, UNCHANGED vars PROVE TypeInv'
  BY DEF TypeInv, TypeOK, LockInv, vars

LEMMA NextTypeInv == TypeInv /\ [Next]_vars => TypeInv'
  BY NetTypeInv, SendTypeInv, HandlerTypeInv, ReaderTypeInv, TickerTypeInv, StutterTypeInv DEF Next

(* The variables keep their types: no channel holds more than its          *)
(* capacity, and each consumer waits for the mutex at most once.           *)
THEOREM ConnectionTypeOK == Safety => []TypeOK
<1>1. TypeInv => TypeOK
  BY DEF TypeInv
<1> QED BY <1>1, InitTypeInv, NextTypeInv, PTL DEF Safety

(***************************************************************************)
(* The frames on their way, by what they carry.                            *)
(***************************************************************************)

Inbound == Seq(Frame \cup {CloseFrame})

Closing(in) == IF in # <<>> /\ in[Len(in)] = CloseFrame THEN 1 ELSE 0

(* Only the last frame is a close, and the others continue what has been   *)
(* read without a gap.                                                     *)
InboundOK(in, r) ==
  \A k \in 1 .. Len(in) :
    /\ in[k] = CloseFrame => k = Len(in)
    /\ in[k] # CloseFrame => in[k].n = r + k

InboundInv == FramesRead \in Nat /\ InboundOK(inbound, FramesRead)

LEMMA ReadIs == FramesRead = sent - (Len(inbound) - Closing(inbound))
  BY DEF FramesRead, FramesInbound, Closing

LEMMA TailFacts ==
  ASSUME NEW in \in Inbound, in # <<>>
  PROVE  /\ Tail(in) \in Inbound /\ Len(in) \in Nat /\ Len(in) >= 1
         /\ Len(Tail(in)) = Len(in) - 1 /\ Head(in) = in[1]
         /\ \A k \in 1 .. Len(Tail(in)) :
               k + 1 \in 1 .. Len(in) /\ Tail(in)[k] = in[k + 1]
  BY DEF Inbound

LEMMA TailClosing ==
  ASSUME NEW in \in Inbound, in # <<>>, in[1] # CloseFrame
  PROVE  Closing(Tail(in)) = Closing(in)
<1>1. CASE Tail(in) # <<>>
  <2>1. Len(Tail(in)) \in 1 .. Len(Tail(in)) /\ Len(Tail(in)) + 1 = Len(in)
    BY <1>1, TailFacts DEF Inbound
  <2>2. Tail(in)[Len(Tail(in))] = in[Len(in)]
    BY <2>1, TailFacts
  <2> QED BY <1>1, <2>2 DEF Closing
<1>2. CASE Tail(in) = <<>>
  <2>0. Len(<<>>) = 0
    OBVIOUS
  <2>1. Len(in) - 1 = 0 /\ Len(in) \in Nat
    BY <1>2, <2>0, TailFacts, Zenon
  <2>2. Len(in) = 1
    BY <2>1
  <2> QED BY <1>2, <2>2 DEF Closing
<1> QED BY <1>1, <1>2

LEMMA AppendFacts ==
  ASSUME NEW in \in Inbound, NEW x \in Frame \cup {CloseFrame}
  PROVE  /\ Append(in, x) # <<>> /\ Len(in) \in Nat /\ Len(Append(in, x)) = Len(in) + 1
         /\ Append(in, x)[Len(in) + 1] = x
         /\ \A k \in 1 .. Len(in) : Append(in, x)[k] = in[k]
         /\ Closing(Append(in, x)) = IF x = CloseFrame THEN 1 ELSE 0
<1>1. /\ Append(in, x) # <<>> /\ Len(in) \in Nat /\ Len(Append(in, x)) = Len(in) + 1
      /\ Append(in, x)[Len(in) + 1] = x
      /\ \A k \in 1 .. Len(in) : Append(in, x)[k] = in[k]
  BY DEF Inbound
<1> QED BY <1>1 DEF Closing

(* Steps of the client put frames behind those on their way.               *)
LEMMA ClientReads ==
  ASSUME TypeInv, InboundInv, ClientNext
  PROVE  FramesRead' = FramesRead /\ InboundInv'
<1>1. sent \in Nat /\ inbound \in Inbound /\ FramesRead \in Nat /\ Len(inbound) \in Nat
  BY DEF TypeInv, TypeOK, Inbound, InboundInv
<1>2. ASSUME NEW x \in Frame \cup {CloseFrame}, inbound' = Append(inbound, x),
             \A k \in 1 .. Len(inbound) : inbound[k] # CloseFrame,
             \/ x = CloseFrame /\ sent' = sent
             \/ x # CloseFrame /\ sent' = sent + 1 /\ x.n = sent + 1
      PROVE  FramesRead' = FramesRead /\ InboundInv'
  <2>1. Closing(inbound) = 0
    BY <1>1, <1>2 DEF Closing, Inbound
  <2>2. FramesRead = sent - Len(inbound) /\ sent = FramesRead + Len(inbound)
    <3>1. FramesRead = sent - (Len(inbound) - 0)
      BY <2>1, ReadIs
    <3> QED BY <1>1, <3>1
  <2>3. /\ Len(inbound') = Len(inbound) + 1 /\ inbound'[Len(inbound) + 1] = x
        /\ \A k \in 1 .. Len(inbound) : inbound'[k] = inbound[k]
        /\ Closing(inbound') = IF x = CloseFrame THEN 1 ELSE 0
    BY <1>1, <1>2, AppendFacts
  <2>4. FramesRead' = sent' - (Len(inbound') - Closing(inbound'))
    BY ReadIs DEF FramesRead, FramesInbound, Closing
  <2>5. FramesRead' = FramesRead
    <3>1. CASE x = CloseFrame
      <4>1. FramesRead' = sent - ((Len(inbound) + 1) - 1)
        BY <1>2, <2>3, <2>4, <3>1, Zenon
      <4> QED BY <1>1, <2>2, <4>1
    <3>2. CASE x # CloseFrame
      <4>1. FramesRead' = (sent + 1) - ((Len(inbound) + 1) - 0)
        BY <1>2, <2>3, <2>4, <3>2, Zenon
      <4> QED BY <1>1, <2>2, <4>1
    <3> QED BY <3>1, <3>2
  <2>6. InboundOK(inbound', FramesRead)
    <3> SUFFICES ASSUME NEW k \in 1 .. Len(inbound) + 1
                 PROVE  /\ inbound'[k] = CloseFrame => k = Len(inbound) + 1
                        /\ inbound'[k] # CloseFrame => inbound'[k].n = FramesRead + k
      BY <2>3 DEF InboundOK
    <3>1. CASE k \in 1 .. Len(inbound)
      BY <1>2, <2>3, <3>1 DEF InboundInv, InboundOK
    <3>2. CASE k = Len(inbound) + 1
      <4>1. inbound'[k] = x
        BY <2>3, <3>2
      <4>2. x # CloseFrame => x.n = FramesRead + (Len(inbound) + 1)
        BY <1>1, <1>2, <2>2
      <4> QED BY <3>2, <4>1, <4>2
    <3> QED BY <1>1, <3>1, <3>2
  <2> QED BY <1>1, <2>5, <2>6 DEF InboundInv
<1>3. ASSUME NEW kind \in Kinds, ClientSends(kind)
      PROVE  FramesRead' = FramesRead /\ InboundInv'
  <2> DEFINE x == [n |-> sent + 1, kind |-> kind]
  <2>1. sent \in 0 .. MaxFrames /\ sent < MaxFrames
    BY <1>3 DEF ClientSends, TypeInv, TypeOK
  <2>2. sent + 1 \in 1 .. MaxFrames /\ sent + 1 # 0
    BY <2>1
  <2>3. x \in Frame /\ x.n = sent + 1 /\ x # CloseFrame
    BY <2>2 DEF Frame, CloseFrame
  <2>4. /\ inbound' = Append(inbound, x) /\ sent' = sent + 1
        /\ \A k \in 1 .. Len(inbound) : inbound[k] # CloseFrame
    BY <1>3 DEF ClientSends
  <2> HIDE DEF x
  <2> QED BY <1>2, <2>3, <2>4
<1>4. CASE ClientCloses
  BY <1>2, <1>4 DEF ClientCloses
<1>5. CASE LinkBreaks
  BY <1>5 DEF LinkBreaks, FramesRead, FramesInbound, InboundInv
<1> QED BY <1>3, <1>4, <1>5 DEF ClientNext

LEMMA FrameReads ==
  ASSUME TypeInv, InboundInv, ReceiveFrame
  PROVE  FramesRead' = FramesRead + 1 /\ Head(inbound).n = FramesRead + 1 /\ InboundInv'
<1>1. /\ sent \in Nat /\ inbound \in Inbound /\ FramesRead \in Nat
      /\ inbound # <<>> /\ Head(inbound) # CloseFrame /\ inbound' = Tail(inbound) /\ sent' = sent
  BY DEF TypeInv, TypeOK, Inbound, InboundInv, ReceiveFrame
<1>2. /\ Len(inbound) \in Nat /\ Len(inbound) >= 1 /\ Len(inbound') = Len(inbound) - 1
      /\ Head(inbound) = inbound[1]
      /\ \A k \in 1 .. Len(inbound') : k + 1 \in 1 .. Len(inbound) /\ inbound'[k] = inbound[k + 1]
  BY <1>1, TailFacts
<1>3. Closing(inbound') = Closing(inbound) /\ Closing(inbound) \in 0 .. 1
  BY <1>1, <1>2, TailClosing DEF Closing
<1>4. FramesRead' = FramesRead + 1
  <2>1. FramesRead = sent - (Len(inbound) - Closing(inbound))
    BY ReadIs
  <2>2. FramesRead' = sent' - (Len(inbound') - Closing(inbound'))
    BY DEF FramesRead, FramesInbound, Closing
  <2>3. FramesRead' = sent - ((Len(inbound) - 1) - Closing(inbound))
    BY <1>1, <1>2, <1>3, <2>2, Zenon
  <2> QED BY <1>1, <1>2, <1>3, <2>1, <2>3
<1>5. Head(inbound).n = FramesRead + 1
  <2>1. 1 \in 1 .. Len(inbound) /\ inbound[1] # CloseFrame
    BY <1>1, <1>2
  <2>2. inbound[1].n = FramesRead + 1
    BY <2>1 DEF InboundInv, InboundOK
  <2> QED BY <1>2, <2>2
<1>6. InboundOK(inbound', FramesRead + 1)
  <2> SUFFICES ASSUME NEW k \in 1 .. Len(inbound')
               PROVE  /\ inbound'[k] = CloseFrame => k = Len(inbound')
                      /\ inbound'[k] # CloseFrame => inbound'[k].n = FramesRead + 1 + k
    BY DEF InboundOK
  <2>1. k \in Nat /\ k + 1 \in 1 .. Len(inbound) /\ inbound'[k] = inbound[k + 1]
    BY <1>2
  <2>2. /\ inbound[k + 1] = CloseFrame => k + 1 = Len(inbound)
        /\ inbound[k + 1] # CloseFrame => inbound[k + 1].n = FramesRead + (k + 1)
    BY <2>1 DEF InboundInv, InboundOK
  <2>3. \A a, b \in Nat : a + (b + 1) = a + 1 + b
    OBVIOUS
  <2>4. FramesRead + (k + 1) = FramesRead + 1 + k
    BY <1>1, <2>1, <2>3
  <2>5. k + 1 = Len(inbound) => k = Len(inbound')
    BY <1>2, <2>1
  <2> QED BY <2>1, <2>2, <2>4, <2>5, Zenon
<1> QED BY <1>1, <1>4, <1>5, <1>6 DEF InboundInv

LEMMA CloseReads ==
  ASSUME TypeInv, InboundInv, ReceiveClose
  PROVE  FramesRead' = FramesRead /\ InboundInv'
<1>1. /\ sent \in Nat /\ inbound \in Inbound /\ FramesRead \in Nat
      /\ inbound # <<>> /\ Head(inbound) = CloseFrame /\ inbound' = Tail(inbound) /\ sent' = sent
  BY DEF TypeInv, TypeOK, Inbound, InboundInv, ReceiveClose
<1>2. /\ Len(inbound) \in Nat /\ Len(inbound) >= 1 /\ Len(inbound') = Len(inbound) - 1
      /\ Head(inbound) = inbound[1]
  BY <1>1, TailFacts
<1>3. Len(inbound) = 1
  <2>1. 1 \in 1 .. Len(inbound) /\ inbound[1] = CloseFrame
    BY <1>1, <1>2
  <2> QED BY <2>1 DEF InboundInv, InboundOK
<1>4. Len(inbound') = 0 /\ inbound' = <<>>
  <2>1. inbound' \in Inbound
    BY <1>1, TailFacts
  <2> QED BY <1>2, <1>3, <2>1 DEF Inbound
<1>5. Closing(inbound) = 1 /\ Closing(inbound') = 0
  BY <1>1, <1>2, <1>3, <1>4 DEF Closing
<1>6. FramesRead' = FramesRead
  <2>1. FramesRead = sent - (1 - 1)
    BY <1>3, <1>5, ReadIs
  <2>2. FramesRead' = sent' - (Len(inbound') - Closing(inbound'))
    BY DEF FramesRead, FramesInbound, Closing
  <2>3. FramesRead' = sent - (0 - 0)
    BY <1>1, <1>4, <1>5, <2>2, Zenon
  <2> QED BY <1>1, <2>1, <2>3
<1>7. InboundOK(inbound', FramesRead)
  BY <1>4 DEF InboundOK
<1> QED BY <1>1, <1>6, <1>7 DEF InboundInv

LEMMA OthersRead ==
  ASSUME InboundInv, UNCHANGED <<sent, inbound>>
  PROVE  FramesRead' = FramesRead /\ InboundInv'
  BY DEF InboundInv, FramesRead, FramesInbound

(***************************************************************************)
(* The channel to the application is a mailbox.                            *)
(***************************************************************************)

Box == [k \in 1 .. Len(appQ) |-> appQ[k].n]
Taken == [k \in 1 .. Len(delivered) |-> delivered[k].frame.n]

LEMMA FrameNumbers ==
  /\ \A f \in Frame : f.n \in Nat /\ f.n # 0
  /\ \A q \in Seq(Frame) : Len(q) \in Nat /\ \A k \in 1 .. Len(q) : q[k].n \in Nat
  /\ \A d \in Seq([frame : Frame, by : Consumers]) :
       Len(d) \in Nat /\ \A k \in 1 .. Len(d) : d[k].frame.n \in Nat
<1>1. \A f \in Frame : f.n \in Nat /\ f.n # 0
  BY DEF Frame
<1>2. ASSUME NEW q \in Seq(Frame)
      PROVE  Len(q) \in Nat /\ \A k \in 1 .. Len(q) : q[k].n \in Nat
  <2>1. \A k \in 1 .. Len(q) : q[k] \in Frame
    OBVIOUS
  <2> QED BY <1>1, <2>1
<1>3. ASSUME NEW d \in Seq([frame : Frame, by : Consumers])
      PROVE  Len(d) \in Nat /\ \A k \in 1 .. Len(d) : d[k].frame.n \in Nat
  <2>0. \A S : \A s \in Seq(S) : Len(s) \in Nat /\ \A k \in 1 .. Len(s) : s[k] \in S
    OBVIOUS
  <2>1. Len(d) \in Nat /\ \A k \in 1 .. Len(d) : d[k] \in [frame : Frame, by : Consumers]
    BY <2>0, Zenon
  <2>2. \A e \in [frame : Frame, by : Consumers] : e.frame \in Frame
    OBVIOUS
  <2> QED BY <1>1, <2>1, <2>2
<1> QED BY <1>1, <1>2, <1>3

LEMMA BoxFacts ==
  ASSUME TypeInv
  PROVE  /\ Box \in Seq(Nat) /\ Len(Box) = Len(appQ) /\ Len(appQ) \in Nat
         /\ \A k \in 1 .. Len(appQ) : Box[k] = appQ[k].n /\ appQ[k].n \in Nat
         /\ Taken \in Seq(Nat) /\ Len(Taken) = Len(delivered) /\ Len(delivered) \in Nat
         /\ \A k \in 1 .. Len(delivered) :
               Taken[k] = delivered[k].frame.n /\ delivered[k].frame.n \in Nat
<1>1. /\ appQ \in Seq(Frame) /\ Len(appQ) \in Nat
      /\ delivered \in Seq([frame : Frame, by : Consumers]) /\ Len(delivered) \in Nat
  BY DEF TypeInv, TypeOK
<1>2. \A k \in 1 .. Len(appQ) : appQ[k].n \in Nat
  BY <1>1, FrameNumbers
<1>3. \A k \in 1 .. Len(delivered) : delivered[k].frame.n \in Nat
  BY <1>1, FrameNumbers
<1>4. Box \in Seq(Nat) /\ Len(Box) = Len(appQ)
  BY <1>1, <1>2 DEF Box
<1>5. Taken \in Seq(Nat) /\ Len(Taken) = Len(delivered)
  BY <1>1, <1>3 DEF Taken
<1> QED BY <1>1, <1>2, <1>3, <1>4, <1>5 DEF Box, Taken

(* The receive task puts a frame into the mailbox.                         *)
LEMMA BoxAppend ==
  ASSUME TypeInv, TypeInv', NEW f \in Frame, appQ' = Append(appQ, f)
  PROVE  Box' = Append(Box, f.n)
<1>1. appQ \in Seq(Frame) /\ appQ' \in Seq(Frame) /\ f.n \in Nat
  BY SMTT(30) DEF TypeInv, TypeOK, Frame
<1>2. /\ Len(appQ') = Len(appQ) + 1 /\ appQ'[Len(appQ) + 1] = f
      /\ \A k \in 1 .. Len(appQ) : appQ'[k] = appQ[k]
  BY <1>1
<1>3. /\ Box' \in Seq(Nat) /\ Len(Box') = Len(appQ')
      /\ \A k \in 1 .. Len(appQ') : Box'[k] = appQ'[k].n
  <2>1. Len(appQ') \in Nat /\ \A k \in 1 .. Len(appQ') : appQ'[k].n \in Nat
    BY <1>1, FrameNumbers
  <2> QED BY <2>1 DEF Box
<1> DEFINE s == Append(Box, f.n)
<1>4. /\ s \in Seq(Nat) /\ Len(s) = Len(appQ) + 1 /\ s[Len(appQ) + 1] = f.n
      /\ \A k \in 1 .. Len(appQ) : s[k] = appQ[k].n
  BY <1>1, BoxFacts
<1> HIDE DEF s
<1>5. ASSUME NEW k \in 1 .. Len(Box') PROVE Box'[k] = s[k]
  <2>1. k \in 1 .. Len(appQ) + 1 /\ Box'[k] = appQ'[k].n /\ Len(appQ) \in Nat
    BY <1>2, <1>3, BoxFacts
  <2>2. CASE k \in 1 .. Len(appQ)
    BY <1>2, <1>4, <2>1, <2>2
  <2>3. CASE k = Len(appQ) + 1
    BY <1>2, <1>4, <2>1, <2>3
  <2> QED BY <2>1, <2>2, <2>3
<1>6. Box' = s
  BY <1>2, <1>3, <1>4, <1>5, SeqEqual
<1> QED BY <1>6 DEF s

LEMMA BoxTail ==
  ASSUME TypeInv, TypeInv', appQ # <<>>, appQ' = Tail(appQ)
  PROVE  Box # <<>> /\ Head(Box) = Head(appQ).n /\ Box' = Tail(Box)
<1>1. appQ \in Seq(Frame) /\ appQ' \in Seq(Frame) /\ Len(appQ) \in Nat /\ Len(appQ) >= 1
  BY DEF TypeInv, TypeOK
<1>2. /\ Len(appQ') = Len(appQ) - 1 /\ Head(appQ) = appQ[1]
      /\ \A k \in 1 .. Len(appQ') : k + 1 \in 1 .. Len(appQ) /\ appQ'[k] = appQ[k + 1]
  BY <1>1
<1>3. /\ Box' \in Seq(Nat) /\ Len(Box') = Len(appQ')
      /\ \A k \in 1 .. Len(appQ') : Box'[k] = appQ'[k].n
  <2>1. Len(appQ') \in Nat /\ \A k \in 1 .. Len(appQ') : appQ'[k].n \in Nat
    BY <1>1, FrameNumbers
  <2> QED BY <2>1 DEF Box
<1>4. Box # <<>> /\ Box \in Seq(Nat) /\ Len(Box) = Len(appQ)
  BY <1>1, BoxFacts
<1>5. /\ Tail(Box) \in Seq(Nat) /\ Len(Tail(Box)) = Len(Box) - 1 /\ Head(Box) = Box[1]
      /\ \A k \in 1 .. Len(Tail(Box)) : Tail(Box)[k] = Box[k + 1]
  BY <1>4
<1>6. Head(Box) = Head(appQ).n
  <2>1. 1 \in 1 .. Len(appQ)
    BY <1>1
  <2> QED BY <1>2, <1>5, <2>1, BoxFacts
<1>7. ASSUME NEW k \in 1 .. Len(Box') PROVE Box'[k] = Tail(Box)[k]
  <2>1. k \in 1 .. Len(appQ') /\ k \in 1 .. Len(Tail(Box))
    BY <1>2, <1>3, <1>4, <1>5
  <2>2. k + 1 \in 1 .. Len(appQ) /\ Box'[k] = appQ[k + 1].n
    BY <1>2, <1>3, <2>1
  <2> QED BY <1>5, <2>1, <2>2, BoxFacts
<1>8. Box' = Tail(Box)
  BY <1>2, <1>3, <1>4, <1>5, <1>7, SeqEqual
<1> QED BY <1>4, <1>6, <1>8

LEMMA TakenAppend ==
  ASSUME TypeInv, TypeInv', NEW f \in Frame, NEW c \in Consumers,
         delivered' = Append(delivered, [frame |-> f, by |-> c])
  PROVE  Taken' = Append(Taken, f.n)
<1> DEFINE d == [frame |-> f, by |-> c]
<1>0. d \in [frame : Frame, by : Consumers] /\ d.frame = f /\ delivered' = Append(delivered, d)
  OBVIOUS
<1> HIDE DEF d
<1>1. /\ delivered \in Seq([frame : Frame, by : Consumers]) /\ f.n \in Nat
      /\ delivered' \in Seq([frame : Frame, by : Consumers])
  BY SMTT(30) DEF TypeInv, TypeOK, Frame
<1>2. /\ Len(delivered') = Len(delivered) + 1 /\ delivered'[Len(delivered) + 1] = d
      /\ \A k \in 1 .. Len(delivered) : delivered'[k] = delivered[k]
  BY <1>0, <1>1
<1>3. /\ Taken' \in Seq(Nat) /\ Len(Taken') = Len(delivered')
      /\ \A k \in 1 .. Len(delivered') : Taken'[k] = delivered'[k].frame.n
  <2>1. Len(delivered') \in Nat /\ \A k \in 1 .. Len(delivered') : delivered'[k].frame.n \in Nat
    BY <1>1, FrameNumbers
  <2> QED BY <2>1 DEF Taken
<1> DEFINE s == Append(Taken, f.n)
<1>4. /\ s \in Seq(Nat) /\ Len(s) = Len(delivered) + 1 /\ s[Len(delivered) + 1] = f.n
      /\ \A k \in 1 .. Len(delivered) : s[k] = delivered[k].frame.n
  BY <1>1, BoxFacts
<1> HIDE DEF s
<1>5. ASSUME NEW k \in 1 .. Len(Taken') PROVE Taken'[k] = s[k]
  <2>1. k \in 1 .. Len(delivered) + 1 /\ Taken'[k] = delivered'[k].frame.n /\ Len(delivered) \in Nat
    BY <1>2, <1>3, BoxFacts
  <2>2. CASE k \in 1 .. Len(delivered)
    BY <1>2, <1>4, <2>1, <2>2
  <2>3. CASE k = Len(delivered) + 1
    BY <1>0, <1>2, <1>4, <2>1, <2>3
  <2> QED BY <2>1, <2>2, <2>3
<1>6. Taken' = s
  BY <1>2, <1>3, <1>4, <1>5, SeqEqual
<1> QED BY <1>6 DEF s

(* What a step does to the mailbox, and that the numbering of the frames   *)
(* on their way is kept.                                                   *)
LEMMA MailboxStep ==
  ASSUME TypeInv, TypeInv', InboundInv, [Next]_vars
  PROVE  /\ InboundInv'
         /\ \/ FramesRead' = FramesRead /\ Box' = Box /\ Taken' = Taken
            \/ /\ FramesRead' = FramesRead + 1 /\ Taken' = Taken /\ Len(Box) < AppCap
               /\ Box' = Append(Box, FramesRead + 1)
            \/ /\ FramesRead' = FramesRead + 1 /\ Taken' = Taken /\ Len(Box) = AppCap /\ Box' = Box
            \/ /\ FramesRead' = FramesRead /\ Box # <<>> /\ Box' = Tail(Box)
               /\ Taken' = Append(Taken, Head(Box))
<1>1. UNCHANGED appQ => Box' = Box
  BY DEF Box
<1>2. UNCHANGED delivered => Taken' = Taken
  BY DEF Taken
<1>3. CASE ClientNext
  <2>1. UNCHANGED <<appQ, delivered>>
    BY <1>3 DEF ClientNext, ClientSends, ClientCloses, LinkBreaks, appVars
  <2> QED BY <1>1, <1>2, <1>3, <2>1, ClientReads
<1>4. CASE ReceiveFrame
  <2>1. FramesRead' = FramesRead + 1 /\ Head(inbound).n = FramesRead + 1 /\ InboundInv'
    BY <1>4, FrameReads
  <2>2. Taken' = Taken
    BY <1>2, <1>4 DEF ReceiveFrame, appVars
  <2>3. CASE Len(appQ) < AppCap
    <3>1. appQ' = Append(appQ, Head(inbound)) /\ Head(inbound) \in Frame
      <4>1. inbound \in Seq(Frame \cup {CloseFrame}) /\ inbound # <<>> /\ Head(inbound) # CloseFrame
        BY <1>4 DEF ReceiveFrame, TypeInv, TypeOK
      <4>2. Head(inbound) \in Frame \cup {CloseFrame}
        BY <4>1
      <4> QED BY <1>4, <2>3, <4>1, <4>2 DEF ReceiveFrame
    <3>2. Box' = Append(Box, FramesRead + 1)
      BY <2>1, <3>1, BoxAppend
    <3> QED BY <2>1, <2>2, <2>3, <3>2, BoxFacts
  <2>4. CASE ~(Len(appQ) < AppCap)
    <3>1. Box' = Box
      BY <1>1, <1>4, <2>4 DEF ReceiveFrame
    <3>2. Len(appQ) \in Nat /\ Len(appQ) <= AppCap
      BY DEF TypeInv, TypeOK
    <3>3. Len(Box) = AppCap
      BY <2>4, <3>2, BoxFacts
    <3> QED BY <2>1, <2>2, <3>1, <3>3
  <2> QED BY <2>3, <2>4
<1>5. CASE ReceiveClose
  <2>1. UNCHANGED <<appQ, delivered>>
    BY <1>5 DEF ReceiveClose, appVars
  <2> QED BY <1>1, <1>2, <1>5, <2>1, CloseReads
<1>6. CASE UNCHANGED <<sent, inbound, appQ, delivered>>
  BY <1>1, <1>2, <1>6, OthersRead
<1>7. ASSUME NEW c \in Consumers, Takes(c), UNCHANGED <<sent, inbound>>
      PROVE  /\ InboundInv' /\ FramesRead' = FramesRead /\ Box # <<>> /\ Box' = Tail(Box)
             /\ Taken' = Append(Taken, Head(Box))
  <2>1. /\ appQ # <<>> /\ appQ' = Tail(appQ) /\ appQ \in Seq(Frame)
        /\ delivered' = Append(delivered, [frame |-> Head(appQ), by |-> c])
    BY <1>7 DEF Takes, TypeInv, TypeOK
  <2>2. Head(appQ) \in Frame
    BY <2>1
  <2>3. Box # <<>> /\ Head(Box) = Head(appQ).n /\ Box' = Tail(Box)
    BY <2>1, BoxTail
  <2>4. Taken' = Append(Taken, Head(appQ).n)
    BY <2>1, <2>2, TakenAppend
  <2> QED BY <1>7, <2>3, <2>4, OthersRead
<1>8. CASE ReceiveError \/ ReceiveCleanup
  BY <1>6, <1>8 DEF ReceiveError, ReceiveCleanup, netVars, appVars
<1>9. CASE SendNext
  <2>1. UNCHANGED <<sent, inbound, appQ, delivered>>
    BY <1>9 DEF SendNext, SendTakes, SendWrites, SendFails, SendCloses, SendCleanup, netVars, appVars
  <2> QED BY <1>6, <2>1
<1>10. CASE HandlerNext /\ ~HandlerReceives
  <2>1. UNCHANGED <<sent, inbound, appQ, delivered>>
    BY <1>10 DEF HandlerNext, SendsWelcome, SendsInfo, HandlerNotice, StartsBackgroundTasks,
                 HandlerLocks, HandlerEnds, HandlerAnswers, netVars
  <2> QED BY <1>6, <2>1
<1>11. CASE HandlerReceives
  BY <1>7, <1>11 DEF HandlerReceives, Consumers, netVars
<1>12. CASE ReaderNext /\ ~ReaderReceives
  <2>1. UNCHANGED <<sent, inbound, appQ, delivered>>
    BY <1>12 DEF ReaderNext, ReaderTick, ReaderLocks, ReaderFindsNone, ReaderAnswers, netVars
  <2> QED BY <1>6, <2>1
<1>13. CASE ReaderReceives
  BY <1>7, <1>13 DEF ReaderReceives, Consumers, netVars
<1>14. CASE \E t \in Tickers : TickerNext(t)
  <2>1. UNCHANGED <<sent, inbound, appQ, delivered>>
    BY <1>14 DEF TickerNext, Tick, TickSends, netVars
  <2> QED BY <1>6, <2>1
<1>15. CASE UNCHANGED vars
  BY <1>6, <1>15 DEF vars
<1> QED BY <1>3, <1>4, <1>5, <1>8, <1>9, <1>10, <1>11, <1>12, <1>13, <1>14, <1>15
        DEF Next, ReceiveNext

LEMMA InitMailbox ==
  Init => InboundInv /\ FramesRead = 0 /\ Box = <<>> /\ Taken = <<>>
<1> SUFFICES ASSUME Init PROVE InboundInv /\ FramesRead = 0 /\ Box = <<>> /\ Taken = <<>>
  OBVIOUS
<1>1. Len(<<>>) = 0 /\ sent = 0 /\ inbound = <<>> /\ appQ = <<>> /\ delivered = <<>>
  BY DEF Init
<1>2. Len(inbound) = 0 /\ Closing(inbound) = 0
  BY <1>1 DEF Closing
<1>3. FramesRead = 0
  BY <1>1, <1>2, ReadIs
<1>4. InboundInv
  BY <1>2, <1>3 DEF InboundInv, InboundOK
<1>5. Box = <<>> /\ Taken = <<>>
  <2>1. \A q : Len(q) = 0 => [k \in 1 .. Len(q) |-> q[k].n] = <<>>
                           /\ [k \in 1 .. Len(q) |-> q[k].frame.n] = <<>>
    OBVIOUS
  <2> QED BY <1>1, <2>1 DEF Box, Taken
<1> QED BY <1>3, <1>4, <1>5

(* The channel from the receive task to the two consumers implements a     *)
(* mailbox that loses a frame only when it is full.                        *)
THEOREM ConnectionImplementsMailbox == Safety => ImplementsMailbox
<1>1. Init => ToApplication!Init
  BY InitMailbox DEF ToApplication!Init, Box, Taken
<1>2. Init => TypeInv /\ InboundInv
  BY InitTypeInv, InitMailbox
<1>3. (TypeInv /\ InboundInv) /\ [Next]_vars => (TypeInv /\ InboundInv)'
  BY NextTypeInv, MailboxStep
<1>4. (TypeInv /\ InboundInv) /\ [Next]_vars => [ToApplication!Next]_(ToApplication!vars)
  <2> SUFFICES ASSUME TypeInv, InboundInv, [Next]_vars
               PROVE  ToApplication!Next \/ UNCHANGED ToApplication!vars
    OBVIOUS
  <2>1. \/ FramesRead' = FramesRead /\ Box' = Box /\ Taken' = Taken
        \/ /\ FramesRead' = FramesRead + 1 /\ Taken' = Taken /\ Len(Box) < AppCap
           /\ Box' = Append(Box, FramesRead + 1)
        \/ /\ FramesRead' = FramesRead + 1 /\ Taken' = Taken /\ Len(Box) = AppCap /\ Box' = Box
        \/ /\ FramesRead' = FramesRead /\ Box # <<>> /\ Box' = Tail(Box)
           /\ Taken' = Append(Taken, Head(Box))
    BY NextTypeInv, MailboxStep
  <2>2. CASE FramesRead' = FramesRead /\ Box' = Box /\ Taken' = Taken
    BY <2>2 DEF ToApplication!vars, Box, Taken
  <2>3. CASE /\ FramesRead' = FramesRead + 1 /\ Taken' = Taken /\ Len(Box) < AppCap
             /\ Box' = Append(Box, FramesRead + 1)
    BY <2>3 DEF ToApplication!Next, ToApplication!Accept, Box, Taken
  <2>4. CASE FramesRead' = FramesRead + 1 /\ Taken' = Taken /\ Len(Box) = AppCap /\ Box' = Box
    BY <2>4 DEF ToApplication!Next, ToApplication!Lose, Box, Taken
  <2>5. CASE /\ FramesRead' = FramesRead /\ Box # <<>> /\ Box' = Tail(Box)
             /\ Taken' = Append(Taken, Head(Box))
    BY <2>5 DEF ToApplication!Next, ToApplication!Take, Box, Taken
  <2> QED BY <2>1, <2>2, <2>3, <2>4, <2>5
<1> QED BY <1>1, <1>2, <1>3, <1>4, PTL DEF Safety, ImplementsMailbox, ToApplication!Spec

(***************************************************************************)
(* The order of delivery, which holds of every mailbox.                    *)
(***************************************************************************)

OrderInv ==
  /\ Increasing(Taken \o Box)
  /\ \A k \in 1 .. Len(Taken \o Box) : (Taken \o Box)[k] <= FramesRead

ConnInv == TypeInv /\ InboundInv /\ OrderInv

LEMMA AppendIncreasing ==
  ASSUME NEW s \in Seq(Nat), NEW n \in Nat, Increasing(s), \A k \in 1 .. Len(s) : s[k] <= n
  PROVE  Increasing(Append(s, n + 1)) /\ \A k \in 1 .. Len(s) + 1 : Append(s, n + 1)[k] <= n + 1
<1> DEFINE t == Append(s, n + 1)
<1>1. /\ Len(s) \in Nat /\ Len(t) = Len(s) + 1 /\ t[Len(s) + 1] = n + 1
      /\ \A k \in 1 .. Len(s) : t[k] = s[k] /\ s[k] \in Nat
  OBVIOUS
<1> HIDE DEF t
<1>2. ASSUME NEW j \in 1 .. Len(t), NEW k \in 1 .. Len(t), j < k PROVE t[j] < t[k]
  <2>1. j \in 1 .. Len(s) /\ t[j] = s[j] /\ s[j] \in Nat /\ s[j] <= n
    BY <1>1, <1>2
  <2>2. CASE k \in 1 .. Len(s)
    BY <1>1, <1>2, <2>1, <2>2 DEF Increasing
  <2>3. CASE k = Len(s) + 1
    BY <1>1, <2>1, <2>3
  <2> QED BY <1>1, <2>2, <2>3
<1>3. ASSUME NEW k \in 1 .. Len(s) + 1 PROVE t[k] <= n + 1
  <2>1. CASE k \in 1 .. Len(s)
    <3>1. t[k] = s[k] /\ s[k] \in Nat /\ s[k] <= n
      BY <1>1, <2>1
    <3> QED BY <3>1
  <2>2. CASE k = Len(s) + 1
    BY <1>1, <2>2
  <2> QED BY <1>1, <2>1, <2>2
<1>4. Increasing(t)
  BY <1>2 DEF Increasing
<1> QED BY <1>3, <1>4 DEF t

LEMMA ConcatAccept ==
  ASSUME NEW a \in Seq(Nat), NEW b \in Seq(Nat), NEW x \in Nat
  PROVE  a \o Append(b, x) = Append(a \o b, x)
<1> DEFINE s == a \o Append(b, x)
           t == Append(a \o b, x)
<1>1. Append(b, x) \in Seq(Nat) /\ a \o b \in Seq(Nat) /\ Len(a) \in Nat /\ Len(b) \in Nat
  OBVIOUS
<1>2. /\ s \in Seq(Nat) /\ Len(s) = Len(a) + Len(b) + 1
      /\ t \in Seq(Nat) /\ Len(t) = Len(a) + Len(b) + 1
  BY <1>1
<1>3. ASSUME NEW i \in 1 .. Len(s) PROVE s[i] = t[i]
  BY <1>1, <1>2
<1> HIDE DEF s, t
<1>4. s = t
  BY <1>2, <1>3, SeqEqual
<1> QED BY <1>4 DEF s, t

LEMMA ConcatTake ==
  ASSUME NEW a \in Seq(Nat), NEW b \in Seq(Nat), b # <<>>
  PROVE  Append(a, Head(b)) \o Tail(b) = a \o b
<1> DEFINE s == Append(a, Head(b)) \o Tail(b)
           t == a \o b
<1>1. /\ Head(b) \in Nat /\ Tail(b) \in Seq(Nat) /\ Append(a, Head(b)) \in Seq(Nat)
      /\ Len(a) \in Nat /\ Len(b) \in Nat /\ Len(b) >= 1 /\ Len(Tail(b)) = Len(b) - 1
      /\ Len(Append(a, Head(b))) = Len(a) + 1
  OBVIOUS
<1>2. /\ s \in Seq(Nat) /\ Len(s) = Len(a) + Len(b)
      /\ t \in Seq(Nat) /\ Len(t) = Len(a) + Len(b)
  BY <1>1
<1>3. ASSUME NEW i \in 1 .. Len(s) PROVE s[i] = t[i]
  <2>1. CASE i <= Len(a)
    BY <1>1, <1>2, <2>1
  <2>2. CASE i = Len(a) + 1
    BY <1>1, <1>2, <2>2
  <2>3. CASE i > Len(a) + 1
    BY <1>1, <1>2, <2>3
  <2> QED BY <1>1, <1>2, <2>1, <2>2, <2>3
<1> HIDE DEF s, t
<1>4. s = t
  BY <1>2, <1>3, SeqEqual
<1> QED BY <1>4 DEF s, t

LEMMA OrderStep == ConnInv /\ [Next]_vars => ConnInv'
<1> SUFFICES ASSUME ConnInv, [Next]_vars PROVE ConnInv'
  OBVIOUS
<1>1. TypeInv' /\ InboundInv'
  BY NextTypeInv, MailboxStep DEF ConnInv
<1>2. /\ FramesRead \in Nat /\ Box \in Seq(Nat) /\ Taken \in Seq(Nat) /\ OrderInv
  BY BoxFacts DEF ConnInv, InboundInv
<1>3. \/ FramesRead' = FramesRead /\ Box' = Box /\ Taken' = Taken
      \/ /\ FramesRead' = FramesRead + 1 /\ Taken' = Taken /\ Len(Box) < AppCap
         /\ Box' = Append(Box, FramesRead + 1)
      \/ /\ FramesRead' = FramesRead + 1 /\ Taken' = Taken /\ Len(Box) = AppCap /\ Box' = Box
      \/ /\ FramesRead' = FramesRead /\ Box # <<>> /\ Box' = Tail(Box)
         /\ Taken' = Append(Taken, Head(Box))
  BY <1>1, MailboxStep DEF ConnInv
<1> DEFINE all == Taken \o Box
<1>4. all \in Seq(Nat) /\ Increasing(all) /\ \A k \in 1 .. Len(all) : all[k] <= FramesRead
  BY <1>2 DEF OrderInv
<1>5. OrderInv' <=> Increasing(all') /\ \A k \in 1 .. Len(all') : all'[k] <= FramesRead'
  BY DEF OrderInv
<1>6. CASE FramesRead' = FramesRead /\ all' = all
  <2> HIDE DEF all
  <2>1. OrderInv'
    BY <1>4, <1>5, <1>6
  <2> QED BY <1>1, <2>1 DEF ConnInv
<1>7. CASE FramesRead' = FramesRead + 1 /\ all' = all
  <2> HIDE DEF all
  <2>1. \A k \in 1 .. Len(all) : all[k] \in Nat
    BY <1>4
  <2>2. OrderInv'
    BY <1>2, <1>4, <1>5, <1>7, <2>1
  <2> QED BY <1>1, <2>2 DEF ConnInv
<1>8. CASE FramesRead' = FramesRead + 1 /\ Taken' = Taken /\ Box' = Append(Box, FramesRead + 1)
  <2>1. all' = Append(all, FramesRead + 1)
    BY <1>2, <1>8, ConcatAccept
  <2> HIDE DEF all
  <2>2. Len(all') = Len(all) + 1
    BY <1>2, <1>4, <2>1
  <2>3. OrderInv'
    BY <1>2, <1>4, <1>5, <1>8, <2>1, <2>2, AppendIncreasing
  <2> QED BY <1>1, <2>3 DEF ConnInv
<1>9. CASE /\ FramesRead' = FramesRead /\ Box # <<>> /\ Box' = Tail(Box)
           /\ Taken' = Append(Taken, Head(Box))
  <2>1. all' = all
    BY <1>2, <1>9, ConcatTake
  <2> QED BY <1>6, <1>9, <2>1
<1> QED BY <1>3, <1>6, <1>7, <1>8, <1>9

LEMMA OrderInit == Init => ConnInv
<1> SUFFICES ASSUME Init PROVE ConnInv
  OBVIOUS
<1>1. Box = <<>> /\ Taken = <<>> /\ FramesRead = 0
  BY InitMailbox
<1>2. Len(<<>> \o <<>>) = 0
  OBVIOUS
<1>3. OrderInv
  BY <1>1, <1>2 DEF OrderInv, Increasing
<1> QED BY <1>3, InitTypeInv, InitMailbox DEF ConnInv

(* The consumers take the client's frames in the order it sent them, and   *)
(* none twice.                                                             *)
THEOREM ConnectionDeliveryInOrder == Safety => []DeliveryInOrder
<1>1. ConnInv => DeliveryInOrder
  BY DEF ConnInv, OrderInv, DeliveryInOrder, Taken, Box
<1> QED BY <1>1, OrderInit, OrderStep, PTL DEF Safety

(* A frame that waits is later than every frame taken.                     *)
LEMMA WaitingIsLater ==
  ASSUME ConnInv, NEW j \in 1 .. Len(delivered), NEW k \in 1 .. Len(appQ)
  PROVE  delivered[j].frame.n < appQ[k].n
<1>1. /\ Box \in Seq(Nat) /\ Len(Box) = Len(appQ) /\ Len(appQ) \in Nat /\ Box[k] = appQ[k].n
      /\ Taken \in Seq(Nat) /\ Len(Taken) = Len(delivered) /\ Len(delivered) \in Nat
      /\ Taken[j] = delivered[j].frame.n
  BY BoxFacts DEF ConnInv
<1> DEFINE all == Taken \o Box
           later == Len(delivered) + k
<1>2. /\ later \in 1 .. Len(all) /\ j \in 1 .. Len(all) /\ j < later
      /\ all[j] = Taken[j] /\ all[later] = Box[k]
  BY <1>1, SMTT(30)
<1>3. Increasing(all)
  BY DEF ConnInv, OrderInv
<1> HIDE DEF all, later
<1>4. all[j] < all[later]
  BY <1>2, <1>3 DEF Increasing
<1> QED BY <1>1, <1>2, <1>4

(***************************************************************************)
(* Answers.                                                                *)
(***************************************************************************)

Message == Outgoing \cup {NoMessage}

(* Of two messages of one consumer, the first answers an earlier frame.    *)
Precedes(x, y) == x.from \in Consumers /\ x.from = y.from => x.re < y.re

Sorted(s) == \A j, k \in 1 .. Len(s) : j < k => Precedes(s[j], s[k])
Before(s, y) == \A k \in 1 .. Len(s) : Precedes(s[k], y)
After(x, s) == \A k \in 1 .. Len(s) : Precedes(x, s[k])
AllBefore(s, t) == \A j \in 1 .. Len(s) : \A k \in 1 .. Len(t) : Precedes(s[j], t[k])

(* Written, being written and queued, in this order.                       *)
Ordered(a, w, q) ==
  Sorted(a) /\ Sorted(q) /\ Before(a, w) /\ After(w, q) /\ AllBefore(a, q)

Elements(s) == {s[k] : k \in 1 .. Len(s)}

Sent == Elements(answers) \cup {writing} \cup Elements(txQ)

(* The frame that m answers was taken by the one who sends m.              *)
Matched(m) ==
  m.from \in Consumers =>
    \E d \in 1 .. Len(delivered) :
      delivered[d].frame.n = m.re /\ delivered[d].by = m.from

(* The answer that c is about to send.                                     *)
Fresh(c) ==
  Busy(c) => Matched(Answer(c)) /\ \A m \in Sent : Precedes(m, Answer(c))

AnswerInv ==
  /\ Ordered(answers, writing, txQ)
  /\ \A m \in Sent : Matched(m)
  /\ \A c \in Consumers : Fresh(c)

LEMMA NoMessagePrecedes == \A x : Precedes(NoMessage, x) /\ Precedes(x, NoMessage)
  BY DEF Precedes, NoMessage, Notice, Consumers

LEMMA OrderedTake ==
  ASSUME NEW a, NEW w, NEW q \in Seq(Message), q # <<>>, Ordered(a, w, q)
  PROVE  Ordered(a, Head(q), Tail(q)) /\ Elements(Tail(q)) \subseteq Elements(q)
                                     /\ Head(q) \in Elements(q)
<1> DEFINE t == Tail(q)
<1>1. /\ 1 \in 1 .. Len(q) /\ Head(q) = q[1] /\ Len(t) \in Nat
      /\ \A k \in 1 .. Len(t) : k \in Nat /\ k + 1 \in 1 .. Len(q) /\ 1 < k + 1 /\ t[k] = q[k + 1]
  <2>1. \A S : \A s \in Seq(S) : s # <<>> =>
          /\ 1 \in 1 .. Len(s) /\ Head(s) = s[1] /\ Len(Tail(s)) \in Nat
          /\ \A k \in 1 .. Len(Tail(s)) :
                k \in Nat /\ k + 1 \in 1 .. Len(s) /\ 1 < k + 1 /\ Tail(s)[k] = s[k + 1]
    OBVIOUS
  <2> QED BY <2>1, Zenon
<1> HIDE DEF t
<1>2. Before(a, Head(q))
  BY <1>1 DEF Ordered, Before, AllBefore
<1>3. After(Head(q), t)
  BY <1>1 DEF Ordered, After, Sorted
<1>4. AllBefore(a, t)
  BY <1>1 DEF Ordered, AllBefore
<1>5. Sorted(t)
  <2> SUFFICES ASSUME NEW j \in 1 .. Len(t), NEW k \in 1 .. Len(t), j < k
               PROVE  Precedes(t[j], t[k])
    BY DEF Sorted
  <2>1. /\ j + 1 \in 1 .. Len(q) /\ k + 1 \in 1 .. Len(q) /\ j + 1 < k + 1
        /\ t[j] = q[j + 1] /\ t[k] = q[k + 1]
    BY <1>1
  <2> QED BY <2>1 DEF Ordered, Sorted
<1>6. Elements(t) \subseteq Elements(q) /\ Head(q) \in Elements(q)
  BY <1>1, SMTT(30) DEF Elements
<1> QED BY <1>2, <1>3, <1>4, <1>5, <1>6 DEF t, Ordered

LEMMA AppendIs ==
  ASSUME NEW s \in Seq(Message), NEW m \in Message
  PROVE  /\ Len(s) \in Nat /\ Len(Append(s, m)) = Len(s) + 1 /\ Append(s, m)[Len(s) + 1] = m
         /\ \A k \in 1 .. Len(s) : Append(s, m)[k] = s[k]
         /\ Append(s, m) \in Seq(Message)
<1>1. \A S : \A t \in Seq(S) : \A x \in S :
        /\ Len(t) \in Nat /\ Len(Append(t, x)) = Len(t) + 1 /\ Append(t, x)[Len(t) + 1] = x
        /\ \A k \in 1 .. Len(t) : Append(t, x)[k] = t[k]
        /\ Append(t, x) \in Seq(S)
  OBVIOUS
<1> QED BY <1>1, Zenon

LEMMA SortedAppend ==
  ASSUME NEW s \in Seq(Message), NEW m \in Message, Sorted(s), Before(s, m)
  PROVE  /\ Sorted(Append(s, m))
         /\ Elements(Append(s, m)) \subseteq Elements(s) \cup {m}
         /\ \A x : (After(x, s) /\ Precedes(x, m)) => After(x, Append(s, m))
         /\ \A x : (Before(s, x) /\ Precedes(m, x)) => Before(Append(s, m), x)
<1> DEFINE t == Append(s, m)
<1>1. /\ Len(s) \in Nat /\ Len(t) = Len(s) + 1 /\ t[Len(s) + 1] = m
      /\ \A k \in 1 .. Len(s) : t[k] = s[k]
  BY AppendIs
<1> HIDE DEF t
<1>2. \A k \in 1 .. Len(t) : k \in 1 .. Len(s) \/ (k = Len(s) + 1 /\ t[k] = m)
  BY <1>1
<1>3. Sorted(t)
  <2> SUFFICES ASSUME NEW j \in 1 .. Len(t), NEW k \in 1 .. Len(t), j < k
               PROVE  Precedes(t[j], t[k])
    BY DEF Sorted
  <2>1. j \in 1 .. Len(s)
    BY <1>1
  <2>2. CASE k \in 1 .. Len(s)
    BY <1>1, <2>1, <2>2 DEF Sorted
  <2>3. CASE t[k] = m
    BY <1>1, <2>1, <2>3 DEF Before
  <2> QED BY <1>2, <2>2, <2>3
<1>4. Elements(t) \subseteq Elements(s) \cup {m}
  BY <1>1, <1>2 DEF Elements
<1>5. \A x : (After(x, s) /\ Precedes(x, m)) => After(x, t)
  BY <1>1, <1>2 DEF After
<1>6. \A x : (Before(s, x) /\ Precedes(m, x)) => Before(t, x)
  BY <1>1, <1>2 DEF Before
<1> QED BY <1>3, <1>4, <1>5, <1>6 DEF t

LEMMA OrderedQueue ==
  ASSUME NEW a, NEW w, NEW q \in Seq(Message), NEW m \in Message, Ordered(a, w, q),
         Before(a, m), Precedes(w, m), Before(q, m)
  PROVE  Ordered(a, w, Append(q, m)) /\ Elements(Append(q, m)) \subseteq Elements(q) \cup {m}
<1>1. Sorted(Append(q, m)) /\ After(w, Append(q, m))
  BY SortedAppend DEF Ordered
<1>2. AllBefore(a, Append(q, m))
  <2> SUFFICES ASSUME NEW j \in 1 .. Len(a) PROVE After(a[j], Append(q, m))
    BY DEF AllBefore, After
  <2>1. After(a[j], q) /\ Precedes(a[j], m)
    BY DEF Ordered, AllBefore, After, Before
  <2> QED BY <2>1, SortedAppend DEF Ordered
<1> QED BY <1>1, <1>2, SortedAppend DEF Ordered

LEMMA OrderedWrite ==
  ASSUME NEW a \in Seq(Message), NEW w \in Message, NEW q, Ordered(a, w, q)
  PROVE  /\ Ordered(Append(a, w), NoMessage, q)
         /\ Elements(Append(a, w)) \subseteq Elements(a) \cup {w}
         /\ Ordered(a, NoMessage, q) /\ Ordered(a, NoMessage, <<>>) /\ Ordered(a, w, <<>>)
<1>1. Sorted(Append(a, w)) /\ Elements(Append(a, w)) \subseteq Elements(a) \cup {w}
  BY SortedAppend DEF Ordered
<1>2. /\ \A s : Before(s, NoMessage) /\ After(NoMessage, s)
  BY NoMessagePrecedes DEF Before, After
<1>3. Len(<<>>) = 0
  OBVIOUS
<1>4. Sorted(<<>>) /\ \A x : After(x, <<>>) /\ AllBefore(x, <<>>)
  BY <1>3 DEF Sorted, After, AllBefore
<1>5. AllBefore(Append(a, w), q)
  <2> SUFFICES ASSUME NEW k \in 1 .. Len(q) PROVE Before(Append(a, w), q[k])
    BY DEF AllBefore, Before
  <2>1. Before(a, q[k]) /\ Precedes(w, q[k])
    BY DEF Ordered, AllBefore, After, Before
  <2> QED BY <2>1, SortedAppend DEF Ordered
<1> QED BY <1>1, <1>2, <1>4, <1>5 DEF Ordered

LEMMA SentTypes ==
  ASSUME TypeInv
  PROVE  answers \in Seq(Message) /\ txQ \in Seq(Message) /\ writing \in Message
<1>1. answers \in Seq(Outgoing) /\ txQ \in Seq(Outgoing) /\ writing \in Message
  BY DEF TypeInv, TypeOK, Message
<1>2. \A S, T : \A q \in Seq(S) : q \in Seq(S \cup T)
  OBVIOUS
<1> QED BY <1>1, <1>2, Zenon DEF Message

(* A step that sends nothing new and gives no consumer a frame to answer.  *)
LEMMA AnswersLeft ==
  ASSUME AnswerInv, Ordered(answers', writing', txQ'), Sent' \subseteq Sent \cup {NoMessage},
         UNCHANGED delivered,
         \A c \in Consumers : Busy(c)' => Busy(c) /\ inHand'[c] = inHand[c]
  PROVE  AnswerInv'
<1>1. \A m : Matched(m) => Matched(m)'
  BY DEF Matched
<1>2. Matched(NoMessage)
  BY DEF Matched, NoMessage, Notice, Consumers
<1>3. ASSUME NEW c \in Consumers, Busy(c)'
      PROVE  Matched(Answer(c))' /\ \A m \in Sent' : Precedes(m, Answer(c)')
  <2>1. Busy(c) /\ Answer(c)' = Answer(c)
    BY <1>3 DEF Answer
  <2>2. Matched(Answer(c)) /\ \A m \in Sent : Precedes(m, Answer(c))
    BY <2>1 DEF AnswerInv, Fresh
  <2>3. Matched(Answer(c))'
    BY <2>1, <2>2 DEF Matched
  <2> QED BY <2>1, <2>2, <2>3, NoMessagePrecedes
<1>4. \A m \in Sent' : Matched(m)'
  BY <1>1, <1>2 DEF AnswerInv
<1>5. \A c \in Consumers : Fresh(c)'
  BY <1>3 DEF Fresh
<1> QED BY <1>4, <1>5 DEF AnswerInv

(* A step that queues m.                                                   *)
LEMMA AnswersQueued ==
  ASSUME TypeInv, AnswerInv, NEW m \in Outgoing, Queues(m),
         UNCHANGED <<answers, writing, delivered>>,
         Matched(m), \A x \in Sent : Precedes(x, m),
         \A c \in Consumers : Busy(c)' => Busy(c) /\ inHand'[c] = inHand[c] /\ m.from # c
  PROVE  AnswerInv'
<1>1. txQ' = Append(txQ, m) /\ m \in Message
  BY DEF Queues, Message
<1>2. Before(answers, m) /\ Precedes(writing, m) /\ Before(txQ, m)
  BY DEF Sent, Elements, Before
<1>3. Ordered(answers, writing, txQ') /\ Elements(txQ') \subseteq Elements(txQ) \cup {m}
  BY <1>1, <1>2, OrderedQueue, SentTypes DEF AnswerInv
<1>4. Sent' \subseteq Sent \cup {m}
  BY <1>3 DEF Sent
<1>5. \A x : Matched(x) => Matched(x)'
  BY DEF Matched
<1>6. \A x \in Sent' : Matched(x)'
  BY <1>4, <1>5 DEF AnswerInv
<1>7. ASSUME NEW c \in Consumers, Busy(c)'
      PROVE  Matched(Answer(c))' /\ \A x \in Sent' : Precedes(x, Answer(c)')
  <2>1. Busy(c) /\ Answer(c)' = Answer(c) /\ m.from # c
    BY <1>7 DEF Answer
  <2>2. Matched(Answer(c)) /\ \A x \in Sent : Precedes(x, Answer(c))
    BY <2>1 DEF AnswerInv, Fresh
  <2>3. Matched(Answer(c))'
    BY <2>1, <2>2 DEF Matched
  <2>4. Precedes(m, Answer(c))
    BY <2>1 DEF Precedes, Answer
  <2> QED BY <1>4, <2>1, <2>2, <2>3, <2>4
<1>8. \A c \in Consumers : Fresh(c)'
  BY <1>7 DEF Fresh
<1> QED BY <1>3, <1>6, <1>8 DEF AnswerInv

LEMMA AppendInto ==
  ASSUME NEW S, NEW q \in Seq(S), NEW x \in S
  PROVE  /\ Len(q) + 1 \in 1 .. Len(Append(q, x)) /\ Append(q, x)[Len(q) + 1] = x
         /\ \A k \in 1 .. Len(q) : k \in 1 .. Len(Append(q, x)) /\ Append(q, x)[k] = q[k]
  OBVIOUS

(* A step in which consumer c takes a frame: it is later than every frame  *)
(* c has answered.                                                         *)
LEMMA AnswersTaken ==
  ASSUME ConnInv, AnswerInv, NEW c \in Consumers, Takes(c),
         UNCHANGED <<answers, writing, txQ>>,
         \A e \in Consumers : e # c => (Busy(e)' => Busy(e))
  PROVE  AnswerInv'
<1> DEFINE f == Head(appQ)
           d == [frame |-> f, by |-> c]
           last == Len(delivered) + 1
<1>1. /\ appQ \in Seq(Frame) /\ appQ # <<>> /\ inHand' = [inHand EXCEPT ![c] = f]
      /\ inHand \in [Consumers -> Frame \cup {NoFrame}] /\ delivered' = Append(delivered, d)
      /\ delivered \in Seq([frame : Frame, by : Consumers])
  BY DEF ConnInv, TypeInv, TypeOK, Takes
<1>2. f \in Frame /\ 1 \in 1 .. Len(appQ) /\ f = appQ[1]
  BY <1>1
<1>3. d \in [frame : Frame, by : Consumers] /\ d.frame = f /\ d.by = c
  BY <1>2
<1>4. \A k \in 1 .. Len(delivered) : delivered[k].frame.n < f.n
  BY <1>2, WaitingIsLater
<1> HIDE DEF f, d
<1>5. /\ last \in 1 .. Len(delivered') /\ delivered'[last] = d
      /\ \A k \in 1 .. Len(delivered) : k \in 1 .. Len(delivered') /\ delivered'[k] = delivered[k]
  <2> DEFINE Pair == [frame : Frame, by : Consumers]
  <2>1. delivered' = Append(delivered, d) /\ delivered \in Seq(Pair) /\ d \in Pair
    BY <1>1, <1>3
  <2> HIDE DEF last, Pair
  <2>2. /\ Len(delivered) + 1 \in 1 .. Len(Append(delivered, d))
        /\ Append(delivered, d)[Len(delivered) + 1] = d
        /\ \A k \in 1 .. Len(delivered) :
              k \in 1 .. Len(Append(delivered, d)) /\ Append(delivered, d)[k] = delivered[k]
    BY <2>1, AppendInto
  <2> QED BY <2>1, <2>2 DEF last
<1> HIDE DEF last
<1>6. Sent' = Sent
  BY DEF Sent
<1>7. \A m : Matched(m) => Matched(m)'
  BY <1>5 DEF Matched
<1>8. \A m \in Sent' : Matched(m)'
  BY <1>6, <1>7 DEF AnswerInv
<1>9. Fresh(c)'
  <2>1. Answer(c)' = [from |-> c, re |-> f.n]
    BY <1>1 DEF Answer
  <2>2. Matched(Answer(c))'
    BY <1>3, <1>5, <2>1 DEF Matched
  <2>3. ASSUME NEW m \in Sent PROVE Precedes(m, Answer(c)')
    <3>1. CASE m.from = c
      <4>1. PICK k \in 1 .. Len(delivered) : delivered[k].frame.n = m.re /\ delivered[k].by = m.from
        BY <3>1 DEF AnswerInv, Matched
      <4>2. m.re < f.n
        BY <1>4, <4>1
      <4> QED BY <2>1, <4>2 DEF Precedes
    <3>2. CASE m.from # c
      BY <2>1, <3>2 DEF Precedes
    <3> QED BY <3>1, <3>2
  <2> QED BY <1>6, <2>2, <2>3 DEF Fresh
<1>10. ASSUME NEW e \in Consumers, e # c PROVE Fresh(e)'
  <2> SUFFICES ASSUME Busy(e)'
               PROVE  Matched(Answer(e))' /\ \A m \in Sent' : Precedes(m, Answer(e)')
    BY DEF Fresh
  <2>1. Busy(e) /\ Answer(e)' = Answer(e)
    BY <1>1, <1>10 DEF Answer
  <2>2. Matched(Answer(e)) /\ \A m \in Sent : Precedes(m, Answer(e))
    BY <2>1 DEF AnswerInv, Fresh
  <2>3. Matched(Answer(e))'
    BY <1>5, <2>1, <2>2 DEF Matched
  <2> QED BY <1>6, <2>1, <2>2, <2>3
<1>11. Ordered(answers', writing', txQ')
  BY DEF AnswerInv
<1> QED BY <1>8, <1>9, <1>10, <1>11 DEF AnswerInv

(* A step of the send task.                                                *)
LEMMA SendAnswers ==
  ASSUME TypeInv, AnswerInv, SendNext
  PROVE  AnswerInv'
<1>1. UNCHANGED <<delivered, handler, reader, inHand>>
  BY DEF SendNext, SendTakes, SendWrites, SendFails, SendCloses, SendCleanup, appVars
<1>2. \A c \in Consumers : Busy(c)' => Busy(c) /\ inHand'[c] = inHand[c]
  BY <1>1 DEF Busy
<1>3. answers \in Seq(Message) /\ txQ \in Seq(Message) /\ writing \in Message
  BY SentTypes
<1>4. Ordered(answers, writing, txQ)
  BY DEF AnswerInv
<1>5. Elements(<<>>) = {}
  <2>1. Len(<<>>) = 0
    OBVIOUS
  <2> QED BY <2>1 DEF Elements
<1>6. CASE SendTakes
  <2>1. txQ # <<>> /\ writing' = Head(txQ) /\ txQ' = Tail(txQ) /\ answers' = answers
    BY <1>6 DEF SendTakes
  <2>2. /\ Ordered(answers, Head(txQ), Tail(txQ))
        /\ Elements(Tail(txQ)) \subseteq Elements(txQ) /\ Head(txQ) \in Elements(txQ)
    BY <1>3, <1>4, <2>1, OrderedTake
  <2>3. Sent' \subseteq Sent
    BY <2>1, <2>2 DEF Sent
  <2> QED BY <1>1, <1>2, <2>1, <2>2, <2>3, AnswersLeft
<1>7. CASE SendWrites
  <2>1. /\ writing' = NoMessage /\ txQ' = txQ
        /\ answers' = answers \/ answers' = Append(answers, writing)
    BY <1>7 DEF SendWrites
  <2>2. Ordered(answers', writing', txQ') /\ Elements(answers') \subseteq Elements(answers) \cup {writing}
    <3>1. CASE answers' = answers
      BY <1>3, <1>4, <2>1, <3>1, OrderedWrite
    <3>2. CASE answers' = Append(answers, writing)
      BY <1>3, <1>4, <2>1, <3>2, OrderedWrite
    <3> QED BY <2>1, <3>1, <3>2
  <2>3. Sent' \subseteq Sent \cup {NoMessage}
    BY <2>1, <2>2 DEF Sent
  <2> QED BY <1>1, <1>2, <2>2, <2>3, AnswersLeft
<1>8. CASE SendFails
  <2>1. writing' = NoMessage /\ txQ' = txQ /\ answers' = answers
    BY <1>8 DEF SendFails
  <2>2. Ordered(answers', writing', txQ')
    BY <1>3, <1>4, <2>1, OrderedWrite
  <2>3. Sent' \subseteq Sent \cup {NoMessage}
    BY <2>1 DEF Sent
  <2> QED BY <1>1, <1>2, <2>2, <2>3, AnswersLeft
<1>9. CASE SendCloses
  <2>1. writing' = writing /\ txQ' = txQ /\ answers' = answers
    BY <1>9 DEF SendCloses
  <2>2. Ordered(answers', writing', txQ') /\ Sent' = Sent
    BY <1>4, <2>1 DEF Sent
  <2> QED BY <1>1, <1>2, <2>2, AnswersLeft
<1>10. CASE SendCleanup
  <2>1. writing' = writing /\ txQ' = <<>> /\ answers' = answers
    BY <1>10 DEF SendCleanup
  <2>2. Ordered(answers', writing', txQ')
    BY <1>3, <1>4, <2>1, OrderedWrite
  <2>3. Sent' \subseteq Sent
    BY <1>5, <2>1 DEF Sent
  <2> QED BY <1>1, <1>2, <2>2, <2>3, AnswersLeft
<1> QED BY <1>6, <1>7, <1>8, <1>9, <1>10 DEF SendNext

(* Notices carry no answer.                                                *)
LEMMA NoticeAnswers ==
  ASSUME NEW t, t \notin Consumers
  PROVE  Matched(Notice(t)) /\ (\A x : Precedes(x, Notice(t))) /\ Notice(t).from \notin Consumers
  BY DEF Matched, Precedes, Notice

LEMMA NamesDiffer == "handler" # "reader" /\ "welcome" \notin Consumers /\ "info" \notin Consumers
                     /\ \A t \in Tickers : t \notin Consumers
  BY TickersAssumption DEF Consumers

(* A step that leaves the messages and what is taken alone.                *)
LEMMA AnswersStay ==
  ASSUME AnswerInv, UNCHANGED <<answers, writing, txQ, delivered>>,
         \A c \in Consumers : Busy(c)' => Busy(c) /\ inHand'[c] = inHand[c]
  PROVE  AnswerInv'
<1>1. Ordered(answers', writing', txQ') /\ Sent' = Sent
  BY DEF AnswerInv, Sent
<1> QED BY <1>1, AnswersLeft

LEMMA HandlerAnswerInv == ASSUME ConnInv, AnswerInv, HandlerNext PROVE AnswerInv'
<1>0. TypeInv
  BY DEF ConnInv
<1>2. CASE SendsWelcome \/ SendsInfo
  <2>1. /\ UNCHANGED <<answers, writing, delivered, inHand, reader>> /\ handler' # "answer"
        /\ \E t \in {"welcome", "info"} : Queues(Notice(t)) \/ SendRefused
    BY <1>2 DEF SendsWelcome, SendsInfo, HandlerNotice, taskVars
  <2>2. \A c \in Consumers : Busy(c)' => Busy(c) /\ inHand'[c] = inHand[c]
    BY <2>1 DEF Busy, Consumers
  <2>3. CASE SendRefused
    BY <2>1, <2>2, <2>3, AnswersStay DEF SendRefused
  <2>4. ASSUME NEW t \in {"welcome", "info"}, Queues(Notice(t)) PROVE AnswerInv'
    <3>1. Notice(t) \in Outgoing /\ t \notin Consumers
      BY <1>0, Messages, NamesDiffer DEF TypeInv
    <3> QED BY <1>0, <2>1, <2>2, <2>4, <3>1, NoticeAnswers, AnswersQueued
  <2> QED BY <2>1, <2>3, <2>4
<1>3. CASE StartsBackgroundTasks \/ HandlerLocks \/ HandlerEnds
  <2>1. /\ UNCHANGED <<answers, writing, txQ, delivered, inHand>> /\ handler' # "answer"
        /\ reader' = "answer" => reader = "answer"
    BY <1>3 DEF StartsBackgroundTasks, HandlerLocks, HandlerEnds, taskVars
  <2> QED BY <2>1, AnswersStay DEF Busy, Consumers
<1>4. CASE HandlerReceives
  <2>1. Takes("handler") /\ UNCHANGED <<answers, writing, txQ, reader>>
    BY <1>4 DEF HandlerReceives, taskVars
  <2>2. \A e \in Consumers : e # "handler" => (Busy(e)' => Busy(e))
    BY <2>1 DEF Busy
  <2> QED BY <2>1, <2>2, AnswersTaken DEF Consumers
<1>5. CASE HandlerAnswers
  <2>1. /\ UNCHANGED <<answers, writing, delivered, reader>> /\ handler = "answer" /\ handler' # "answer"
        /\ Queues(Answer("handler")) \/ SendRefused
        /\ inHand' = [inHand EXCEPT !["handler"] = NoFrame]
    BY <1>5 DEF HandlerAnswers, taskVars
  <2>2. \A c \in Consumers : Busy(c)' => Busy(c) /\ inHand'[c] = inHand[c] /\ c = "reader"
    BY <1>0, <2>1, NamesDiffer DEF Busy, Consumers, TypeInv, TypeOK
  <2>3. CASE SendRefused
    BY <2>1, <2>2, <2>3, AnswersStay DEF SendRefused
  <2>4. CASE Queues(Answer("handler"))
    <3>1. Answer("handler") \in Outgoing /\ Answer("handler").from = "handler"
      BY <1>0, Messages DEF TypeInv, Consumers, Answer
    <3>2. Matched(Answer("handler")) /\ \A m \in Sent : Precedes(m, Answer("handler"))
      BY <2>1 DEF AnswerInv, Fresh, Busy, Consumers
    <3>3. \A c \in Consumers :
            Busy(c)' => Busy(c) /\ inHand'[c] = inHand[c] /\ Answer("handler").from # c
      BY <2>2, <3>1, NamesDiffer
    <3> QED BY <1>0, <2>1, <2>4, <3>1, <3>2, <3>3, AnswersQueued
  <2> QED BY <2>1, <2>3, <2>4
<1> QED BY <1>2, <1>3, <1>4, <1>5 DEF HandlerNext

LEMMA ReaderAnswerInv == ASSUME ConnInv, AnswerInv, ReaderNext PROVE AnswerInv'
<1>0. TypeInv
  BY DEF ConnInv
<1>1. CASE ReaderTick \/ ReaderLocks \/ ReaderFindsNone
  <2>1. /\ UNCHANGED <<answers, writing, txQ, delivered, handler>> /\ reader' # "answer"
        /\ inHand' = inHand \/ inHand' = [inHand EXCEPT !["reader"] = NoFrame]
    BY <1>1 DEF ReaderTick, ReaderLocks, ReaderFindsNone, taskVars
  <2>2. \A c \in Consumers : Busy(c)' => Busy(c) /\ inHand'[c] = inHand[c]
    BY <1>0, <2>1, NamesDiffer DEF Busy, Consumers, TypeInv, TypeOK
  <2> QED BY <2>1, <2>2, AnswersStay
<1>2. CASE ReaderReceives
  <2>1. Takes("reader") /\ UNCHANGED <<answers, writing, txQ, handler>>
    BY <1>2 DEF ReaderReceives, taskVars
  <2>2. \A e \in Consumers : e # "reader" => (Busy(e)' => Busy(e))
    BY <2>1 DEF Busy, Consumers
  <2> QED BY <2>1, <2>2, AnswersTaken DEF Consumers
<1>3. CASE ReaderAnswers
  <2>1. /\ UNCHANGED <<answers, writing, delivered, handler, inHand>>
        /\ reader = "answer" /\ reader' # "answer"
        /\ Queues(Answer("reader")) \/ SendRefused
    BY <1>3 DEF ReaderAnswers, taskVars
  <2>2. \A c \in Consumers : Busy(c)' => Busy(c) /\ inHand'[c] = inHand[c] /\ c = "handler"
    BY <2>1, NamesDiffer DEF Busy, Consumers
  <2>3. CASE SendRefused
    BY <2>1, <2>2, <2>3, AnswersStay DEF SendRefused
  <2>4. CASE Queues(Answer("reader"))
    <3>1. Answer("reader") \in Outgoing /\ Answer("reader").from = "reader"
      BY <1>0, Messages DEF TypeInv, Consumers, Answer
    <3>2. Matched(Answer("reader")) /\ \A m \in Sent : Precedes(m, Answer("reader"))
      BY <2>1, NamesDiffer DEF AnswerInv, Fresh, Busy, Consumers
    <3>3. \A c \in Consumers :
            Busy(c)' => Busy(c) /\ inHand'[c] = inHand[c] /\ Answer("reader").from # c
      BY <2>2, <3>1, NamesDiffer
    <3> QED BY <1>0, <2>1, <2>4, <3>1, <3>2, <3>3, AnswersQueued
  <2> QED BY <2>1, <2>3, <2>4
<1> QED BY <1>1, <1>2, <1>3 DEF ReaderNext

LEMMA TickerAnswerInv ==
  ASSUME ConnInv, AnswerInv, NEW t \in Tickers, TickerNext(t) PROVE AnswerInv'
<1>0. TypeInv
  BY DEF ConnInv
<1>1. UNCHANGED <<answers, writing, delivered, handler, reader, inHand>>
  BY DEF TickerNext, Tick, TickSends, taskVars
<1>2. \A c \in Consumers : Busy(c)' => Busy(c) /\ inHand'[c] = inHand[c]
  BY <1>1 DEF Busy
<1>3. CASE txQ' = txQ
  BY <1>1, <1>2, <1>3, AnswersStay
<1>4. CASE Queues(Notice(t))
  <2>1. Notice(t) \in Outgoing /\ t \notin Consumers
    BY <1>0, Messages, NamesDiffer DEF TypeInv
  <2> QED BY <1>0, <1>1, <1>2, <1>4, <2>1, NoticeAnswers, AnswersQueued
<1> QED BY <1>3, <1>4 DEF TickerNext, Tick, TickSends, SendRefused

LEMMA AnswerStep == ConnInv /\ AnswerInv /\ [Next]_vars => AnswerInv'
<1> SUFFICES ASSUME ConnInv, AnswerInv, [Next]_vars PROVE AnswerInv'
  OBVIOUS
<1>1. CASE ClientNext \/ ReceiveNext
  <2>1. UNCHANGED <<answers, writing, txQ, delivered, handler, reader, inHand>>
    BY <1>1 DEF ClientNext, ClientSends, ClientCloses, LinkBreaks, ReceiveNext, ReceiveFrame,
                ReceiveClose, ReceiveError, ReceiveCleanup, taskVars, appVars
  <2> QED BY <2>1, AnswersStay DEF Busy
<1>2. CASE UNCHANGED vars
  <2>1. UNCHANGED <<answers, writing, txQ, delivered, handler, reader, inHand>>
    BY <1>2 DEF vars
  <2> QED BY <2>1, AnswersStay DEF Busy
<1> QED BY <1>1, <1>2, SendAnswers, HandlerAnswerInv, ReaderAnswerInv, TickerAnswerInv
        DEF Next, ConnInv

LEMMA AnswerInit == Init => AnswerInv
<1> SUFFICES ASSUME Init PROVE AnswerInv
  OBVIOUS
<1>1. Len(<<>>) = 0 /\ answers = <<>> /\ txQ = <<>> /\ writing = NoMessage
  BY DEF Init
<1>2. Ordered(answers, writing, txQ)
  BY <1>1 DEF Ordered, Sorted, Before, After, AllBefore
<1>3. Sent = {NoMessage}
  BY <1>1 DEF Sent, Elements
<1>4. Matched(NoMessage)
  BY DEF Matched, NoMessage, Notice, Consumers
<1>5. \A c \in Consumers : Fresh(c)
  BY DEF Init, Fresh, Busy
<1> QED BY <1>2, <1>3, <1>4, <1>5 DEF AnswerInv

(* Elements and order of a concatenation.                                  *)
LEMMA ConcatIs ==
  ASSUME NEW S, NEW s \in Seq(S), NEW t \in Seq(S)
  PROVE  /\ s \o t \in Seq(S) /\ Len(s) \in Nat /\ Len(t) \in Nat
         /\ Len(s \o t) = Len(s) + Len(t)
         /\ \A k \in 1 .. Len(s) : (s \o t)[k] = s[k]
         /\ \A k \in 1 .. Len(t) : (s \o t)[Len(s) + k] = t[k]
  OBVIOUS

LEMMA SortedConcat ==
  ASSUME NEW s \in Seq(Message), NEW t \in Seq(Message), Sorted(s), Sorted(t), AllBefore(s, t)
  PROVE  /\ s \o t \in Seq(Message) /\ Sorted(s \o t)
         /\ Elements(s \o t) \subseteq Elements(s) \cup Elements(t)
         /\ \A x : (After(x, s) /\ After(x, t)) => After(x, s \o t)
<1> DEFINE c == s \o t
<1>1. /\ c \in Seq(Message) /\ Len(s) \in Nat /\ Len(t) \in Nat /\ Len(c) = Len(s) + Len(t)
      /\ \A k \in 1 .. Len(s) : c[k] = s[k]
      /\ \A k \in 1 .. Len(t) : c[Len(s) + k] = t[k]
  BY ConcatIs
<1> HIDE DEF c
<1>2. \A k \in 1 .. Len(c) :
        \/ k \in 1 .. Len(s) /\ c[k] = s[k]
        \/ k - Len(s) \in 1 .. Len(t) /\ c[k] = t[k - Len(s)] /\ k > Len(s)
  <2> SUFFICES ASSUME NEW k \in 1 .. Len(c), k \notin 1 .. Len(s)
               PROVE  k - Len(s) \in 1 .. Len(t) /\ c[k] = t[k - Len(s)] /\ k > Len(s)
    BY <1>1
  <2>1. k - Len(s) \in 1 .. Len(t) /\ k > Len(s) /\ Len(s) + (k - Len(s)) = k
    BY <1>1
  <2> QED BY <1>1, <2>1
<1>3. Sorted(c)
  <2> SUFFICES ASSUME NEW j \in 1 .. Len(c), NEW k \in 1 .. Len(c), j < k
               PROVE  Precedes(c[j], c[k])
    BY DEF Sorted
  <2>1. CASE k \in 1 .. Len(s)
    <3>1. j \in 1 .. Len(s)
      BY <1>1, <2>1
    <3> QED BY <1>1, <2>1, <3>1 DEF Sorted
  <2>2. CASE k \notin 1 .. Len(s)
    <3>1. k - Len(s) \in 1 .. Len(t) /\ c[k] = t[k - Len(s)]
      BY <1>2, <2>2
    <3>2. CASE j \in 1 .. Len(s)
      BY <1>1, <3>1, <3>2 DEF AllBefore
    <3>3. CASE j \notin 1 .. Len(s)
      <4>1. j - Len(s) \in 1 .. Len(t) /\ c[j] = t[j - Len(s)]
        BY <1>2, <3>3
      <4>2. j - Len(s) < k - Len(s)
        BY <1>1
      <4> QED BY <3>1, <4>1, <4>2 DEF Sorted
    <3> QED BY <3>2, <3>3
  <2> QED BY <2>1, <2>2
<1>4. Elements(c) \subseteq Elements(s) \cup Elements(t)
  BY <1>2 DEF Elements
<1>5. \A x : (After(x, s) /\ After(x, t)) => After(x, c)
  BY <1>2 DEF After
<1> QED BY <1>1, <1>3, <1>4, <1>5 DEF c

(* What has left, or waits to leave, for the client is in order.           *)
LEMMA OutboundSorted ==
  ASSUME TypeInv, AnswerInv
  PROVE  Sorted(Outbound) /\ Elements(Outbound) \subseteq Sent
<1> DEFINE hand == IF writing = NoMessage THEN <<>> ELSE <<writing>>
<1>1. answers \in Seq(Message) /\ txQ \in Seq(Message) /\ writing \in Message
  BY SentTypes
<1>2. Ordered(answers, writing, txQ)
  BY DEF AnswerInv
<1>3. /\ hand \in Seq(Message) /\ Sorted(hand) /\ AllBefore(answers, hand) /\ AllBefore(hand, txQ)
      /\ Elements(hand) \subseteq {writing}
  <2>1. CASE writing = NoMessage
    <3>1. hand = <<>> /\ Len(<<>>) = 0 /\ <<>> \in Seq(Message)
      BY <2>1
    <3> QED BY <3>1 DEF Sorted, AllBefore, Elements
  <2>2. CASE writing # NoMessage
    <3>1. hand = <<writing>> /\ Len(<<writing>>) = 1 /\ <<writing>>[1] = writing
      BY <2>2
    <3>2. <<writing>> \in Seq(Message)
      BY <1>1
    <3> HIDE DEF hand
    <3>3. \A k \in 1 .. Len(hand) : k = 1 /\ hand[k] = writing
      BY <3>1
    <3>4. Sorted(hand) /\ Elements(hand) \subseteq {writing}
      BY <3>3 DEF Sorted, Elements
    <3>5. AllBefore(answers, hand) /\ AllBefore(hand, txQ)
      BY <1>2, <3>3 DEF AllBefore, Ordered, Before, After
    <3> QED BY <3>1, <3>2, <3>4, <3>5
  <2> QED BY <2>1, <2>2
<1> HIDE DEF hand
<1> DEFINE out == answers \o hand
<1>4. /\ out \in Seq(Message) /\ Sorted(out) /\ Elements(out) \subseteq Elements(answers) \cup {writing}
  BY <1>1, <1>2, <1>3, SortedConcat DEF Ordered
<1>5. AllBefore(out, txQ)
  <2> SUFFICES ASSUME NEW k \in 1 .. Len(out) PROVE After(out[k], txQ)
    BY DEF AllBefore, After
  <2>1. out[k] \in Elements(answers) \/ out[k] = writing
    BY <1>4 DEF Elements
  <2>2. CASE out[k] = writing
    BY <1>2, <2>2 DEF Ordered
  <2>3. CASE out[k] \in Elements(answers)
    BY <1>2, <2>3 DEF Ordered, Elements, AllBefore, After
  <2> QED BY <2>1, <2>2, <2>3
<1> HIDE DEF out
<1>6. Sorted(out \o txQ) /\ Elements(out \o txQ) \subseteq Elements(out) \cup Elements(txQ)
  BY <1>1, <1>2, <1>4, <1>5, SortedConcat DEF Ordered
<1>7. Outbound = out \o txQ
  BY <1>1, <1>3 DEF out, hand, Outbound
<1> QED BY <1>4, <1>6, <1>7 DEF Sent

(* Each answer is to a request that its sender took, no request is         *)
(* answered twice, and each task's answers leave in the order of the       *)
(* requests.                                                               *)
THEOREM ConnectionAnswersMatchRequests == Safety => []AnswersMatchRequests
<1>1. ConnInv /\ AnswerInv => AnswersMatchRequests
  <2> SUFFICES ASSUME ConnInv, AnswerInv, NEW k \in 1 .. Len(Outbound),
                      Outbound[k].from \in Consumers
               PROVE  /\ \E d \in 1 .. Len(delivered) :
                           /\ delivered[d].frame.n = Outbound[k].re
                           /\ delivered[d].by = Outbound[k].from
                      /\ \A j \in 1 .. k - 1 :
                           Outbound[j].from = Outbound[k].from => Outbound[j].re < Outbound[k].re
    BY DEF AnswersMatchRequests
  <2>1. Sorted(Outbound) /\ Elements(Outbound) \subseteq Sent
    BY OutboundSorted DEF ConnInv
  <2>2. Matched(Outbound[k])
    BY <2>1 DEF AnswerInv, Elements
  <2>3. ASSUME NEW j \in 1 .. k - 1 PROVE Precedes(Outbound[j], Outbound[k])
    <3>1. j \in 1 .. Len(Outbound) /\ j < k
      OBVIOUS
    <3> QED BY <2>1, <3>1 DEF Sorted
  <2> QED BY <2>2, <2>3 DEF Matched, Precedes
<1> QED BY <1>1, OrderInit, AnswerInit, OrderStep, AnswerStep, PTL DEF Safety

(***************************************************************************)
(* Every frame taken is answered.                                          *)
(***************************************************************************)

(* What has become of a frame that was taken, as long as no write failed.  *)
Settled(taken) ==
  \/ Unneeded(taken)
  \/ Busy(taken.by) /\ inHand[taken.by] = taken.frame
  \/ \E m \in Sent : m.from = taken.by /\ m.re = taken.frame.n

SettledInv ==
  /\ sendTask = "recv" => writing = NoMessage
  /\ sendTask \in {"recv", "write"}
       => \A d \in 1 .. Len(delivered) : Settled(delivered[d])

(* The consumers are who takes frames.                                     *)
LEMMA TakenBy ==
  ASSUME TypeInv, NEW d \in 1 .. Len(delivered)
  PROVE  delivered[d].by \in Consumers /\ delivered[d].frame \in Frame
<1> DEFINE Pair == [frame : Frame, by : Consumers]
<1>1. delivered \in Seq(Pair)
  BY DEF TypeInv, TypeOK
<1> HIDE DEF Pair
<1>2. delivered[d] \in Pair
  BY <1>1
<1> QED BY <1>2 DEF Pair

(* A step that takes no frame, ends no consumer's work and loses no answer.*)
LEMMA SettledStays ==
  ASSUME TypeInv, SettledInv, UNCHANGED delivered,
         sendTask' = "recv" => writing' = NoMessage,
         sendTask' \in {"recv", "write"}
           => /\ sendTask \in {"recv", "write"}
              /\ \A m \in Sent : m.from \in Consumers => m \in Sent'
              /\ \A c \in Consumers :
                    Busy(c) => \/ Busy(c)' /\ inHand'[c] = inHand[c]
                               \/ Answer(c) \in Sent'
  PROVE  SettledInv'
<1> SUFFICES ASSUME sendTask' \in {"recv", "write"}, NEW d \in 1 .. Len(delivered)
             PROVE  Settled(delivered[d])'
  BY DEF SettledInv
<1>1. delivered[d].by \in Consumers /\ delivered'[d] = delivered[d] /\ Settled(delivered[d])
  BY TakenBy DEF SettledInv
<1>2. CASE Unneeded(delivered[d])
  BY <1>1, <1>2 DEF Settled, Unneeded
<1>3. CASE Busy(delivered[d].by) /\ inHand[delivered[d].by] = delivered[d].frame
  BY <1>1, <1>3 DEF Settled, Answer
<1>4. CASE \E m \in Sent : m.from = delivered[d].by /\ m.re = delivered[d].frame.n
  BY <1>1, <1>4 DEF Settled
<1> QED BY <1>1, <1>2, <1>3, <1>4 DEF Settled

LEMMA NoMessageIsNoAnswer == NoMessage.from \notin Consumers
  BY DEF NoMessage, Notice, Consumers

LEMMA HeadOrTail ==
  ASSUME NEW q \in Seq(Message), q # <<>>
  PROVE  Elements(q) \subseteq {Head(q)} \cup Elements(Tail(q))
<1> DEFINE t == Tail(q)
<1>1. Len(t) = Len(q) - 1 /\ Head(q) = q[1] /\ Len(q) \in Nat
      /\ \A k \in 1 .. Len(t) : t[k] = q[k + 1]
  <2>1. \A S : \A s \in Seq(S) : s # <<>> =>
          /\ Len(Tail(s)) = Len(s) - 1 /\ Head(s) = s[1] /\ Len(s) \in Nat
          /\ \A k \in 1 .. Len(Tail(s)) : Tail(s)[k] = s[k + 1]
    OBVIOUS
  <2> QED BY <2>1, Zenon
<1> HIDE DEF t
<1>2. ASSUME NEW k \in 1 .. Len(q), k # 1 PROVE q[k] \in Elements(t)
  <2>1. k - 1 \in 1 .. Len(t) /\ t[k - 1] = q[k]
    BY <1>1, <1>2
  <2> QED BY <2>1 DEF Elements
<1> QED BY <1>1, <1>2 DEF t, Elements

LEMMA KeptByAppend ==
  ASSUME NEW q \in Seq(Message), NEW m \in Message
  PROVE  Elements(q) \cup {m} \subseteq Elements(Append(q, m))
<1> DEFINE t == Append(q, m)
<1>1. Len(q) \in Nat /\ Len(t) = Len(q) + 1 /\ t[Len(q) + 1] = m
      /\ \A k \in 1 .. Len(q) : t[k] = q[k]
  BY AppendIs
<1> HIDE DEF t
<1>2. Len(q) + 1 \in 1 .. Len(t) /\ \A k \in 1 .. Len(q) : k \in 1 .. Len(t)
  BY <1>1
<1> QED BY <1>1, <1>2 DEF t, Elements

(* A step of the send task: a message goes from the queue to its hand and  *)
(* from there to the client, until a write fails.                          *)
LEMMA SendSettles == ASSUME TypeInv, SettledInv, SendNext PROVE SettledInv'
<1>1. UNCHANGED <<delivered, handler, reader, inHand>>
  BY DEF SendNext, SendTakes, SendWrites, SendFails, SendCloses, SendCleanup, appVars
<1>2. \A c \in Consumers : Busy(c) => Busy(c)' /\ inHand'[c] = inHand[c]
  BY <1>1 DEF Busy
<1>3. answers \in Seq(Message) /\ txQ \in Seq(Message) /\ writing \in Message
  BY SentTypes
<1>4. CASE SendTakes
  <2>1. /\ sendTask = "recv" /\ sendTask' = "write" /\ txQ # <<>>
        /\ writing' = Head(txQ) /\ txQ' = Tail(txQ) /\ answers' = answers
    BY <1>4 DEF SendTakes
  <2>2. writing = NoMessage /\ Elements(txQ) \subseteq {writing'} \cup Elements(txQ')
    BY <1>3, <2>1, HeadOrTail DEF SettledInv
  <2>3. \A m \in Sent : m.from \in Consumers => m \in Sent'
    BY <2>1, <2>2, NoMessageIsNoAnswer DEF Sent
  <2> QED BY <1>1, <1>2, <2>1, <2>3, SettledStays
<1>5. CASE SendWrites
  <2>1. /\ sendTask = "write" /\ sendTask' = "recv" /\ writing' = NoMessage /\ txQ' = txQ
        /\ answers' = IF writing.from \in Consumers THEN Append(answers, writing) ELSE answers
    BY <1>5 DEF SendWrites
  <2>2. \A m \in Sent : m.from \in Consumers => m \in Sent'
    BY <1>3, <2>1, KeptByAppend DEF Sent
  <2> QED BY <1>1, <1>2, <2>1, <2>2, SettledStays
<1>6. CASE SendFails \/ SendCloses \/ SendCleanup
  <2>1. sendTask' \notin {"recv", "write"}
    BY <1>6 DEF SendFails, SendCloses, SendCleanup
  <2> QED BY <2>1 DEF SettledInv
<1> QED BY <1>4, <1>5, <1>6 DEF SendNext

(* Queuing keeps what was there.                                           *)
LEMMA QueuesKeep ==
  ASSUME TypeInv, NEW m \in Outgoing, Queues(m), UNCHANGED <<answers, writing>>
  PROVE  Sent \cup {m} \subseteq Sent'
<1>1. txQ' = Append(txQ, m) /\ m \in Message /\ txQ \in Seq(Message)
  BY SentTypes DEF Queues, Message
<1> QED BY <1>1, KeptByAppend DEF Sent

(* A consumer takes a frame and answers it, or has no need to.             *)
LEMMA TakesSettles ==
  ASSUME TypeInv, SettledInv, NEW c \in Consumers, Takes(c), ~Busy(c),
         UNCHANGED <<answers, writing, txQ, sendTask>>,
         \A e \in Consumers : e # c => (Busy(e) => Busy(e)'),
         Busy(c)' \/ Unneeded([frame |-> Head(appQ), by |-> c])
  PROVE  SettledInv'
<1> DEFINE f == Head(appQ)
           new == [frame |-> f, by |-> c]
<1>1. /\ appQ \in Seq(Frame) /\ appQ # <<>> /\ inHand' = [inHand EXCEPT ![c] = f]
      /\ inHand \in [Consumers -> Frame \cup {NoFrame}] /\ delivered' = Append(delivered, new)
      /\ delivered \in Seq([frame : Frame, by : Consumers])
  BY DEF TypeInv, TypeOK, Takes
<1>2. f \in Frame
  BY <1>1
<1>3. new \in [frame : Frame, by : Consumers] /\ new.frame = f /\ new.by = c
  BY <1>2
<1>4. Busy(c)' \/ Unneeded(new)
  OBVIOUS
<1> HIDE DEF new, f
<1>5. \A d \in 1 .. Len(delivered') :
        \/ d \in 1 .. Len(delivered) /\ delivered'[d] = delivered[d]
        \/ delivered'[d] = new
  <2> DEFINE Pair == [frame : Frame, by : Consumers]
  <2>1. delivered' = Append(delivered, new) /\ delivered \in Seq(Pair) /\ new \in Pair
    BY <1>1, <1>3
  <2> HIDE DEF Pair
  <2>2. /\ Len(delivered') = Len(delivered) + 1 /\ delivered'[Len(delivered) + 1] = new
        /\ Len(delivered) \in Nat
        /\ \A d \in 1 .. Len(delivered) : delivered'[d] = delivered[d]
    BY <2>1
  <2> QED BY <2>2
<1>6. Sent' = Sent
  BY DEF Sent
<1> SUFFICES ASSUME sendTask \in {"recv", "write"}, NEW d \in 1 .. Len(delivered')
             PROVE  Settled(delivered[d])'
  BY DEF SettledInv
<1>7. CASE delivered'[d] = new
  <2>1. CASE Busy(c)'
    BY <1>1, <1>3, <1>7, <2>1 DEF Settled
  <2>2. CASE Unneeded(new)
    BY <1>7, <2>2 DEF Settled, Unneeded
  <2> QED BY <1>4, <2>1, <2>2
<1>8. CASE d \in 1 .. Len(delivered) /\ delivered'[d] = delivered[d]
  <2>1. Settled(delivered[d]) /\ delivered[d].by \in Consumers
    BY <1>8, TakenBy DEF SettledInv
  <2>2. CASE Unneeded(delivered[d])
    BY <1>8, <2>2 DEF Settled, Unneeded
  <2>3. CASE Busy(delivered[d].by) /\ inHand[delivered[d].by] = delivered[d].frame
    <3>1. delivered[d].by # c
      BY <2>3
    <3>2. Busy(delivered[d].by)' /\ inHand'[delivered[d].by] = inHand[delivered[d].by]
      BY <1>1, <1>8, <2>1, <2>3, <3>1 DEF Busy
    <3> QED BY <1>8, <2>3, <3>2 DEF Settled
  <2>4. CASE \E m \in Sent : m.from = delivered[d].by /\ m.re = delivered[d].frame.n
    BY <1>6, <1>8, <2>4 DEF Settled
  <2> QED BY <2>1, <2>2, <2>3, <2>4 DEF Settled
<1> QED BY <1>5, <1>7, <1>8

(* A step of the application that takes no frame.                          *)
LEMMA AppSettles ==
  ASSUME TypeInv, SettledInv, UNCHANGED <<answers, writing, delivered, sendTask>>,
         NEW m \in Outgoing, Queues(m) \/ SendRefused \/ UNCHANGED txQ,
         \A c \in Consumers :
           Busy(c) => \/ Busy(c)' /\ inHand'[c] = inHand[c]
                      \/ m = Answer(c) /\ (Queues(m) \/ SendRefused)
  PROVE  SettledInv'
<1>1. sendTask' = "recv" => writing' = NoMessage
  BY DEF SettledInv
<1>2. CASE Queues(m)
  <2>1. Sent \cup {m} \subseteq Sent'
    BY <1>2, QueuesKeep
  <2> QED BY <1>1, <1>2, <2>1, SettledStays
<1>3. CASE SendRefused
  BY <1>3 DEF SettledInv, SendRefused, IsConnected
<1>4. CASE UNCHANGED txQ /\ ~Queues(m) /\ ~SendRefused
  <2>1. Sent' = Sent
    BY <1>4 DEF Sent
  <2> QED BY <1>1, <1>4, <2>1, SettledStays
<1> QED BY <1>2, <1>3, <1>4

LEMMA HandlerSettles == ASSUME TypeInv, SettledInv, HandlerNext PROVE SettledInv'
<1>1. UNCHANGED <<answers, writing, sendTask>>
  BY DEF HandlerNext, SendsWelcome, SendsInfo, HandlerNotice, StartsBackgroundTasks,
         HandlerLocks, HandlerReceives, HandlerEnds, HandlerAnswers, taskVars
<1>2. CASE SendsWelcome \/ SendsInfo
  <2>1. /\ UNCHANGED <<delivered, inHand, reader>> /\ handler # "answer"
        /\ \E t \in {"welcome", "info"} : Queues(Notice(t)) \/ SendRefused
    BY <1>2 DEF SendsWelcome, SendsInfo, HandlerNotice
  <2>2. \A c \in Consumers : Busy(c) => Busy(c)' /\ inHand'[c] = inHand[c]
    BY <2>1 DEF Busy, Consumers
  <2>3. \A t \in {"welcome", "info"} : Notice(t) \in Outgoing
    BY Messages DEF TypeInv
  <2> QED BY <1>1, <2>1, <2>2, <2>3, AppSettles
<1>3. CASE StartsBackgroundTasks \/ HandlerLocks \/ HandlerEnds
  <2>1. /\ UNCHANGED <<txQ, delivered, inHand>> /\ handler # "answer"
        /\ reader' = reader \/ (handler = "spawn" /\ reader' = "tick")
    BY <1>3 DEF StartsBackgroundTasks, HandlerLocks, HandlerEnds
  <2>2. \A c \in Consumers : Busy(c) => Busy(c)' /\ inHand'[c] = inHand[c]
    BY <2>1 DEF Busy, Consumers, TypeInv, LockInv
  <2> QED BY <1>1, <2>1, <2>2, Messages, AppSettles DEF TypeInv
<1>4. CASE HandlerReceives
  <2>1. /\ Takes("handler") /\ UNCHANGED <<txQ, reader>> /\ handler = "lock"
        /\ handler' = "answer"
    BY <1>4 DEF HandlerReceives
  <2>2. ~Busy("handler") /\ Busy("handler")' /\ "handler" \in Consumers
    BY <2>1 DEF Busy, Consumers
  <2>3. \A e \in Consumers : e # "handler" => (Busy(e) => Busy(e)')
    BY <2>1 DEF Busy
  <2> QED BY <1>1, <2>1, <2>2, <2>3, TakesSettles
<1>5. CASE HandlerAnswers
  <2>1. /\ UNCHANGED <<delivered, reader>>
        /\ Queues(Answer("handler")) \/ SendRefused
        /\ inHand' = [inHand EXCEPT !["handler"] = NoFrame]
    BY <1>5 DEF HandlerAnswers
  <2>2. Answer("handler") \in Outgoing
    BY Messages DEF TypeInv, Consumers
  <2>3. \A c \in Consumers :
          Busy(c) => (Busy(c)' /\ inHand'[c] = inHand[c]) \/ c = "handler"
    BY <2>1, NamesDiffer DEF Busy, Consumers, TypeInv, TypeOK
  <2> QED BY <1>1, <2>1, <2>2, <2>3, AppSettles
<1> QED BY <1>2, <1>3, <1>4, <1>5 DEF HandlerNext

LEMMA ReaderSettles == ASSUME TypeInv, SettledInv, ReaderNext PROVE SettledInv'
<1>1. UNCHANGED <<answers, writing, sendTask, handler>>
  BY DEF ReaderNext, ReaderTick, ReaderLocks, ReaderReceives, ReaderFindsNone, ReaderAnswers,
         taskVars
<1>2. CASE ReaderTick \/ ReaderLocks \/ ReaderFindsNone
  <2>1. /\ UNCHANGED <<txQ, delivered>> /\ reader # "answer"
        /\ inHand' = inHand \/ inHand' = [inHand EXCEPT !["reader"] = NoFrame]
    BY <1>2 DEF ReaderTick, ReaderLocks, ReaderFindsNone
  <2>2. \A c \in Consumers : Busy(c) => Busy(c)' /\ inHand'[c] = inHand[c]
    BY <1>1, <2>1, NamesDiffer DEF Busy, Consumers, TypeInv, TypeOK
  <2> QED BY <1>1, <2>1, <2>2, Messages, AppSettles DEF TypeInv
<1>3. CASE ReaderReceives
  <2>1. /\ Takes("reader") /\ UNCHANGED txQ /\ reader = "lock"
        /\ reader' = IF Head(appQ).kind = "urgent" THEN "answer" ELSE "try"
    BY <1>3 DEF ReaderReceives
  <2>2. ~Busy("reader") /\ "reader" \in Consumers
    BY <2>1, NamesDiffer DEF Busy, Consumers
  <2>3. \A e \in Consumers : e # "reader" => (Busy(e) => Busy(e)')
    BY <1>1 DEF Busy, Consumers
  <2>4. Busy("reader")' \/ Unneeded([frame |-> Head(appQ), by |-> "reader"])
    BY <2>1, NamesDiffer DEF Busy, Unneeded
  <2> QED BY <1>1, <2>1, <2>2, <2>3, <2>4, TakesSettles
<1>4. CASE ReaderAnswers
  <2>1. UNCHANGED <<delivered, inHand>> /\ (Queues(Answer("reader")) \/ SendRefused)
    BY <1>4 DEF ReaderAnswers
  <2>2. Answer("reader") \in Outgoing
    BY Messages DEF TypeInv, Consumers
  <2>3. \A c \in Consumers :
          Busy(c) => (Busy(c)' /\ inHand'[c] = inHand[c]) \/ c = "reader"
    BY <1>1, <2>1, NamesDiffer DEF Busy, Consumers
  <2> QED BY <1>1, <2>1, <2>2, <2>3, AppSettles
<1> QED BY <1>2, <1>3, <1>4 DEF ReaderNext

LEMMA TickerSettles ==
  ASSUME TypeInv, SettledInv, NEW t \in Tickers, TickerNext(t) PROVE SettledInv'
<1>1. UNCHANGED <<answers, writing, delivered, sendTask, handler, reader, inHand>>
  BY DEF TickerNext, Tick, TickSends, taskVars
<1>2. \A c \in Consumers : Busy(c) => Busy(c)' /\ inHand'[c] = inHand[c]
  BY <1>1 DEF Busy
<1>3. Notice(t) \in Outgoing /\ (Queues(Notice(t)) \/ SendRefused \/ UNCHANGED txQ)
  BY Messages DEF TickerNext, Tick, TickSends, TypeInv
<1> QED BY <1>1, <1>2, <1>3, AppSettles

LEMMA SettledStep == TypeInv /\ SettledInv /\ [Next]_vars => SettledInv'
<1> SUFFICES ASSUME TypeInv, SettledInv, [Next]_vars PROVE SettledInv'
  OBVIOUS
<1>1. CASE ClientNext \/ ReceiveNext \/ UNCHANGED vars
  <2>1. UNCHANGED <<answers, writing, txQ, delivered, sendTask, handler, reader, inHand>>
    BY <1>1 DEF ClientNext, ClientSends, ClientCloses, LinkBreaks, ReceiveNext, ReceiveFrame,
                ReceiveClose, ReceiveError, ReceiveCleanup, taskVars, appVars, vars
  <2>2. \A c \in Consumers : Busy(c) => Busy(c)' /\ inHand'[c] = inHand[c]
    BY <2>1 DEF Busy
  <2> QED BY <2>1, <2>2, Messages, AppSettles DEF TypeInv
<1> QED BY <1>1, SendSettles, HandlerSettles, ReaderSettles, TickerSettles DEF Next

LEMMA SettledInit == Init => SettledInv
<1>1. Len(<<>>) = 0
  OBVIOUS
<1> QED BY <1>1 DEF Init, SettledInv

(* What was sent has left, is being written or is queued.                  *)
LEMMA SentIsOutbound ==
  ASSUME TypeInv, NEW m \in Sent, m # NoMessage
  PROVE  \E k \in 1 .. Len(Outbound) : Outbound[k] = m
<1> DEFINE hand == IF writing = NoMessage THEN <<>> ELSE <<writing>>
           out == answers \o hand
<1>1. answers \in Seq(Message) /\ txQ \in Seq(Message) /\ writing \in Message
  BY SentTypes
<1>2. hand \in Seq(Message) /\ (writing # NoMessage => Len(hand) = 1 /\ hand[1] = writing)
  BY <1>1
<1> HIDE DEF hand
<1>3. /\ out \in Seq(Message) /\ Len(answers) \in Nat /\ Len(hand) \in Nat
      /\ Len(out) = Len(answers) + Len(hand)
      /\ \A k \in 1 .. Len(answers) : out[k] = answers[k]
      /\ \A k \in 1 .. Len(hand) : out[Len(answers) + k] = hand[k]
  BY <1>1, <1>2, ConcatIs
<1> HIDE DEF out
<1>4. Outbound = out \o txQ
  BY DEF out, hand, Outbound
<1>5. /\ Len(out) \in Nat /\ Len(txQ) \in Nat /\ Len(out \o txQ) = Len(out) + Len(txQ)
      /\ \A k \in 1 .. Len(out) : (out \o txQ)[k] = out[k]
      /\ \A k \in 1 .. Len(txQ) : (out \o txQ)[Len(out) + k] = txQ[k]
  <2>1. \A s, t \in Seq(Message) :
          /\ Len(s) \in Nat /\ Len(t) \in Nat /\ Len(s \o t) = Len(s) + Len(t)
          /\ \A k \in 1 .. Len(s) : (s \o t)[k] = s[k]
          /\ \A k \in 1 .. Len(t) : (s \o t)[Len(s) + k] = t[k]
    BY ConcatIs
  <2> QED BY <1>1, <1>3, <2>1, Zenon
<1>6. \A k \in 1 .. Len(out) : k \in 1 .. Len(Outbound) /\ Outbound[k] = out[k]
  BY <1>4, <1>5
<1>7. CASE m \in Elements(answers)
  <2>1. PICK k \in 1 .. Len(answers) : answers[k] = m
    BY <1>7 DEF Elements
  <2>2. k \in 1 .. Len(out) /\ out[k] = m
    BY <1>3, <2>1
  <2> QED BY <1>6, <2>2
<1>8. CASE m = writing
  <2>0. Len(hand) = 1 /\ hand[1] = m /\ 1 \in 1 .. 1
    BY <1>2, <1>8
  <2>1. Len(answers) + 1 \in 1 .. Len(out) /\ out[Len(answers) + 1] = m
    BY <1>3, <2>0
  <2> QED BY <1>6, <2>1
<1>9. CASE m \in Elements(txQ)
  <2>1. PICK k \in 1 .. Len(txQ) : txQ[k] = m
    BY <1>9 DEF Elements
  <2>2. Len(out) + k \in 1 .. Len(Outbound) /\ Outbound[Len(out) + k] = m
    BY <1>4, <1>5, <2>1
  <2> QED BY <2>2
<1> QED BY <1>7, <1>8, <1>9 DEF Sent

(* Until a write fails, every frame that a consumer has taken is answered, *)
(* or about to be, unless it is one the reader need not answer.            *)
THEOREM ConnectionTakenFramesAreAnswered == Safety => []TakenFramesAreAnswered
<1>1. TypeInv /\ SettledInv => TakenFramesAreAnswered
  <2> SUFFICES ASSUME TypeInv, SettledInv, sendTask \in {"recv", "write"},
                      NEW d \in 1 .. Len(delivered), ~Unneeded(delivered[d]),
                      ~(Busy(delivered[d].by) /\ inHand[delivered[d].by] = delivered[d].frame)
               PROVE  \E k \in 1 .. Len(Outbound) :
                        /\ Outbound[k].from = delivered[d].by
                        /\ Outbound[k].re = delivered[d].frame.n
    BY DEF TakenFramesAreAnswered
  <2>1. PICK m \in Sent : m.from = delivered[d].by /\ m.re = delivered[d].frame.n
    BY DEF SettledInv, Settled
  <2>2. m # NoMessage
    BY <2>1, TakenBy, NoMessageIsNoAnswer
  <2> QED BY <2>1, <2>2, SentIsOutbound
<1> QED BY <1>1, InitTypeInv, NextTypeInv, SettledInit, SettledStep, PTL DEF Safety
=============================================================================
