----------------------------- MODULE SessionProofs -----------------------------
(***************************************************************************)
(* Proofs about Session for any capacity of the channels and of the        *)
(* directions and any number of messages: its types,                       *)
(* ClosedByPeerHasReadAll, NoAbruptEnd and OnlyUnheardDataResets.          *)
(***************************************************************************)
EXTENDS Session, WellOrder

Frames == 0 .. MaxData + 1

(* Our close frame is sent.                                                *)
HasClosed(s) == ws[s] \in {"closedByUs", "acked"}

(* The peer's close frame is under way.                                    *)
CloseComes(s) == \E k \in 1 .. Len(wire[s]) : wire[s][k] = CloseFrame

(* q carries the data messages from n + 1 to m, each once and in order,    *)
(* and perhaps other frames between them.                                  *)
Carries(q, n, m) ==
  /\ n <= m
  /\ \A k \in 1 .. Len(q) : q[k] \in Data => n < q[k] /\ q[k] <= m
  /\ \A d \in n + 1 .. m : \E k \in 1 .. Len(q) : q[k] = d
  /\ \A j, k \in 1 .. Len(q) : j < k /\ q[j] \in Data /\ q[k] \in Data => q[j] < q[k]

(* A send task ends only after its close frame, or with the connection,    *)
(* and begins to close a working one only when its channel is drained.     *)
TaskOK(s) ==
  /\ sendTask[s] = "write" <=> writing[s] # NoMessage
  /\ link = "up" /\ sendTask[s] = "ended" => HasClosed(s)
  /\ link = "up" /\ ws[s] = "active" /\ sendTask[s] = "close"
       => queue[s] = <<>> /\ ~held[s]

(* A close frame is the last frame of its direction, and on its way or     *)
(* read, unless the connection lost it, when the peer has closed.          *)
CloseOK(s) ==
  /\ ws[s] \in {"closedByPeer", "acked"} => HasClosed(Peer(s)) /\ recvTask[s] = "closeFrame"
  /\ \A k \in 1 .. Len(wire[s]) :
       wire[s][k] = CloseFrame => k = Len(wire[s]) /\ HasClosed(Peer(s))
  /\ link = "up" /\ HasClosed(Peer(s)) /\ recvTask[s] = "next" => CloseComes(s)

(* What was handed over before the close was asked for is ahead of it.     *)
PromiseOK(s) ==
  /\ promised[s] <= accepted[s]
  /\ link = "up" /\ ws[s] = "active" /\ ~CloseQueued(s) => promised[s] = accepted[s]
  /\ \A j, k \in 1 .. Len(queue[s]) :
       j < k /\ queue[s][j] = CloseFrame /\ queue[s][k] \in Data
         => queue[s][k] > promised[s]

(* With the messages up to a written, what the sender p still has follows  *)
(* on them.                                                                *)
Follows(p, a) ==
  /\ writing[p] \in Data => writing[p] = a + 1
  /\ writing[p] = CloseFrame => promised[p] <= a
  /\ Carries(queue[p], IF writing[p] \in Data THEN a + 1 ELSE a, accepted[p])

(* What is on its way to side s follows on what it has read, up to some    *)
(* message a.                                                              *)
Arrives(s, a) ==
  /\ Carries(wire[s], Len(read[s]), a)
  /\ ws[s] = "active" /\ CloseComes(s) => promised[Peer(s)] <= a
  /\ link = "up" /\ ws[Peer(s)] = "active" => Follows(Peer(s), a)

FlowOK(s) ==
  /\ \A k \in 1 .. Len(read[s]) : read[s][k] = k
  /\ ws[s] = "closedByPeer" => Len(read[s]) >= promised[Peer(s)]
  /\ recvTask[s] = "next" => \E a \in 0 .. MaxData : Arrives(s, a)

SideOK(s) == TaskOK(s) /\ CloseOK(s) /\ PromiseOK(s) /\ FlowOK(s)

IInv == TypeOK /\ NoAbruptEnd /\ \A s \in Sides : SideOK(s)

(***************************************************************************)
(* Sides and frames.                                                       *)
(***************************************************************************)

LEMMA Peers ==
  ASSUME NEW s \in Sides
  PROVE  /\ Peer(s) \in Sides /\ Peer(s) # s /\ Peer(Peer(s)) = s
         /\ \A t \in Sides : t # s => t = Peer(s)
  BY DEF Sides, Peer

LEMMA FrameFacts ==
  /\ Data \subseteq Nat /\ Data \subseteq Frames
  /\ Ping \in Frames /\ CloseFrame \in Frames /\ NoMessage \notin Frames
  /\ Ping \notin Data /\ CloseFrame \notin Data /\ NoMessage \notin Data
  /\ CloseFrame # NoMessage /\ Ping # CloseFrame
  /\ \A f \in Frames : f = Ping \/ f \in Data \/ f = CloseFrame
  /\ Frames \cup {NoMessage} = 0 .. MaxData + 2
  BY MaxDataAssumption DEF Data, Frames, Ping, CloseFrame, NoMessage

(***************************************************************************)
(* What a queue carries, as frames come and go.                            *)
(***************************************************************************)

LEMMA CarriesNothing ==
  ASSUME NEW n \in Nat
  PROVE  /\ Carries(<<>>, n, n)
         /\ \A m \in Nat : Carries(<<>>, n, m) => m = n
<1>1. Carries(<<>>, n, n)
  BY DEF Carries
<1>2. ASSUME NEW m \in Nat, Carries(<<>>, n, m) PROVE m = n
  <2>1. n <= m /\ \A d \in n + 1 .. m : FALSE
    BY <1>2 DEF Carries
  <2>2. m \notin n + 1 .. m
    BY <2>1
  <2> QED BY <2>1, <2>2
<1> QED BY <1>1, <1>2

(* A queue of one frame that is no data.                                   *)
LEMMA CarriesNoData ==
  ASSUME NEW q \in Seq(Frames), NEW n \in Nat, NEW m \in Nat, Carries(q, n, m),
         Len(q) = 1, q[1] \notin Data, m <= MaxData
  PROVE  m = n
<1>1. n <= m /\ \A d \in n + 1 .. m : \E k \in 1 .. Len(q) : q[k] = d
  BY DEF Carries
<1>2. CASE n < m
  <2>1. m \in n + 1 .. m /\ m \in Data
    BY <1>2, MaxDataAssumption DEF Data
  <2>2. PICK k \in 1 .. Len(q) : q[k] = m
    BY <1>1, <2>1
  <2>3. k = 1
    OBVIOUS
  <2> QED BY <2>1, <2>2, <2>3
<1> QED BY <1>1, <1>2

LEMMA CarriesNext ==
  ASSUME NEW q \in Seq(Frames), NEW n \in Nat, NEW m \in Nat, Carries(q, n, m),
         m + 1 \in Data
  PROVE  Carries(Append(q, m + 1), n, m + 1)
<1> DEFINE r == Append(q, m + 1)
<1>1. /\ Len(r) = Len(q) + 1 /\ r[Len(q) + 1] = m + 1 /\ Len(q) \in Nat
      /\ \A k \in 1 .. Len(q) : r[k] = q[k]
  BY FrameFacts
<1> HIDE DEF r
<1>2. /\ n <= m
      /\ \A k \in 1 .. Len(q) : q[k] \in Data => n < q[k] /\ q[k] <= m
      /\ \A d \in n + 1 .. m : \E k \in 1 .. Len(q) : q[k] = d
      /\ \A j, k \in 1 .. Len(q) : j < k /\ q[j] \in Data /\ q[k] \in Data => q[j] < q[k]
  BY DEF Carries
<1>3. \A k \in 1 .. Len(r) : k \in 1 .. Len(q) \/ k = Len(q) + 1
  BY <1>1
<1>4. ASSUME NEW k \in 1 .. Len(r), r[k] \in Data
      PROVE  n < r[k] /\ r[k] <= m + 1
  <2>1. CASE k \in 1 .. Len(q)
    <3>1. r[k] = q[k] /\ n < q[k] /\ q[k] <= m
      BY <2>1, <1>1, <1>2, <1>4
    <3>2. r[k] \in Nat
      BY <1>4, FrameFacts
    <3> QED BY <3>1, <3>2
  <2>2. CASE k = Len(q) + 1
    BY <2>2, <1>1, <1>2
  <2> QED BY <2>1, <2>2, <1>3
<1>5. ASSUME NEW d \in n + 1 .. m + 1 PROVE \E k \in 1 .. Len(r) : r[k] = d
  <2>1. CASE d = m + 1
    BY <2>1, <1>1
  <2>2. CASE d # m + 1
    BY <2>2, <1>1, <1>2
  <2> QED BY <2>1, <2>2
<1>6. ASSUME NEW j \in 1 .. Len(r), NEW k \in 1 .. Len(r),
             j < k, r[j] \in Data, r[k] \in Data
      PROVE  r[j] < r[k]
  <2>1. j \in 1 .. Len(q)
    BY <1>6, <1>1
  <2>2. r[j] = q[j] /\ r[j] <= m
    BY <2>1, <1>1, <1>2, <1>6
  <2>3. CASE k \in 1 .. Len(q)
    BY <2>1, <2>2, <2>3, <1>1, <1>2, <1>6
  <2>4. CASE k = Len(q) + 1
    BY <2>2, <2>4, <1>1, <1>6, FrameFacts, SMTT(30)
  <2> QED BY <2>3, <2>4, <1>3
<1>7. n <= m + 1
  BY <1>2
<1>8. Carries(r, n, m + 1)
  BY <1>4, <1>5, <1>6, <1>7 DEF Carries
<1> QED BY <1>8 DEF r

LEMMA CarriesOther ==
  ASSUME NEW q \in Seq(Frames), NEW n \in Nat, NEW m \in Nat, Carries(q, n, m),
         NEW f \in Frames, f \notin Data
  PROVE  Carries(Append(q, f), n, m)
<1> DEFINE r == Append(q, f)
<1>1. /\ Len(r) = Len(q) + 1 /\ r[Len(q) + 1] = f /\ Len(q) \in Nat
      /\ \A k \in 1 .. Len(q) : r[k] = q[k]
  OBVIOUS
<1> HIDE DEF r
<1>2. \A k \in 1 .. Len(r) : r[k] \in Data => k \in 1 .. Len(q)
  BY <1>1
<1>3. Carries(r, n, m)
  <2>1. \A k \in 1 .. Len(r) : r[k] \in Data => n < r[k] /\ r[k] <= m
    BY <1>1, <1>2 DEF Carries
  <2>2. \A d \in n + 1 .. m : \E k \in 1 .. Len(r) : r[k] = d
    BY <1>1 DEF Carries
  <2>3. \A j, k \in 1 .. Len(r) : j < k /\ r[j] \in Data /\ r[k] \in Data => r[j] < r[k]
    BY <1>1, <1>2 DEF Carries
  <2> QED BY <2>1, <2>2, <2>3 DEF Carries
<1> QED BY <1>3 DEF r

LEMMA CarriesTail ==
  ASSUME NEW q \in Seq(Frames), NEW n \in Nat, NEW m \in Nat, Carries(q, n, m),
         q # <<>>, m <= MaxData
  PROVE  /\ Head(q) \in Data => Head(q) = n + 1 /\ Carries(Tail(q), n + 1, m)
         /\ Head(q) \notin Data => Carries(Tail(q), n, m)
<1> DEFINE r == Tail(q)
<1>1. /\ Len(r) = Len(q) - 1 /\ Len(q) \in Nat \ {0} /\ Head(q) = q[1]
      /\ \A k \in 1 .. Len(r) : r[k] = q[k + 1]
  OBVIOUS
<1> HIDE DEF r
<1>2. /\ n <= m
      /\ \A k \in 1 .. Len(q) : q[k] \in Data => n < q[k] /\ q[k] <= m
      /\ \A d \in n + 1 .. m : \E k \in 1 .. Len(q) : q[k] = d
      /\ \A j, k \in 1 .. Len(q) : j < k /\ q[j] \in Data /\ q[k] \in Data => q[j] < q[k]
  BY DEF Carries
<1>3. \A k \in 1 .. Len(r) : k + 1 \in 1 .. Len(q) /\ 1 < k + 1 /\ 1 \in 1 .. Len(q)
  BY <1>1
<1>4. \A k \in 1 .. Len(q) : k # 1 => k - 1 \in 1 .. Len(r) /\ r[k - 1] = q[k]
  <2>1. \A k \in 1 .. Len(q) : k # 1 => k - 1 \in 1 .. Len(r) /\ k - 1 + 1 = k
    BY <1>1
  <2> QED BY <2>1, <1>1
<1>5. \A j, k \in 1 .. Len(r) : j < k /\ r[j] \in Data /\ r[k] \in Data => r[j] < r[k]
  <2>1. \A j, k \in 1 .. Len(r) : j < k => j + 1 < k + 1
    BY <1>1
  <2> QED BY <2>1, <1>1, <1>2, <1>3
<1>6. CASE Head(q) \in Data
  <2>0. q[1] \in Nat
    BY <1>6, <1>1, FrameFacts
  <2>1. n < q[1] /\ q[1] <= m
    BY <1>1, <1>2, <1>6
  <2>2. q[1] = n + 1
    <3>1. n + 1 \in n + 1 .. m /\ n + 1 \in Data
      BY <2>0, <2>1, MaxDataAssumption DEF Data
    <3>2. PICK k \in 1 .. Len(q) : q[k] = n + 1
      BY <3>1, <1>2
    <3>3. CASE k # 1
      <4>1. q[1] < q[k]
        BY <1>1, <1>2, <1>6, <3>1, <3>2, <3>3
      <4> QED BY <4>1, <3>2, <2>0, <2>1
    <3> QED BY <3>2, <3>3
  <2>3. \A k \in 1 .. Len(r) : r[k] \in Data => n + 1 < r[k] /\ r[k] <= m
    BY <1>1, <1>2, <1>3, <1>6, <2>2, SMTT(30)
  <2>4. \A d \in n + 1 + 1 .. m : \E k \in 1 .. Len(r) : r[k] = d
    <3> SUFFICES ASSUME NEW d \in n + 1 + 1 .. m PROVE \E k \in 1 .. Len(r) : r[k] = d
      OBVIOUS
    <3>1. d \in n + 1 .. m /\ d # n + 1
      OBVIOUS
    <3>2. PICK k \in 1 .. Len(q) : q[k] = d
      BY <3>1, <1>2
    <3> QED BY <3>1, <3>2, <2>2, <1>4
  <2>5. n + 1 <= m
    BY <2>1, <2>2
  <2>6. Carries(r, n + 1, m)
    BY <2>3, <2>4, <2>5, <1>5 DEF Carries
  <2> QED BY <2>2, <2>6, <1>1, <1>6 DEF r
<1>7. CASE Head(q) \notin Data
  <2>1. \A k \in 1 .. Len(r) : r[k] \in Data => n < r[k] /\ r[k] <= m
    BY <1>1, <1>2, <1>3
  <2>2. \A d \in n + 1 .. m : \E k \in 1 .. Len(r) : r[k] = d
    <3> SUFFICES ASSUME NEW d \in n + 1 .. m PROVE \E k \in 1 .. Len(r) : r[k] = d
      OBVIOUS
    <3>1. PICK k \in 1 .. Len(q) : q[k] = d
      BY <1>2
    <3>2. d \in Data
      BY MaxDataAssumption DEF Data
    <3> QED BY <3>1, <3>2, <1>1, <1>4, <1>7
  <2>3. Carries(r, n, m)
    BY <2>1, <2>2, <1>2, <1>5 DEF Carries
  <2> QED BY <2>3, <1>7 DEF r
<1> QED BY <1>6, <1>7

(* What is left of a queue cut anywhere carries the messages up to the one *)
(* before the least that is lost.                                          *)
LEMMA CarriesPrefix ==
  ASSUME NEW q \in Seq(Frames), NEW n \in Nat, NEW m \in 0 .. MaxData, Carries(q, n, m),
         NEW j \in 0 .. Len(q)
  PROVE  \E a \in 0 .. MaxData : Carries(SubSeq(q, 1, j), n, a)
<1> DEFINE r == SubSeq(q, 1, j)
<1>1. Len(q) \in Nat /\ Len(r) = j /\ \A k \in 1 .. j : r[k] = q[k]
  OBVIOUS
<1> HIDE DEF r
<1>2. /\ n <= m
      /\ \A k \in 1 .. Len(q) : q[k] \in Data => n < q[k] /\ q[k] <= m
      /\ \A d \in n + 1 .. m : \E k \in 1 .. Len(q) : q[k] = d
      /\ \A i, k \in 1 .. Len(q) : i < k /\ q[i] \in Data /\ q[k] \in Data => q[i] < q[k]
  BY DEF Carries
<1>3. \A k \in 1 .. Len(r) : k \in 1 .. Len(q)
  BY <1>1
<1>4. \A i, k \in 1 .. Len(r) : i < k /\ r[i] \in Data /\ r[k] \in Data => r[i] < r[k]
  BY <1>1, <1>2, <1>3
<1> DEFINE Lost == {d \in Data : \E k \in j + 1 .. Len(q) : q[k] = d}
<1>5. CASE Lost = {}
  <2>1. \A k \in 1 .. Len(q) : q[k] \in Data => k \in 1 .. Len(r)
    BY <1>1, <1>5
  <2>2. \A d \in n + 1 .. m : d \in Data
    BY MaxDataAssumption DEF Data
  <2>3. \A d \in n + 1 .. m : \E k \in 1 .. Len(r) : r[k] = d
    BY <1>1, <1>2, <2>1, <2>2
  <2>4. Carries(r, n, m)
    BY <1>1, <1>2, <1>3, <1>4, <2>3 DEF Carries
  <2> QED BY <2>4 DEF r
<1>6. CASE Lost # {}
  <2>1. PICK v \in Lost : \A d \in Lost : v <= d
    BY <1>6, FrameFacts, LeastNat
  <2>2. PICK z \in j + 1 .. Len(q) : q[z] = v
    OBVIOUS
  <2> HIDE DEF Lost
  <2>3. v \in Data /\ v \in Nat /\ n < v /\ v <= m
    BY <2>2, <1>1, <1>2, FrameFacts, SMTT(30) DEF Lost
  <2>4. v - 1 \in 0 .. MaxData /\ n <= v - 1
    BY <2>3, MaxDataAssumption
  <2>5. \A k \in 1 .. Len(r) : r[k] \in Data => n < r[k] /\ r[k] <= v - 1
    <3> SUFFICES ASSUME NEW k \in 1 .. Len(r), r[k] \in Data
                 PROVE  n < r[k] /\ r[k] <= v - 1
      OBVIOUS
    <3>1. k < z /\ z \in 1 .. Len(q) /\ q[k] = r[k]
      BY <1>1
    <3>2. r[k] < v /\ n < r[k] /\ r[k] \in Nat
      BY <3>1, <1>2, <1>3, <2>2, <2>3, FrameFacts
    <3> QED BY <3>2, <2>3
  <2>6. \A d \in n + 1 .. v - 1 : \E k \in 1 .. Len(r) : r[k] = d
    <3> SUFFICES ASSUME NEW d \in n + 1 .. v - 1 PROVE \E k \in 1 .. Len(r) : r[k] = d
      OBVIOUS
    <3>1. d \in n + 1 .. m /\ d \in Data /\ d \in Nat /\ ~(v <= d)
      BY <2>3, MaxDataAssumption DEF Data
    <3>2. PICK k \in 1 .. Len(q) : q[k] = d
      BY <3>1, <1>2
    <3>3. k \notin j + 1 .. Len(q)
      BY <3>1, <3>2, <2>1 DEF Lost
    <3>4. k \in 1 .. Len(r)
      BY <3>3, <1>1
    <3> QED BY <3>2, <3>4, <1>1
  <2>7. Carries(r, n, v - 1)
    BY <2>4, <2>5, <2>6, <1>4 DEF Carries
  <2> QED BY <2>4, <2>7 DEF r
<1> QED BY <1>5, <1>6

(***************************************************************************)
(* What a step need not be looked at for.                                  *)
(***************************************************************************)

LEMMA Types ==
  ASSUME TypeOK, NEW s \in Sides
  PROVE  /\ wire[s] \in Seq(Frames) /\ Len(wire[s]) <= WireCap
         /\ queue[s] \in Seq(Frames) /\ Len(queue[s]) <= Capacity
         /\ ws[s] \in {"active", "closedByUs", "closedByPeer", "acked"}
         /\ writing[s] \in Frames \cup {NoMessage}
         /\ sendTask[s] \in {"recv", "write", "close", "ended"}
         /\ recvTask[s] \in {"next", "closeFrame", "unheard", "broken"}
         /\ accepted[s] \in 0 .. MaxData /\ promised[s] \in 0 .. MaxData
         /\ read[s] \in Seq(Data) /\ Len(read[s]) \in Nat
<1>1. writing[s] \in Frames \cup {NoMessage}
  BY FrameFacts DEF TypeOK
<1>2. /\ wire[s] \in Seq(Frames) /\ Len(wire[s]) <= WireCap
      /\ queue[s] \in Seq(Frames) /\ Len(queue[s]) <= Capacity
  BY DEF TypeOK, Frames
<1> QED BY <1>1, <1>2 DEF TypeOK

LEMMA TaskKeeps ==
  ASSUME NEW s \in Sides, TaskOK(s),
         link' = "up" => link = "up",
         sendTask'[s] = sendTask[s], writing'[s] = writing[s], queue'[s] = queue[s],
         held'[s] => held[s],
         HasClosed(s) => HasClosed(s)', ws'[s] = "active" => ws[s] = "active"
  PROVE  TaskOK(s)'
  BY DEF TaskOK, NoMessage

LEMMA PromiseKeeps ==
  ASSUME NEW s \in Sides, PromiseOK(s),
         link' = "up" => link = "up",
         writing'[s] = writing[s], queue'[s] = queue[s],
         accepted'[s] = accepted[s], promised'[s] = promised[s],
         ws'[s] = "active" => ws[s] = "active"
  PROVE  PromiseOK(s)'
  BY DEF PromiseOK, CloseQueued, Data, CloseFrame

LEMMA CloseKeeps ==
  ASSUME NEW s \in Sides, CloseOK(s),
         link' = "up" => link = "up",
         wire'[s] = wire[s], recvTask'[s] = recvTask[s],
         HasClosed(Peer(s))' <=> HasClosed(Peer(s)),
         ws'[s] \in {"closedByPeer", "acked"} => ws[s] \in {"closedByPeer", "acked"}
  PROVE  CloseOK(s)'
  BY DEF CloseOK, CloseComes, CloseFrame

LEMMA FlowKeeps ==
  ASSUME NEW s \in Sides, FlowOK(s),
         link' = "up" => link = "up",
         wire'[s] = wire[s], recvTask'[s] = recvTask[s], read'[s] = read[s],
         promised'[Peer(s)] = promised[Peer(s)], writing'[Peer(s)] = writing[Peer(s)],
         queue'[Peer(s)] = queue[Peer(s)], accepted'[Peer(s)] = accepted[Peer(s)],
         ws'[Peer(s)] = "active" => ws[Peer(s)] = "active",
         ws'[s] \in {"active", "closedByPeer"} => ws'[s] = ws[s]
  PROVE  FlowOK(s)'
<1>1. ASSUME NEW a \in 0 .. MaxData, Arrives(s, a) PROVE Arrives(s, a)'
  BY <1>1 DEF Arrives, Follows, CloseComes, Carries, Data, CloseFrame
<1> QED BY <1>1 DEF FlowOK

(* A step of side s's program or send task.                                *)
LEMMA SenderSteps ==
  ASSUME IInv, NEW s \in Sides,
         UNCHANGED <<link, read, recvTask>>, wire'[s] = wire[s],
         LET t == Peer(s)
         IN  /\ sendTask'[t] = sendTask[t] /\ writing'[t] = writing[t]
             /\ queue'[t] = queue[t] /\ ws'[t] = ws[t] /\ (held'[t] => held[t])
             /\ accepted'[t] = accepted[t] /\ promised'[t] = promised[t],
         HasClosed(s) => HasClosed(s)',
         ws'[s] \in {"active", "closedByPeer"} => ws'[s] = ws[s],
         ws'[s] = "acked" => ws[s] \in {"closedByPeer", "acked"},
         TypeOK', TaskOK(s)', PromiseOK(s)', CloseOK(Peer(s))', FlowOK(Peer(s))'
  PROVE  IInv'
<1> DEFINE t == Peer(s)
<1>1. t \in Sides /\ Peer(t) = s /\ \A r \in Sides : r = s \/ r = t
  BY Peers
<1>2. SideOK(s) /\ SideOK(t)
  BY <1>1 DEF IInv
<1> HIDE DEF t
<1>3. TaskOK(t)' /\ PromiseOK(t)'
  <2>1. ws'[t] = ws[t] /\ (HasClosed(t) => HasClosed(t)')
    BY DEF HasClosed, t
  <2>2. TaskOK(t)'
    BY <1>1, <1>2, <2>1, TaskKeeps DEF SideOK, t
  <2>3. PromiseOK(t)'
    BY <1>1, <1>2, <2>1, PromiseKeeps DEF SideOK, t
  <2> QED BY <2>2, <2>3
<1>4. CloseOK(s)'
  <2>1. HasClosed(Peer(s))' <=> HasClosed(Peer(s))
    BY DEF HasClosed
  <2>2. ws'[s] \in {"closedByPeer", "acked"} => ws[s] \in {"closedByPeer", "acked"}
    OBVIOUS
  <2> QED BY <1>2, <2>1, <2>2, CloseKeeps DEF SideOK
<1>5. FlowOK(s)'
  BY <1>2, FlowKeeps DEF SideOK
<1>6. NoAbruptEnd'
  BY DEF IInv, NoAbruptEnd
<1>7. \A r \in Sides : SideOK(r)'
  BY <1>1, <1>3, <1>4, <1>5 DEF SideOK, t
<1> QED BY <1>6, <1>7 DEF IInv

(* A step of side s's receive task.                                        *)
LEMMA ReceiverSteps ==
  ASSUME IInv, NEW s \in Sides,
         UNCHANGED <<link, queue, writing, sendTask, held, accepted, promised>>,
         LET t == Peer(s)
         IN  /\ wire'[t] = wire[t] /\ ws'[t] = ws[t] /\ recvTask'[t] = recvTask[t]
             /\ read'[t] = read[t],
         HasClosed(s)' <=> HasClosed(s),
         ws'[s] = "active" => ws[s] = "active",
         TypeOK', NoAbruptEnd', CloseOK(s)', FlowOK(s)'
  PROVE  IInv'
<1> DEFINE t == Peer(s)
<1>1. t \in Sides /\ Peer(t) = s /\ \A r \in Sides : r = s \/ r = t
  BY Peers
<1>2. SideOK(s) /\ SideOK(t)
  BY <1>1 DEF IInv
<1> HIDE DEF t
<1>3. wire'[t] = wire[t] /\ ws'[t] = ws[t] /\ recvTask'[t] = recvTask[t] /\ read'[t] = read[t]
  BY DEF t
<1>4. TaskOK(s)' /\ TaskOK(t)'
  <2>1. HasClosed(t) => HasClosed(t)'
    BY <1>3 DEF HasClosed
  <2> QED BY <1>1, <1>2, <1>3, <2>1, TaskKeeps DEF SideOK
<1>5. PromiseOK(s)' /\ PromiseOK(t)'
  BY <1>1, <1>2, <1>3, PromiseKeeps DEF SideOK
<1>6. CloseOK(t)'
  BY <1>1, <1>2, <1>3, CloseKeeps DEF SideOK
<1>7. FlowOK(t)'
  BY <1>1, <1>2, <1>3, FlowKeeps DEF SideOK
<1>8. \A r \in Sides : SideOK(r)'
  BY <1>1, <1>4, <1>5, <1>6, <1>7 DEF SideOK
<1> QED BY <1>8 DEF IInv

(***************************************************************************)
(* The steps, one lemma for each.                                          *)
(***************************************************************************)

LEMMA InitIInv == Init => IInv
<1> SUFFICES ASSUME Init PROVE IInv
  OBVIOUS
<1>1. TypeOK
  BY CapacityAssumption, WireCapAssumption, MaxDataAssumption
  DEF Init, TypeOK, NoMessage, Data
<1>2. NoAbruptEnd
  BY DEF Init, NoAbruptEnd
<1>3. ASSUME NEW s \in Sides PROVE SideOK(s)
  <2>0. Peer(s) \in Sides
    BY Peers
  <2>1. TaskOK(s)
    BY DEF Init, TaskOK
  <2>2. CloseOK(s)
    BY <2>0 DEF Init, CloseOK, HasClosed
  <2>3. PromiseOK(s)
    BY DEF Init, PromiseOK
  <2>4. Follows(Peer(s), 0)
    BY <2>0, FrameFacts, CarriesNothing DEF Init, Follows
  <2>5. Arrives(s, 0)
    BY <2>0, <2>4, CarriesNothing DEF Init, Arrives
  <2>6. FlowOK(s)
    BY <2>0, <2>5, MaxDataAssumption DEF Init, FlowOK
  <2> QED BY <2>1, <2>2, <2>3, <2>6 DEF SideOK
<1> QED BY <1>1, <1>2, <1>3 DEF IInv

(* A step that only lets go of something.                                  *)
LEMMA HolderSteps ==
  ASSUME IInv, UNCHANGED <<network, queue, tasks, accepted, promised>>,
         \A s \in Sides : held'[s] => held[s],
         TypeOK'
  PROVE  IInv'
<1>1. NoAbruptEnd'
  BY DEF IInv, NoAbruptEnd, network, tasks
<1>2. ASSUME NEW s \in Sides PROVE SideOK(s)'
  <2>1. SideOK(s)
    BY DEF IInv
  <2>2. TaskOK(s)'
    BY <2>1, TaskKeeps DEF SideOK, network, tasks, HasClosed
  <2>3. CloseOK(s)'
    BY <2>1, CloseKeeps DEF SideOK, network, tasks, HasClosed
  <2>4. PromiseOK(s)'
    BY <2>1, PromiseKeeps DEF SideOK, network, tasks
  <2>5. FlowOK(s)'
    BY <2>1, FlowKeeps DEF SideOK, network, tasks
  <2> QED BY <2>2, <2>3, <2>4, <2>5 DEF SideOK
<1> QED BY <1>1, <1>2 DEF IInv

(* What a step of a program that queues f leaves to show.                  *)
LEMMA QueueingSteps ==
  ASSUME IInv, NEW s \in Sides, NEW f \in Frames, Queues(s, f),
         UNCHANGED <<network, tasks, holders>>,
         accepted' \in [Sides -> 0 .. MaxData], promised' \in [Sides -> 0 .. MaxData],
         accepted'[Peer(s)] = accepted[Peer(s)], promised'[Peer(s)] = promised[Peer(s)],
         PromiseOK(s)', FlowOK(Peer(s))'
  PROVE  IInv'
<1> DEFINE t == Peer(s)
<1>1. t \in Sides /\ t # s /\ Peer(t) = s
  BY Peers
<1>2. TypeOK /\ SideOK(s) /\ SideOK(t)
  BY <1>1 DEF IInv
<1> HIDE DEF t
<1>3. queue' = [queue EXCEPT ![s] = Append(queue[s], f)] /\ Len(queue[s]) < Capacity /\ held[s]
  BY DEF Queues
<1>4. \A r \in Sides : queue'[r] = IF r = s THEN Append(queue[s], f) ELSE queue[r]
  BY <1>2, <1>3 DEF TypeOK
<1>5. TypeOK'
  <2>1. Append(queue[s], f) \in Seq(Frames) /\ Len(Append(queue[s], f)) <= Capacity
    BY <1>2, <1>3, Types, CapacityAssumption
  <2>2. queue' \in [Sides -> Seq(Frames)] /\ \A r \in Sides : Len(queue'[r]) <= Capacity
    BY <1>2, <1>3, <1>4, <2>1 DEF TypeOK, Frames
  <2> QED BY <1>2, <2>2 DEF TypeOK, Frames, network, tasks, holders
<1>6. TaskOK(s)'
  BY <1>2, <1>3 DEF SideOK, TaskOK, HasClosed, network, tasks, holders, NoMessage
<1>7. CloseOK(t)'
  BY <1>1, <1>2, CloseKeeps DEF SideOK, network, tasks, HasClosed
<1>8. queue'[t] = queue[t]
  BY <1>1, <1>4
<1> QED BY <1>1, <1>5, <1>6, <1>7, <1>8, SenderSteps DEF network, tasks, holders, t, HasClosed

(* A close frame or a periodic message joins the queue.                    *)
LEMMA QueueingOther ==
  ASSUME IInv, NEW s \in Sides, NEW f \in Frames, f \notin Data, Queues(s, f),
         UNCHANGED <<network, tasks, holders, accepted, promised>>
  PROVE  IInv'
<1> DEFINE t == Peer(s)
           q == queue[s]
<1>1. t \in Sides /\ t # s /\ Peer(t) = s
  BY Peers
<1>2. TypeOK /\ SideOK(s) /\ SideOK(t)
  BY <1>1 DEF IInv
<1> HIDE DEF t
<1>3. queue'[s] = Append(q, f) /\ q \in Seq(Frames)
  BY <1>2, Types DEF Queues, TypeOK
<1> HIDE DEF q
<1>4. /\ Len(q) \in Nat /\ Len(Append(q, f)) = Len(q) + 1 /\ Append(q, f)[Len(q) + 1] = f
      /\ \A k \in 1 .. Len(q) : Append(q, f)[k] = q[k]
  BY <1>3
<1>5. PromiseOK(s)'
  <2>1. ~CloseQueued(s)' => ~CloseQueued(s)
    <3>1. \A k \in 1 .. Len(q) : k \in 1 .. Len(Append(q, f))
      BY <1>4
    <3> QED BY <1>3, <1>4, <3>1 DEF CloseQueued, network, tasks, q, CloseFrame
  <2>2. ASSUME NEW j \in 1 .. Len(Append(q, f)), NEW k \in 1 .. Len(Append(q, f)), j < k,
               Append(q, f)[j] = CloseFrame, Append(q, f)[k] \in Data
        PROVE  Append(q, f)[k] > promised[s]
    <3>1. k \in 1 .. Len(q) /\ j \in 1 .. Len(q)
      BY <1>4, <2>2
    <3>2. q[j] = CloseFrame /\ q[k] \in Data
      BY <1>4, <2>2, <3>1
    <3>3. q[k] > promised[s]
      BY <1>2, <2>2, <3>1, <3>2 DEF SideOK, PromiseOK, q
    <3> QED BY <1>4, <3>1, <3>3
  <2> QED BY <1>2, <1>3, <2>1, <2>2 DEF SideOK, PromiseOK, network, CloseFrame, Data
<1>6. FlowOK(t)'
  <2>1. ASSUME NEW a \in 0 .. MaxData, Arrives(t, a) PROVE Arrives(t, a)'
    <3>1. ASSUME Follows(s, a) PROVE Follows(s, a)'
      <4> DEFINE n == IF writing[s] \in Data THEN a + 1 ELSE a
      <4>1. Carries(q, n, accepted[s])
        BY <3>1 DEF Follows, q
      <4>2. n \in Nat /\ accepted[s] \in Nat
        BY <1>2, Types, MaxDataAssumption
      <4> HIDE DEF n
      <4>3. Carries(Append(q, f), n, accepted[s])
        BY <4>1, <4>2, <1>3, CarriesOther
      <4> QED BY <3>1, <4>3, <1>3
              DEF Follows, n, network, tasks, Carries, Data, CloseFrame
    <3> QED BY <2>1, <3>1, <1>1
            DEF Arrives, network, tasks, CloseComes, Carries, Data, CloseFrame
  <2> QED BY <1>1, <1>2, <2>1 DEF SideOK, FlowOK, network, tasks
<1> QED BY <1>5, <1>6, <1>2, QueueingSteps DEF t, TypeOK

LEMMA SendMessageStep ==
  ASSUME IInv, NEW s \in Sides, SendMessage(s)
  PROVE  IInv'
<1> DEFINE t == Peer(s)
           q == queue[s]
           d == accepted[s] + 1
<1>1. t \in Sides /\ t # s /\ Peer(t) = s
  BY Peers
<1>2. TypeOK /\ SideOK(s) /\ SideOK(t)
  BY <1>1 DEF IInv
<1> HIDE DEF t
<1>3. queue'[s] = Append(q, d) /\ q \in Seq(Frames)
  BY <1>2, Types DEF SendMessage, Queues, TypeOK
<1>4. UNCHANGED <<network, tasks, holders>> /\ Queues(s, d)
  BY DEF SendMessage
<1>5. accepted[s] \in 0 .. MaxData /\ promised[s] \in 0 .. MaxData /\ accepted[s] < MaxData
  BY <1>2, Types DEF SendMessage
<1>6. d \in Data /\ d \in Frames /\ d \in 0 .. MaxData /\ d # CloseFrame
  BY <1>5, FrameFacts, MaxDataAssumption DEF Data
<1>7. /\ accepted' \in [Sides -> 0 .. MaxData]
      /\ \A r \in Sides : accepted'[r] = IF r = s THEN d ELSE accepted[r]
  BY <1>2, <1>6 DEF SendMessage, TypeOK
<1>8. promised[s] <= accepted[s]
  BY <1>2 DEF SideOK, PromiseOK
<1>9. /\ promised' \in [Sides -> 0 .. MaxData]
      /\ \A r \in Sides : r # s => promised'[r] = promised[r]
      /\ CloseQueued(s) => promised'[s] = promised[s]
      /\ ~CloseQueued(s) => promised'[s] = promised[s] + 1
  <2>1. promised[s] + 1 \in 0 .. MaxData
    BY <1>5, <1>8, MaxDataAssumption
  <2> QED BY <1>2, <2>1 DEF SendMessage, TypeOK
<1> HIDE DEF q, d
<1>10. /\ Len(q) \in Nat /\ Len(Append(q, d)) = Len(q) + 1 /\ Append(q, d)[Len(q) + 1] = d
       /\ \A k \in 1 .. Len(q) : Append(q, d)[k] = q[k]
  BY <1>3
<1>11. CloseQueued(s)' <=> CloseQueued(s)
  <2>1. \A k \in 1 .. Len(Append(q, d)) : k \in 1 .. Len(q) \/ k = Len(q) + 1
    BY <1>10
  <2>2. (\E k \in 1 .. Len(Append(q, d)) : Append(q, d)[k] = CloseFrame)
          <=> \E k \in 1 .. Len(q) : q[k] = CloseFrame
    BY <1>10, <2>1, <1>6
  <2> QED BY <1>3, <1>4, <2>2 DEF CloseQueued, network, tasks, q, CloseFrame
<1>12. PromiseOK(s)'
  <2>1. promised'[s] <= accepted'[s]
    BY <1>5, <1>7, <1>8, <1>9 DEF d
  <2>2. link' = "up" /\ ws'[s] = "active" /\ ~CloseQueued(s)' => promised'[s] = accepted'[s]
    BY <1>2, <1>4, <1>7, <1>9, <1>11 DEF SideOK, PromiseOK, network, d
  <2>3. ASSUME NEW j \in 1 .. Len(Append(q, d)), NEW k \in 1 .. Len(Append(q, d)), j < k,
               Append(q, d)[j] = CloseFrame, Append(q, d)[k] \in Data
        PROVE  Append(q, d)[k] > promised'[s]
    <3>1. j \in 1 .. Len(q)
      BY <1>10, <2>3
    <3>2. q[j] = CloseFrame
      BY <1>10, <2>3, <3>1
    <3>3. promised'[s] = promised[s]
      BY <3>1, <3>2, <1>9 DEF CloseQueued, q
    <3>4. CASE k \in 1 .. Len(q)
      <4>1. q[k] \in Data /\ Append(q, d)[k] = q[k]
        BY <1>10, <2>3, <3>4
      <4>2. q[k] > promised[s]
        BY <1>2, <2>3, <3>1, <3>2, <3>4, <4>1 DEF SideOK, PromiseOK, q
      <4> QED BY <3>3, <4>1, <4>2
    <3>5. CASE k = Len(q) + 1
      <4>1. d > promised[s]
        BY <1>5, <1>8 DEF d
      <4> QED BY <3>3, <3>5, <4>1, <1>10
    <3> QED BY <3>4, <3>5, <1>10
  <2> QED BY <1>3, <2>1, <2>2, <2>3 DEF PromiseOK, CloseFrame, Data
<1>13. FlowOK(t)'
  <2>0. HasClosed(s) => promised'[s] = promised[s]
    BY <1>9 DEF CloseQueued, HasClosed
  <2>1. ws'[t] = "closedByPeer" => Len(read'[t]) >= promised'[s]
    BY <1>1, <1>2, <1>4, <2>0 DEF SideOK, FlowOK, CloseOK, network
  <2>2. ASSUME NEW a \in 0 .. MaxData, Arrives(t, a) PROVE Arrives(t, a)'
    <3>1. ASSUME Follows(s, a) PROVE Follows(s, a)'
      <4> DEFINE n == IF writing[s] \in Data THEN a + 1 ELSE a
      <4>1. Carries(q, n, accepted[s])
        BY <3>1 DEF Follows, q
      <4>2. n \in Nat /\ accepted[s] \in Nat
        BY <1>5, MaxDataAssumption
      <4> HIDE DEF n
      <4>3. Carries(Append(q, d), n, d)
        BY <4>1, <4>2, <1>3, <1>6, CarriesNext DEF d
      <4>4. Carries(queue[s], n, accepted[s])'
        BY <4>3, <1>3, <1>4, <1>7 DEF Carries, Data, n, tasks
      <4>5. writing[s] = CloseFrame => promised'[s] = promised[s]
        BY <1>9 DEF CloseQueued
      <4> QED BY <3>1, <4>4, <4>5, <1>4 DEF Follows, n, tasks, Data, CloseFrame
    <3>2. (ws[t] = "active" /\ CloseComes(t) => promised[s] <= a)'
      <4>1. CloseComes(t)' => CloseComes(t) /\ HasClosed(s)
        BY <1>1, <1>2, <1>4 DEF CloseComes, CloseOK, SideOK, network, CloseFrame
      <4> QED BY <1>1, <2>0, <2>2, <4>1, <1>4 DEF Arrives, network
    <3> QED BY <2>2, <3>1, <3>2, <1>1, <1>4 DEF Arrives, network, Carries, Data
  <2> QED BY <1>1, <1>2, <1>4, <2>1, <2>2 DEF SideOK, FlowOK, network, tasks
<1>14. accepted'[t] = accepted[t] /\ promised'[t] = promised[t]
  BY <1>1, <1>7, <1>9
<1> QED BY <1>4, <1>6, <1>7, <1>9, <1>12, <1>13, <1>14, QueueingSteps DEF t

LEMMA SendTakesStep ==
  ASSUME IInv, NEW s \in Sides, SendTakes(s)
  PROVE  IInv'
<1> DEFINE t == Peer(s)
           q == queue[s]
           h == Head(q)
<1>1. t \in Sides /\ t # s /\ Peer(t) = s
  BY Peers
<1>2. TypeOK /\ SideOK(s) /\ SideOK(t)
  BY <1>1 DEF IInv
<1> HIDE DEF t
<1>3. q \in Seq(Frames) /\ q # <<>> /\ Len(q) <= Capacity
  BY <1>2, Types DEF SendTakes
<1>4. UNCHANGED <<network, recvTask, holders, accepted, promised>>
  BY DEF SendTakes
<1>5. /\ queue'[s] = Tail(q) /\ writing'[s] = h /\ sendTask'[s] = "write"
      /\ \A r \in Sides : r # s => queue'[r] = queue[r] /\ writing'[r] = writing[r]
                                   /\ sendTask'[r] = sendTask[r]
  BY <1>2 DEF SendTakes, TypeOK
<1>6. writing[s] = NoMessage
  BY <1>2 DEF SendTakes, SideOK, TaskOK
<1>7. /\ h \in Frames /\ h = q[1] /\ Len(q) \in Nat \ {0} /\ Len(Tail(q)) = Len(q) - 1
      /\ Tail(q) \in Seq(Frames)
      /\ \A k \in 1 .. Len(Tail(q)) : Tail(q)[k] = q[k + 1]
  BY <1>3
<1> HIDE DEF q, h
<1>8. accepted[s] \in 0 .. MaxData /\ promised[s] \in 0 .. MaxData
  BY <1>2, Types
<1>9. TypeOK'
  <2>1. /\ queue' \in [Sides -> Seq(Frames)] /\ \A r \in Sides : Len(queue'[r]) <= Capacity
    <3>1. queue' = [queue EXCEPT ![s] = Tail(q)]
      BY DEF SendTakes, q
    <3>2. Len(Tail(q)) <= Capacity
      BY <1>3, <1>7, CapacityAssumption
    <3> QED BY <1>2, <1>5, <1>7, <3>1, <3>2 DEF TypeOK, Frames
  <2>2. writing' \in [Sides -> 0 .. MaxData + 2]
    <3>1. h \in 0 .. MaxData + 2
      BY <1>7, FrameFacts
    <3> QED BY <1>2, <3>1 DEF SendTakes, TypeOK, h, q
  <2>3. sendTask' \in [Sides -> {"recv", "write", "close", "ended"}]
    BY <1>2 DEF SendTakes, TypeOK
  <2> QED BY <1>2, <1>4, <2>1, <2>2, <2>3 DEF TypeOK, Frames, network, holders
<1>10. TaskOK(s)'
  <2>1. h # NoMessage
    BY <1>7, FrameFacts
  <2> QED BY <1>5, <2>1 DEF TaskOK, NoMessage
<1>11. CloseQueued(s) => CloseQueued(s)'
  <2> SUFFICES ASSUME NEW k \in 1 .. Len(q), q[k] = CloseFrame PROVE CloseQueued(s)'
    BY <1>4, <1>6, FrameFacts DEF CloseQueued, network, q
  <2>1. CASE k = 1
    BY <1>5, <1>7, <2>1 DEF CloseQueued, CloseFrame
  <2>2. CASE k # 1
    <3>1. k - 1 \in 1 .. Len(Tail(q)) /\ Tail(q)[k - 1] = CloseFrame
      BY <1>7, <2>2
    <3> QED BY <1>5, <3>1 DEF CloseQueued, CloseFrame
  <2> QED BY <2>1, <2>2
<1>12. PromiseOK(s)'
  <2>1. ASSUME NEW j \in 1 .. Len(Tail(q)), NEW k \in 1 .. Len(Tail(q)), j < k,
               Tail(q)[j] = CloseFrame, Tail(q)[k] \in Data
        PROVE  Tail(q)[k] > promised[s]
    <3>1. j + 1 \in 1 .. Len(q) /\ k + 1 \in 1 .. Len(q) /\ j + 1 < k + 1
      BY <1>7, <2>1
    <3>2. q[j + 1] = CloseFrame /\ q[k + 1] \in Data /\ Tail(q)[k] = q[k + 1]
      BY <1>7, <2>1
    <3>3. q[k + 1] > promised[s]
      BY <1>2, <3>1, <3>2 DEF SideOK, PromiseOK, q
    <3> QED BY <3>2, <3>3
  <2>2. \A j, k \in 1 .. Len(queue'[s]) :
          j < k /\ queue'[s][j] = CloseFrame' /\ queue'[s][k] \in Data'
            => queue'[s][k] > promised'[s]
    BY <1>4, <1>5, <2>1 DEF CloseFrame, Data
  <2>3. link' = "up" /\ ws'[s] = "active" /\ ~CloseQueued(s)' => promised'[s] = accepted'[s]
    BY <1>2, <1>4, <1>11 DEF SideOK, PromiseOK, network
  <2>4. promised'[s] <= accepted'[s]
    BY <1>2, <1>4 DEF SideOK, PromiseOK
  <2> QED BY <2>2, <2>3, <2>4 DEF PromiseOK
<1>13. FlowOK(t)'
  <2>1. ASSUME NEW a \in 0 .. MaxData, Arrives(t, a) PROVE Arrives(t, a)'
    <3>1. ASSUME Follows(s, a) PROVE Follows(s, a)'
      <4>1. Carries(q, a, accepted[s])
        BY <3>1, <1>6, FrameFacts DEF Follows, q
      <4>2. /\ h \in Data => h = a + 1 /\ Carries(Tail(q), a + 1, accepted[s])
            /\ h \notin Data => Carries(Tail(q), a, accepted[s])
        BY <4>1, <1>3, <1>8, CarriesTail DEF h
      <4>3. ASSUME h = CloseFrame PROVE promised[s] <= a
        <5> SUFFICES ASSUME a < promised[s] PROVE FALSE
          BY <1>8
        <5>1. promised[s] <= accepted[s]
          BY <1>2 DEF SideOK, PromiseOK
        <5>2. promised[s] \in a + 1 .. accepted[s] /\ promised[s] \in Data
          BY <5>1, <1>8 DEF Data
        <5>3. PICK k \in 1 .. Len(q) : q[k] = promised[s]
          BY <4>1, <5>2 DEF Carries
        <5>4. k # 1 /\ 1 \in 1 .. Len(q) /\ q[1] = CloseFrame
          BY <4>3, <5>2, <5>3, <1>7, FrameFacts
        <5>5. 1 < k
          BY <5>4
        <5>6. q[k] > promised[s]
          BY <1>2, <5>2, <5>3, <5>4, <5>5 DEF SideOK, PromiseOK, q
        <5> QED BY <5>3, <5>6, <1>8
      <4>4. Carries(queue[s], IF writing[s] \in Data THEN a + 1 ELSE a, accepted[s])'
        BY <4>2, <1>4, <1>5 DEF Carries, Data
      <4>5. writing'[s] \in Data' => writing'[s] = a + 1
        BY <4>2, <1>5 DEF Data
      <4>6. writing'[s] = CloseFrame' => promised'[s] <= a
        BY <4>3, <1>4, <1>5 DEF CloseFrame
      <4> QED BY <4>4, <4>5, <4>6, SMTT(30) DEF Follows
    <3> QED BY <2>1, <3>1, <1>1, <1>4 DEF Arrives, CloseComes, network, Carries, Data, CloseFrame
  <2> QED BY <1>1, <1>2, <1>4, <2>1 DEF SideOK, FlowOK, network
<1>14. CloseOK(t)'
  BY <1>1, <1>2, <1>4, CloseKeeps DEF SideOK, network, HasClosed
<1> QED BY <1>1, <1>4, <1>5, <1>9, <1>10, <1>12, <1>13, <1>14, SenderSteps
        DEF network, holders, t, HasClosed

(* A frame joins a direction before our close frame, or is that.           *)
LEMMA FrameSent ==
  ASSUME IInv, NEW s \in Sides, NEW f \in Frames,
         wire'[Peer(s)] = Append(wire[Peer(s)], f),
         ~HasClosed(s), HasClosed(s)' <=> f = CloseFrame,
         ws'[Peer(s)] = ws[Peer(s)]
  PROVE  /\ CloseOK(Peer(s))' /\ (CloseComes(Peer(s))' <=> f = CloseFrame)
         /\ ws[Peer(s)] \notin {"closedByPeer", "acked"}
<1> DEFINE t == Peer(s)
           q == wire[t]
<1>1. t \in Sides /\ t # s /\ Peer(t) = s
  BY Peers
<1>2. TypeOK /\ CloseOK(t)
  BY <1>1 DEF IInv, SideOK
<1> HIDE DEF t
<1>3. q \in Seq(Frames)
  BY <1>1, <1>2, Types
<1> HIDE DEF q
<1>4. /\ Len(q) \in Nat /\ Len(Append(q, f)) = Len(q) + 1 /\ Append(q, f)[Len(q) + 1] = f
      /\ \A k \in 1 .. Len(q) : Append(q, f)[k] = q[k]
  BY <1>3
<1>5. \A k \in 1 .. Len(q) : q[k] # CloseFrame
  BY <1>1, <1>2 DEF CloseOK, q
<1>6. \A k \in 1 .. Len(Append(q, f)) : k \in 1 .. Len(q) \/ k = Len(q) + 1
  BY <1>4
<1>7. wire'[t] = Append(q, f)
  BY DEF t, q
<1>8. CloseComes(t)' <=> f = CloseFrame
  BY <1>4, <1>5, <1>6, <1>7 DEF CloseComes, CloseFrame
<1>9. ws[t] \notin {"closedByPeer", "acked"}
  BY <1>1, <1>2 DEF CloseOK
<1>10. ws'[t] \notin {"closedByPeer", "acked"}
  BY <1>9 DEF t
<1>11. CloseOK(t)'
  BY <1>1, <1>4, <1>5, <1>6, <1>7, <1>8, <1>10 DEF CloseOK, CloseFrame
<1> QED BY <1>8, <1>9, <1>11 DEF t

LEMMA SendWritesStep ==
  ASSUME IInv, NEW s \in Sides, SendWrites(s)
  PROVE  IInv'
<1> DEFINE t == Peer(s)
           f == writing[s]
<1>1. t \in Sides /\ t # s /\ Peer(t) = s
  BY Peers
<1>2. TypeOK /\ SideOK(s) /\ SideOK(t)
  BY <1>1 DEF IInv
<1>3. /\ wire' = [wire EXCEPT ![t] = Append(wire[t], f)] /\ Len(wire[t]) < WireCap
      /\ link = "up" /\ ws[s] = "active"
      /\ UNCHANGED <<link, read, queue, recvTask, holders, accepted, promised>>
  BY DEF SendWrites
<1> HIDE DEF t
<1>4. f \in Frames
  <2>1. writing[s] # NoMessage
    BY <1>2 DEF SendWrites, SideOK, TaskOK
  <2> QED BY <1>2, <2>1, Types
<1>5. wire'[t] = Append(wire[t], f) /\ \A r \in Sides : r # t => wire'[r] = wire[r]
  BY <1>1, <1>2, <1>3 DEF TypeOK
<1>6. /\ writing'[s] = NoMessage /\ sendTask'[s] = "recv"
      /\ \A r \in Sides : r # s => writing'[r] = writing[r] /\ sendTask'[r] = sendTask[r]
  BY <1>2 DEF SendWrites, TypeOK
<1>7. /\ ws'[s] = IF f = CloseFrame THEN "closedByUs" ELSE "active"
      /\ \A r \in Sides : r # s => ws'[r] = ws[r]
  BY <1>2 DEF SendWrites, TypeOK
<1> HIDE DEF f
<1>8. TypeOK'
  <2>1. Append(wire[t], f) \in Seq(Frames) /\ Len(Append(wire[t], f)) <= WireCap
    BY <1>1, <1>2, <1>3, <1>4, Types, WireCapAssumption
  <2>2. wire' \in [Sides -> Seq(Frames)] /\ \A r \in Sides : Len(wire'[r]) <= WireCap
    BY <1>2, <1>3, <1>5, <2>1 DEF TypeOK, Frames
  <2>3. writing' \in [Sides -> 0 .. MaxData + 2]
    BY <1>2, MaxDataAssumption DEF SendWrites, TypeOK, NoMessage
  <2>4. /\ sendTask' \in [Sides -> {"recv", "write", "close", "ended"}]
        /\ ws' \in [Sides -> {"active", "closedByUs", "closedByPeer", "acked"}]
    BY <1>2 DEF SendWrites, TypeOK
  <2> QED BY <1>2, <1>3, <2>2, <2>3, <2>4 DEF TypeOK, Frames, holders
<1>9. TaskOK(s)'
  BY <1>6 DEF TaskOK, NoMessage
<1>10. ~HasClosed(s) /\ (HasClosed(s)' <=> f = CloseFrame)
  BY <1>3, <1>7 DEF HasClosed
<1>11. /\ CloseOK(t)' /\ (CloseComes(t)' <=> f = CloseFrame)
       /\ ws[t] \notin {"closedByPeer", "acked"}
  BY <1>1, <1>4, <1>5, <1>7, <1>10, FrameSent DEF t
<1>12. PromiseOK(s)'
  <2>1. ws'[s] = "active" /\ ~CloseQueued(s)' => ~CloseQueued(s)
    BY <1>3, <1>7 DEF CloseQueued, CloseFrame, f
  <2> QED BY <1>2, <1>3, <2>1 DEF SideOK, PromiseOK, CloseFrame, Data
<1>13. FlowOK(t)'
  <2>1. ASSUME NEW a \in 0 .. MaxData, Arrives(t, a)
        PROVE  \E b \in 0 .. MaxData : Arrives(t, b)'
    <3> DEFINE b == IF f \in Data THEN a + 1 ELSE a
    <3>1. Follows(s, a)
      BY <2>1, <1>1, <1>3 DEF Arrives
    <3>2. b \in 0 .. MaxData
      <4>1. f \in Data => f = a + 1
        BY <3>1 DEF Follows, f
      <4> QED BY <4>1 DEF Data
    <3>3. Carries(Append(wire[t], f), Len(read[t]), b)
      <4>1. Carries(wire[t], Len(read[t]), a) /\ Len(read[t]) \in Nat /\ wire[t] \in Seq(Frames)
        BY <2>1, <1>1, <1>2, Types DEF Arrives
      <4>2. CASE f \in Data
        <5>1. f = a + 1 /\ b = a + 1
          BY <4>2, <3>1 DEF Follows, f
        <5> HIDE DEF b
        <5> QED BY <4>1, <4>2, <5>1, CarriesNext
      <4>3. CASE f \notin Data
        BY <4>1, <4>3, <1>4, CarriesOther
      <4> QED BY <4>2, <4>3
    <3>4. Carries(queue[s], b, accepted[s])
      BY <3>1 DEF Follows, f
    <3>5. f = CloseFrame => b = a /\ promised[s] <= a
      BY <3>1, FrameFacts DEF Follows, f
    <3> HIDE DEF b
    <3>6. PICK c \in 0 .. MaxData : c = b
      BY <3>2
    <3>7. Follows(s, c)'
      <4>1. Carries(queue[s], c, accepted[s])'
        BY <3>4, <3>6, <1>3 DEF Carries, Data
      <4>2. writing'[s] \notin Data' /\ writing'[s] # CloseFrame'
        BY <1>6, FrameFacts DEF Data, CloseFrame, NoMessage
      <4> QED BY <4>1, <4>2 DEF Follows
    <3>8. Carries(wire[t], Len(read[t]), c)'
      BY <3>3, <3>6, <1>3, <1>5 DEF Carries, Data
    <3>9. (ws[t] = "active" /\ CloseComes(t) => promised[s] <= c)'
      <4>1. CloseComes(t)' => promised[s] <= c
        BY <3>5, <3>6, <1>11, <2>1
      <4> QED BY <4>1, <1>3
    <3>10. Arrives(t, c)'
      BY <3>7, <3>8, <3>9, <1>1 DEF Arrives
    <3> QED BY <3>10
  <2>2. ws'[t] = ws[t]
    BY <1>1, <1>7
  <2> QED BY <1>1, <1>2, <1>3, <2>1, <2>2 DEF SideOK, FlowOK
<1>14. /\ ws'[t] = ws[t] /\ wire'[s] = wire[s] /\ writing'[t] = writing[t]
       /\ sendTask'[t] = sendTask[t]
  BY <1>1, <1>5, <1>6, <1>7
<1>15. /\ HasClosed(s) => HasClosed(s)'
       /\ ws'[s] \in {"active", "closedByPeer"} => ws'[s] = ws[s]
       /\ ws'[s] # "acked"
  BY <1>3, <1>7, <1>10
<1> QED BY <1>3, <1>8, <1>9, <1>11, <1>12, <1>13, <1>14, <1>15, SenderSteps
        DEF holders, t

LEMMA SendFailsStep ==
  ASSUME IInv, NEW s \in Sides, SendFails(s)
  PROVE  IInv'
<1> DEFINE t == Peer(s)
<1>1. t \in Sides /\ t # s /\ Peer(t) = s
  BY Peers
<1>2. TypeOK /\ SideOK(s) /\ SideOK(t)
  BY <1>1 DEF IInv
<1>3. /\ link = "gone" \/ ws[s] # "active"
      /\ UNCHANGED <<network, queue, recvTask, holders, accepted, promised>>
  BY DEF SendFails
<1> HIDE DEF t
<1>4. /\ writing'[s] = NoMessage /\ sendTask'[s] = "close"
      /\ \A r \in Sides : r # s => writing'[r] = writing[r] /\ sendTask'[r] = sendTask[r]
  BY <1>2 DEF SendFails, TypeOK
<1>5. TypeOK'
  <2>1. writing' \in [Sides -> 0 .. MaxData + 2]
    BY <1>2, MaxDataAssumption DEF SendFails, TypeOK, NoMessage
  <2>2. sendTask' \in [Sides -> {"recv", "write", "close", "ended"}]
    BY <1>2 DEF SendFails, TypeOK
  <2> QED BY <1>2, <1>3, <2>1, <2>2 DEF TypeOK, network, holders
<1>6. TaskOK(s)'
  BY <1>3, <1>4 DEF TaskOK, NoMessage, network
<1>7. PromiseOK(s)'
  BY <1>2, <1>3 DEF SideOK, PromiseOK, network, CloseFrame, Data
<1>8. CloseOK(t)'
  BY <1>1, <1>2, <1>3, CloseKeeps DEF SideOK, network, HasClosed
<1>9. FlowOK(t)'
  <2>1. ASSUME NEW a \in 0 .. MaxData, Arrives(t, a) PROVE Arrives(t, a)'
    BY <2>1, <1>1, <1>3 DEF Arrives, network, CloseComes, Carries, Data, CloseFrame
  <2> QED BY <1>1, <1>2, <1>3, <2>1 DEF SideOK, FlowOK, network
<1>10. writing'[t] = writing[t] /\ sendTask'[t] = sendTask[t]
  BY <1>1, <1>4
<1> QED BY <1>3, <1>5, <1>6, <1>7, <1>8, <1>9, <1>10, SenderSteps
        DEF network, holders, t, HasClosed

LEMMA SendDrainedStep ==
  ASSUME IInv, NEW s \in Sides, SendDrained(s)
  PROVE  IInv'
<1> DEFINE t == Peer(s)
<1>1. t \in Sides /\ t # s /\ Peer(t) = s
  BY Peers
<1>2. TypeOK /\ SideOK(s) /\ SideOK(t)
  BY <1>1 DEF IInv
<1>3. /\ sendTask[s] = "recv" /\ queue[s] = <<>> /\ ~held[s]
      /\ UNCHANGED <<network, queue, writing, recvTask, holders, accepted, promised>>
  BY DEF SendDrained, ChannelClosed
<1> HIDE DEF t
<1>4. /\ sendTask'[s] = "close"
      /\ \A r \in Sides : r # s => sendTask'[r] = sendTask[r]
  BY <1>2 DEF SendDrained, TypeOK
<1>5. TypeOK'
  <2>1. sendTask' \in [Sides -> {"recv", "write", "close", "ended"}]
    BY <1>2 DEF SendDrained, TypeOK
  <2> QED BY <1>2, <1>3, <2>1 DEF TypeOK, network, holders
<1>6. TaskOK(s)'
  BY <1>2, <1>3, <1>4 DEF SideOK, TaskOK, NoMessage, network, holders
<1>7. PromiseOK(s)'
  BY <1>2, <1>3, PromiseKeeps DEF SideOK, network
<1>8. CloseOK(t)'
  BY <1>1, <1>2, <1>3, CloseKeeps DEF SideOK, network, HasClosed
<1>9. FlowOK(t)'
  BY <1>1, <1>2, <1>3, FlowKeeps DEF SideOK, network
<1>10. sendTask'[t] = sendTask[t]
  BY <1>1, <1>4
<1> QED BY <1>3, <1>5, <1>6, <1>7, <1>8, <1>9, <1>10, SenderSteps
        DEF network, holders, t, HasClosed

LEMMA SendClosesStep ==
  ASSUME IInv, NEW s \in Sides, SendCloses(s)
  PROVE  IInv'
<1> DEFINE t == Peer(s)
           Sending == link = "up" /\ ws[s] \in {"active", "closedByPeer"}
<1>1. t \in Sides /\ t # s /\ Peer(t) = s
  BY Peers
<1>2. TypeOK /\ SideOK(s) /\ SideOK(t)
  BY <1>1 DEF IInv
<1>3. /\ sendTask[s] = "close" /\ writing[s] = NoMessage
      /\ UNCHANGED <<link, read, writing, recvTask, held, listening, keepalive,
                     accepted, promised>>
  BY <1>2 DEF SendCloses, SideOK, TaskOK
<1>4. /\ sendTask'[s] = "ended" /\ queue'[s] = <<>>
      /\ \A r \in Sides : r # s => sendTask'[r] = sendTask[r] /\ queue'[r] = queue[r]
  BY <1>2 DEF SendCloses, TypeOK
<1>5. /\ Sending => /\ Len(wire[t]) < WireCap
                    /\ wire' = [wire EXCEPT ![t] = Append(wire[t], CloseFrame)]
                    /\ ws' = [ws EXCEPT ![s] = IF ws[s] = "active" THEN "closedByUs" ELSE "acked"]
      /\ ~Sending => UNCHANGED <<wire, ws>>
  BY DEF SendCloses
<1> HIDE DEF t, Sending
<1>6. /\ \A r \in Sides : r # t => wire'[r] = wire[r]
      /\ \A r \in Sides : r # s => ws'[r] = ws[r]
      /\ ws'[s] # "active" \/ link = "gone"
      /\ HasClosed(s) => HasClosed(s)'
      /\ ws'[s] \in {"active", "closedByPeer"} => ws'[s] = ws[s]
      /\ ws'[s] = "acked" => ws[s] \in {"closedByPeer", "acked"}
      /\ link = "up" => HasClosed(s)'
  <2>1. CASE Sending
    <3>1. ws'[s] = IF ws[s] = "active" THEN "closedByUs" ELSE "acked"
      BY <1>2, <1>5, <2>1 DEF TypeOK
    <3>2. \A r \in Sides : r # t => wire'[r] = wire[r]
      BY <1>2, <1>5, <2>1 DEF TypeOK
    <3>3. \A r \in Sides : r # s => ws'[r] = ws[r]
      BY <1>2, <1>5, <2>1 DEF TypeOK
    <3> QED BY <2>1, <3>1, <3>2, <3>3 DEF HasClosed, Sending
  <2>2. CASE ~Sending
    <3>1. wire' = wire /\ ws' = ws
      BY <1>5, <2>2
    <3>2. link = "up" => ws[s] \in {"closedByUs", "acked"}
      BY <1>2, <2>2, Types DEF Sending
    <3>3. link \in {"up", "gone"}
      BY <1>2 DEF TypeOK
    <3> QED BY <3>1, <3>2, <3>3 DEF HasClosed
  <2> QED BY <2>1, <2>2
<1>7. TypeOK'
  <2>1. wire' \in [Sides -> Seq(Frames)] /\ \A r \in Sides : Len(wire'[r]) <= WireCap
    <3>1. CASE Sending
      <4>1. /\ Append(wire[t], CloseFrame) \in Seq(Frames)
            /\ Len(Append(wire[t], CloseFrame)) <= WireCap
        BY <1>1, <1>2, <1>5, <3>1, Types, FrameFacts, WireCapAssumption
      <4>2. wire'[t] = Append(wire[t], CloseFrame)
        BY <1>1, <1>2, <1>5, <3>1 DEF TypeOK
      <4>3. \A r \in Sides : Len(wire'[r]) <= WireCap
        BY <1>2, <1>6, <4>1, <4>2 DEF TypeOK
      <4>4. /\ wire' = [wire EXCEPT ![t] = Append(wire[t], CloseFrame)]
            /\ wire \in [Sides -> Seq(Frames)]
        BY <1>2, <1>5, <3>1 DEF TypeOK, Frames
      <4> QED BY <4>1, <4>3, <4>4
    <3>2. CASE ~Sending
      BY <1>2, <1>5, <3>2 DEF TypeOK, Frames
    <3> QED BY <3>1, <3>2
  <2>2. queue' \in [Sides -> Seq(Frames)] /\ \A r \in Sides : Len(queue'[r]) <= Capacity
    <3>1. queue' = [queue EXCEPT ![s] = <<>>]
      BY DEF SendCloses
    <3>2. <<>> \in Seq(Frames) /\ Len(<<>>) <= Capacity
      BY CapacityAssumption
    <3> QED BY <1>2, <1>4, <3>1, <3>2 DEF TypeOK, Frames
  <2>3. ws' \in [Sides -> {"active", "closedByUs", "closedByPeer", "acked"}]
    <3>1. ws \in [Sides -> {"active", "closedByUs", "closedByPeer", "acked"}]
      BY <1>2 DEF TypeOK
    <3>2. CASE Sending
      BY <1>5, <3>1, <3>2
    <3>3. CASE ~Sending
      BY <1>5, <3>1, <3>3
    <3> QED BY <3>2, <3>3
  <2>4. /\ sendTask' \in [Sides -> {"recv", "write", "close", "ended"}]
        /\ registered' \in BOOLEAN
    BY <1>2 DEF SendCloses, Deregisters, TypeOK
  <2> QED BY <1>2, <1>3, <2>1, <2>2, <2>3, <2>4 DEF TypeOK, Frames
<1>8. TaskOK(s)'
  BY <1>2, <1>3, <1>4, <1>6 DEF SideOK, TaskOK, NoMessage
<1>9. PromiseOK(s)'
  BY <1>2, <1>3, <1>4, <1>6 DEF SideOK, PromiseOK
<1>10. CloseOK(t)' /\ FlowOK(t)'
  <2>1. CASE Sending
    <3>1. ~HasClosed(s) /\ HasClosed(s)'
      BY <1>6, <2>1 DEF HasClosed, Sending
    <3>2. wire'[t] = Append(wire[t], CloseFrame) /\ ws'[t] = ws[t]
      BY <1>1, <1>2, <1>5, <1>6, <2>1 DEF TypeOK
    <3>3. /\ CloseOK(t)' /\ CloseComes(t)'
          /\ ws[t] \notin {"closedByPeer", "acked"}
      BY <3>1, <3>2, FrameFacts, FrameSent DEF t
    <3>4. ASSUME NEW a \in 0 .. MaxData, Arrives(t, a) PROVE Arrives(t, a)'
      <4>1. Carries(Append(wire[t], CloseFrame), Len(read[t]), a)
        <5>1. wire[t] \in Seq(Frames) /\ Len(read[t]) \in Nat
          BY <1>1, <1>2, Types
        <5> QED BY <3>4, <5>1, FrameFacts, CarriesOther DEF Arrives
      <4>2. Carries(wire[t], Len(read[t]), a)'
        BY <4>1, <3>2, <1>3 DEF Carries, Data
      <4>3. ASSUME ws[t] = "active" PROVE promised[s] <= a
        <5>1. ws[s] = "active" /\ link = "up"
          BY <2>1, <4>3, <1>1, <1>2 DEF SideOK, CloseOK, HasClosed, Sending, t
        <5>2. queue[s] = <<>>
          BY <5>1, <1>2, <1>3 DEF SideOK, TaskOK
        <5>3. Carries(<<>>, a, accepted[s])
          BY <3>4, <5>1, <5>2, <1>1, <1>3, FrameFacts DEF Arrives, Follows
        <5>4. accepted[s] = a
          <6>1. accepted[s] \in Nat
            BY <1>2, Types
          <6> QED BY <6>1, <5>3, CarriesNothing
        <5>5. promised[s] <= accepted[s]
          BY <1>2 DEF SideOK, PromiseOK
        <5> QED BY <5>4, <5>5
      <4> QED BY <1>1, <1>3, <1>6, <3>2, <4>2, <4>3, <2>1 DEF Arrives, Sending
    <3> QED BY <1>1, <1>2, <1>3, <3>2, <3>3, <3>4 DEF SideOK, FlowOK
  <2>2. CASE ~Sending
    <3>1. UNCHANGED <<wire, ws>>
      BY <1>5, <2>2
    <3>2. CloseOK(t)'
      BY <1>1, <1>2, <1>3, <3>1, CloseKeeps DEF SideOK, HasClosed
    <3>3. ASSUME NEW a \in 0 .. MaxData, Arrives(t, a) PROVE Arrives(t, a)'
      BY <3>1, <3>3, <1>1, <1>3, <1>6
      DEF Arrives, CloseComes, Carries, Data, CloseFrame
    <3> QED BY <1>1, <1>2, <1>3, <3>1, <3>2, <3>3 DEF SideOK, FlowOK
  <2> QED BY <2>1, <2>2
<1>11. /\ ws'[t] = ws[t] /\ wire'[s] = wire[s] /\ queue'[t] = queue[t]
       /\ sendTask'[t] = sendTask[t]
  BY <1>1, <1>4, <1>6
<1> QED BY <1>3, <1>6, <1>7, <1>8, <1>9, <1>10, <1>11, SenderSteps DEF t

LEMMA ReceiveDataStep ==
  ASSUME IInv, NEW s \in Sides, ReceiveData(s)
  PROVE  IInv'
<1> DEFINE t == Peer(s)
           q == wire[s]
           h == Head(q)
<1>1. t \in Sides /\ t # s /\ Peer(t) = s
  BY Peers
<1>2. TypeOK /\ SideOK(s) /\ NoAbruptEnd
  BY DEF IInv
<1> HIDE DEF t
<1>3. /\ q \in Seq(Frames) /\ q # <<>> /\ Len(q) <= WireCap
      /\ recvTask[s] = "next" /\ h # CloseFrame
      /\ UNCHANGED <<link, ws, queue, writing, sendTask, holders, accepted, promised>>
  BY <1>2, Types DEF ReceiveData
<1>4. wire'[s] = Tail(q) /\ \A r \in Sides : r # s => wire'[r] = wire[r]
  BY <1>2 DEF ReceiveData, TypeOK
<1>5. /\ h \in Frames /\ h = q[1] /\ Len(q) \in Nat \ {0} /\ Len(Tail(q)) = Len(q) - 1
      /\ Tail(q) \in Seq(Frames)
      /\ \A k \in 1 .. Len(Tail(q)) : Tail(q)[k] = q[k + 1]
  BY <1>3
<1>6. /\ \A r \in Sides : r # s => recvTask'[r] = recvTask[r] /\ read'[r] = read[r]
      /\ \/ recvTask'[s] = "unheard" /\ read' = read
         \/ h = Ping /\ read' = read /\ recvTask' = recvTask
         \/ /\ h \in Data /\ recvTask' = recvTask
            /\ read' = [read EXCEPT ![s] = Append(read[s], h)]
  <2>1. CASE s = "client" /\ ~listening
    <3>1. recvTask' = [recvTask EXCEPT ![s] = "unheard"] /\ read' = read
      BY <2>1 DEF ReceiveData
    <3> QED BY <1>2, <3>1 DEF TypeOK
  <2>2. CASE ~(s = "client" /\ ~listening)
    <3>1. /\ read' = IF h = Ping THEN read ELSE [read EXCEPT ![s] = Append(read[s], h)]
          /\ recvTask' = recvTask
      BY <2>2 DEF ReceiveData
    <3>2. h = Ping \/ h \in Data
      BY <1>3, <1>5, FrameFacts
    <3>3. Ping \notin Data
      BY FrameFacts
    <3> QED BY <1>2, <3>1, <3>2, <3>3 DEF TypeOK
  <2> QED BY <2>1, <2>2
<1> HIDE DEF q, h
<1>7. TypeOK'
  <2>1. wire' \in [Sides -> Seq(Frames)] /\ \A r \in Sides : Len(wire'[r]) <= WireCap
    <3>1. wire' = [wire EXCEPT ![s] = Tail(q)]
      BY DEF ReceiveData, q
    <3>2. Len(Tail(q)) <= WireCap
      BY <1>3, <1>5, WireCapAssumption
    <3> QED BY <1>2, <1>4, <1>5, <3>1, <3>2 DEF TypeOK, Frames
  <2>2. recvTask' \in [Sides -> {"next", "closeFrame", "unheard", "broken"}]
    <3>1. recvTask' = recvTask \/ recvTask' = [recvTask EXCEPT ![s] = "unheard"]
      BY DEF ReceiveData
    <3> QED BY <1>2, <3>1 DEF TypeOK
  <2>3. read' \in [Sides -> Seq(Data)]
    <3>1. h \in Data => Append(read[s], h) \in Seq(Data)
      BY <1>2, Types
    <3> QED BY <1>2, <1>6, <3>1 DEF TypeOK
  <2> QED BY <1>2, <1>3, <2>1, <2>2, <2>3 DEF TypeOK, Frames, Data, holders
<1>8. NoAbruptEnd'
  BY <1>2, <1>3, <1>6 DEF NoAbruptEnd
<1>9. ws[s] \notin {"closedByPeer", "acked"}
  BY <1>2, <1>3 DEF SideOK, CloseOK
<1>10. HasClosed(t)' <=> HasClosed(t)
  BY <1>3 DEF HasClosed
<1>11. CloseComes(s)' <=> CloseComes(s)
  <2>1. \A k \in 1 .. Len(Tail(q)) : k + 1 \in 1 .. Len(q)
    BY <1>5
  <2>2. \A k \in 1 .. Len(q) : k # 1 => k - 1 \in 1 .. Len(Tail(q)) /\ Tail(q)[k - 1] = q[k]
    <3>1. \A k \in 1 .. Len(q) : k # 1 => k - 1 \in 1 .. Len(Tail(q)) /\ k - 1 + 1 = k
      BY <1>5
    <3> QED BY <3>1, <1>5
  <2>3. (\E k \in 1 .. Len(Tail(q)) : Tail(q)[k] = CloseFrame)
          <=> \E k \in 1 .. Len(q) : q[k] = CloseFrame
    BY <1>3, <1>5, <2>1, <2>2
  <2> QED BY <1>4, <2>3 DEF CloseComes, CloseFrame, q
<1>12. CloseOK(s)'
  <2>1. ASSUME NEW k \in 1 .. Len(Tail(q)), Tail(q)[k] = CloseFrame
        PROVE  k = Len(Tail(q)) /\ HasClosed(t)
    <3>1. k + 1 \in 1 .. Len(q) /\ q[k + 1] = CloseFrame
      BY <1>5, <2>1
    <3>2. \A i \in 1 .. Len(q) : q[i] = CloseFrame => i = Len(q) /\ HasClosed(t)
      BY <1>2 DEF SideOK, CloseOK, q, t
    <3>3. k + 1 = Len(q) /\ HasClosed(t)
      BY <3>1, <3>2
    <3>4. Len(q) \in Nat /\ k \in Nat /\ Len(Tail(q)) = Len(q) - 1
      BY <1>5
    <3>5. \A m, n \in Nat : m + 1 = n => m = n - 1
      OBVIOUS
    <3> QED BY <3>3, <3>4, <3>5, Zenon
  <2>2. link' = "up" /\ HasClosed(t)' /\ recvTask'[s] = "next" => CloseComes(s)'
    BY <1>2, <1>3, <1>10, <1>11 DEF SideOK, CloseOK, t
  <2>3. ws'[s] \notin {"closedByPeer", "acked"}
    BY <1>3, <1>9
  <2> QED BY <1>4, <1>10, <2>1, <2>2, <2>3 DEF CloseOK, CloseFrame, t
<1>13. FlowOK(s)'
  <2>1. ws'[s] # "closedByPeer"
    BY <1>3, <1>9
  <2>2. PICK a \in 0 .. MaxData : Arrives(s, a)
    BY <1>2, <1>3 DEF SideOK, FlowOK
  <2>3. Len(read[s]) \in Nat /\ read[s] \in Seq(Data)
    BY <1>2, Types
  <2>4. /\ h \in Data => h = Len(read[s]) + 1 /\ Carries(Tail(q), Len(read[s]) + 1, a)
        /\ h \notin Data => Carries(Tail(q), Len(read[s]), a)
    BY <2>2, <2>3, <1>3, CarriesTail DEF Arrives, q, h
  <2>5. \A k \in 1 .. Len(read[s]) : read[s][k] = k
    BY <1>2 DEF SideOK, FlowOK
  <2>6. CASE recvTask'[s] = "unheard" /\ read' = read
    BY <2>1, <2>5, <2>6 DEF FlowOK
  <2>7. ASSUME Carries(wire[s], Len(read[s]), a)' PROVE Arrives(s, a)'
    BY <2>2, <2>7, <1>1, <1>3, <1>11
    DEF Arrives, Follows, Carries, Data, CloseFrame, t
  <2>8. CASE h = Ping /\ read' = read /\ recvTask' = recvTask
    <3>1. Carries(wire[s], Len(read[s]), a)'
      BY <2>4, <2>8, <1>4, FrameFacts DEF Carries, Data
    <3> QED BY <2>1, <2>5, <2>7, <2>8, <3>1 DEF FlowOK
  <2>9. CASE /\ h \in Data /\ recvTask' = recvTask
             /\ read' = [read EXCEPT ![s] = Append(read[s], h)]
    <3>1. read'[s] = Append(read[s], h)
      BY <1>2, <2>9 DEF TypeOK
    <3>2. Len(read'[s]) = Len(read[s]) + 1
      BY <2>3, <2>9, <3>1
    <3>3. \A k \in 1 .. Len(read'[s]) : read'[s][k] = k
      BY <2>3, <2>4, <2>5, <2>9, <3>1, <3>2
    <3>4. Carries(wire[s], Len(read[s]), a)'
      BY <2>4, <2>9, <3>2, <1>4 DEF Carries, Data
    <3> QED BY <2>1, <2>7, <3>3, <3>4 DEF FlowOK
  <2> QED BY <2>6, <2>8, <2>9, <1>6
<1> QED BY <1>1, <1>3, <1>4, <1>6, <1>7, <1>8, <1>12, <1>13, ReceiverSteps
        DEF holders, t, HasClosed

LEMMA ReceiveCloseStep ==
  ASSUME IInv, NEW s \in Sides, ReceiveClose(s)
  PROVE  IInv'
<1> DEFINE t == Peer(s)
           q == wire[s]
<1>1. t \in Sides /\ t # s /\ Peer(t) = s
  BY Peers
<1>2. TypeOK /\ SideOK(s) /\ NoAbruptEnd
  BY DEF IInv
<1> HIDE DEF t
<1>3. /\ q \in Seq(Frames) /\ q # <<>> /\ q[1] = CloseFrame
      /\ recvTask[s] = "next" /\ read[s] \in Seq(Data)
      /\ UNCHANGED <<link, read, queue, writing, sendTask, held, listening, keepalive,
                     accepted, promised>>
  BY <1>2, Types DEF ReceiveClose, ReceiveEnds
<1>4. /\ wire'[s] = Tail(q) /\ recvTask'[s] = "closeFrame"
      /\ ws'[s] = IF ws[s] = "active" THEN "closedByPeer" ELSE "acked"
      /\ \A r \in Sides : r # s => wire'[r] = wire[r] /\ recvTask'[r] = recvTask[r]
                                   /\ ws'[r] = ws[r]
  BY <1>2 DEF ReceiveClose, ReceiveEnds, TypeOK
<1>5. Len(q) = 1 /\ HasClosed(t)
  <2>1. 1 \in 1 .. Len(q)
    BY <1>3
  <2>2. \A k \in 1 .. Len(q) : q[k] = CloseFrame => k = Len(q) /\ HasClosed(t)
    BY <1>2 DEF SideOK, CloseOK, t
  <2> QED BY <1>3, <2>1, <2>2
<1>6. Tail(q) = <<>>
  <2>1. \A u \in Seq(Frames) : Len(u) = 1 => Tail(u) = <<>>
    <3> SUFFICES ASSUME NEW u \in Seq(Frames), Len(u) = 1 PROVE Tail(u) = <<>>
      OBVIOUS
    <3>1. Tail(u) \in Seq(Frames) /\ Len(Tail(u)) = 0
      OBVIOUS
    <3> QED BY <3>1, EmptySeq
  <2> QED BY <1>3, <1>5, <2>1
<1>7. ws[s] \in {"active", "closedByUs"}
  BY <1>2, <1>3, Types DEF SideOK, CloseOK
<1>8. TypeOK'
  <2>1. wire' \in [Sides -> Seq(Frames)] /\ \A r \in Sides : Len(wire'[r]) <= WireCap
    <3>1. wire' = [wire EXCEPT ![s] = <<>>]
      BY <1>6 DEF ReceiveClose, q
    <3>2. <<>> \in Seq(Frames) /\ Len(<<>>) <= WireCap
      BY WireCapAssumption
    <3> QED BY <1>2, <1>4, <1>6, <3>1, <3>2 DEF TypeOK, Frames
  <2>2. ws' \in [Sides -> {"active", "closedByUs", "closedByPeer", "acked"}]
    BY <1>2 DEF ReceiveClose, TypeOK
  <2>3. /\ recvTask' \in [Sides -> {"next", "closeFrame", "unheard", "broken"}]
        /\ registered' \in BOOLEAN
    BY <1>2 DEF ReceiveClose, ReceiveEnds, Deregisters, TypeOK
  <2> QED BY <1>2, <1>3, <2>1, <2>2, <2>3 DEF TypeOK, Frames
<1>9. NoAbruptEnd'
  BY <1>2, <1>3, <1>4 DEF NoAbruptEnd
<1>10. HasClosed(s)' <=> HasClosed(s)
  BY <1>4, <1>7 DEF HasClosed
<1>11. CloseOK(s)'
  <2>1. HasClosed(t)'
    BY <1>1, <1>4, <1>5 DEF HasClosed
  <2>2. Len(wire'[s]) = 0
    <3>1. wire'[s] = <<>>
      BY <1>4, <1>6
    <3> QED BY <3>1
  <2>3. \A k \in 1 .. Len(wire'[s]) : FALSE
    BY <2>2
  <2>4. HasClosed(Peer(s))'
    BY <2>1 DEF HasClosed, t
  <2> QED BY <1>4, <2>3, <2>4 DEF CloseOK
<1>12. FlowOK(s)'
  <2>1. ASSUME ws'[s] = "closedByPeer" PROVE Len(read[s]) >= promised[t]
    <3>1. ws[s] = "active"
      BY <1>4, <2>1
    <3>2. CloseComes(s)
      BY <1>3, <1>5 DEF CloseComes
    <3>3. PICK a \in 0 .. MaxData : Arrives(s, a)
      BY <1>2, <1>3 DEF SideOK, FlowOK
    <3>4. promised[t] <= a /\ Carries(q, Len(read[s]), a)
      BY <3>1, <3>2, <3>3 DEF Arrives, t
    <3>5. a = Len(read[s])
      BY <3>4, <1>3, <1>5, FrameFacts, CarriesNoData
    <3>6. promised[t] \in Nat
      BY <1>1, <1>2, Types
    <3> QED BY <3>4, <3>5, <3>6
  <2>2. \A k \in 1 .. Len(read[s]) : read[s][k] = k
    BY <1>2 DEF SideOK, FlowOK
  <2> QED BY <1>3, <1>4, <2>1, <2>2 DEF FlowOK, t
<1>13. ws'[s] = "active" => ws[s] = "active"
  BY <1>4
<1> QED BY <1>1, <1>3, <1>4, <1>8, <1>9, <1>10, <1>11, <1>12, <1>13, ReceiverSteps DEF t

(* As long as the link is up the peer's socket is not closed without its   *)
(* close frame on the way.                                                 *)
LEMMA ReceiveErrorStep ==
  ASSUME IInv, NEW s \in Sides, ReceiveError(s)
  PROVE  IInv'
<1> DEFINE t == Peer(s)
<1>1. t \in Sides /\ t # s /\ Peer(t) = s
  BY Peers
<1>2. TypeOK /\ SideOK(s) /\ SideOK(t) /\ NoAbruptEnd
  BY <1>1 DEF IInv
<1>3. /\ wire[s] = <<>> /\ recvTask[s] = "next"
      /\ link = "gone" \/ SocketClosed(t)
      /\ UNCHANGED <<link, read, wire, ws, queue, writing, sendTask, held, listening,
                     keepalive, accepted, promised>>
  BY DEF ReceiveError, ReceiveEnds
<1> HIDE DEF t
<1>4. /\ recvTask'[s] = "broken"
      /\ \A r \in Sides : r # s => recvTask'[r] = recvTask[r]
  BY <1>2 DEF ReceiveError, ReceiveEnds, TypeOK
<1>5. link # "up"
  <2> SUFFICES ASSUME link = "up" PROVE FALSE
    OBVIOUS
  <2>1. HasClosed(t)
    BY <1>2, <1>3 DEF SocketClosed, SideOK, TaskOK
  <2>2. CloseComes(s)
    BY <1>2, <1>3, <2>1 DEF SideOK, CloseOK, t
  <2> QED BY <1>3, <2>2 DEF CloseComes
<1>6. TypeOK'
  <2>1. /\ recvTask' \in [Sides -> {"next", "closeFrame", "unheard", "broken"}]
        /\ registered' \in BOOLEAN
    BY <1>2 DEF ReceiveError, ReceiveEnds, Deregisters, TypeOK
  <2> QED BY <1>2, <1>3, <2>1 DEF TypeOK
<1>7. NoAbruptEnd'
  BY <1>3, <1>5 DEF NoAbruptEnd
<1>8. ws[s] \notin {"closedByPeer", "acked"}
  BY <1>2, <1>3 DEF SideOK, CloseOK
<1>9. CloseOK(s)'
  <2>1. Len(wire'[s]) = 0 /\ ws'[s] \notin {"closedByPeer", "acked"}
    BY <1>3, <1>8
  <2> QED BY <1>3, <1>5, <2>1 DEF CloseOK
<1>10. FlowOK(s)'
  BY <1>2, <1>3, <1>4, <1>8 DEF SideOK, FlowOK
<1> QED BY <1>1, <1>3, <1>4, <1>6, <1>7, <1>9, <1>10, ReceiverSteps DEF t, HasClosed

LEMMA BreaksStep ==
  ASSUME IInv, Breaks
  PROVE  IInv'
<1>1. TypeOK
  BY DEF IInv
<1>2. link' = "gone" /\ UNCHANGED <<ws, read, queue, tasks, holders, accepted, promised>>
  BY DEF Breaks
<1>3. PICK kept \in [Sides -> 0 .. WireCap] :
        /\ \A s \in Sides : kept[s] <= Len(wire[s])
        /\ wire' = [s \in Sides |-> SubSeq(wire[s], 1, kept[s])]
  BY DEF Breaks
<1>4. ASSUME NEW s \in Sides
      PROVE  /\ kept[s] \in 0 .. Len(wire[s]) /\ wire'[s] \in Seq(Frames)
             /\ Len(wire'[s]) = kept[s] /\ Len(wire[s]) \in Nat
             /\ \A k \in 1 .. kept[s] : wire'[s][k] = wire[s][k]
             /\ wire'[s] = SubSeq(wire[s], 1, kept[s])
  <2>1. wire[s] \in Seq(Frames)
    BY <1>1, Types
  <2>2. kept[s] \in 0 .. Len(wire[s])
    BY <1>3, <2>1, WireCapAssumption
  <2>3. \A q \in Seq(Frames) : \A j \in 0 .. Len(q) :
          /\ SubSeq(q, 1, j) \in Seq(Frames) /\ Len(SubSeq(q, 1, j)) = j
          /\ \A k \in 1 .. j : SubSeq(q, 1, j)[k] = q[k]
    OBVIOUS
  <2> QED BY <1>3, <2>1, <2>2, <2>3
<1>5. TypeOK'
  <2>1. wire' \in [Sides -> Seq(Frames)] /\ \A r \in Sides : Len(wire'[r]) <= WireCap
    <3>1. wire' \in [Sides -> Seq(Frames)]
      BY <1>3, <1>4
    <3>2. ASSUME NEW r \in Sides PROVE Len(wire'[r]) <= WireCap
      BY <1>3, <1>4, WireCapAssumption
    <3> QED BY <3>1, <3>2
  <2> QED BY <1>1, <1>2, <2>1 DEF TypeOK, Frames, tasks, holders
<1>6. NoAbruptEnd'
  BY <1>2 DEF NoAbruptEnd
<1>7. ASSUME NEW s \in Sides PROVE SideOK(s)'
  <2>1. SideOK(s)
    BY DEF IInv
  <2>2. TaskOK(s)'
    BY <1>2, <2>1 DEF SideOK, TaskOK, tasks, holders, NoMessage
  <2>3. PromiseOK(s)'
    BY <1>2, <2>1 DEF SideOK, PromiseOK, CloseFrame, Data
  <2>4. CloseComes(s)' => kept[s] = Len(wire[s]) /\ CloseComes(s)
    <3> SUFFICES ASSUME NEW k \in 1 .. kept[s], wire[s][k] = CloseFrame
                 PROVE  kept[s] = Len(wire[s]) /\ CloseComes(s)
      BY <1>4 DEF CloseComes, CloseFrame
    <3>1. k \in 1 .. Len(wire[s])
      BY <1>4
    <3>2. k = Len(wire[s])
      BY <2>1, <3>1 DEF SideOK, CloseOK
    <3> QED BY <3>1, <3>2, <1>4 DEF CloseComes
  <2>5. CloseOK(s)'
    <3>1. HasClosed(Peer(s))' <=> HasClosed(Peer(s))
      BY <1>2 DEF HasClosed
    <3>2. ASSUME NEW k \in 1 .. kept[s], wire[s][k] = CloseFrame
          PROVE  k = kept[s] /\ HasClosed(Peer(s))
      <4>1. k \in 1 .. Len(wire[s])
        BY <1>4
      <4>2. k = Len(wire[s]) /\ HasClosed(Peer(s))
        BY <2>1, <3>2, <4>1 DEF SideOK, CloseOK
      <4> QED BY <4>2, <1>4
    <3>3. ws'[s] \in {"closedByPeer", "acked"}
            => HasClosed(Peer(s))' /\ recvTask'[s] = "closeFrame"
      BY <1>2, <2>1, <3>1 DEF SideOK, CloseOK, tasks
    <3>4. \A k \in 1 .. Len(wire'[s]) :
            wire'[s][k] = CloseFrame' => k = Len(wire'[s]) /\ HasClosed(Peer(s))'
      BY <1>4, <3>1, <3>2 DEF CloseFrame
    <3> QED BY <1>2, <3>3, <3>4 DEF CloseOK
  <2>6. FlowOK(s)'
    <3>1. ASSUME NEW a \in 0 .. MaxData, Arrives(s, a)
          PROVE  \E b \in 0 .. MaxData : Arrives(s, b)'
      <4>1. Carries(wire[s], Len(read[s]), a) /\ Len(read[s]) \in Nat
            /\ wire[s] \in Seq(Frames)
        BY <3>1, <1>1, Types DEF Arrives
      <4>2. CASE CloseComes(s)'
        <5>1. wire'[s] = wire[s]
          BY <1>4, <2>4, <4>1, <4>2, SubSeqFull
        <5> QED BY <3>1, <5>1, <1>2, <2>4 DEF Arrives, Carries, Data
      <4>3. CASE ~CloseComes(s)'
        <5>1. PICK b \in 0 .. MaxData : Carries(wire'[s], Len(read[s]), b)
          BY <4>1, <1>4, CarriesPrefix
        <5>2. Carries(wire[s], Len(read[s]), b)'
          BY <5>1, <1>2 DEF Carries, Data
        <5> QED BY <5>2, <4>3, <1>2 DEF Arrives
      <4> QED BY <4>2, <4>3
    <3> QED BY <1>2, <2>1, <3>1 DEF SideOK, FlowOK, tasks
  <2> QED BY <2>2, <2>3, <2>5, <2>6 DEF SideOK
<1> QED BY <1>5, <1>6, <1>7 DEF IInv

(***************************************************************************)
(* The theorems.                                                           *)
(***************************************************************************)

LEMMA NextIInv == IInv /\ [Next]_vars => IInv'
<1> SUFFICES ASSUME IInv, [Next]_vars PROVE IInv'
  OBVIOUS
<1>1. TypeOK
  BY DEF IInv
<1>2. ASSUME NEW s \in Sides, SendMessage(s) PROVE IInv'
  BY <1>2, SendMessageStep
<1>3. CASE ServerAsksToClose
  <2>1. "server" \in Sides
    BY DEF Sides
  <2> QED BY <1>3, <2>1, FrameFacts, QueueingOther DEF ServerAsksToClose
<1>4. CASE ServerPings
  <2>1. "server" \in Sides
    BY DEF Sides
  <2> QED BY <1>4, <2>1, FrameFacts, QueueingOther DEF ServerPings
<1>5. CASE ServerDropsInterface
  <2>1. held' \in [Sides -> BOOLEAN] /\ \A s \in Sides : held'[s] => held[s]
    BY <1>1, <1>5 DEF ServerDropsInterface, TypeOK
  <2>2. UNCHANGED <<network, queue, tasks, listening, registered, keepalive, accepted, promised>>
    BY <1>5 DEF ServerDropsInterface
  <2>3. TypeOK'
    BY <1>1, <2>1, <2>2 DEF TypeOK, network, tasks
  <2> QED BY <2>1, <2>2, <2>3, HolderSteps
<1>6. CASE ClientCloses
  <2>1. held' \in [Sides -> BOOLEAN] /\ \A s \in Sides : held'[s] => held[s]
    BY <1>1, <1>6 DEF ClientCloses, TypeOK
  <2>2. UNCHANGED <<network, queue, tasks, listening, registered, keepalive, accepted, promised>>
    BY <1>6 DEF ClientCloses
  <2>3. TypeOK'
    BY <1>1, <2>1, <2>2 DEF TypeOK, network, tasks
  <2> QED BY <2>1, <2>2, <2>3, HolderSteps
<1>7. CASE ClientCloseReturns
  <2>1. listening' \in BOOLEAN /\ held' = held
    BY <1>7 DEF ClientCloseReturns
  <2>2. UNCHANGED <<network, queue, tasks, registered, keepalive, accepted, promised>>
    BY <1>7 DEF ClientCloseReturns
  <2>3. TypeOK'
    BY <1>1, <2>1, <2>2 DEF TypeOK, network, tasks
  <2> QED BY <2>1, <2>2, <2>3, HolderSteps
<1>8. CASE Breaks
  BY <1>8, BreaksStep
<1>9. ASSUME NEW s \in Sides, TaskNext(s) PROVE IInv'
  BY <1>9, SendTakesStep, SendWritesStep, SendFailsStep, SendDrainedStep, SendClosesStep,
     ReceiveDataStep, ReceiveCloseStep, ReceiveErrorStep
  DEF TaskNext
<1>10. ASSUME NEW s \in Sides, Resets(s) PROVE IInv'
  BY <1>10, BreaksStep DEF Resets
<1>11. CASE UNCHANGED vars
  <2>1. UNCHANGED <<network, queue, tasks, holders, accepted, promised>>
    BY <1>11 DEF vars, network, tasks, holders
  <2>2. TypeOK' /\ held' = held
    BY <1>1, <2>1 DEF TypeOK, network, tasks, holders
  <2> QED BY <2>1, <2>2, HolderSteps
<1> QED BY <1>2, <1>3, <1>4, <1>5, <1>6, <1>7, <1>8, <1>9, <1>10, <1>11
        DEF Next, ProgramNext

LEMMA SafetyIInv == Safety => []IInv
  BY InitIInv, NextIInv, PTL DEF Safety

(* Every reachable state has its type: the channels and the directions     *)
(* stay within their bounds on both sides.                                 *)
THEOREM TypeCorrect == Safety => []TypeOK
<1>1. IInv => TypeOK
  BY DEF IInv
<1> QED BY <1>1, SafetyIInv, PTL

(* A side whose peer closes first has read, in order, everything the peer  *)
(* handed over before it asked for the close.                              *)
THEOREM ClosingLosesNothing == Safety => []ClosedByPeerHasReadAll
<1>1. IInv => ClosedByPeerHasReadAll
  BY DEF IInv, SideOK, FlowOK, ClosedByPeerHasReadAll
<1> QED BY <1>1, SafetyIInv, PTL

(* While the connection holds no side sees it end without a close frame.   *)
THEOREM NoAbruptEnds == Safety => []NoAbruptEnd
<1>1. IInv => NoAbruptEnd
  BY DEF IInv
<1> QED BY <1>1, SafetyIInv, PTL

(***************************************************************************)
(* What is left unread when a socket closes.                               *)
(***************************************************************************)

(* Nothing comes after a close frame, and only the client's program stops  *)
(* listening.                                                              *)
QuietOK(s) ==
  /\ recvTask[s] = "closeFrame" => ws[s] \in {"closedByPeer", "acked"} /\ wire[s] = <<>>
  /\ recvTask[s] = "unheard" => s = "client" /\ ~listening

QuietInv == \A s \in Sides : QuietOK(s)

LEMMA QuietKeeps ==
  ASSUME NEW s \in Sides, QuietOK(s), recvTask'[s] = recvTask[s], listening' => listening,
         recvTask[s] = "closeFrame" => wire'[s] = wire[s],
         ws[s] \in {"closedByPeer", "acked"} => ws'[s] \in {"closedByPeer", "acked"}
  PROVE  QuietOK(s)'
  BY DEF QuietOK

(* Who has not sent its close frame has a peer that has not read one.      *)
LEMMA NotClosedNotRead ==
  ASSUME IInv, QuietInv, NEW s \in Sides, ~HasClosed(s)
  PROVE  recvTask[Peer(s)] # "closeFrame"
<1>1. Peer(s) \in Sides /\ Peer(Peer(s)) = s
  BY Peers
<1>2. CloseOK(Peer(s)) /\ QuietOK(Peer(s))
  BY <1>1 DEF IInv, SideOK, QuietInv
<1> QED BY <1>1, <1>2 DEF CloseOK, QuietOK

LEMMA QuietSends ==
  ASSUME IInv, QuietInv, NEW s \in Sides,
         SendTakes(s) \/ SendWrites(s) \/ SendFails(s) \/ SendDrained(s) \/ SendCloses(s)
  PROVE  QuietInv'
<1> SUFFICES ASSUME NEW t \in Sides PROVE QuietOK(t)'
  BY DEF QuietInv
<1>1. TypeOK /\ QuietOK(t)
  BY DEF IInv, QuietInv
<1>2. recvTask'[t] = recvTask[t] /\ listening' = listening
  BY DEF SendTakes, SendWrites, SendFails, SendDrained, SendCloses, network, holders
<1>3. t # s => t = Peer(s)
  BY Peers
<1>4. s # Peer(s) /\ Peer(s) \in Sides
  BY Peers
<1>5. CASE SendTakes(s) \/ SendFails(s) \/ SendDrained(s)
  <2>1. wire' = wire /\ ws' = ws
    BY <1>5 DEF SendTakes, SendFails, SendDrained, network
  <2> QED BY <1>1, <1>2, <2>1, QuietKeeps
<1>6. CASE SendWrites(s)
  <2>1. ws[s] = "active" /\ wire' = [wire EXCEPT ![Peer(s)] = Append(@, writing[s])]
        /\ (ws' = ws \/ ws' = [ws EXCEPT ![s] = "closedByUs"])
    BY <1>6 DEF SendWrites
  <2>2. recvTask[Peer(s)] # "closeFrame"
    BY <2>1, NotClosedNotRead DEF HasClosed
  <2>3. recvTask[t] = "closeFrame" => wire'[t] = wire[t]
    BY <1>1, <1>4, <2>1, <2>2 DEF TypeOK
  <2>4. ws[t] \in {"closedByPeer", "acked"} => ws'[t] \in {"closedByPeer", "acked"}
    BY <1>1, <2>1 DEF TypeOK
  <2> QED BY <1>1, <1>2, <2>3, <2>4, QuietKeeps
<1>7. CASE SendCloses(s)
  <2>1. CASE wire' = wire /\ ws' = ws
    BY <1>1, <1>2, <2>1, QuietKeeps
  <2>2. CASE /\ ws[s] \in {"active", "closedByPeer"}
             /\ wire' = [wire EXCEPT ![Peer(s)] = Append(@, CloseFrame)]
             /\ ws' = [ws EXCEPT ![s] = IF @ = "active" THEN "closedByUs" ELSE "acked"]
    <3>1. recvTask[Peer(s)] # "closeFrame"
      BY <2>2, NotClosedNotRead DEF HasClosed
    <3>2. recvTask[t] = "closeFrame" => wire'[t] = wire[t]
      BY <1>1, <1>4, <2>2, <3>1 DEF TypeOK
    <3>3. ws[t] \in {"closedByPeer", "acked"} => ws'[t] \in {"closedByPeer", "acked"}
      BY <1>1, <2>2 DEF TypeOK
    <3> QED BY <1>1, <1>2, <3>2, <3>3, QuietKeeps
  <2> QED BY <1>7, <2>1, <2>2 DEF SendCloses
<1> QED BY <1>5, <1>6, <1>7

LEMMA QuietReceives ==
  ASSUME IInv, QuietInv, NEW s \in Sides, ReceiveData(s) \/ ReceiveClose(s) \/ ReceiveError(s)
  PROVE  QuietInv'
<1> SUFFICES ASSUME NEW t \in Sides PROVE QuietOK(t)'
  BY DEF QuietInv
<1>1. TypeOK /\ QuietOK(t) /\ CloseOK(s)
  BY DEF IInv, SideOK, QuietInv
<1>2. recvTask[s] = "next" /\ listening' = listening
  BY DEF ReceiveData, ReceiveClose, ReceiveError, ReceiveEnds, holders
<1>3. CASE ReceiveData(s)
  <2>1. /\ wire' = [wire EXCEPT ![s] = Tail(@)] /\ ws' = ws
        /\ \/ s = "client" /\ ~listening /\ recvTask' = [recvTask EXCEPT ![s] = "unheard"]
           \/ recvTask' = recvTask
    BY <1>3 DEF ReceiveData
  <2>2. CASE t = s
    BY <1>1, <1>2, <2>1, <2>2 DEF QuietOK, TypeOK
  <2>3. CASE t # s
    <3>1. recvTask'[t] = recvTask[t] /\ wire'[t] = wire[t] /\ ws'[t] = ws[t]
      BY <1>1, <2>1, <2>3 DEF TypeOK
    <3> QED BY <1>1, <1>2, <3>1, QuietKeeps
  <2> QED BY <2>2, <2>3
<1>4. CASE ReceiveClose(s)
  <2>1. /\ wire[s] # <<>> /\ Head(wire[s]) = CloseFrame
        /\ wire' = [wire EXCEPT ![s] = Tail(@)]
        /\ ws' = [ws EXCEPT ![s] = IF @ = "active" THEN "closedByPeer" ELSE "acked"]
        /\ recvTask' = [recvTask EXCEPT ![s] = "closeFrame"]
    BY <1>4 DEF ReceiveClose, ReceiveEnds
  <2>2. CASE t = s
    <3>1. wire[s] \in Seq(Frames) /\ wire[s] # <<>>
      BY <1>1, <2>1, Types
    <3>2. 1 \in 1 .. Len(wire[s]) /\ wire[s][1] = CloseFrame
      BY <2>1, <3>1
    <3>3. Len(wire[s]) = 1
      BY <1>1, <3>2 DEF CloseOK
    <3>4. Tail(wire[s]) = <<>>
      <4>1. Tail(wire[s]) \in Seq(Frames) /\ Len(Tail(wire[s])) = 0
        BY <3>1, <3>3
      <4> QED BY <4>1, EmptySeq
    <3>5. /\ wire'[s] = <<>> /\ recvTask'[s] = "closeFrame"
          /\ ws'[s] \in {"closedByPeer", "acked"}
      BY <1>1, <2>1, <3>4 DEF TypeOK
    <3> QED BY <2>2, <3>5 DEF QuietOK
  <2>3. CASE t # s
    <3>1. recvTask'[t] = recvTask[t] /\ wire'[t] = wire[t] /\ ws'[t] = ws[t]
      BY <1>1, <2>1, <2>3 DEF TypeOK
    <3> QED BY <1>1, <1>2, <3>1, QuietKeeps
  <2> QED BY <2>2, <2>3
<1>5. CASE ReceiveError(s)
  <2>1. wire' = wire /\ ws' = ws /\ recvTask' = [recvTask EXCEPT ![s] = "broken"]
    BY <1>5 DEF ReceiveError, ReceiveEnds
  <2>2. recvTask'[t] = "broken" \/ recvTask'[t] = recvTask[t]
    BY <1>1, <2>1 DEF TypeOK
  <2> QED BY <1>1, <1>2, <2>1, <2>2 DEF QuietOK
<1> QED BY <1>3, <1>4, <1>5

LEMMA QuietBreaks ==
  ASSUME IInv, QuietInv, Breaks
  PROVE  QuietInv'
<1> SUFFICES ASSUME NEW t \in Sides PROVE QuietOK(t)'
  BY DEF QuietInv
<1>1. TypeOK /\ QuietOK(t)
  BY DEF IInv, QuietInv
<1>2. UNCHANGED <<ws, recvTask, listening>>
  BY DEF Breaks, tasks, holders
<1>3. PICK kept \in [Sides -> 0 .. WireCap] :
        /\ \A s \in Sides : kept[s] <= Len(wire[s])
        /\ wire' = [s \in Sides |-> SubSeq(wire[s], 1, kept[s])]
  BY DEF Breaks
<1>4. ASSUME wire[t] = <<>> PROVE wire'[t] = <<>>
  <2>1. kept[t] \in Nat /\ kept[t] <= 0
    <3>1. kept[t] \in 0 .. WireCap /\ kept[t] <= Len(wire[t])
      BY <1>3
    <3> QED BY <1>4, <3>1, WireCapAssumption
  <2>2. kept[t] = 0
    BY <2>1
  <2>3. SubSeq(<<>>, 1, 0) = <<>>
    OBVIOUS
  <2>4. wire'[t] = SubSeq(wire[t], 1, kept[t])
    BY <1>3
  <2> QED BY <1>4, <2>2, <2>3, <2>4, Zenon
<1> QED BY <1>1, <1>2, <1>4 DEF QuietOK

LEMMA QuietStep == IInv /\ QuietInv /\ [Next]_vars => QuietInv'
<1> SUFFICES ASSUME IInv, QuietInv, [Next]_vars PROVE QuietInv'
  OBVIOUS
<1>1. ASSUME UNCHANGED <<wire, ws, recvTask>>, listening' => listening PROVE QuietInv'
  <2> SUFFICES ASSUME NEW t \in Sides PROVE QuietOK(t)'
    BY DEF QuietInv
  <2> QED BY <1>1, QuietKeeps DEF QuietInv
<1>2. CASE ProgramNext
  <2>1. UNCHANGED <<wire, ws, recvTask>> /\ (listening' => listening)
    BY <1>2 DEF ProgramNext, SendMessage, ServerAsksToClose, ServerPings, ServerDropsInterface,
       ClientCloses, ClientCloseReturns, network, tasks, holders
  <2> QED BY <1>1, <2>1
<1>3. CASE Breaks
  BY <1>3, QuietBreaks
<1>4. ASSUME NEW s \in Sides, TaskNext(s) PROVE QuietInv'
  BY <1>4, QuietSends, QuietReceives DEF TaskNext
<1>5. ASSUME NEW s \in Sides, Resets(s) PROVE QuietInv'
  BY <1>5, QuietBreaks DEF Resets
<1>6. CASE UNCHANGED vars
  BY <1>1, <1>6 DEF vars
<1> QED BY <1>2, <1>3, <1>4, <1>5, <1>6 DEF Next

(* While the connection holds, a socket is closed over frames it has not   *)
(* read only if the client's program had stopped listening.                *)
THEOREM OnlyUnheardResets == Safety => []OnlyUnheardDataResets
<1>1. Init => IInv /\ QuietInv
  BY InitIInv DEF Init, QuietInv, QuietOK
<1>2. (IInv /\ QuietInv) /\ [Next]_vars => (IInv /\ QuietInv)'
  BY NextIInv, QuietStep
<1>3. IInv /\ QuietInv => OnlyUnheardDataResets
  <2> SUFFICES ASSUME IInv, QuietInv, link = "up", NEW s \in Sides,
                      SocketClosed(s), wire[s] # <<>>
               PROVE  s = "client" /\ recvTask[s] = "unheard" /\ ~listening
    BY DEF OnlyUnheardDataResets
  <2>1. recvTask[s] \in {"closeFrame", "unheard", "broken"}
    BY Types DEF IInv, SocketClosed
  <2>2. recvTask[s] # "broken"
    BY DEF IInv, NoAbruptEnd
  <2> QED BY <2>1, <2>2 DEF QuietInv, QuietOK
<1> QED BY <1>1, <1>2, <1>3, PTL DEF Safety
=============================================================================
