----------------------- MODULE ConnectionRegistryProofs -----------------------
(***************************************************************************)
(* Proofs about ConnectionRegistry for any number of connections and IDs:  *)
(* its types, NoGhostEntry whatever the clock does, LiveClientIsRegistered *)
(* and SnapshotStaysValid when no two connections get one ID, and the step *)
(* simulation of ClientDirectory.                                          *)
(***************************************************************************)
EXTENDS ConnectionRegistry, TLAPS

(* A connection waits once in the backlog, and only while nobody serves it.*)
BacklogInv ==
  /\ \A k \in 1 .. Len(backlog) : phase[backlog[k]] = "backlog"
  /\ \A j, k \in 1 .. Len(backlog) : backlog[j] = backlog[k] => j = k

(* A connection has an ID from the moment it is accepted.                  *)
IdInv ==
  \A c \in Conns : clientId[c] \in Ids <=> phase[c] \notin {"absent", "backlog"}

(* The tasks of a connection start together, after its registration.       *)
TaskInv ==
  \A c \in Conns :
    /\ sendTask[c] = "none" <=> phase[c] # "live"
    /\ recvTask[c] = "none" <=> phase[c] # "live"

(* The inductive invariant that needs nothing of the clock.                *)
Inv == TypeOK /\ BacklogInv /\ IdInv /\ TaskInv /\ NoGhostEntry

THEOREM InitInv == Init => Inv
  BY NoConnAssumption, NoIdAssumption
     DEF Init, Inv, TypeOK, BacklogInv, IdInv, TaskInv, NoGhostEntry, Phases,
         TaskStates, Entries

LEMMA ArriveInv == ASSUME Inv, NEW c \in Conns, Arrive(c) PROVE Inv'
<1>. USE DEF Arrive, acceptVars, taskVars, Inv
<1>1. TypeOK' BY DEF TypeOK, Phases
<1>2. BacklogInv'
  <2>1. /\ Len(backlog') = Len(backlog) + 1
        /\ \A k \in 1 .. Len(backlog) : backlog'[k] = backlog[k]
        /\ backlog'[Len(backlog) + 1] = c
    BY DEF TypeOK
  <2>2. \A k \in 1 .. Len(backlog) : backlog[k] \in Conns
    BY DEF TypeOK
  <2>3. \A k \in 1 .. Len(backlog) : backlog[k] # c
    BY <2>2 DEF BacklogInv
  <2>4. \A k \in 1 .. Len(backlog) : phase'[backlog[k]] = "backlog"
    BY <2>2, <2>3 DEF BacklogInv, TypeOK
  <2>5. phase'[c] = "backlog"
    BY DEF TypeOK
  <2>6. Len(backlog) \in Nat
    BY DEF TypeOK
  <2>. QED BY <2>1, <2>3, <2>4, <2>5, <2>6 DEF BacklogInv
<1>3. IdInv' BY DEF IdInv, TypeOK
<1>4. TaskInv' BY DEF TaskInv, TypeOK
<1>5. NoGhostEntry' BY DEF NoGhostEntry, TypeOK
<1>. QED BY <1>1, <1>2, <1>3, <1>4, <1>5

LEMMA AcceptInv == ASSUME Inv, NEW c \in Conns, Accept(c) PROVE Inv'
<1>. USE DEF Accept, taskVars, Inv
<1>0. PICK i \in FreshIds : clientId' = [clientId EXCEPT ![c] = i]
  OBVIOUS
<1>i. i \in Ids BY <1>0 DEF FreshIds
<1>1. TypeOK' BY <1>0, <1>i DEF TypeOK, Phases
<1>2. Len(backlog) \in Nat /\ Len(backlog) > 0 /\ c = backlog[1]
  BY DEF TypeOK
<1>3. phase[c] = "backlog"
  BY <1>2 DEF BacklogInv
<1>4. BacklogInv'
  <2>1. /\ Len(backlog') = Len(backlog) - 1
        /\ \A k \in 1 .. Len(backlog') : backlog'[k] = backlog[k + 1]
    BY DEF TypeOK
  <2>2. \A k \in 1 .. Len(backlog') : k + 1 \in 1 .. Len(backlog) /\ k + 1 # 1
    BY <1>2, <2>1
  <2>3. \A k \in 1 .. Len(backlog') : backlog'[k] # c /\ backlog'[k] \in Conns
    BY <1>2, <2>1, <2>2 DEF BacklogInv, TypeOK
  <2>4. \A k \in 1 .. Len(backlog') : phase'[backlog'[k]] = "backlog"
    BY <2>1, <2>2, <2>3 DEF BacklogInv, TypeOK
  <2>5. \A j, k \in 1 .. Len(backlog') : backlog'[j] = backlog'[k] => j = k
    BY <1>2, <2>1, <2>2 DEF BacklogInv
  <2>. QED BY <2>4, <2>5 DEF BacklogInv
<1>5. IdInv' BY <1>0, <1>i, <1>3 DEF IdInv, TypeOK
<1>6. TaskInv' BY <1>3 DEF TaskInv, TypeOK
<1>7. NoGhostEntry' BY <1>0, <1>3 DEF NoGhostEntry, TypeOK
<1>. QED BY <1>1, <1>4, <1>5, <1>6, <1>7

(* A handshake that advances, or a connection that is given up.            *)
LEMMA EstablishInv ==
  ASSUME Inv, NEW c \in Conns, NEW to \in {"websocket", "register", "failed"},
         phase[c] \in {"tls", "websocket"},
         phase' = [phase EXCEPT ![c] = to],
         current' \in {current, NoConn}, acceptLoop' \in {acceptLoop, "backoff"},
         UNCHANGED <<backlog, peer, clientId, interfaces, taskVars, held, seen>>
  PROVE  Inv'
<1>. USE DEF taskVars, Inv
<1>1. TypeOK' BY DEF TypeOK, Phases
<1>2. BacklogInv'
  <2>1. \A k \in 1 .. Len(backlog) : backlog[k] \in Conns /\ backlog[k] # c
    BY DEF BacklogInv, TypeOK
  <2>. QED BY <2>1 DEF BacklogInv, TypeOK
<1>3. IdInv' BY DEF IdInv, TypeOK
<1>4. TaskInv' BY DEF TaskInv, TypeOK
<1>5. NoGhostEntry' BY DEF NoGhostEntry, TypeOK
<1>. QED BY <1>1, <1>2, <1>3, <1>4, <1>5

LEMMA RegisterInv == ASSUME Inv, NEW c \in Conns, Register(c) PROVE Inv'
<1>. USE DEF Register, acceptVars, taskVars, Inv
<1>1. clientId[c] \in Ids BY DEF IdInv
<1>2. TypeOK' BY <1>1 DEF TypeOK, Phases, Entries
<1>3. BacklogInv'
  <2>1. \A k \in 1 .. Len(backlog) : backlog[k] \in Conns /\ backlog[k] # c
    BY DEF BacklogInv, TypeOK
  <2>. QED BY <2>1 DEF BacklogInv, TypeOK
<1>4. IdInv' BY DEF IdInv, TypeOK
<1>5. TaskInv' BY DEF TaskInv, TypeOK
<1>6. NoGhostEntry' BY <1>1 DEF NoGhostEntry, TypeOK, Entries
<1>. QED BY <1>2, <1>3, <1>4, <1>5, <1>6

LEMMA SpawnTasksInv == ASSUME Inv, NEW c \in Conns, SpawnTasks(c) PROVE Inv'
<1>. USE DEF SpawnTasks, acceptVars, taskVars, Inv
<1>1. TypeOK' BY DEF TypeOK, Phases, TaskStates
<1>2. BacklogInv'
  <2>1. \A k \in 1 .. Len(backlog) : backlog[k] \in Conns /\ backlog[k] # c
    BY DEF BacklogInv, TypeOK
  <2>. QED BY <2>1 DEF BacklogInv, TypeOK
<1>3. IdInv' BY DEF IdInv, TypeOK
<1>4. TaskInv' BY DEF TaskInv, TypeOK
<1>5. NoGhostEntry' BY DEF NoGhostEntry, TypeOK
<1>. QED BY <1>1, <1>2, <1>3, <1>4, <1>5

(* A connection with tasks has an ID, and none of its own entries is left  *)
(* once the entry of that ID is deleted.                                   *)
LEMMA RemoveInterfaceFacts ==
  ASSUME Inv, NEW c \in Conns, phase[c] = "live", RemoveInterface(c)
  PROVE  /\ clientId[c] \in Ids
         /\ interfaces' \in Entries
         /\ \A i \in Ids : interfaces'[i] # c
         /\ \A i \in Ids : interfaces'[i] \in {interfaces[i], NoConn}
<1>1. clientId[c] \in Ids
  BY DEF Inv, IdInv
<1>2. interfaces' = [interfaces EXCEPT ![clientId[c]] = NoConn]
  BY DEF RemoveInterface
<1>3. interfaces \in Entries
  BY DEF Inv, TypeOK
<1>4. \A i \in Ids : interfaces[i] = c => clientId[c] = i
  BY DEF Inv, NoGhostEntry
<1>. QED BY <1>1, <1>2, <1>3, <1>4, NoConnAssumption DEF Entries

LEMMA TaskNextInv == ASSUME Inv, TaskNext PROVE Inv'
<1>. USE DEF Inv
<1>1. SUFFICES ASSUME NEW c \in Conns,
                      \/ ReceiveBreaks(c) \/ ReceiveCleanup(c)
                      \/ SendBreaks(c) \/ SendCleanup(c) \/ SendDrained(c)
               PROVE  Inv'
  BY DEF TaskNext
<1>2. /\ phase[c] = "live"
      /\ UNCHANGED <<acceptVars, phase, peer, clientId, held, seen>>
  BY <1>1 DEF TaskInv, ReceiveBreaks, ReceiveCleanup, SendBreaks, SendCleanup,
              SendDrained
<1>3. BacklogInv' /\ IdInv'
  BY <1>2 DEF BacklogInv, IdInv, acceptVars
<1>4. /\ interfaces' \in Entries
      /\ \A i \in Ids : interfaces'[i] \in {interfaces[i], NoConn}
      /\ recvTask' # recvTask =>
           \/ recvTask'[c] \in {"run", "remove"}
           \/ \A i \in Ids : interfaces'[i] # c
  <2>1. CASE ReceiveCleanup(c)
    BY <1>2, <2>1, RemoveInterfaceFacts DEF ReceiveCleanup
  <2>2. CASE SendCleanup(c)
    BY <1>2, <2>2, RemoveInterfaceFacts DEF SendCleanup
  <2>3. CASE ReceiveBreaks(c) \/ SendBreaks(c) \/ SendDrained(c)
    BY <2>3 DEF ReceiveBreaks, SendBreaks, SendDrained, TypeOK
  <2>. QED BY <1>1, <2>1, <2>2, <2>3
<1>5. /\ sendTask' \in [Conns -> TaskStates]
      /\ recvTask' \in [Conns -> TaskStates]
      /\ \A d \in Conns : d # c => recvTask'[d] = recvTask[d]
      /\ \A d \in Conns : sendTask'[d] = "none" <=> sendTask[d] = "none"
      /\ \A d \in Conns : recvTask'[d] = "none" <=> recvTask[d] = "none"
  BY <1>1 DEF TypeOK, TaskStates, ReceiveBreaks, ReceiveCleanup, SendBreaks,
              SendCleanup, SendDrained
<1>6. TypeOK'
  BY <1>2, <1>4, <1>5 DEF TypeOK, acceptVars
<1>7. TaskInv'
  BY <1>2, <1>5 DEF TaskInv
<1>8. NoGhostEntry'
  <2>1. SUFFICES ASSUME NEW i \in Ids, NEW d \in Conns, interfaces'[i] = d
                 PROVE  /\ clientId[d] = i
                        /\ \/ phase[d] = "spawn"
                           \/ phase[d] = "live" /\ recvTask'[d] \in {"run", "remove"}
    BY <1>2 DEF NoGhostEntry
  <2>2. interfaces[i] = d
    BY <1>4, <2>1, NoConnAssumption
  <2>3. recvTask'[d] # recvTask[d] => d = c /\ recvTask' # recvTask
    BY <1>5
  <2>. QED BY <1>4, <2>1, <2>2, <2>3 DEF NoGhostEntry
<1>. QED BY <1>3, <1>6, <1>7, <1>8

LEMMA AppNextInv == ASSUME Inv, AppNext PROVE Inv'
<1>. USE DEF Inv, acceptVars, taskVars
<1>1. ASSUME NEW c \in Conns, DropInterface(c) PROVE Inv'
  BY <1>1 DEF DropInterface, TypeOK, BacklogInv, IdInv, TaskInv, NoGhostEntry
<1>2. ASSUME GetConnectedClientIds PROVE Inv'
  BY <1>2 DEF GetConnectedClientIds, TypeOK, BacklogInv, IdInv, TaskInv,
              NoGhostEntry
<1>3. ASSUME NEW i \in Ids, GetConnectionInterface(i) PROVE Inv'
  <2>1. TypeOK' BY <1>3 DEF GetConnectionInterface, TypeOK, Entries
  <2>. QED BY <1>3, <2>1 DEF GetConnectionInterface, BacklogInv, IdInv, TaskInv,
                             NoGhostEntry
<1>. QED BY <1>1, <1>2, <1>3 DEF AppNext

LEMMA NextInv == Inv /\ [Next]_vars => Inv'
<1>. SUFFICES ASSUME Inv, [Next]_vars PROVE Inv'
  OBVIOUS
<1>1. CASE AcceptNext
  <2>1. CASE AcceptError \/ BackoffOver
    BY <2>1 DEF AcceptError, BackoffOver, taskVars, Inv, TypeOK, BacklogInv, IdInv,
                TaskInv, NoGhostEntry
  <2>2. ASSUME NEW c \in Conns, Accept(c) PROVE Inv'
    BY <2>2, AcceptInv
  <2>3. ASSUME NEW c \in Conns, TlsHandshake(c) \/ WsHandshake(c) PROVE Inv'
    BY <2>3, EstablishInv DEF TlsHandshake, WsHandshake, HandshakeStep, acceptVars
  <2>4. ASSUME NEW c \in Conns,
               TlsFails(c) \/ TlsTimeout(c) \/ WsFails(c) \/ WsTimeout(c)
        PROVE  Inv'
    BY <2>4, EstablishInv DEF TlsFails, TlsTimeout, WsFails, WsTimeout, GiveUp
  <2>5. ASSUME NEW c \in Conns, Register(c) PROVE Inv'
    BY <2>5, RegisterInv
  <2>6. ASSUME NEW c \in Conns, SpawnTasks(c) PROVE Inv'
    BY <2>6, SpawnTasksInv
  <2>. QED BY <1>1, <2>1, <2>2, <2>3, <2>4, <2>5, <2>6 DEF AcceptNext
<1>2. CASE TaskNext
  BY <1>2, TaskNextInv
<1>3. CASE ClientNext
  <2>1. ASSUME NEW c \in Conns, Leave(c) PROVE Inv'
    BY <2>1 DEF Leave, acceptVars, taskVars, Inv, TypeOK, BacklogInv, IdInv, TaskInv,
                NoGhostEntry
  <2>. QED BY <1>3, <2>1, ArriveInv DEF ClientNext
<1>4. CASE AppNext
  BY <1>4, AppNextInv
<1>5. CASE UNCHANGED vars
  BY <1>5 DEF vars, Inv, TypeOK, BacklogInv, IdInv, TaskInv, NoGhostEntry
<1>. QED BY <1>1, <1>2, <1>3, <1>4, <1>5 DEF Next

LEMMA SafetyInv == Safety => []Inv
  BY InitInv, NextInv, PTL DEF Safety

(* The variables of the registry keep their types, for any number of       *)
(* connections, IDs and callers.                                           *)
THEOREM RegistryTypeOK == Safety => []TypeOK
  BY SafetyInv, PTL DEF Inv

(* No interleaving of registration, spawning and the two cleanups leaves   *)
(* an entry behind whose receive task is over, even when IDs repeat.       *)
THEOREM RegistryNoGhostEntry == Safety => []NoGhostEntry
  BY SafetyInv, PTL DEF Inv

-----------------------------------------------------------------------------
(* The part of the invariant that holds when no two connections get one ID:*)
(* IDs tell connections apart, the entry of a connection stays until one   *)
(* of its own tasks deletes it, and an ID once read denotes one connection.*)
DistinctIds ==
  \A c, d \in Conns : clientId[c] \in Ids /\ clientId[c] = clientId[d] => c = d

EntryStays ==
  \A c \in Conns :
    \/ phase[c] = "spawn"
    \/ /\ phase[c] = "live"
       /\ sendTask[c] \in {"run", "remove"}
       /\ recvTask[c] \in {"run", "remove"}
    => interfaces[clientId[c]] = c

SeenInv == \A i \in Ids : seen[i] # NoConn => clientId[seen[i]] = i

UniqueInv == Inv /\ DistinctIds /\ EntryStays /\ SeenInv

LEMMA InitUniqueInv == Init => UniqueInv
  BY InitInv, NoIdAssumption
     DEF Init, UniqueInv, DistinctIds, EntryStays, SeenInv

LEMMA AcceptUnique ==
  ASSUME UniqueIds, UniqueInv, NEW c \in Conns, Accept(c)
  PROVE  DistinctIds' /\ EntryStays' /\ SeenInv'
<1>. USE DEF UniqueInv, Inv
<1>1. PICK i \in FreshIds : clientId' = [clientId EXCEPT ![c] = i]
  BY DEF Accept
<1>2. i \in Ids /\ \A d \in Conns : clientId[d] # i
  BY <1>1 DEF FreshIds
<1>3. phase[c] = "backlog"
  <2>1. Len(backlog) \in Nat /\ Len(backlog) > 0 /\ c = backlog[1]
    BY DEF Accept, TypeOK
  <2>. QED BY <2>1 DEF BacklogInv
<1>4. DistinctIds'
  BY <1>1, <1>2 DEF DistinctIds, TypeOK
<1>5. EntryStays'
  BY <1>1, <1>3 DEF EntryStays, Accept, taskVars, TypeOK
<1>6. SeenInv'
  BY <1>1, <1>3, NoIdAssumption DEF SeenInv, IdInv, Accept, TypeOK, Entries
<1>. QED BY <1>4, <1>5, <1>6

(* With distinct IDs a cleanup deletes the entry of its own connection, or *)
(* nothing.                                                                *)
LEMMA RemoveOwn ==
  ASSUME UniqueInv, NEW c \in Conns, phase[c] = "live", RemoveInterface(c)
  PROVE  \A i \in Ids : interfaces'[i] = IF interfaces[i] = c THEN NoConn
                                                              ELSE interfaces[i]
<1>1. clientId[c] \in Ids
  BY DEF UniqueInv, Inv, IdInv
<1>2. \A i \in Ids : interfaces'[i] = IF i = clientId[c] THEN NoConn ELSE interfaces[i]
  BY DEF RemoveInterface, UniqueInv, Inv, TypeOK, Entries
<1>3. \A i \in Ids : interfaces[i] = c => i = clientId[c]
  BY DEF UniqueInv, Inv, NoGhostEntry
<1>4. interfaces[clientId[c]] \in {c, NoConn}
  <2>1. SUFFICES ASSUME NEW d \in Conns, interfaces[clientId[c]] = d PROVE d = c
    BY <1>1 DEF UniqueInv, Inv, TypeOK, Entries
  <2>2. clientId[d] = clientId[c]
    BY <1>1, <2>1 DEF UniqueInv, Inv, NoGhostEntry
  <2>. QED BY <1>1, <2>2 DEF UniqueInv, DistinctIds
<1>. QED BY <1>1, <1>2, <1>3, <1>4

LEMMA TaskUnique ==
  ASSUME UniqueInv, TaskNext
  PROVE  DistinctIds' /\ EntryStays' /\ SeenInv'
<1>1. PICK c \in Conns :
        \/ ReceiveBreaks(c) \/ ReceiveCleanup(c)
        \/ SendBreaks(c) \/ SendCleanup(c) \/ SendDrained(c)
  BY DEF TaskNext
<1>2. /\ phase[c] = "live"
      /\ UNCHANGED <<phase, clientId, seen>>
  BY <1>1 DEF UniqueInv, Inv, TaskInv, ReceiveBreaks, ReceiveCleanup, SendBreaks,
              SendCleanup, SendDrained
<1>3. DistinctIds' /\ SeenInv'
  BY <1>2 DEF UniqueInv, DistinctIds, SeenInv
<1>4. EntryStays'
  <2>1. SUFFICES ASSUME NEW d \in Conns,
                        \/ phase[d] = "spawn"
                        \/ /\ phase[d] = "live"
                           /\ sendTask'[d] \in {"run", "remove"}
                           /\ recvTask'[d] \in {"run", "remove"}
                 PROVE  interfaces'[clientId[d]] = d
    BY <1>2 DEF EntryStays
  <2>2. interfaces[clientId[d]] = d
    BY <1>1, <2>1 DEF UniqueInv, Inv, EntryStays, TypeOK, ReceiveBreaks,
       ReceiveCleanup, SendBreaks, SendCleanup, SendDrained
  <2>3. clientId[d] \in Ids
    BY <2>1 DEF UniqueInv, Inv, IdInv
  <2>4. CASE ReceiveCleanup(c) \/ SendCleanup(c)
    <3>1. c # d
      BY <1>2, <2>1, <2>4 DEF ReceiveCleanup, SendCleanup, UniqueInv, Inv, TypeOK
    <3>. QED BY <1>2, <2>2, <2>3, <2>4, <3>1, RemoveOwn
             DEF ReceiveCleanup, SendCleanup
  <2>5. CASE ReceiveBreaks(c) \/ SendBreaks(c) \/ SendDrained(c)
    BY <2>2, <2>5 DEF ReceiveBreaks, SendBreaks, SendDrained
  <2>. QED BY <1>1, <2>4, <2>5
<1>. QED BY <1>3, <1>4

LEMMA RegisterUnique ==
  ASSUME UniqueInv, NEW c \in Conns, Register(c)
  PROVE  DistinctIds' /\ EntryStays' /\ SeenInv'
<1>1. DistinctIds' /\ SeenInv'
  BY DEF UniqueInv, DistinctIds, SeenInv, Register
<1>2. EntryStays'
  <2>1. clientId[c] \in Ids
    BY DEF UniqueInv, Inv, IdInv, Register
  <2>2. \A d \in Conns : d # c => clientId[d] # clientId[c]
    BY <2>1 DEF UniqueInv, DistinctIds
  <2>. QED BY <2>1, <2>2 DEF Register, taskVars, UniqueInv, Inv, EntryStays, TypeOK,
                             Entries
<1>. QED BY <1>1, <1>2

LEMMA NextUniqueInv ==
  ASSUME UniqueIds PROVE UniqueInv /\ [Next]_vars => UniqueInv'
<1>. SUFFICES ASSUME UniqueInv, [Next]_vars PROVE DistinctIds' /\ EntryStays' /\ SeenInv'
  BY NextInv DEF UniqueInv
<1>. USE DEF acceptVars, taskVars, UniqueInv, Inv
<1>1. CASE AcceptNext
  <2>1. CASE AcceptError \/ BackoffOver
    BY <2>1 DEF AcceptError, BackoffOver, DistinctIds, EntryStays, SeenInv
  <2>2. ASSUME NEW c \in Conns, Accept(c) PROVE DistinctIds' /\ EntryStays' /\ SeenInv'
    BY <2>2, AcceptUnique
  <2>3. ASSUME NEW c \in Conns,
               \/ TlsHandshake(c) \/ TlsFails(c) \/ TlsTimeout(c)
               \/ WsHandshake(c) \/ WsFails(c) \/ WsTimeout(c)
        PROVE  DistinctIds' /\ EntryStays' /\ SeenInv'
    BY <2>3 DEF TlsHandshake, TlsFails, TlsTimeout, WsHandshake, WsFails, WsTimeout,
                HandshakeStep, GiveUp, DistinctIds, EntryStays, SeenInv, TypeOK
  <2>4. ASSUME NEW c \in Conns, Register(c) PROVE DistinctIds' /\ EntryStays' /\ SeenInv'
    BY <2>4, RegisterUnique
  <2>5. ASSUME NEW c \in Conns, SpawnTasks(c)
        PROVE  DistinctIds' /\ EntryStays' /\ SeenInv'
    BY <2>5 DEF SpawnTasks, DistinctIds, EntryStays, SeenInv, TypeOK
  <2>. QED BY <1>1, <2>1, <2>2, <2>3, <2>4, <2>5 DEF AcceptNext
<1>2. CASE TaskNext
  BY <1>2, TaskUnique
<1>3. CASE ClientNext
  BY <1>3 DEF ClientNext, Arrive, Leave, DistinctIds, EntryStays, SeenInv, TypeOK
<1>4. CASE AppNext
  <2>1. DistinctIds' /\ EntryStays'
    BY <1>4 DEF AppNext, DropInterface, GetConnectedClientIds,
                GetConnectionInterface, DistinctIds, EntryStays
  <2>2. SeenInv'
    BY <1>4 DEF AppNext, DropInterface, GetConnectedClientIds,
                GetConnectionInterface, SeenInv, NoGhostEntry, TypeOK, Entries
  <2>. QED BY <2>1, <2>2
<1>5. CASE UNCHANGED vars
  BY <1>5 DEF vars, DistinctIds, EntryStays, SeenInv
<1>. QED BY <1>1, <1>2, <1>3, <1>4, <1>5 DEF Next

LEMMA SafetyUniqueInv == ASSUME UniqueIds PROVE Safety => []UniqueInv
  BY InitUniqueInv, NextUniqueInv, PTL DEF Safety

(* While a client's two tasks run it is found in the registry under its ID,*)
(* if the clock gives no two connections one ID.                           *)
THEOREM RegistryLiveClientIsRegistered ==
  ASSUME UniqueIds PROVE Safety => []LiveClientIsRegistered
<1>1. UniqueInv => LiveClientIsRegistered
  BY DEF UniqueInv, EntryStays, LiveClientIsRegistered
<1>. QED BY <1>1, SafetyUniqueInv, PTL

(* An ID read from get_connected_client_ids never denotes another client.  *)
THEOREM RegistrySnapshotStaysValid ==
  ASSUME UniqueIds PROVE Safety => []SnapshotStaysValid
<1>1. UniqueInv => SnapshotStaysValid
  <2>1. SUFFICES ASSUME UniqueInv, NEW i \in Ids, seen[i] # NoConn,
                        interfaces[i] # NoConn
                 PROVE  interfaces[i] = seen[i]
    BY DEF SnapshotStaysValid
  <2>2. seen[i] \in Conns /\ interfaces[i] \in Conns
    BY <2>1 DEF UniqueInv, Inv, TypeOK, Entries
  <2>3. clientId[seen[i]] = i /\ clientId[interfaces[i]] = i
    BY <2>1, <2>2 DEF UniqueInv, Inv, SeenInv, NoGhostEntry
  <2>. QED BY <2>1, <2>2, <2>3 DEF UniqueInv, DistinctIds
<1>. QED BY <1>1, SafetyUniqueInv, PTL

-----------------------------------------------------------------------------
(* The refinement of ClientDirectory, step by step.                        *)

EndedConns == {c \in Conns : \/ sendTask[c] = "remove"
                             \/ recvTask[c] \in {"remove", "ended"}
                             \/ sendTask[c] = "ended"}

LEMMA RegisterRefines ==
  ASSUME UniqueInv, NEW c \in Conns, Register(c)
  PROVE  Directory!Enrol(c)
<1>. USE DEF UniqueInv, Inv
<1>1. clientId[c] \in Ids
  BY DEF IdInv, Register
<1>2. \A i \in Ids : interfaces[i] # c
  BY DEF NoGhostEntry, Register
<1>3. \A d \in Conns : interfaces[clientId[c]] # d
  BY <1>1, <1>2 DEF NoGhostEntry, DistinctIds
<1>4. \A i \in Ids : interfaces'[i] = IF i = clientId[c] THEN c ELSE interfaces[i]
  BY <1>1 DEF Register, TypeOK, Entries
<1>5. RegisteredConns' = RegisteredConns \cup {c}
  BY <1>1, <1>3, <1>4 DEF RegisteredConns, Registered
<1>6. c \notin RegisteredConns
  BY <1>2 DEF RegisteredConns, Registered
<1>7. c \notin EndedConns /\ EndedConns' = EndedConns
  BY DEF Register, TaskInv, EndedConns, taskVars
<1>. QED BY <1>5, <1>6, <1>7 DEF Directory!Enrol, EndedConns

LEMMA CleanupRefines ==
  ASSUME UniqueInv, NEW c \in Conns, ReceiveCleanup(c) \/ SendCleanup(c)
  PROVE  Directory!Strike(c) \/ UNCHANGED Directory!vars
<1>. USE DEF UniqueInv, Inv
<1>1. phase[c] = "live" /\ RemoveInterface(c)
  BY DEF ReceiveCleanup, SendCleanup, TaskInv
<1>2. \A i \in Ids : interfaces'[i] = IF interfaces[i] = c THEN NoConn
                                                          ELSE interfaces[i]
  BY <1>1, RemoveOwn
<1>3. RegisteredConns' = RegisteredConns \ {c}
  BY <1>2, NoConnAssumption DEF RegisteredConns, Registered
<1>4. c \in EndedConns /\ EndedConns' = EndedConns
  BY DEF ReceiveCleanup, SendCleanup, TypeOK, EndedConns
<1>. QED BY <1>3, <1>4
         DEF Directory!Strike, Directory!vars, EndedConns, RegisteredConns

(* A task that breaks is the end of a listed client's link, or news about  *)
(* a link that had ended already.                                          *)
LEMMA BreakRefines ==
  ASSUME UniqueInv, NEW c \in Conns,
         ReceiveBreaks(c) \/ SendBreaks(c) \/ SendDrained(c)
  PROVE  Directory!LinkEnds(c) \/ UNCHANGED Directory!vars
<1>. USE DEF UniqueInv, Inv
<1>1. phase[c] = "live" /\ clientId[c] \in Ids
  BY DEF TaskInv, IdInv, ReceiveBreaks, SendBreaks, SendDrained
<1>2. RegisteredConns' = RegisteredConns
  BY DEF ReceiveBreaks, SendBreaks, SendDrained, RegisteredConns, Registered
<1>3. EndedConns' = EndedConns \cup {c}
  BY DEF ReceiveBreaks, SendBreaks, SendDrained, EndedConns, TypeOK
<1>4. c \notin EndedConns => sendTask[c] = "run" /\ recvTask[c] = "run"
  BY <1>1 DEF EndedConns, TaskInv, TypeOK, TaskStates
<1>5. c \notin EndedConns => c \in RegisteredConns
  BY <1>1, <1>4 DEF EntryStays, RegisteredConns, Registered
<1>. QED BY <1>2, <1>3, <1>5
         DEF Directory!LinkEnds, Directory!vars, EndedConns

LEMMA StepRefines ==
  ASSUME UniqueInv, [Next]_vars
  PROVE  [Directory!Next]_Directory!vars
<1>1. ASSUME NEW c \in Conns, Register(c) PROVE Directory!Next
  BY <1>1, RegisterRefines DEF Directory!Next
<1>2. ASSUME TaskNext PROVE [Directory!Next]_Directory!vars
  <2>1. PICK c \in Conns : \/ ReceiveBreaks(c) \/ ReceiveCleanup(c)
                           \/ SendBreaks(c) \/ SendCleanup(c) \/ SendDrained(c)
    BY <1>2 DEF TaskNext
  <2>2. \/ Directory!Strike(c) \/ Directory!LinkEnds(c)
        \/ UNCHANGED Directory!vars
    BY <2>1, CleanupRefines, BreakRefines
  <2>. QED BY <2>2 DEF Directory!Next
<1>3. ASSUME UNCHANGED taskVars, RegisteredConns' = RegisteredConns
      PROVE  UNCHANGED Directory!vars
  BY <1>3 DEF taskVars, Directory!vars
<1>4. ASSUME UNCHANGED <<taskVars, interfaces>> PROVE UNCHANGED Directory!vars
  BY <1>3, <1>4 DEF RegisteredConns, Registered
<1>5. ASSUME NEW c \in Conns, SpawnTasks(c) PROVE UNCHANGED Directory!vars
  <2>1. RegisteredConns' = RegisteredConns
    BY <1>5 DEF SpawnTasks, RegisteredConns, Registered
  <2>2. EndedConns' = EndedConns
    BY <1>5 DEF SpawnTasks, EndedConns, UniqueInv, Inv, TaskInv, TypeOK
  <2>. QED BY <2>1, <2>2 DEF Directory!vars, EndedConns
<1>6. CASE AcceptNext
  <2>1. CASE AcceptError \/ BackoffOver
    BY <1>4, <2>1 DEF AcceptError, BackoffOver
  <2>2. ASSUME NEW c \in Conns,
               \/ Accept(c)
               \/ TlsHandshake(c) \/ TlsFails(c) \/ TlsTimeout(c)
               \/ WsHandshake(c) \/ WsFails(c) \/ WsTimeout(c)
        PROVE  UNCHANGED Directory!vars
    BY <1>4, <2>2 DEF Accept, TlsHandshake, TlsFails, TlsTimeout, WsHandshake,
                      WsFails, WsTimeout, HandshakeStep, GiveUp
  <2>. QED BY <1>1, <1>5, <1>6, <2>1, <2>2 DEF AcceptNext
<1>7. CASE ClientNext
  BY <1>4, <1>7 DEF ClientNext, Arrive, Leave
<1>8. CASE AppNext
  BY <1>4, <1>8 DEF AppNext, DropInterface, GetConnectedClientIds,
                    GetConnectionInterface
<1>9. CASE UNCHANGED vars
  BY <1>4, <1>9 DEF vars, taskVars
<1>. QED BY <1>2, <1>6, <1>7, <1>8, <1>9 DEF Next

(* The registry implements the safety part of ClientDirectory: a client is *)
(* listed once and struck off only after its own link ended.               *)
THEOREM RegistryImplementsDirectory ==
  ASSUME UniqueIds PROVE Safety => Directory!Safety
<1>1. Init => Directory!Init
  BY NoConnAssumption
     DEF Init, Directory!Init, RegisteredConns, Registered
<1>2. UniqueInv /\ [Next]_vars => [Directory!Next]_Directory!vars
  BY StepRefines
<1>. QED BY <1>1, <1>2, SafetyUniqueInv, PTL DEF Safety, Directory!Safety
=============================================================================
