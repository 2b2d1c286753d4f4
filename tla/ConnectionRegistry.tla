-------------------------- MODULE ConnectionRegistry --------------------------
(***************************************************************************)
(* The server's accept path and its registry of clients (ws-rs/src/        *)
(* server.rs: WsServer, ConnectionManager, start_message_tasks) under the  *)
(* accept loop of ws_server/src/main.rs.                                   *)
(*                                                                         *)
(* One accept loop takes TCP connections from the listener's backlog one   *)
(* at a time, and drives the TLS and the WebSocket handshake of each to    *)
(* its end before it takes the next.  An upgraded connection is first put  *)
(* in the `interfaces' map and only then given its two tasks.  Both tasks  *)
(* delete the map entry of their client ID, independently, when they find  *)
(* that the link is over.  Messages are not modelled here (see             *)
(* ServerConnection): a task's loop is one state, left when it breaks.     *)
(***************************************************************************)
EXTENDS Naturals, Sequences, FiniteSets

CONSTANTS
  Conns,      \* TCP connections that clients may open
  Ids,        \* client IDs: the instants uuid_simple can read
  NoConn,     \* no entry in the map; the accept loop serves nobody
  NoId,       \* no client ID generated yet
  UniqueIds   \* TRUE: SystemTime::now never repeats a reading (to the
              \* nanosecond); FALSE: the wall clock was set back

ASSUME NoConnAssumption == NoConn \notin Conns
ASSUME NoIdAssumption == NoId \notin Ids
ASSUME UniqueIdsAssumption == UniqueIds \in BOOLEAN

VARIABLES
  backlog,      \* connections the listener has queued for accept()
  acceptLoop,   \* "accept", "establish" or "backoff" (the 100 ms sleep)
  current,      \* the connection that create_connection_interface serves
  phase,        \* how far each connection has come
  peer,         \* "up", or "gone" once the client closed or dropped it
  clientId,     \* the ID generated for each connection
  interfaces,   \* ConnectionManager.interfaces: the map by client ID
  sendTask,     \* the send task of each connection
  recvTask,     \* the receive task (with its cleanup) of each connection
  held,         \* connections whose ConnectionInterface the application holds
  seen          \* the entries behind the IDs a caller of
                \* get_connected_client_ids has got, as they were then

acceptVars == <<backlog, acceptLoop, current>>
taskVars == <<sendTask, recvTask>>
vars == <<backlog, acceptLoop, current, phase, peer, clientId, interfaces,
          sendTask, recvTask, held, seen>>

-----------------------------------------------------------------------------
Phases == {"absent", "backlog", "tls", "websocket", "register", "spawn",
           "live", "failed"}

(* "run": in its message loop.  "remove": the loop has broken and the      *)
(* cleanup waits for the map's write lock.  "ended": the future is dropped.*)
TaskStates == {"none", "run", "remove", "ended"}

Entries == [Ids -> Conns \cup {NoConn}]

TypeOK ==
  /\ backlog \in Seq(Conns)
  /\ acceptLoop \in {"accept", "establish", "backoff"}
  /\ current \in Conns \cup {NoConn}
  /\ phase \in [Conns -> Phases]
  /\ peer \in [Conns -> {"up", "gone"}]
  /\ clientId \in [Conns -> Ids \cup {NoId}]
  /\ interfaces \in Entries
  /\ sendTask \in [Conns -> TaskStates]
  /\ recvTask \in [Conns -> TaskStates]
  /\ held \in SUBSET Conns
  /\ seen \in Entries

Registered(c) == \E i \in Ids : interfaces[i] = c

RegisteredConns == {c \in Conns : Registered(c)}

(* Mutant: a disconnect clears the map.                                    *)
ClearInterfaces(c) == interfaces' = [i \in Ids |-> NoConn]

(* ConnectionManager::remove_interface on the ID of c, whoever has it now. *)
RemoveInterface(c) ==
  interfaces' = [interfaces EXCEPT ![clientId[c]] = NoConn]

(* Mutant: the ID is the time in seconds, without the nanoseconds.         *)
IdsBySecond == Ids

(* Mutant: IDs are numbered slots, given again once they are free.         *)
FreeSlotIds == {i \in Ids : interfaces[i] = NoConn}

(* The instants that uuid_simple may read at an accept.                    *)
FreshIds ==
  IF UniqueIds THEN {i \in Ids : \A c \in Conns : clientId[c] # i} ELSE Ids

Init ==
  /\ backlog = <<>>
  /\ acceptLoop = "accept"
  /\ current = NoConn
  /\ phase = [c \in Conns |-> "absent"]
  /\ peer = [c \in Conns |-> "up"]
  /\ clientId = [c \in Conns |-> NoId]
  /\ interfaces = [i \in Ids |-> NoConn]
  /\ sendTask = [c \in Conns |-> "none"]
  /\ recvTask = [c \in Conns |-> "none"]
  /\ held = {}
  /\ seen = [i \in Ids |-> NoConn]

-----------------------------------------------------------------------------
(* The clients.                                                            *)

Arrive(c) ==
  /\ phase[c] = "absent"
  /\ phase' = [phase EXCEPT ![c] = "backlog"]
  /\ backlog' = Append(backlog, c)
  /\ UNCHANGED <<acceptLoop, current, peer, clientId, interfaces, taskVars,
                 held, seen>>

Leave(c) ==
  /\ phase[c] # "absent"
  /\ peer[c] = "up"
  /\ peer' = [peer EXCEPT ![c] = "gone"]
  /\ UNCHANGED <<acceptVars, phase, clientId, interfaces, taskVars, held, seen>>

-----------------------------------------------------------------------------
(* The accept loop.                                                        *)

AcceptError ==
  /\ acceptLoop = "accept"
  /\ acceptLoop' = "backoff"
  /\ UNCHANGED <<backlog, current, phase, peer, clientId, interfaces, taskVars,
                 held, seen>>

BackoffOver ==
  /\ acceptLoop = "backoff"
  /\ acceptLoop' = "accept"
  /\ UNCHANGED <<backlog, current, phase, peer, clientId, interfaces, taskVars,
                 held, seen>>

Accept(c) ==
  /\ acceptLoop = "accept"
  /\ backlog # <<>>
  /\ c = Head(backlog)
  /\ backlog' = Tail(backlog)
  /\ acceptLoop' = "establish"
  /\ current' = c
  /\ phase' = [phase EXCEPT ![c] = "tls"]
  /\ \E i \in FreshIds : clientId' = [clientId EXCEPT ![c] = i]
  /\ UNCHANGED <<peer, interfaces, taskVars, held, seen>>

HandshakeStep(c, from, to) ==
  /\ current = c
  /\ phase[c] = from
  /\ peer[c] = "up"
  /\ phase' = [phase EXCEPT ![c] = to]
  /\ UNCHANGED <<acceptVars, peer, clientId, interfaces, taskVars, held, seen>>

TlsHandshake(c) == HandshakeStep(c, "tls", "websocket")

WsHandshake(c) == HandshakeStep(c, "websocket", "register")

(* The error paths of create_connection_interface: accept_connection       *)
(* returns Err and the loop sleeps.                                        *)
GiveUp(c, from) ==
  /\ current = c
  /\ phase[c] = from
  /\ phase' = [phase EXCEPT ![c] = "failed"]
  /\ current' = NoConn
  /\ acceptLoop' = "backoff"
  /\ UNCHANGED <<backlog, peer, clientId, interfaces, taskVars, held, seen>>

TlsFails(c) == GiveUp(c, "tls")

(* Mutant: the TLS handshake is awaited without a timeout.                 *)
NoTlsTimeout(c) == FALSE

TlsTimeout(c) == GiveUp(c, "tls")

WsFails(c) == GiveUp(c, "websocket")

WsTimeout(c) == GiveUp(c, "websocket")

(* add_interface: an entry of the same ID is overwritten.                  *)
Register(c) ==
  /\ current = c
  /\ phase[c] = "register"
  /\ phase' = [phase EXCEPT ![c] = "spawn"]
  /\ interfaces' = [interfaces EXCEPT ![clientId[c]] = c]
  /\ held' = held \cup {c}
  /\ UNCHANGED <<acceptVars, peer, clientId, taskVars, seen>>

SpawnTasks(c) ==
  /\ current = c
  /\ phase[c] = "spawn"
  /\ phase' = [phase EXCEPT ![c] = "live"]
  /\ sendTask' = [sendTask EXCEPT ![c] = "run"]
  /\ recvTask' = [recvTask EXCEPT ![c] = "run"]
  /\ acceptLoop' = "accept"
  /\ current' = NoConn
  /\ UNCHANGED <<backlog, peer, clientId, interfaces, held, seen>>

-----------------------------------------------------------------------------
(* The two tasks of a connection.                                          *)

(* ws_receiver.next() yields a close frame, an error or None.  An error    *)
(* may also come from a client that is still there (a malformed frame).    *)
ReceiveBreaks(c) ==
  /\ recvTask[c] = "run"
  /\ recvTask' = [recvTask EXCEPT ![c] = "remove"]
  /\ UNCHANGED <<acceptVars, phase, peer, clientId, interfaces, sendTask, held,
                 seen>>

(* Mutant: the receive task ends without its cleanup.                      *)
ReceiveEndsUncleaned(c) ==
  /\ recvTask[c] = "remove"
  /\ recvTask' = [recvTask EXCEPT ![c] = "ended"]
  /\ UNCHANGED <<acceptVars, phase, peer, clientId, interfaces, sendTask, held,
                 seen>>

ReceiveCleanup(c) ==
  /\ recvTask[c] = "remove"
  /\ recvTask' = [recvTask EXCEPT ![c] = "ended"]
  /\ RemoveInterface(c)
  /\ UNCHANGED <<acceptVars, phase, peer, clientId, sendTask, held, seen>>

(* A message of the application cannot be written to the WebSocket: the    *)
(* client has gone, or a close frame has passed in either direction.       *)
SendBreaks(c) ==
  /\ sendTask[c] = "run"
  /\ c \in held
  /\ sendTask' = [sendTask EXCEPT ![c] = "remove"]
  /\ UNCHANGED <<acceptVars, phase, peer, clientId, interfaces, recvTask, held,
                 seen>>

SendCleanup(c) ==
  /\ sendTask[c] = "remove"
  /\ sendTask' = [sendTask EXCEPT ![c] = "ended"]
  /\ RemoveInterface(c)
  /\ UNCHANGED <<acceptVars, phase, peer, clientId, recvTask, held, seen>>

(* rx.recv() yields None: neither the application nor the map holds a      *)
(* ConnectionInterface, and with it a Sender, of c any more.               *)
SendDrained(c) ==
  /\ sendTask[c] = "run"
  /\ c \notin held
  /\ ~Registered(c)
  /\ sendTask' = [sendTask EXCEPT ![c] = "ended"]
  /\ UNCHANGED <<acceptVars, phase, peer, clientId, interfaces, recvTask, held,
                 seen>>

-----------------------------------------------------------------------------
(* The application.                                                        *)

(* The last clone of an interface the application held is dropped.         *)
DropInterface(c) ==
  /\ c \in held
  /\ phase[c] = "live"
  /\ held' = held \ {c}
  /\ UNCHANGED <<acceptVars, phase, peer, clientId, interfaces, taskVars, seen>>

GetConnectedClientIds ==
  /\ seen' = interfaces
  /\ UNCHANGED <<acceptVars, phase, peer, clientId, interfaces, taskVars, held>>

(* Mutant: the lookup's result is used without looking for None.           *)
UncheckedGetConnectionInterface(i) ==
  /\ seen[i] # NoConn
  /\ held' = held \cup {interfaces[i]}
  /\ UNCHANGED <<acceptVars, phase, peer, clientId, interfaces, taskVars, seen>>

(* get_connection_interface on an ID that get_connected_client_ids gave:   *)
(* a map entry, if there still is one, is cloned.                          *)
GetConnectionInterface(i) ==
  /\ seen[i] # NoConn
  /\ held' = held \cup ({interfaces[i]} \ {NoConn})
  /\ UNCHANGED <<acceptVars, phase, peer, clientId, interfaces, taskVars, seen>>

-----------------------------------------------------------------------------
AcceptNext ==
  \/ AcceptError
  \/ BackoffOver
  \/ \E c \in Conns :
       \/ Accept(c)
       \/ TlsHandshake(c) \/ TlsFails(c) \/ TlsTimeout(c)
       \/ WsHandshake(c) \/ WsFails(c) \/ WsTimeout(c)
       \/ Register(c) \/ SpawnTasks(c)

TaskNext ==
  \E c \in Conns :
    \/ ReceiveBreaks(c) \/ ReceiveCleanup(c)
    \/ SendBreaks(c) \/ SendCleanup(c) \/ SendDrained(c)

ClientNext == \E c \in Conns : Arrive(c) \/ Leave(c)

AppNext ==
  \/ \E c \in Conns : DropInterface(c)
  \/ GetConnectedClientIds
  \/ \E i \in Ids : GetConnectionInterface(i)

Next == AcceptNext \/ TaskNext \/ ClientNext \/ AppNext

Safety == Init /\ [][Next]_vars

(* The runtime polls every spawned task and fires every timer, so a step   *)
(* of the server that stays possible is taken; a handshake is only sure to *)
(* time out, and a receive loop only to notice that its client has gone.   *)
(* accept() does not fail forever.                                         *)
Fairness ==
  /\ WF_vars(BackoffOver)
  /\ \A c \in Conns :
       /\ SF_vars(Accept(c))
       /\ WF_vars(TlsTimeout(c))
       /\ WF_vars(WsTimeout(c))
       /\ WF_vars(Register(c))
       /\ WF_vars(SpawnTasks(c))
       /\ WF_vars(peer[c] = "gone" /\ ReceiveBreaks(c))
       /\ WF_vars(ReceiveCleanup(c))
       /\ WF_vars(SendCleanup(c))

Spec == Safety /\ Fairness

-----------------------------------------------------------------------------
(* An entry of the map belongs to the client whose ID it has, and that     *)
(* client's receive task is still to delete it: no entry is left behind    *)
(* for a connection whose cleanup has already run, however the two         *)
(* cleanups, the registration and the spawning of the tasks interleave,    *)
(* and even if IDs repeat.                                                 *)
NoGhostEntry ==
  \A i \in Ids : \A c \in Conns :
    interfaces[i] = c =>
      /\ clientId[c] = i
      /\ \/ phase[c] = "spawn"
         \/ phase[c] = "live" /\ recvTask[c] \in {"run", "remove"}

(* While both tasks of a client run, is_client_connected and               *)
(* get_connection_interface find it under its ID: no cleanup of another    *)
(* connection has deleted its entry and no registration has replaced it.   *)
LiveClientIsRegistered ==
  \A c \in Conns :
    /\ phase[c] = "live"
    /\ recvTask[c] = "run"
    /\ sendTask[c] = "run"
    => interfaces[clientId[c]] = c

(* An ID that get_connected_client_ids returned never comes to denote      *)
(* another client: a later get_connection_interface on it, as in the       *)
(* monitor of ws_server, finds the same connection or nothing.             *)
SnapshotStaysValid ==
  \A i \in Ids :
    seen[i] # NoConn => interfaces[i] \in {seen[i], NoConn}

(* The registry implements its abstract specification: a client is listed  *)
(* once, and struck off only after one of its own tasks found its link     *)
(* broken.                                                                 *)
Directory == INSTANCE ClientDirectory WITH
  Clients <- Conns,
  listed <- RegisteredConns,
  ended <- {c \in Conns : \/ sendTask[c] = "remove"
                          \/ recvTask[c] \in {"remove", "ended"}
                          \/ sendTask[c] = "ended"}

ImplementsDirectory == Directory!Spec

(* A client that has gone is deregistered, whether its tasks were started  *)
(* already or it left between its handshake and its registration.          *)
DepartedIsDeregistered ==
  \A c \in Conns :
    phase[c] = "live" /\ peer[c] = "gone" ~> c \notin RegisteredConns

(* Every client that reaches the backlog is served or refused in the end:  *)
(* the clients ahead of it cannot hold the single accept loop up forever,  *)
(* whatever they do or fail to do during their handshakes.                 *)
EveryArrivalIsAnswered ==
  \A c \in Conns : phase[c] = "backlog" ~> phase[c] \in {"live", "failed"}
=============================================================================
