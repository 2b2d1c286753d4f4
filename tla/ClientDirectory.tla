--------------------------- MODULE ClientDirectory ---------------------------
(***************************************************************************)
(* What WsServer promises to the users of its client registry, without the *)
(* tasks, locks and identifiers that implement it: a client is listed at   *)
(* most once in its life, before anything can go wrong with its link, and  *)
(* it is struck off only because its own link has ended.  The queries      *)
(* is_client_connected, connection_count, get_connected_client_ids and     *)
(* get_all_connection_interfaces all answer from `listed'.                 *)
(***************************************************************************)
CONSTANT Clients

VARIABLES
  listed,   \* clients the queries of WsServer report as connected
  ended     \* clients whose link has ended, as far as the server can tell

vars == <<listed, ended>>

TypeOK == listed \in SUBSET Clients /\ ended \in SUBSET Clients

Init == listed = {} /\ ended = {}

Enrol(c) ==
  /\ c \notin listed \cup ended
  /\ listed' = listed \cup {c}
  /\ UNCHANGED ended

LinkEnds(c) ==
  /\ c \in listed
  /\ ended' = ended \cup {c}
  /\ UNCHANGED listed

Strike(c) ==
  /\ c \in listed \cap ended
  /\ listed' = listed \ {c}
  /\ UNCHANGED ended

Next == \E c \in Clients : Enrol(c) \/ LinkEnds(c) \/ Strike(c)

Safety == Init /\ [][Next]_vars

Spec == Safety /\ \A c \in Clients : WF_vars(Strike(c))
=============================================================================
