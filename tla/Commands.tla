------------------------------- MODULE Commands -------------------------------
(***************************************************************************)
(* How ws_server (ws_server/src/main.rs) answers a text: the commands of   *)
(* process_text_command depend on the type of the connection.              *)
(*                                                                         *)
(* A text is a sequence of words, so that a prefix is its first word;      *)
(* white space around it, which the code trims, is left out.  An answer is *)
(* what it is about: the command served, "unknown" or "echo".              *)
(***************************************************************************)
EXTENDS Naturals, Sequences

Basic == {<<"ping">>, <<"hello">>, <<"time">>, <<"info">>, <<"status">>, <<"help">>}

Bulk == {<<"bulk:", "small">>, <<"bulk:", "large">>}

Simulate(names) == {<<"simulate:", name>> : name \in names}

Ocpp == {<<"ocpp:", name>> : name \in {"heartbeat", "status", "start", "stop"}}

Api == {<<"api:", name>> : name \in {"version", "endpoints", "health"}}

Prefixed(text, prefix) == text # <<>> /\ Head(text) = prefix

(* Mutant: the commands of OCPP are served everywhere.                     *)
UnguardedTextCommand(text, kind) ==
  CASE Prefixed(text, "ocpp:") -> IF text \in Ocpp THEN text ELSE <<"unknown">>
    [] kind = "api" /\ Prefixed(text, "api:") -> IF text \in Api THEN text ELSE <<"unknown">>
    [] text \in Basic \cup Bulk \cup Simulate({"data", "error", "warning"}) -> text
    [] OTHER -> <<"echo">>

(* process_text_command.  The cases exclude each other.                    *)
ProcessTextCommand(text, kind) ==
  CASE kind = "ocpp" /\ Prefixed(text, "ocpp:") -> IF text \in Ocpp THEN text ELSE <<"unknown">>
    [] kind = "api" /\ Prefixed(text, "api:") -> IF text \in Api THEN text ELSE <<"unknown">>
    [] text \in Basic \cup Bulk \cup Simulate({"data", "error", "warning"}) -> text
    [] OTHER -> <<"echo">>

(* The commands that the answer to "help" lists.                           *)
HelpText(kind) ==
  Basic \cup Bulk \cup
    CASE kind = "ocpp" -> Ocpp \cup Simulate({"data", "error"})
      [] kind = "api" -> Api \cup Simulate({"data", "warning"})
      [] OTHER -> Simulate({"data", "error", "warning"})
=============================================================================
