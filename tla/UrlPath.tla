------------------------------- MODULE UrlPath -------------------------------
(***************************************************************************)
(* The path of the upgrade request (ws-rs/src/path_utils.rs) and what      *)
(* ws_server/src/main.rs makes of it.                                      *)
(*                                                                         *)
(* A path is a sequence of tokens: the separator "/", words, and escapes.  *)
(* "%2F" stands for an encoded separator, "%7C" for any other escape that  *)
(* decodes, to "|", and "%FF" for bytes that are no UTF-8.                 *)
(***************************************************************************)
EXTENDS Naturals, Sequences, SequencesExt

CONSTANT Token   \* what paths, and headers, are made of

ASSUME TokenAssumption == {"/", "|"} \subseteq Token

Decodes == [t \in {"%2F", "%7C"} |-> IF t = "%2F" THEN "/" ELSE "|"]

(* The pieces of s between the separators, as str::split yields them.      *)
Split(s, sep) ==
  FoldLeft(LAMBDA pieces, t :
             IF t = sep THEN Append(pieces, <<>>)
                        ELSE Front(pieces) \o <<Append(Last(pieces), t)>>,
           <<<<>>>>, s)

Join(pieces, sep) ==
  IF pieces = <<>> THEN <<>>
  ELSE FoldLeft(LAMBDA text, piece : text \o <<sep>> \o piece,
                Head(pieces), Tail(pieces))

(* Decoding is all or nothing: one bad escape leaves the whole path as is. *)
DecodeUrlPath(path) ==
  IF Contains(path, "%FF") THEN path
  ELSE [k \in DOMAIN path |-> IF path[k] \in DOMAIN Decodes THEN Decodes[path[k]]
                                                            ELSE path[k]]

ExtractSuffix(path) == IF IsPrefix(<<"/">>, path) THEN Tail(path) ELSE path

PathInfo(rawPath) ==
  [rawPath |-> rawPath,
   decodedPath |-> DecodeUrlPath(rawPath),
   suffix |-> ExtractSuffix(rawPath),
   decodedSuffix |-> DecodeUrlPath(ExtractSuffix(rawPath))]

(* Mutant: empty segments are skipped.                                     *)
NonEmptySegments(info) ==
  SelectSeq(Split(info.decodedSuffix, "/"), LAMBDA segment : segment # <<>>)

Segments(info) ==
  IF info.decodedSuffix = <<>> THEN <<>> ELSE Split(info.decodedSuffix, "/")

(* parse_ocpp_station_id finds an ID: the second segment.                  *)
IsOcpp(info) ==
  /\ IsPrefix(<<"ocpp", "/">>, info.decodedSuffix)
  /\ Len(Segments(info)) >= 2
  /\ Segments(info)[1] = <<"ocpp">>

(* parse_api_path finds a version and an endpoint.                         *)
IsApi(info) ==
  /\ IsPrefix(<<"api", "/">>, info.decodedSuffix)
  /\ Len(Segments(info)) >= 3
  /\ Segments(info)[1] = <<"api">>

(* handle_connection_interface.                                            *)
ConnectionType(info) ==
  CASE info.suffix = <<>> -> "root"
    [] info.suffix # <<>> /\ IsOcpp(info) -> "ocpp"
    [] info.suffix # <<>> /\ ~IsOcpp(info) /\ IsApi(info) -> "api"
    [] OTHER -> "custom"
=============================================================================
