------------------------------ MODULE Handshake ------------------------------
(***************************************************************************)
(* What client and server agree on in the WebSocket upgrade: the path, the *)
(* OCPP subprotocol and the permessage-deflate parameters.  The request of *)
(* WebSocketClient (ws-rs/src/client.rs), or of another client, meets the  *)
(* header callback of the server (ws-rs/src/server.rs), which parses the   *)
(* extensions with ws-rs/src/compression.rs; the interface made from the   *)
(* outcome goes to the handler of ws_server/src/main.rs.                   *)
(*                                                                         *)
(* A header value is a sequence of tokens; white space, which the code     *)
(* trims, is left out.                                                     *)
(***************************************************************************)
EXTENDS UrlPath, Commands

CONSTANTS
  ServerConfigs,   \* compression configurations of the server
  WsRequests,      \* what a WebSocketClient may be told to ask for: its
                   \* subprotocols, its compression configuration, the path
  OtherRequests    \* the requests of other clients

Quote == "\""

Parameters == {"server_max_window_bits", "client_max_window_bits",
               "server_no_context_takeover", "client_no_context_takeover"}

ASSUME HeaderTokensAssumption ==
  Parameters \cup {"permessage-deflate", "=", ";", ",", Quote}
    \cup {"8", "9", "10", "11", "12", "13", "14", "15"} \subseteq Token

Header == Seq(Token)

(* What the builder makes of a configuration; 0: no window.                *)
Windows == 8 .. 15
CompressionConfigs ==
  [enabled : BOOLEAN, serverBits : {0} \cup Windows, clientBits : {0} \cup Windows,
   serverFresh : BOOLEAN, clientFresh : BOOLEAN]

WsRequest == [subprotocols : Seq(Token), config : CompressionConfigs, path : Header]
Request == [path : Header, protocols : Header, extensions : Header]

ASSUME ConfigsAssumption == ServerConfigs \subseteq CompressionConfigs
ASSUME RequestsAssumption ==
  WsRequests \subseteq WsRequest /\ OtherRequests \subseteq Request

VARIABLES
  phase,         \* how far the upgrade has come
  serverConfig,  \* WsServerConfig.compression
  asked,         \* the WsRequest behind the request, or <<>>
  request,       \* the request on its way: path and two headers
  path,          \* connection_path, as the callback saw it
  subprotocol,   \* selected_subprotocol, then ConnectionInterface.subprotocol
  response,      \* the two headers of the response
  kind           \* connection_type of the handler

vars == <<phase, serverConfig, asked, request, path, subprotocol, response, kind>>

-----------------------------------------------------------------------------
Supported == <<"ocpp2.1", "ocpp2.0.1", "ocpp1.6">>
None == "none"
Deflate == <<"permessage-deflate">>

(* An HTTP header that is not sent, and one that is not visible ASCII.     *)
NoHeader == <<>>
Unreadable == <<"?">>

(* with_server_max_window_bits and with_client_max_window_bits.  0: None.  *)
WindowBits(bits) ==
  CASE bits = 0 -> 0
    [] bits \in 1 .. 7 -> 8
    [] bits \in 8 .. 15 -> bits
    [] OTHER -> 15

(* serverFresh, clientFresh: {server,client}_no_context_takeover.          *)
CompressionConfig(enabled, serverBits, clientBits, serverFresh, clientFresh) ==
  [enabled |-> enabled,
   serverBits |-> WindowBits(serverBits), clientBits |-> WindowBits(clientBits),
   serverFresh |-> serverFresh, clientFresh |-> clientFresh]

Decimal(bits) ==
  CASE bits = 8 -> "8" [] bits = 9 -> "9" [] bits = 10 -> "10" [] bits = 11 -> "11"
    [] bits = 12 -> "12" [] bits = 13 -> "13" [] bits = 14 -> "14" [] bits = 15 -> "15"

Flag(name, on) == IF on THEN <<<<name>>>> ELSE <<>>

Valued(name, bits) ==
  IF bits = 0 THEN <<>> ELSE <<<<name, "=", Decimal(bits)>>>>

ExtensionText(params) == Join(<<Deflate>> \o params, ";")

-----------------------------------------------------------------------------
(* The header of the extensions.                                           *)

(* Mutant: only the opening quote comes off.                               *)
HalfUnquoted(value) ==
  IF value # <<>> /\ Head(value) = Quote THEN Tail(value) ELSE value

(* A value that starts and ends with a quote loses both.                   *)
Unquoted(value) ==
  IF value # <<>> /\ Head(value) = Quote /\ Last(value) = Quote
  THEN SubSeq(value, 2, Len(value) - 1) ELSE value

NoValue == <<>>
Value(text) == <<text>>

(* A parameter is split at its first "=", if it has one.                   *)
FirstEq(text) == SelectInSeq(text, LAMBDA t : t = "=")
ValueText(text) == SubSeq(text, FirstEq(text) + 1, Len(text))

Param(text) ==
  IF ~Contains(text, "=") THEN [name |-> text, value |-> NoValue]
  ELSE [name |-> SubSeq(text, 1, FirstEq(text) - 1),
        value |-> Value(Unquoted(ValueText(text)))]

Extension(text) ==
  LET parts == Split(text, ";")
  IN  [name |-> Head(parts),
       params |-> [k \in 1 .. Len(parts) - 1 |-> Param(parts[k + 1])]]

ParseExtensions(header) ==
  FoldLeft(LAMBDA found, text : IF text = <<>> THEN found ELSE Append(found, Extension(text)),
           <<>>, Split(header, ","))

(* The texts of all the parameters in a header.                            *)
ParamPieces(header) ==
  UNION {ToSet(Tail(Split(text, ";"))) : text \in ToSet(Split(header, ","))}

(* One quote starts and ends with a quote, but there is nothing between:   *)
(* the slice that takes both off panics.                                   *)
ParserPanics(header) ==
  \E text \in ParamPieces(header) : Contains(text, "=") /\ ValueText(text) = <<Quote>>

HasParam(extension, name) ==
  \E k \in DOMAIN extension.params : extension.params[k].name = <<name>>

(* get_param: the value of the first parameter of that name.               *)
GetParam(extension, name) ==
  extension.params[SelectInSeq(extension.params, LAMBDA p : p.name = <<name>>)].value

(* The first offer of permessage-deflate among extensions, if there is one.*)
Offered(extensions) == SelectInSeq(extensions, LAMBDA e : e.name = Deflate) # 0

Offer(extensions) ==
  extensions[SelectInSeq(extensions, LAMBDA e : e.name = Deflate)]

-----------------------------------------------------------------------------
(* The client.                                                             *)

(* Mutant: the two windows are swapped.                                    *)
SwappedCompressionOffer(c) ==
  ExtensionText(
    Valued("server_max_window_bits", c.clientBits)
    \o (IF c.serverBits = 0 THEN Flag("client_max_window_bits", TRUE)
        ELSE Valued("client_max_window_bits", c.serverBits))
    \o Flag("server_no_context_takeover", c.serverFresh)
    \o Flag("client_no_context_takeover", c.clientFresh))

GenerateCompressionOffer(c) ==
  ExtensionText(
    Valued("server_max_window_bits", c.serverBits)
    \o (IF c.clientBits = 0 THEN Flag("client_max_window_bits", TRUE)
        ELSE Valued("client_max_window_bits", c.clientBits))
    \o Flag("server_no_context_takeover", c.serverFresh)
    \o Flag("client_no_context_takeover", c.clientFresh))

(* connect_internal.                                                       *)
WsClientRequests(r) ==
  /\ phase = "idle"
  /\ phase' = "requested"
  /\ asked' = <<r>>
  /\ request' =
       [path |-> r.path,
        protocols |-> IF r.subprotocols = <<>> THEN NoHeader
                      ELSE Join([k \in DOMAIN r.subprotocols |-> <<r.subprotocols[k]>>],
                                ","),
        extensions |-> IF r.config.enabled THEN GenerateCompressionOffer(r.config)
                                           ELSE NoHeader]
  /\ UNCHANGED <<serverConfig, path, subprotocol, response, kind>>

OtherClientRequests(r) ==
  /\ phase = "idle"
  /\ phase' = "requested"
  /\ request' = r
  /\ UNCHANGED <<serverConfig, asked, path, subprotocol, response, kind>>

-----------------------------------------------------------------------------
(* The server.                                                             *)

Requested(header) == ToSet(Split(header, ","))

(* Mutant: whatever the client asks for first is taken.                    *)
FirstRequestedAnySubprotocol(header) ==
  IF header = NoHeader THEN None ELSE Head(Split(header, ","))[1]

(* Mutant: the client's order decides.                                     *)
FirstRequestedSubprotocol(header) ==
  LET known == SelectSeq(Split(header, ","), LAMBDA p : \E s \in ToSet(Supported) : p = <<s>>)
  IN  IF known = <<>> THEN None ELSE Head(known)[1]

(* The first supported subprotocol, in the server's order, the client asks *)
(* for.                                                                    *)
SelectSubprotocol(header) ==
  LET first == SelectInSeq(Supported, LAMBDA s : <<s>> \in Requested(header))
  IN  IF first = 0 THEN None ELSE Supported[first]

(* Mutant: the client's window is limited although it cannot be.           *)
AlwaysLimitingResponse(c, offer) ==
  ExtensionText(
    Valued("server_max_window_bits", c.serverBits)
    \o Valued("client_max_window_bits", IF c.clientBits = 0 THEN 15 ELSE c.clientBits)
    \o Flag("server_no_context_takeover", c.serverFresh)
    \o Flag("client_no_context_takeover",
            HasParam(offer, "client_no_context_takeover") \/ c.clientFresh))

GenerateCompressionResponse(c, offer) ==
  ExtensionText(
    Valued("server_max_window_bits", c.serverBits)
    \o (IF HasParam(offer, "client_max_window_bits")
        THEN Valued("client_max_window_bits", IF c.clientBits = 0 THEN 15 ELSE c.clientBits)
        ELSE <<>>)
    \o Flag("server_no_context_takeover", c.serverFresh)
    \o Flag("client_no_context_takeover",
            HasParam(offer, "client_no_context_takeover") \/ c.clientFresh))

(* The callback of accept_hdr_async: it reads the path, selects the        *)
(* subprotocol, and answers the first offer of permessage-deflate.         *)
Callback ==
  /\ phase = "requested"
  /\ ~(serverConfig.enabled /\ ParserPanics(request.extensions))
  /\ phase' = "responded"
  /\ path' = request.path
  /\ subprotocol' = SelectSubprotocol(request.protocols)
  /\ response' =
       [protocol |-> SelectSubprotocol(request.protocols),
        extensions |->
          IF serverConfig.enabled /\ Offered(ParseExtensions(request.extensions))
          THEN GenerateCompressionResponse(serverConfig,
                                           Offer(ParseExtensions(request.extensions)))
          ELSE NoHeader]
  /\ UNCHANGED <<serverConfig, asked, request, kind>>

(* The parser panics in the callback, after the path and the subprotocol   *)
(* are set.  The callback runs in the accept loop of main, so the whole    *)
(* server ends, and with it the upgrade.                                   *)
CallbackPanics ==
  /\ phase = "requested"
  /\ serverConfig.enabled /\ ParserPanics(request.extensions)
  /\ phase' = "panicked"
  /\ path' = request.path
  /\ subprotocol' = SelectSubprotocol(request.protocols)
  /\ UNCHANGED <<serverConfig, asked, request, response, kind>>

(* The interface is made and handed to the application.                    *)
HandleConnection ==
  /\ phase = "responded"
  /\ phase' = "open"
  /\ kind' = ConnectionType(PathInfo(path))
  /\ UNCHANGED <<serverConfig, asked, request, path, subprotocol, response>>

-----------------------------------------------------------------------------
EmptyRequest == [path |-> <<>>, protocols |-> NoHeader, extensions |-> NoHeader]

Init ==
  /\ phase = "idle"
  /\ serverConfig \in ServerConfigs
  /\ asked = <<>>
  /\ request = EmptyRequest
  /\ path = <<>>
  /\ subprotocol = None
  /\ response = [protocol |-> None, extensions |-> NoHeader]
  /\ kind = None

Next ==
  \/ \E r \in WsRequests : WsClientRequests(r)
  \/ \E r \in OtherRequests : OtherClientRequests(r)
  \/ Callback
  \/ CallbackPanics
  \/ HandleConnection

Spec == Init /\ [][Next]_vars

-----------------------------------------------------------------------------
TypeOK ==
  /\ phase \in {"idle", "requested", "responded", "panicked", "open"}
  /\ serverConfig \in ServerConfigs
  /\ asked = <<>> \/ \E r \in WsRequests : asked = <<r>>
  /\ request \in Request
  /\ path \in Header
  /\ subprotocol \in ToSet(Supported) \cup {None}
  /\ response \in [protocol : ToSet(Supported) \cup {None}, extensions : Header]
  /\ kind \in {None, "root", "ocpp", "api", "custom"}

(* Both sides work with the same subprotocol: the one the interface        *)
(* reports is the one in the response, the client asked for it, and the    *)
(* client asked for no newer OCPP version that the server supports.        *)
SubprotocolIsAgreed ==
  phase \in {"responded", "open"} =>
    LET wanted == {k \in DOMAIN Supported : <<Supported[k]>> \in Requested(request.protocols)}
    IN  /\ subprotocol = response.protocol
        /\ IF wanted = {} THEN subprotocol = None
           ELSE \E k \in wanted : subprotocol = Supported[k] /\ \A j \in wanted : k <= j

(* The server reads from the header what the client's configuration says:  *)
(* formatting and parsing neither lose nor confuse a parameter.            *)
OfferSurvivesHeader ==
  asked # <<>> /\ asked[1].config.enabled =>
    LET c == asked[1].config
        extensions == ParseExtensions(request.extensions)
        offer == Offer(extensions)
        Says(name, bits) ==
          IF bits = 0 THEN ~HasParam(offer, name) \/ GetParam(offer, name) = NoValue
          ELSE /\ HasParam(offer, name)
               /\ GetParam(offer, name) = Value(<<Decimal(bits)>>)
    IN  /\ Len(extensions) = 1 /\ Offered(extensions)
        /\ Says("server_max_window_bits", c.serverBits)
        /\ Says("client_max_window_bits", c.clientBits)
        /\ HasParam(offer, "server_no_context_takeover") <=> c.serverFresh
        /\ HasParam(offer, "client_no_context_takeover") <=> c.clientFresh

(* A response accepts something the client offered, limits the client's    *)
(* window only if the offer says the client can be limited, and has every  *)
(* parameter once and every window within 8 to 15.                         *)
ResponseIsValid ==
  response.extensions # NoHeader =>
    LET accepted == Head(ParseExtensions(response.extensions))
        offer == Offer(ParseExtensions(request.extensions))
    IN  /\ serverConfig.enabled
        /\ Offered(ParseExtensions(request.extensions))
        /\ HasParam(accepted, "client_max_window_bits")
             => HasParam(offer, "client_max_window_bits")
        /\ \A j, k \in DOMAIN accepted.params :
             accepted.params[j].name = accepted.params[k].name => j = k
        /\ \A k \in DOMAIN accepted.params :
             accepted.params[k].value
               \in {NoValue} \cup {Value(<<Decimal(bits)>>) : bits \in Windows}

(* The segments of a connection's path are the pieces of the path the      *)
(* client asked for: put together again they are the decoded path, and     *)
(* without an encoded separator there are as many as the client wrote.     *)
SegmentsAreFaithful ==
  phase = "open" /\ kind # "root" =>
    LET info == PathInfo(path)
        rebuilt == Join(Segments(info), "/")
    IN  /\ info.decodedPath \in {rebuilt, <<"/">> \o rebuilt}
        /\ ~Contains(path, "%2F") \/ Contains(path, "%FF")
             => Len(Segments(info)) = Len(Split(info.suffix, "/"))

(* RFC 6455, 9.1, as far as quotes go: they enclose a whole value, which   *)
(* is one token.                                                           *)
LegalParam(text) ==
  Contains(text, Quote) =>
    /\ Len(text) = 5
    /\ text[2] = "=" /\ text[3] = Quote /\ text[5] = Quote
    /\ {text[1], text[4]} \cap {"=", Quote} = {}

(* Quotes that RFC 6455 allows, whichever client sends them and wherever   *)
(* they stand in its header, never bring the server down, and the value    *)
(* the server reads is what they hold.                                     *)
LegalQuotesAreRead ==
  LET texts == ParamPieces(request.extensions)
  IN  (\A text \in texts : LegalParam(text)) =>
        /\ phase # "panicked"
        /\ \A text \in texts :
             Contains(text, Quote) =>
               Param(text) = [name |-> <<text[1]>>, value |-> Value(<<text[4]>>)]

(* The commands of a station are served exactly on the connections whose   *)
(* path names one, "ocpp/<station>", and those of the API exactly where it *)
(* names a version and an endpoint, however the path is encoded; and every *)
(* command that the answer to "help" lists there is served as itself,      *)
(* neither echoed nor taken for another.                                   *)
CommandsFollowPath ==
  phase = "open" =>
    LET pieces == Split(DecodeUrlPath(ExtractSuffix(path)), "/")
        Serves(commands) == \A c \in commands : ProcessTextCommand(c, kind) = c
        Echoes(commands) == \A c \in commands : ProcessTextCommand(c, kind) = <<"echo">>
    IN  /\ IF pieces[1] = <<"ocpp">> /\ Len(pieces) >= 2 THEN Serves(Ocpp) ELSE Echoes(Ocpp)
        /\ IF pieces[1] = <<"api">> /\ Len(pieces) >= 3 THEN Serves(Api) ELSE Echoes(Api)
        /\ Serves(HelpText(kind))

(* "RFC 7692 compliance: Follows the permessage-deflate specification"     *)
(* (compression.rs): a server that accepts an offer which limits the       *)
(* server's window or asks it to drop its context confirms that in the     *)
(* response, with the same window or a smaller one (RFC 7692, 7.1.1.1 and  *)
(* 7.1.2.1).                                                               *)
LimitsAreConfirmed ==
  response.extensions # NoHeader =>
    LET accepted == Head(ParseExtensions(response.extensions))
        offer == Offer(ParseExtensions(request.extensions))
    IN  /\ HasParam(offer, "server_no_context_takeover")
             => HasParam(accepted, "server_no_context_takeover")
        /\ HasParam(offer, "server_max_window_bits")
             => \E b, limit \in Windows :
                  /\ b <= limit
                  /\ GetParam(offer, "server_max_window_bits") = Value(<<Decimal(limit)>>)
                  /\ HasParam(accepted, "server_max_window_bits")
                  /\ GetParam(accepted, "server_max_window_bits") = Value(<<Decimal(b)>>)
=============================================================================
