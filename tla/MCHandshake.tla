----------------------------- MODULE MCHandshake -----------------------------
(* An instance of Handshake for TLC: every combination of the compression  *)
(* settings on both sides, and one part of the request varied at a time.   *)
EXTENDS Handshake

(* No window, one below the range, one inside and one above it.            *)
CONSTANT GivenBits

MCServerConfigs ==
  {CompressionConfig(TRUE, s, c, sf, cf) :
     s \in GivenBits, c \in GivenBits, sf \in BOOLEAN, cf \in BOOLEAN}
  \cup {CompressionConfig(FALSE, 0, 0, FALSE, FALSE)}

PlainConfig == CompressionConfig(TRUE, 0, 0, FALSE, FALSE)

SomePath == <<"/", "ocpp", "/", "x">>

Subprotocols == {"ocpp2.1", "ocpp2.0.1", "ocpp1.6", "mqtt"}

MCWsRequests ==
  {[subprotocols |-> <<"ocpp1.6">>, config |-> c, path |-> SomePath] :
     c \in MCServerConfigs}
  \cup {[subprotocols |-> s, config |-> PlainConfig, path |-> SomePath] :
          s \in BoundedSeq(Subprotocols, 2)}

MCToken == STRING

PathTokens == {"/", "%2F", "%7C", "%FF", "ocpp", "api"}

Paths == {<<"/">> \o p : p \in BoundedSeq(PathTokens, 3)}
         \cup {<<"/", "api", "/", "x", sep, "x">> : sep \in PathTokens}

Params == {<<"client_max_window_bits">>,
           <<"client_max_window_bits", "=", "10">>,
           <<"server_max_window_bits", "=", "\"", "10", "\"">>,
           <<"server_no_context_takeover">>, <<"client_no_context_takeover">>}

Offers == {ExtensionText(SetToSeq(ps)) : ps \in SUBSET Params}

(* Values in quotes and half in quotes, a lone quote, and an empty value.  *)
Quotings == {<<"\"", "a", "\"">>, <<"\"", "a", " ", "b", "\"">>, <<"\"", "a">>,
             <<"\"", "\"">>, <<"\"">>, <<>>}

Oddities == {<<"x-other", ";", "note", "=">> \o value \o <<";", "flag">> : value \in Quotings}

Headers == Offers \cup Oddities
           \cup {offer \o <<",">> \o Deflate : offer \in Offers}
           \cup {<<"x-webkit-deflate-frame", ",", ",">> \o offer : offer \in Offers}
           \cup {NoHeader, Unreadable, <<"x-webkit-deflate-frame">>}

MCOtherRequests ==
  {[path |-> p, protocols |-> NoHeader, extensions |-> NoHeader] : p \in Paths}
  \cup {[path |-> SomePath, protocols |-> Unreadable, extensions |-> h] : h \in Headers}
=============================================================================
