----------------------------- MODULE SoloStart -----------------------------
(***************************************************************************)
(* How solo mode and pool mode start (run_solo_miner up to its first       *)
(* template, src/src/solo_miner.cpp; run_pool_miner up to its connection,  *)
(* src/src/pool_miner.cpp): endpoint, credentials, payout script, first    *)
(* template.                                                               *)
(*                                                                         *)
(* External: Bitcoin Core, which answers a call or not; the cookie files.  *)
(* A URL is given by its parts (Url), with "" for a part it has not.       *)
(***************************************************************************)
EXTENDS Config, AddressDecoder

CONSTANTS
  Url,           \* texts as [scheme, host, port, path, colon, as_path]
  AddressText,   \* texts as addresses, see AddressDecoder; no other text is one
  NodeScript,    \* the scripts the node's wallet knows: texts to bytes
  NewAddresses,  \* what getnewaddress may answer
  LongpollUris   \* what the first template may have as longpolluri

ASSUME AddressAssumption ==
  /\ Bad \notin 0 .. Radix - 1 /\ HashSize \in Nat /\ CheckSize \in Nat
  /\ V0Sizes \subseteq Nat /\ V1Sizes \subseteq Nat
  /\ \A text \in DOMAIN AddressText :
       LET address == AddressText[text]
       IN  \/ address.form = "base58" /\ address.digits \in Seq(0 .. Radix - 1 \cup {Bad})
           \/ address.form = "bech32" /\ address.values \in Seq(0..31 \cup {Bad})

VARIABLES
  home, cookies,   \* HOME, and the cookie files: paths to contents
  endpoint, auth_header, payout_address, payout_script,
  longpoll_endpoint,
  rpc_calls        \* history: the methods called, in order

soloVars == <<home, cookies, endpoint, auth_header, payout_address, payout_script,
              longpoll_endpoint, rpc_calls>>
argVars == <<argv, files, device_count, config_paths, config>>

NoEndpoint == [host |-> "", port |-> "", path |-> ""]

SoloInit ==
  /\ endpoint = NoEndpoint /\ longpoll_endpoint = NoEndpoint
  /\ auth_header = <<>> /\ payout_address = "" /\ payout_script = <<>>
  /\ rpc_calls = <<>>

\* NoEndpoint for a text that is refused.  A text without a colon is a path
\* on the base, if there is one, even when it was http://host/path.
parse_http_endpoint(text, base) ==
  LET url == Url[text]
  IN  IF text = "" \/ url.scheme \notin {"", "http"} THEN NoEndpoint
      ELSE IF url.host = "" /\ url.path # ""
           THEN IF base = NoEndpoint THEN NoEndpoint ELSE [base EXCEPT !.path = url.path]
      ELSE IF url.host # "" /\ url.port # ""
           THEN [host |-> url.host, port |-> url.port,
                 path |-> IF url.path = "" THEN "/" ELSE url.path]
      ELSE IF base # NoEndpoint /\ ~url.colon THEN [base EXCEPT !.path = url.as_path]
      ELSE NoEndpoint

\* Whether credentials are given: then there must be both.
Explicit(user, pass) == user # "" \/ pass # ""

default_cookie_path == IF home = "" THEN "" ELSE "$HOME/.bitcoin/.cookie"

\* <<>> when there are no credentials.
resolve_auth_header ==
  LET user == config.solo.rpc_user
      pass == config.solo.rpc_pass
      path == IF config.solo.rpc_cookie_path # "" THEN config.solo.rpc_cookie_path
              ELSE default_cookie_path
  IN  IF Explicit(user, pass) THEN IF user # "" /\ pass # "" THEN <<user, pass>> ELSE <<>>
      ELSE IF path \in DOMAIN cookies /\ cookies[path] # "" THEN <<cookies[path]>>
      ELSE <<>>

Leave(code) == phase' = "exit" /\ exit_code' = code

Goes(from, to) == phase = from /\ phase' = to /\ UNCHANGED <<exit_code, argVars, i, home, cookies>>

Gives(from) == phase = from /\ Leave(1) /\ UNCHANGED <<argVars, i, soloVars>>

RpcEndpoint ==
  parse_http_endpoint(IF config.solo.rpc_url = "" THEN "127.0.0.1:8332" ELSE config.solo.rpc_url,
                      NoEndpoint)

StartSolo ==
  /\ endpoint' = RpcEndpoint
  /\ auth_header' = resolve_auth_header
  /\ endpoint' # NoEndpoint /\ auth_header' # <<>>
  /\ Goes("solo", "probe")
  /\ UNCHANGED <<payout_address, payout_script, longpoll_endpoint, rpc_calls>>

StartSoloFails ==
  /\ \/ RpcEndpoint = NoEndpoint
     \/ resolve_auth_header = <<>>
  /\ Gives("solo")

Calls(method) == rpc_calls' = Append(rpc_calls, method)

\* A call fails when the node is not there, refuses, or answers otherwise
\* than expected; the program then ends.
CallFails ==
  \E from \in {"probe", "new_address", "address_info", "template"} : Gives(from)

verify_rpc_connection ==
  /\ Goes("probe", IF config.solo.address = "" THEN "new_address" ELSE "decode")
  /\ Calls("getblockchaininfo")
  /\ payout_address' = config.solo.address
  /\ UNCHANGED <<endpoint, auth_header, payout_script, longpoll_endpoint>>

getnewaddress ==
  /\ Goes("new_address", "decode")
  /\ Calls("getnewaddress")
  /\ payout_address' \in NewAddresses
  /\ UNCHANGED <<endpoint, auth_header, payout_script, longpoll_endpoint>>

\* Every other text has a character outside the alphabet.
AddressOf(text) ==
  IF text \in DOMAIN AddressText THEN AddressText[text]
  ELSE [form |-> "base58", digits |-> <<Bad>>]

Decoded == decode_bitcoin_address_script(AddressOf(payout_address))

DecodeAddress ==
  /\ phase = "decode" /\ ~Decoded.throws
  /\ Goes("decode", IF Decoded.ok THEN "template" ELSE "address_info")
  /\ payout_script' = Decoded.script
  /\ UNCHANGED <<endpoint, auth_header, payout_address, longpoll_endpoint, rpc_calls>>

\* The exception is not caught: the program ends in std::terminate.
DecodeThrows ==
  /\ phase = "decode" /\ Decoded.throws
  /\ Leave(134)
  /\ UNCHANGED <<argVars, i, soloVars>>

getaddressinfo ==
  /\ Goes("address_info", "template")
  /\ payout_address \in DOMAIN NodeScript
  /\ Calls("getaddressinfo")
  /\ payout_script' = NodeScript[payout_address]
  /\ UNCHANGED <<endpoint, auth_header, payout_address, longpoll_endpoint>>

\* The first template, and where its longpoll goes: NoEndpoint if nowhere.
getblocktemplate ==
  /\ Goes("template", "solo mining")
  /\ Calls("getblocktemplate")
  /\ \E uri \in LongpollUris :
       longpoll_endpoint' = IF uri = "" THEN endpoint ELSE parse_http_endpoint(uri, endpoint)
  /\ UNCHANGED <<endpoint, auth_header, payout_address, payout_script>>

\* Pool mode: the endpoint must have a host and a port.
StartPool ==
  LET url == Url[config.pool.pool]
  IN  /\ url.host # "" /\ url.port # ""
      /\ Goes("pool", "pool mining")
      /\ endpoint' = [host |-> url.host, port |-> url.port, path |-> ""]
      /\ UNCHANGED <<auth_header, payout_address, payout_script, longpoll_endpoint, rpc_calls>>

\* Or it has not, or the connection cannot be made.
StartPoolFails == Gives("pool")

SoloNext ==
  \/ StartSolo \/ StartSoloFails \/ CallFails
  \/ verify_rpc_connection \/ getnewaddress \/ DecodeAddress \/ DecodeThrows
  \/ getaddressinfo \/ getblocktemplate
  \/ StartPool \/ StartPoolFails

-----------------------------------------------------------------------------
(* What the documentation promises of the payout (src/README.md:221-243).  *)

AskedText == AddressOf(IF config.solo.address # "" THEN config.solo.address
                       ELSE payout_address)

\* Whether a script pays what a text says: the text spells the script's
\* version, hash and checksum, or its bits are the program's and zeros.
Pays(script, text) ==
  IF text.form = "base58"
  THEN \E version \in {0, 111} \X {118} \cup {5, 196} \X {169} :
         LET at == IF version[2] = 118 THEN 3 ELSE 2
             payload == <<version[1]>> \o SubSeq(script, at + 1, at + HashSize)
         IN  script[1] = version[2] /\ Spells(text.digits, payload \o Checksum(payload))
  ELSE LET program == SubSeq(script, 3, Len(script))
       IN  /\ script[1] = IF text.values[1] = 0 THEN 0 ELSE 80 + text.values[1]
           /\ script[2] = Len(program)
           /\ Packs(SubSeq(text.values, 2, Len(text.values) - 6), program)

\* Solo mode mines to the address that was asked for, or to the one the
\* wallet gave when none was: its script pays what the text says, unless
\* the text says nothing to the decoder and the node supplied the script.
PaysTheAsked ==
  phase = "solo mining" =>
    /\ config.solo.address # "" => payout_address = config.solo.address
    /\ \/ Pays(payout_script, AskedText)
       \/ rpc_calls[Len(rpc_calls) - 1] = "getaddressinfo"
          /\ payout_script = NodeScript[payout_address]

\* A base58 address of the four kinds, with its checksum; a bech32 address
\* of an allowed size, with the checksum of its version and padded by zeros.
Standard(text) ==
  IF text.form = "base58"
  THEN \E version \in {0, 5, 111, 196} : \E hash \in [1..HashSize -> 0 .. Byte - 1] :
         Spells(text.digits, <<version>> \o hash \o Checksum(<<version>> \o hash))
  ELSE \E size \in V0Sizes \cup V1Sizes :
         LET values == SubSeq(text.values, 2, Len(text.values) - 6)
             pad == 5 * Len(values) - 8 * size
         IN  /\ ~text.mixed /\ Len(text.values) > 6
             /\ \A k \in DOMAIN text.values : text.values[k] # Bad
             /\ pad \in 0..4 /\ Number(values, 32) % 2 ^ pad = 0
             /\ \/ text.values[1] = 0 /\ text.sum = "bech32" /\ size \in V0Sizes
                \/ text.values[1] \in 1..16 /\ text.sum = "bech32m" /\ size \in V1Sizes

\* "Standard Bitcoin addresses are decoded locally and do not require wallet
\* RPC access" (src/README.md:240).
StandardIsLocal ==
  phase = "solo mining" /\ config.solo.address # "" /\ Standard(AskedText) =>
    rpc_calls = <<"getblockchaininfo", "getblocktemplate">>

=============================================================================
