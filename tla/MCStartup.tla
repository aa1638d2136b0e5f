------------------------------ MODULE MCStartup ------------------------------
(***************************************************************************)
(* Startup with command lines of up to two phrases after a mode, two sets  *)
(* of configuration files, two devices, and addresses of every kind.       *)
(***************************************************************************)
EXTENDS Startup

CONSTANT Nan

MCIntOf == [t \in {"-1", "0", "1", "32", "64", "40", "2047"} |->
              CASE t = "-1" -> 0-1 [] t = "0" -> 0 [] t = "1" -> 1 [] t = "32" -> 32
                [] t = "64" -> 64 [] t = "40" -> 40 [] t = "2047" -> 2047]
MCNatOf == [t \in {"0", "40", "64"} |-> MCIntOf[t]]
MCRealOf == [t \in {"-1", "0", "1", "64", "nan"} |-> IF t = "nan" THEN Nan ELSE MCIntOf[t]]
MCDevicesOf == "all" :> <<>> @@ "" :> <<>> @@ "0" :> <<0>> @@ "1" :> <<1>> @@ "0,1" :> <<0, 1>> @@
               "1,1" :> <<1, 1>> @@ "7" :> <<7>> @@ "-1" :> <<0-1>>
MCNaN == Nan

MCGpus == 0 :> [sms |-> 1, max_grid |-> 9] @@ 1 :> [sms |-> 2, max_grid |-> 1]

-----------------------------------------------------------------------------
(* Endpoints.                                                              *)

Part(scheme, host, port, path, colon, as_path) ==
  [scheme |-> scheme, host |-> host, port |-> port, path |-> path, colon |-> colon,
   as_path |-> as_path]

MCUrl ==
  "http://127.0.0.1:8332" :> Part("http", "127.0.0.1", "8332", "", TRUE, "") @@
  "127.0.0.1:8332" :> Part("", "127.0.0.1", "8332", "", TRUE, "") @@
  "http://node:1/wallet" :> Part("http", "node", "1", "/wallet", TRUE, "") @@
  "https://node:1" :> Part("https", "node", "1", "", TRUE, "") @@
  "node" :> Part("", "node", "", "", FALSE, "/node") @@
  "/wallet" :> Part("", "", "", "/wallet", FALSE, "") @@
  "http://node/lp" :> Part("http", "node", "", "/lp", FALSE, "/node/lp") @@
  "node:" :> Part("", "node", "", "", TRUE, "") @@
  "poolflix.eu:5555" :> Part("", "poolflix.eu", "5555", "", TRUE, "")

MCLongpollUris == {"", "/wallet", "node", "http://node/lp", "node:", "https://node:1",
                   "http://node:1/wallet"}

-----------------------------------------------------------------------------
(* Addresses.                                                              *)

\* A number as digits of the alphabet.
DigitsOf(n) ==
  LET len == CHOOSE k \in 0..5 : n < Radix ^ k /\ (k = 0 \/ n >= Radix ^ (k - 1))
  IN  [k \in 1..len |-> (n \div Radix ^ (len - k)) % Radix]

Base58(bytes) == [k \in 1..LeadingZeroes(bytes) |-> 0] \o DigitsOf(Number(bytes, Byte))

WithCheck(payload) == payload \o Checksum(payload)

Good58 == {Base58(WithCheck(<<version, hash>>)) : version \in {0, 5, 111, 196, 128}, hash \in {0, 200}}

Digits58 ==
  Good58
    \cup {<<0>> \o d : d \in Good58}
    \cup {Tail(d) : d \in Good58}
    \cup {[d EXCEPT ![Len(d)] = (@ + 1) % Radix] : d \in Good58}
    \cup {[d EXCEPT ![1] = Bad] : d \in Good58}
    \cup {Base58(WithCheck(p)) : p \in {<<5>>, <<0>>, <<0, 0, 7>>}}
    \cup {<<57, 57, 57, 57, 57>>}

Values(version, data, size, last) ==
  <<version>> \o SubSeq(data, 1, size - 1) \o (IF size = 0 THEN <<>> ELSE <<last>>)
    \o [k \in 1..6 |-> 9]

Records32 ==
  LET all == [mixed : {FALSE}, sum : {"bech32", "bech32m", "none"},
              values : {Values(version, <<31, 2, 0, 16, 5, 1, 0>>, size, last) :
                          version \in {0, 1, 16, 17}, size \in 0..7, last \in {0, 1, 4, 8, 24, 31}}
                       \cup {<<0>>, <<0, 9, 9, 9, 9, 9>>, <<1, 9, Bad, 0, 9, 9, 9, 9, 9, 9>>}]
  IN  {[r EXCEPT !.mixed = TRUE] : r \in {s \in all : s.values[1] = 16 /\ s.sum = "bech32m"}} \cup all

Addresses ==
  {[form |-> "base58", digits |-> d] : d \in Digits58}
    \cup {[form |-> "bech32", mixed |-> r.mixed, values |-> r.values, sum |-> r.sum] : r \in Records32}

Texts == [t \in {ToString(a) : a \in Addresses} |-> CHOOSE a \in Addresses : ToString(a) = t]

\* By name: TLC evaluates Texts once, but the definition that stands for a
\* constant anew at each use.
MCAddressText == Texts

Text58(payload) == ToString([form |-> "base58", digits |-> Base58(WithCheck(payload))])

MCNewAddresses == {Text58(<<5, 200>>), Text58(<<128, 200>>)}

\* The node knows its own addresses and the usual ones, by scripts that
\* differ from the decoder's.
MCNodeScript == [t \in MCNewAddresses \cup {Text58(<<0, 200>>), Text58(<<111, 0>>)} |-> <<106>>]

-----------------------------------------------------------------------------
(* Situations to start in.                                                 *)

FilesA ==
  "a.json" :> ("mode" :> [type |-> "string", value |-> "pool"] @@
               "user" :> [type |-> "string", value |-> "w"] @@
               "threads" :> [type |-> "int", value |-> 64] @@
               "device" :> [type |-> "string", value |-> "1"] @@
               "devices" :> [type |-> "array", value |-> <<0, 4097>>] @@
               "unknown" :> [type |-> "int", value |-> 7]) @@
  "b.json" :> ("threads" :> [type |-> "int", value |-> 4160] @@
               "mode" :> [type |-> "string", value |-> "benchmark"] @@
               "seconds" :> [type |-> "int", value |-> 1] @@
               "chunk_nonces" :> [type |-> "int", value |-> 70] @@
               "device" :> [type |-> "int", value |-> 1])

FilesB ==
  "a.json" :> ("blocks" :> [type |-> "string", value |-> "1"] @@
               "user" :> [type |-> "string", value |-> "w"]) @@
  "b.json" :> ("mode" :> [type |-> "string", value |-> "solo"] @@
               "blocks" :> [type |-> "int", value |-> 2] @@
               "device" :> [type |-> "string", value |-> "0"] @@
               "template_poll_seconds" :> [type |-> "int", value |-> 0-1] @@
               "rpc_url" :> [type |-> "string", value |-> ""])

Phrases ==
  {<<>>, <<"--mode", "pool">>, <<"--mode", "gpu">>, <<"--user", "u">>, <<"--user", "--config">>,
   <<"--user">>, <<"--config", "a.json">>, <<"--config", "b.json">>, <<"--config", "c.json">>,
   <<"--config">>, <<"--config", "--debug-pool-header">>,
   <<"--threads", "32">>, <<"--threads", "40">>, <<"--blocks", "-1">>, <<"--blocks", "1">>,
   <<"--device", "all">>, <<"--device", "0,1">>, <<"--device", "1,1">>, <<"--device", "7">>,
   <<"--chunk-nonces", "40">>, <<"--seconds", "0">>, <<"--seconds", "nan">>,
   <<"--pool", "node">>, <<"--pool-difficulty", "0">>, <<"--pool-difficulty", "64">>,
   <<"--debug-pool-header">>, <<"--nonce-submit-be">>, <<"-h">>, <<"a.json">>}

Pairs == {p \o q : p \in Phrases, q \in Phrases}

Situation(argument, file, devices, at, cookie) ==
  [argv |-> argument, files |-> file, device_count |-> devices, home |-> at, cookies |-> cookie]

Cookie == "$HOME/.bitcoin/.cookie" :> "cookie" @@ "jar" :> "other" @@ "empty" :> ""
Solo == <<"--mode", "solo">>
Somewhere == <<"--address", Text58(<<0, 200>>)>>

Credentials ==
  {<<>>, <<"--rpc-user", "u">>, <<"--rpc-pass", "p">>, <<"--rpc-user", "u", "--rpc-pass", "p">>,
   <<"--rpc-cookie", "jar">>, <<"--rpc-cookie", "empty">>, <<"--rpc-cookie", "none">>}

MCStarts ==
  {Situation(a, f, 1, "", <<>>) : a \in Pairs, f \in {FilesA, FilesB}}
    \cup {Situation(<<"--mode", "pool", "--user", "u">> \o a, FilesA, 0, "", <<>>) : a \in Pairs}
    \cup {Situation(Solo \o <<"--address", t>>, FilesA, 0, "/root", Cookie) : t \in DOMAIN MCAddressText}
    \cup {Situation(Solo \o c \o a, FilesA, 2, h, Cookie) :
            c \in Credentials, h \in {"", "/root"}, a \in {<<>>, Somewhere}}
    \cup {Situation(Solo \o <<"--rpc-url", u>>, FilesA, 1, "/root", Cookie) : u \in DOMAIN MCUrl}

==============================================================================
