--------------------------- MODULE Startup_proofs ---------------------------
(***************************************************************************)
(* What the configuration keeps to, for any arguments, files and devices:  *)
(* the launch that was checked is the one that runs, the files that are    *)
(* loaded are those that the options name, and every setting is what its   *)
(* last option says, else its last file; a benchmark reports what was      *)
(* hashed, on every device; and solo mode pays the address that was asked  *)
(* for, by the decoder alone when it is a standard one.                    *)
(***************************************************************************)
EXTENDS Startup, AddressDecoder_proofs, FiniteSetTheorems

-----------------------------------------------------------------------------
(* The tables of options and keys.                                         *)

Sections == {"main", "benchmark", "pool", "solo"}
SharedNames == {"devices", "blocks", "threads", "chunk_nonces"}

Names == [main |-> {"mode"},
          benchmark |-> {"seconds"} \cup SharedNames,
          pool |-> {"pool", "user", "pass", "requested_diff", "debug_pool_header",
                    "submit_nonce_be"} \cup SharedNames,
          solo |-> {"rpc_url", "rpc_user", "rpc_pass", "rpc_cookie_path", "address",
                    "template_poll_seconds"} \cup SharedNames]

\* The default configuration has these sections and names.
LEMMA DefaultNames ==
  /\ DOMAIN Defaults = Sections
  /\ \A s \in Sections : DOMAIN Defaults[s] = Names[s]
  /\ \A s, t \in Modes : \A name \in SharedNames : Defaults[s][name] = Defaults[t][name]
<1>1. DOMAIN Defaults = Sections
  BY DEF Defaults, Sections
<1>2. \A s \in Sections : DOMAIN Defaults[s] = Names[s]
  <2>1. DOMAIN Defaults.main = Names.main
    BY DEF Defaults, Names
  <2>2. DOMAIN Defaults.benchmark = Names.benchmark
    BY DEF Defaults, Names, SharedNames
  <2>3. DOMAIN Defaults.pool = Names.pool
    BY DEF Defaults, Names, SharedNames
  <2>4. DOMAIN Defaults.solo = Names.solo
    BY DEF Defaults, Names, SharedNames
  <2> QED BY <2>1, <2>2, <2>3, <2>4 DEF Sections
<1>3. ASSUME NEW s \in Modes
      PROVE  /\ Defaults[s].devices = <<>> /\ Defaults[s].blocks = 0
             /\ Defaults[s].threads = 256 /\ Defaults[s].chunk_nonces = 0
  <2>1. CASE s = "benchmark"
    BY <2>1 DEF Defaults
  <2>2. CASE s = "pool"
    BY <2>2 DEF Defaults
  <2>3. CASE s = "solo"
    BY <2>3 DEF Defaults
  <2> QED BY <2>1, <2>2, <2>3 DEF Modes
<1>4. \A s, t \in Modes : \A name \in SharedNames : Defaults[s][name] = Defaults[t][name]
  BY <1>3 DEF SharedNames
<1> QED BY <1>1, <1>2, <1>4

\* Where a field of a table may write.
Fits(field) ==
  /\ field.sections \subseteq Sections
  /\ \A s \in field.sections : field.name \in Names[s]
  /\ field.name \in SharedNames => field.sections = Modes

\* An option or a key writes a name of its section; one that all modes have,
\* it writes in all of them.
LEMMA TablesFit ==
  /\ \A arg \in DOMAIN Options : Fits(Options[arg])
  /\ \A key \in DOMAIN Keys : Fits(Keys[key])
<1>1. \A kind : \A name \in SharedNames : Fits(Shared(kind, name))
  BY DEF Fits, Shared, Field, Modes, Sections, Names, SharedNames
<1>2. \A kind : Fits(Field(kind, {"main"}, "mode"))
  BY DEF Fits, Field, Sections, Names, SharedNames
<1>3. \A kind : Fits(Field(kind, {"benchmark"}, "seconds"))
  BY DEF Fits, Field, Sections, Names, SharedNames
<1>4. \A kind : \A name \in {"pool", "user", "pass", "requested_diff", "debug_pool_header",
                             "submit_nonce_be"} : Fits(Field(kind, {"pool"}, name))
  BY DEF Fits, Field, Sections, Names, SharedNames
<1>5. \A kind : \A name \in {"rpc_url", "rpc_user", "rpc_pass", "rpc_cookie_path", "address",
                             "template_poll_seconds"} : Fits(Field(kind, {"solo"}, name))
  BY DEF Fits, Field, Sections, Names, SharedNames
<1>6. ASSUME NEW arg \in DOMAIN Options PROVE Fits(Options[arg])
  <2>1. arg \in OptionNames
    BY DEF Options
  <2> QED BY <1>1, <1>2, <1>3, <1>4, <1>5, <2>1 DEF Options, OptionNames, SharedNames
<1>7. ASSUME NEW key \in DOMAIN Keys PROVE Fits(Keys[key])
  <2>1. PICK k \in DOMAIN KeyOrder : key = KeyOrder[k]
    BY DEF Keys
  <2>2. DOMAIN KeyOrder = 1..19
    BY DEF KeyOrder
  <2>3. key \in {"mode", "device", "devices", "threads", "blocks", "chunk_nonces", "seconds",
                 "pool", "user", "pass", "pool_difficulty", "debug_pool_header",
                 "nonce_submit_be", "rpc_url", "rpc_user", "rpc_pass", "rpc_cookie", "address",
                 "template_poll_seconds"}
    BY <2>1, <2>2 DEF KeyOrder
  <2> QED BY <1>1, <1>2, <1>3, <1>4, <1>5, <2>3 DEF Keys, SharedNames
<1> QED BY <1>6, <1>7
-----------------------------------------------------------------------------
(* The configuration while it is built.                                    *)

\* It has the sections and names of the defaults, and the modes agree on what
\* they share.
Shaped(c) ==
  /\ DOMAIN c = Sections
  /\ \A s \in Sections : DOMAIN c[s] = Names[s]
  /\ \A s, t \in Modes : \A name \in SharedNames : c[s][name] = c[t][name]

\* What Set does, name by name.
LEMMA SetIs ==
  ASSUME NEW c, NEW field, NEW value, Shaped(c), Fits(field)
  PROVE  /\ Shaped(Set(c, field, value))
         /\ \A s \in Sections : \A name \in Names[s] :
              Set(c, field, value)[s][name] =
                IF s \in field.sections /\ name = field.name THEN value ELSE c[s][name]
<1> DEFINE d == Set(c, field, value)
<1>1. DOMAIN c = Sections /\ \A s \in Sections : DOMAIN c[s] = Names[s]
  BY DEF Shaped
<1>2. DOMAIN d = Sections
  BY <1>1 DEF Set
<1>3. ASSUME NEW s \in Sections
      PROVE  d[s] = IF s \in field.sections THEN [c[s] EXCEPT ![field.name] = value] ELSE c[s]
  BY <1>1 DEF Set
<1> HIDE DEF d
<1>4. ASSUME NEW s \in Sections
      PROVE  /\ DOMAIN d[s] = Names[s]
             /\ \A name \in Names[s] :
                  d[s][name] = IF s \in field.sections /\ name = field.name THEN value
                               ELSE c[s][name]
  <2>1. CASE s \in field.sections
    BY <1>1, <1>3, <2>1
  <2>2. CASE s \notin field.sections
    BY <1>1, <1>3, <2>2
  <2> QED BY <2>1, <2>2
<1>5. ASSUME NEW s \in Modes, NEW t \in Modes, NEW name \in SharedNames
      PROVE  d[s][name] = d[t][name]
  <2>1. s \in Sections /\ t \in Sections /\ name \in Names[s] /\ name \in Names[t]
    <3>1. \A m \in Modes : m \in Sections /\ SharedNames \subseteq Names[m]
      BY DEF Modes, Sections, Names
    <3> QED BY <3>1
  <2>2. c[s][name] = c[t][name]
    BY DEF Shaped
  <2>3. name = field.name => s \in field.sections /\ t \in field.sections
    BY DEF Fits
  <2>4. d[s][name] = IF s \in field.sections /\ name = field.name THEN value ELSE c[s][name]
    BY <1>4, <2>1
  <2>5. d[t][name] = IF t \in field.sections /\ name = field.name THEN value ELSE c[t][name]
    BY <1>4, <2>1
  <2> QED BY <2>2, <2>3, <2>4, <2>5
<1> QED BY <1>2, <1>4, <1>5 DEF Shaped, d

\* The configuration as apply_json_config builds it, key by key.
Sofar(root, c) ==
  CHOOSE sofar : sofar = [k \in 0 .. Len(KeyOrder) |->
    IF k = 0 THEN c ELSE ReadKey(root, KeyOrder[k], sofar[k - 1])]

\* The recursion of apply_json_config has a solution.
LEMMA SofarIs ==
  ASSUME NEW root, NEW c
  PROVE  LET f == Sofar(root, c)
         IN  /\ f[0] = c
             /\ \A k \in 1..19 : f[k] = ReadKey(root, KeyOrder[k], f[k - 1])
             /\ apply_json_config(root, c) = f[19]
<1>1. Len(KeyOrder) = 19
  BY DEF KeyOrder
<1> DEFINE P(f, n) == f = [k \in 0..n |-> IF k = 0 THEN c ELSE ReadKey(root, KeyOrder[k], f[k - 1])]
           S == {n \in 0..19 : \E f : P(f, n)}
<1>2. 0 \in S
  <2> DEFINE f == [k \in 0..0 |-> c]
  <2>1. P(f, 0)
    OBVIOUS
  <2> HIDE DEF P, f
  <2> QED BY <2>1
<1>3. ASSUME NEW n \in 0..18, n \in S PROVE n + 1 \in S
  <2>1. PICK f : P(f, n)
    BY <1>3
  <2> DEFINE m == n + 1
             g == [k \in 0..m |-> IF k = m THEN ReadKey(root, KeyOrder[m], f[n]) ELSE f[k]]
             h == [k \in 0..m |-> IF k = 0 THEN c ELSE ReadKey(root, KeyOrder[k], g[k - 1])]
  <2>2. \A k \in 0..n : f[k] = IF k = 0 THEN c ELSE ReadKey(root, KeyOrder[k], f[k - 1])
    <3> DEFINE E(k) == IF k = 0 THEN c ELSE ReadKey(root, KeyOrder[k], f[k - 1])
    <3>1. f = [k \in 0..n |-> E(k)]
      BY <2>1
    <3> HIDE DEF E
    <3>2. \A k \in 0..n : f[k] = E(k)
      BY <3>1
    <3> QED BY <3>2 DEF E
  <2>3. ASSUME NEW k \in 0..m PROVE g[k] = h[k]
    <3>1. CASE k = 0
      BY <2>2, <3>1
    <3>2. CASE k = m
      BY <3>2
    <3>3. CASE k # 0 /\ k # m
      <4>1. k \in 0..n /\ k - 1 \in 0..n
        BY <3>3
      <4>2. g[k] = f[k] /\ g[k - 1] = f[k - 1]
        BY <3>3, <4>1
      <4> QED BY <2>2, <3>3, <4>1, <4>2
    <3> QED BY <3>1, <3>2, <3>3
  <2>4. g = h
    <3>1. g = [k \in 0..m |-> g[k]] /\ h = [k \in 0..m |-> h[k]]
      OBVIOUS
    <3> HIDE DEF g, h
    <3> QED BY <2>3, <3>1
  <2>5. P(g, m)
    BY <2>4, Zenon
  <2>6. m \in 0..19
    OBVIOUS
  <2> HIDE DEF P, g
  <2> QED BY <2>5, <2>6
<1>4. 0..19 \subseteq S
  <2> HIDE DEF S
  <2>1. \A n \in 0 .. 19-1 : n \in S => n + 1 \in S
    BY <1>3
  <2> QED BY <1>2, <2>1, UpTo
<1>5. \E f : P(f, 19)
  BY <1>4
<1> DEFINE F == Sofar(root, c)
<1>6. P(F, 19)
  BY <1>1, <1>5, Zenon DEF Sofar
<1>7. apply_json_config(root, c) = F[19]
  BY <1>1, Zenon DEF apply_json_config, Sofar
<1> HIDE DEF F
<1>8. \A k \in 0..19 : F[k] = IF k = 0 THEN c ELSE ReadKey(root, KeyOrder[k], F[k - 1])
  <2> DEFINE E(k) == IF k = 0 THEN c ELSE ReadKey(root, KeyOrder[k], F[k - 1])
  <2>1. F = [k \in 0..19 |-> E(k)]
    BY <1>6
  <2> HIDE DEF E
  <2>2. \A k \in 0..19 : F[k] = E(k)
    BY <2>1
  <2> QED BY <2>2 DEF E
<1>9. F[0] = c /\ \A k \in 1..19 : F[k] = ReadKey(root, KeyOrder[k], F[k - 1])
  BY <1>8
<1> QED BY <1>7, <1>9 DEF F

\* Reading a key sets its field, or nothing.
LEMMA ReadKeyShapes ==
  ASSUME NEW root, NEW c, Shaped(c), NEW k \in 1..19
  PROVE  Shaped(ReadKey(root, KeyOrder[k], c))
<1>1. KeyOrder[k] \in DOMAIN Keys
  <2>1. DOMAIN KeyOrder = 1..19
    BY DEF KeyOrder
  <2> QED BY <2>1 DEF Keys
<1> QED BY <1>1, TablesFit, SetIs DEF ReadKey

\* A file keeps the shape of the configuration.
LEMMA FileShapes ==
  ASSUME NEW root, NEW c, Shaped(c)
  PROVE  /\ Shaped(apply_json_config(root, c))
         /\ \A k \in 0..19 : Shaped(Sofar(root, c)[k])
<1> DEFINE f == Sofar(root, c)
           S == {k \in 0..19 : Shaped(f[k])}
<1>1. /\ f[0] = c /\ apply_json_config(root, c) = f[19]
      /\ \A k \in 1..19 : f[k] = ReadKey(root, KeyOrder[k], f[k - 1])
  BY SofarIs
<1> HIDE DEF f
<1>2. 0 \in S
  BY <1>1
<1>3. ASSUME NEW k \in 0 .. 19-1, k \in S PROVE k + 1 \in S
  <2>1. k + 1 \in 1..19 /\ (k + 1) - 1 = k /\ Shaped(f[k])
    BY <1>3
  <2>2. f[k + 1] = ReadKey(root, KeyOrder[k + 1], f[k])
    BY <1>1, <2>1
  <2>3. Shaped(f[k + 1])
    BY <2>1, <2>2, ReadKeyShapes
  <2> QED BY <2>1, <2>3
<1>4. 0..19 \subseteq S
  <2> HIDE DEF S
  <2> QED BY <1>2, <1>3, UpTo
<1> QED BY <1>1, <1>4 DEF f

\* Where the configuration is built, where a mode starts, and where it runs.
Parsing == {"help", "collect", "load", "override", "check"}
Starting == {"solo", "probe", "new_address", "decode", "address_info", "template", "pool"}
Later == {"exit", "probe", "new_address", "decode", "address_info", "template", "solo mining",
          "pool mining", "measuring"}

\* The start of a miner leaves the configuration and the benchmark alone.
LEMMA StartSteps ==
  ASSUME StartMode
  PROVE  /\ UNCHANGED <<argv, files, device_count, config_paths, config, i>>
         /\ UNCHANGED benchVars
         /\ phase \in Starting /\ phase' \in Later \ {"measuring"}
<1> SUFFICES ASSUME SoloNext
             PROVE  /\ UNCHANGED <<argv, files, device_count, config_paths, config, i>>
                    /\ phase \in Starting /\ phase' \in Later \ {"measuring"}
  BY DEF StartMode
<1>1. CASE StartSolo
  BY <1>1 DEF StartSolo, Goes, argVars, Starting, Later
<1>2. CASE StartSoloFails
  BY <1>2 DEF StartSoloFails, Gives, Leave, argVars, Starting, Later
<1>3. CASE CallFails
  BY <1>3 DEF CallFails, Gives, Leave, argVars, Starting, Later
<1>4. CASE verify_rpc_connection
  BY <1>4 DEF verify_rpc_connection, Goes, argVars, Starting, Later
<1>5. CASE getnewaddress
  BY <1>5 DEF getnewaddress, Goes, argVars, Starting, Later
<1>6. CASE DecodeAddress
  BY <1>6 DEF DecodeAddress, Goes, argVars, Starting, Later
<1>7. CASE DecodeThrows
  BY <1>7 DEF DecodeThrows, Leave, argVars, Starting, Later
<1>8. CASE getaddressinfo
  BY <1>8 DEF getaddressinfo, Goes, argVars, Starting, Later
<1>9. CASE getblocktemplate
  BY <1>9 DEF getblocktemplate, Goes, argVars, Starting, Later
<1>10. CASE StartPool
  BY <1>10 DEF StartPool, Goes, argVars, Starting, Later
<1>11. CASE StartPoolFails
  BY <1>11 DEF StartPoolFails, Gives, Leave, argVars, Starting, Later
<1> QED
  BY <1>1, <1>2, <1>3, <1>4, <1>5, <1>6, <1>7, <1>8, <1>9, <1>10, <1>11
     DEF SoloNext

\* Once a mode has been chosen, what was built stays.
LEMMA OtherSteps ==
  ASSUME [Next]_vars
  PROVE  \/ ConfigNext
         \/ /\ UNCHANGED <<argv, files, device_count, config_paths, config, i>>
            /\ phase' = phase \/ phase' \in Later
<1>1. CASE Configure
  BY <1>1 DEF Configure
<1>2. CASE StartMode
  BY <1>2, StartSteps
<1>3. CASE RunBenchmark
  BY <1>3 DEF RunBenchmark, argVars, Later
<1>4. CASE Measure
  BY <1>4 DEF Measure, configVars
<1>5. CASE EndBenchmark
  BY <1>5 DEF EndBenchmark, Leave, argVars, Later
<1>6. CASE Running \/ UNCHANGED vars
  BY <1>6 DEF Running, vars, configVars
<1> QED BY <1>1, <1>2, <1>3, <1>4, <1>5, <1>6 DEF Next

\* A step of the parsing that changes the configuration.
LEMMA ConfigSteps ==
  ASSUME ConfigNext
  PROVE  /\ UNCHANGED <<argv, files, device_count>>
         /\ phase \in Parsing
         /\ phase' \in Parsing \cup {"exit"} \/ Dispatch
         /\ config' = config \/ LoadFile \/ SetFlag \/ SetOption \/ Dispatch
<1>1. CASE ShowHelp
  BY <1>1 DEF ShowHelp, GoTo, inputVars, Parsing
<1>2. CASE CollectPath \/ PathMissing \/ PathsCollected
  BY <1>2 DEF CollectPath, PathMissing, PathsCollected, Fail, GoTo, inputVars, Parsing
<1>3. CASE LoadFile \/ LoadFails \/ FilesLoaded
  BY <1>3 DEF LoadFile, LoadFails, FilesLoaded, Fail, GoTo, inputVars, Parsing
<1>4. CASE SkipConfig \/ SetFlag \/ SetOption
  BY <1>4 DEF SkipConfig, SetFlag, SetOption, inputVars, Parsing
<1>5. CASE ArgumentFails \/ ArgumentsRead
  BY <1>5 DEF ArgumentFails, ArgumentsRead, Fail, GoTo, inputVars, Parsing
<1>6. CASE Dispatch \/ CheckFails
  BY <1>6 DEF Dispatch, CheckFails, Fail, inputVars, Parsing
<1> QED BY <1>1, <1>2, <1>3, <1>4, <1>5, <1>6 DEF ConfigNext

-----------------------------------------------------------------------------
(* What reaches a mode was checked.                                        *)

\* The configuration that Dispatch hands on.
LEMMA DispatchIs ==
  ASSUME Dispatch, Shaped(config), device_count \in Nat
  PROVE  /\ Shaped(config') /\ phase' = config.main.mode /\ Checked
         /\ AllDevices # <<>>
         /\ config.benchmark.devices # <<>> => config' = config
         /\ config.benchmark.devices = <<>> =>
              \A s \in Sections : \A name \in Names[s] :
                config'[s][name] = IF name = "devices" THEN AllDevices ELSE config[s][name]
<1>1. phase' = config.main.mode /\ Checked
  BY DEF Dispatch, GoTo
<1>2. AllDevices \in Seq(Int) /\ AllDevices # <<>>
  <2>1. CASE device_count = 0
    BY <2>1 DEF AllDevices
  <2>2. CASE device_count # 0
    <3>1. AllDevices = [k \in 1..device_count |-> k - 1]
      BY <2>2 DEF AllDevices
    <3>2. AllDevices \in Seq(Int)
      BY <3>1
    <3>3. 1 \in DOMAIN AllDevices
      BY <2>2, <3>1
    <3> QED BY <3>2, <3>3
  <2> QED BY <2>1, <2>2
<1>3. CASE config.benchmark.devices # <<>>
  BY <1>1, <1>2, <1>3 DEF Dispatch
<1>4. CASE config.benchmark.devices = <<>>
  <2>1. config' = [s \in DOMAIN config |-> IF s \in Modes
                     THEN [config[s] EXCEPT !.devices = @ \o AllDevices] ELSE config[s]]
    BY <1>4 DEF Dispatch
  <2>2. DOMAIN config = Sections /\ \A s \in Sections : DOMAIN config[s] = Names[s]
    BY DEF Shaped
  <2>3. \A s \in Modes : s \in Sections /\ "devices" \in Names[s] /\ SharedNames \subseteq Names[s]
    BY DEF Modes, Sections, Names, SharedNames
  <2>4. \A s \in Modes : config[s].devices = <<>>
    BY <1>4 DEF Shaped, Modes, SharedNames
  <2>5. "devices" \notin Names["main"] /\ Sections = Modes \cup {"main"} /\ "main" \notin Modes
    BY DEF Names, Sections, Modes
  <2>6. <<>> \o AllDevices = AllDevices
    BY <1>2
  <2>7. ASSUME NEW s \in Modes
        PROVE  /\ DOMAIN config'[s] = Names[s]
               /\ \A name \in Names[s] :
                    config'[s][name] = IF name = "devices" THEN AllDevices ELSE config[s][name]
    <3>1. config'[s] = [config[s] EXCEPT !.devices = <<>> \o AllDevices]
      BY <2>1, <2>2, <2>3, <2>4
    <3> QED BY <2>2, <2>3, <2>6, <3>1
  <2>8. config'["main"] = config["main"]
    BY <2>1, <2>2, <2>5
  <2>9. ASSUME NEW s \in Sections
        PROVE  /\ DOMAIN config'[s] = Names[s]
               /\ \A name \in Names[s] :
                    config'[s][name] = IF name = "devices" THEN AllDevices ELSE config[s][name]
    <3>1. CASE s \in Modes
      BY <2>7, <3>1
    <3>2. CASE s = "main"
      BY <2>2, <2>5, <2>8, <3>2
    <3> QED BY <2>5, <3>1, <3>2
  <2>10. DOMAIN config' = Sections
    BY <2>1, <2>2
  <2>11. \A s, t \in Modes : \A name \in SharedNames : config'[s][name] = config'[t][name]
    <3>1. \A s, t \in Modes : \A name \in SharedNames : config[s][name] = config[t][name]
      BY DEF Shaped
    <3> QED BY <2>3, <2>7, <3>1
  <2> QED BY <1>1, <1>2, <1>4, <2>9, <2>10, <2>11 DEF Shaped
<1> QED BY <1>3, <1>4

\* The modes agree on the fields that the checks read from the benchmark's
\* copy, at every moment: each option and each key writes all three copies.
LaunchInv == Shaped(config) /\ device_count \in Nat /\ LaunchIsChecked

\* It holds at first, before any mode has started.
LEMMA LaunchInit == Init => LaunchInv
<1> SUFFICES ASSUME Init PROVE LaunchInv
  OBVIOUS
<1>1. config = Defaults /\ phase = "help" /\ device_count \in Nat
  BY StartsAssumption, NonceSpaceAssumption DEF Init, ConfigInit
<1>2. Shaped(config)
  BY <1>1, DefaultNames DEF Shaped
<1>3. ~Started
  BY <1>1 DEF Started, Modes
<1> QED BY <1>1, <1>2, <1>3 DEF LaunchInv, LaunchIsChecked

\* Every step keeps it.
LEMMA LaunchKept ==
  ASSUME LaunchInv, [Next]_vars
  PROVE  LaunchInv'
<1>1. Shaped(config) /\ device_count \in Nat
  BY DEF LaunchInv
<1>2. CASE Dispatch
  <2>1. /\ Shaped(config') /\ phase' = config.main.mode /\ Checked /\ AllDevices # <<>>
        /\ config.benchmark.devices # <<>> => config' = config
        /\ config.benchmark.devices = <<>> =>
             \A s \in Sections : \A name \in Names[s] :
               config'[s][name] = IF name = "devices" THEN AllDevices ELSE config[s][name]
    BY <1>1, <1>2, DispatchIs
  <2>2. \A s \in Modes : s \in Sections /\ SharedNames \subseteq Names[s]
    BY DEF Modes, Sections, Names, SharedNames
  <2>3. ASSUME NEW s \in Modes
        PROVE  /\ config'[s].threads = config.benchmark.threads
               /\ config'[s].blocks = config.benchmark.blocks
               /\ config'[s].devices # <<>>
    <3>1. /\ config[s].threads = config.benchmark.threads
          /\ config[s].blocks = config.benchmark.blocks
          /\ config[s].devices = config.benchmark.devices
      <4>1. "benchmark" \in Modes
        BY DEF Modes
      <4> QED BY <1>1, <4>1 DEF Shaped, SharedNames
    <3>2. "threads" \in Names[s] /\ "blocks" \in Names[s] /\ "devices" \in Names[s] /\ s \in Sections
      BY <2>2 DEF SharedNames
    <3> QED BY <2>1, <3>1, <3>2
  <2>4. device_count' \in Nat
    BY <1>1, <1>2 DEF Dispatch, inputVars
  <2>5. /\ config.benchmark.threads \in 1..1024 /\ config.benchmark.threads % 32 = 0
        /\ config.benchmark.blocks >= 0
    BY <2>1, Zenon DEF Checked
  <2>6. LaunchIsChecked'
    <3>1. SUFFICES ASSUME Started'
                   PROVE  /\ config'[phase'].threads \in 1..1024 /\ config'[phase'].threads % 32 = 0
                          /\ config'[phase'].blocks >= 0
                          /\ config'[phase'].devices # <<>>
      BY DEF LaunchIsChecked
    <3>2. phase' \in Modes
      BY <3>1 DEF Started
    <3>3. /\ config'[phase'].threads = config.benchmark.threads
          /\ config'[phase'].blocks = config.benchmark.blocks
          /\ config'[phase'].devices # <<>>
      BY <2>3, <3>2
    <3> QED BY <2>5, <3>3
  <2> QED BY <2>1, <2>4, <2>6 DEF LaunchInv
<1>3. CASE ConfigNext /\ ~Dispatch
  <2>1. /\ device_count' = device_count /\ phase' \in Parsing \cup {"exit"}
        /\ config' = config \/ LoadFile \/ SetFlag \/ SetOption
    BY <1>3, ConfigSteps
  <2>2. Shaped(config')
    <3>1. CASE LoadFile
      BY <1>1, <3>1, FileShapes DEF LoadFile
    <3>2. CASE SetFlag
      BY <1>1, <3>2, SetIs, TablesFit DEF SetFlag, Flag
    <3>3. CASE SetOption
      BY <1>1, <3>3, SetIs, TablesFit DEF SetOption, Valued
    <3> QED BY <1>1, <2>1, <3>1, <3>2, <3>3
  <2>3. ~Started'
    BY <2>1 DEF Started, Modes, Parsing
  <2> QED BY <1>1, <2>1, <2>2, <2>3 DEF LaunchInv, LaunchIsChecked
<1>4. CASE ~ConfigNext
  <2>1. /\ config' = config /\ device_count' = device_count
        /\ phase' = phase \/ phase' \in Later
    BY <1>4, OtherSteps
  <2>2. CASE phase' = phase
    BY <2>1, <2>2 DEF LaunchInv, LaunchIsChecked, Started
  <2>3. CASE phase' \in Later
    <3>1. ~Started'
      BY <2>3 DEF Started, Modes, Later
    <3> QED BY <1>1, <2>1, <3>1 DEF LaunchInv, LaunchIsChecked
  <2> QED BY <2>1, <2>2, <2>3
<1>5. Dispatch => ConfigNext
  BY DEF ConfigNext
<1> QED BY <1>2, <1>3, <1>4, <1>5

\* Every mode starts with launch parameters that were checked and with a
\* device, whatever the arguments, the files and the driver say.
THEOREM LaunchChecked == Spec => []LaunchIsChecked
<1>1. LaunchInv => LaunchIsChecked
  BY DEF LaunchInv
<1>2. LaunchInv /\ [Next]_vars => LaunchInv'
  BY LaunchKept
<1> QED BY LaunchInit, <1>1, <1>2, PTL DEF Spec

-----------------------------------------------------------------------------
(* The values of the mode and of the fields that all modes have.           *)

TypedNames == {"mode"} \cup SharedNames

TypedKind == [mode |-> "mode", devices |-> "devices", blocks |-> "int", threads |-> "int",
              chunk_nonces |-> "nat"]

\* What may be in such a field.
ValueFits(name, value) ==
  /\ name = "mode" => value \in Modes
  /\ name = "devices" => DeviceList(value)
  /\ name \in {"blocks", "threads"} => value \in Int
  /\ name = "chunk_nonces" => value \in Nat

Typed(c) == \A s \in Sections : \A name \in Names[s] \cap TypedNames : ValueFits(name, c[s][name])

\* The tables read each such field by its kind.
LEMMA TableKinds ==
  /\ \A arg \in DOMAIN Options :
       Options[arg].name \in TypedNames => Options[arg].kind = TypedKind[Options[arg].name]
  /\ \A key \in DOMAIN Keys :
       Keys[key].name \in TypedNames => Keys[key].kind = TypedKind[Keys[key].name]
<1> DEFINE Kind(field) == field.name \in TypedNames => field.kind = TypedKind[field.name]
<1>1. /\ Kind(Shared("devices", "devices")) /\ Kind(Shared("int", "blocks"))
      /\ Kind(Shared("int", "threads")) /\ Kind(Shared("nat", "chunk_nonces"))
      /\ Kind(Field("mode", {"main"}, "mode"))
  BY DEF Shared, Field, TypedKind
<1>2. \A kind, sections : \A name \in {"seconds", "pool", "user", "pass", "requested_diff",
        "debug_pool_header", "submit_nonce_be", "rpc_url", "rpc_user", "rpc_pass",
        "rpc_cookie_path", "address", "template_poll_seconds"} : Kind(Field(kind, sections, name))
  BY DEF Field, TypedNames, SharedNames
<1> HIDE DEF Kind
<1>3. ASSUME NEW arg \in DOMAIN Options PROVE Kind(Options[arg])
  <2>1. arg \in OptionNames
    BY DEF Options
  <2> QED BY <1>1, <1>2, <2>1 DEF Options, OptionNames
<1>4. ASSUME NEW key \in DOMAIN Keys PROVE Kind(Keys[key])
  <2>1. PICK k \in DOMAIN KeyOrder : key = KeyOrder[k]
    BY DEF Keys
  <2>2. DOMAIN KeyOrder = 1..19
    BY DEF KeyOrder
  <2>3. key \in {"mode", "device", "devices", "threads", "blocks", "chunk_nonces", "seconds",
                 "pool", "user", "pass", "pool_difficulty", "debug_pool_header",
                 "nonce_submit_be", "rpc_url", "rpc_user", "rpc_pass", "rpc_cookie", "address",
                 "template_poll_seconds"}
    BY <2>1, <2>2 DEF KeyOrder
  <2> QED BY <1>1, <1>2, <2>3 DEF Keys
<1> QED BY <1>3, <1>4 DEF Kind

\* Set keeps the values typed.
LEMMA SetTyped ==
  ASSUME NEW c, NEW field, NEW value, Shaped(c), Typed(c), Fits(field),
         field.name \in TypedNames => ValueFits(field.name, value)
  PROVE  Typed(Set(c, field, value))
<1> SUFFICES ASSUME NEW s \in Sections, NEW name \in Names[s] \cap TypedNames
             PROVE  ValueFits(name, Set(c, field, value)[s][name])
  BY DEF Typed
<1>2. ValueFits(name, c[s][name])
  BY DEF Typed
<1>3. Set(c, field, value)[s][name] =
        IF s \in field.sections /\ name = field.name THEN value ELSE c[s][name]
  BY SetIs
<1> QED BY <1>2, <1>3

\* A text that is read for a field fits it.
LEMMA TextFits ==
  ASSUME NEW name \in TypedNames, NEW text, Reads(TypedKind[name], text)
  PROVE  ValueFits(name, Value(TypedKind[name], text))
<1>0. CASE name = "mode"
  BY <1>0 DEF TypedKind, ValueFits, Value, Reads
<1>1. CASE name = "devices"
  BY <1>1, StartsAssumption DEF TypedKind, ValueFits, Value, Reads
<1>2. CASE name \in {"blocks", "threads"}
  BY <1>2, ConfigAssumption DEF TypedKind, ValueFits, Value, Reads
<1>3. CASE name = "chunk_nonces"
  BY <1>3, ConfigAssumption DEF TypedKind, ValueFits, Value, Reads
<1> QED BY <1>0, <1>1, <1>2, <1>3 DEF TypedNames, SharedNames

\* So does a JSON value.
LEMMA JsonFits ==
  ASSUME NEW name \in TypedNames, NEW json, JsonValue(json), ReadsJson(TypedKind[name], json)
  PROVE  ValueFits(name, ValueJson(TypedKind[name], json))
<1>1. \A n \in Int : CutToInt(n) \in Int
  <2> TAKE n \in Int
  <2>1. 2 * Half \in Nat \ {0} /\ n + Half \in Int
    BY ConfigAssumption
  <2>2. (n + Half) % (2 * Half) \in Int
    BY <2>1
  <2> QED BY <2>2, ConfigAssumption DEF CutToInt
<1>0. CASE name = "mode"
  BY <1>0 DEF TypedKind, ValueFits, ValueJson, ReadsJson
<1>2. CASE name = "devices"
  <2>1. TypedKind[name] = "devices"
    BY <1>2 DEF TypedKind
  <2>2. CASE json.type = "string"
    <3>1. json.value \in DOMAIN DevicesOf
      BY <2>1, <2>2 DEF ReadsJson
    <3>2. ValueJson("devices", json) = DevicesOf[json.value]
      BY <2>2 DEF ValueJson
    <3> QED BY <1>2, <2>1, <3>1, <3>2, StartsAssumption DEF ValueFits
  <2>3. CASE json.type = "array"
    <3> DEFINE list == json.value
    <3>1. list \in Seq(Int) /\ Len(list) <= NonceSpace
      BY <2>3 DEF JsonValue, DeviceList
    <3>2. ValueJson("devices", json) = [k \in DOMAIN list |-> CutToInt(list[k])]
      BY <2>3 DEF ValueJson
    <3>3. DOMAIN list = 1..Len(list) /\ Len(list) \in Nat /\ \A k \in 1..Len(list) : list[k] \in Int
      BY <3>1
    <3> HIDE DEF list
    <3> DEFINE cut == [k \in 1..Len(list) |-> CutToInt(list[k])]
    <3>4. cut \in Seq(Int) /\ Len(cut) = Len(list)
      BY <1>1, <3>3
    <3>5. ValueJson("devices", json) = cut
      BY <3>2, <3>3
    <3> QED BY <1>2, <2>1, <3>1, <3>4, <3>5 DEF ValueFits, DeviceList
  <2>4. CASE json.type = "int"
    <3>1. ValueJson("devices", json) = <<CutToInt(json.value)>>
      BY <2>4 DEF ValueJson
    <3>2. CutToInt(json.value) \in Int
      BY <1>1, <2>4 DEF JsonValue
    <3>3. \A n \in Int : <<n>> \in Seq(Int) /\ Len(<<n>>) = 1
      OBVIOUS
    <3>4. DeviceList(<<CutToInt(json.value)>>)
      BY <3>2, <3>3, NonceSpaceAssumption DEF DeviceList
    <3> QED BY <1>2, <2>1, <3>1, <3>4 DEF ValueFits
  <2> QED BY <2>1, <2>2, <2>3, <2>4 DEF ReadsJson
<1>3. CASE name \in {"blocks", "threads"}
  <2>1. TypedKind[name] = "int"
    BY <1>3 DEF TypedKind
  <2>2. json.type = "int" /\ json.value \in Int
    BY <2>1 DEF ReadsJson, JsonValue
  <2>3. ValueJson("int", json) = CutToInt(json.value)
    BY DEF ValueJson
  <2> QED BY <1>1, <1>3, <2>1, <2>2, <2>3 DEF ValueFits
<1>4. CASE name = "chunk_nonces"
  <2>1. TypedKind[name] = "nat"
    BY <1>4 DEF TypedKind
  <2>2. json.type = "int" /\ json.value \in Int /\ json.value >= 0
    BY <2>1 DEF ReadsJson, JsonValue
  <2>3. ValueJson("nat", json) = json.value
    BY DEF ValueJson
  <2> QED BY <1>4, <2>1, <2>2, <2>3 DEF ValueFits
<1> QED BY <1>0, <1>2, <1>3, <1>4 DEF TypedNames, SharedNames

\* What a file has for the keys that are known can be read.
Readable(root) ==
  \A key \in DOMAIN root \cap DOMAIN Keys :
    JsonValue(root[key]) /\ ReadsJson(Keys[key].kind, root[key])

\* A file keeps the values typed.
LEMMA FileTyped ==
  ASSUME NEW root, NEW c, Shaped(c), Typed(c), Readable(root)
  PROVE  Typed(apply_json_config(root, c))
<1> DEFINE f == Sofar(root, c)
           S == {k \in 0..19 : Typed(f[k])}
<1>1. /\ f[0] = c /\ apply_json_config(root, c) = f[19]
      /\ \A k \in 1..19 : f[k] = ReadKey(root, KeyOrder[k], f[k - 1])
  BY SofarIs
<1>2. \A k \in 0..19 : Shaped(f[k])
  BY FileShapes
<1> HIDE DEF f
<1>3. 0 \in S
  BY <1>1
<1>4. ASSUME NEW k \in 0 .. 19-1, k \in S PROVE k + 1 \in S
  <2> DEFINE key == KeyOrder[k + 1]
  <2>1. k + 1 \in 1..19 /\ (k + 1) - 1 = k /\ Typed(f[k]) /\ Shaped(f[k])
    BY <1>2, <1>4
  <2>2. f[k + 1] = ReadKey(root, key, f[k])
    BY <1>1, <2>1
  <2>3. key \in DOMAIN Keys
    <3>1. DOMAIN KeyOrder = 1..19
      BY DEF KeyOrder
    <3> QED BY <2>1, <3>1 DEF Keys
  <2> HIDE DEF key
  <2>4. CASE key \notin DOMAIN root
    BY <2>1, <2>2, <2>4 DEF ReadKey
  <2>5. CASE key \in DOMAIN root
    <3>1. f[k + 1] = Set(f[k], Keys[key], ValueJson(Keys[key].kind, root[key]))
      BY <2>2, <2>5 DEF ReadKey
    <3>2. JsonValue(root[key]) /\ ReadsJson(Keys[key].kind, root[key])
      BY <2>3, <2>5 DEF Readable
    <3>3. Keys[key].name \in TypedNames =>
            ValueFits(Keys[key].name, ValueJson(Keys[key].kind, root[key]))
      BY <2>3, <3>2, TableKinds, JsonFits
    <3>4. Fits(Keys[key])
      BY <2>3, TablesFit
    <3> QED BY <2>1, <3>1, <3>3, <3>4, SetTyped
  <2> QED BY <2>1, <2>4, <2>5
<1>5. 0..19 \subseteq S
  <2> HIDE DEF S
  <2> QED BY <1>3, <1>4, UpTo
<1> QED BY <1>1, <1>5

\* The files, the devices and the configuration are what they can be.
ConfigTyped ==
  /\ Shaped(config) /\ Typed(config) /\ device_count \in 0..NonceSpace
  /\ \A path \in DOMAIN files : \A key \in DOMAIN files[path] : JsonValue(files[path][key])

\* At first they are.
LEMMA ConfigTypedInit == Init => ConfigTyped
<1> SUFFICES ASSUME Init PROVE ConfigTyped
  OBVIOUS
<1>1. PICK s \in Starts : files = s.files /\ device_count = s.device_count
  BY DEF Init
<1>2. config = Defaults
  BY DEF Init, ConfigInit
<1>3. Shaped(Defaults)
  BY DefaultNames DEF Shaped
<1>4. ASSUME NEW m \in Modes
      PROVE  /\ Defaults[m].devices = <<>> /\ Defaults[m].blocks = 0
             /\ Defaults[m].threads = 256 /\ Defaults[m].chunk_nonces = 0
  <2>1. CASE m = "benchmark"
    BY <2>1 DEF Defaults
  <2>2. CASE m = "pool"
    BY <2>2 DEF Defaults
  <2>3. CASE m = "solo"
    BY <2>3 DEF Defaults
  <2> QED BY <2>1, <2>2, <2>3 DEF Modes
<1>5. DeviceList(<<>>)
  BY NonceSpaceAssumption DEF DeviceList
<1>6. Typed(Defaults)
  <2>1. Defaults.main.mode \in Modes
    BY DEF Defaults, Modes
  <2>2. Names["main"] \cap TypedNames = {"mode"} /\ Sections = {"main"} \cup Modes
        /\ \A m \in Modes : Names[m] \cap TypedNames = SharedNames
    BY DEF Names, TypedNames, SharedNames, Sections, Modes
  <2>3. ValueFits("mode", Defaults["main"]["mode"])
    BY <2>1 DEF ValueFits
  <2>4. ASSUME NEW m \in Modes, NEW name \in SharedNames
        PROVE  ValueFits(name, Defaults[m][name])
    BY <1>4, <1>5 DEF ValueFits, SharedNames
  <2> QED BY <2>2, <2>3, <2>4 DEF Typed
<1> QED BY <1>1, <1>2, <1>3, <1>6, StartsAssumption DEF ConfigTyped

\* All devices are a list of devices.
LEMMA AllDevicesFit ==
  ASSUME device_count \in 0..NonceSpace
  PROVE  DeviceList(AllDevices)
<1>1. CASE device_count = 0
  BY <1>1, NonceSpaceAssumption DEF AllDevices, DeviceList
<1>2. CASE device_count # 0
  <2> DEFINE all == [k \in 1..device_count |-> k - 1]
  <2>1. AllDevices = all
    BY <1>2 DEF AllDevices
  <2>2. all \in Seq(Int) /\ Len(all) = device_count
    BY NonceSpaceAssumption
  <2> QED BY <2>1, <2>2 DEF DeviceList
<1> QED BY <1>1, <1>2

\* Every step keeps them so.
LEMMA ConfigTypedKept ==
  ASSUME ConfigTyped, [Next]_vars
  PROVE  ConfigTyped'
<1>1. UNCHANGED <<files, device_count>>
  <2>1. CASE ConfigNext
    BY <2>1, ConfigSteps
  <2> QED BY <2>1, OtherSteps
<1>2. Shaped(config) /\ Typed(config) /\ device_count \in Nat
  BY NonceSpaceAssumption DEF ConfigTyped
<1>3. CASE LoadFile
  <2>1. Readable(files[Path(i)])
    BY <1>3 DEF LoadFile, CanApply, ConfigTyped, Readable
  <2>2. config' = apply_json_config(files[Path(i)], config)
    BY <1>3 DEF LoadFile
  <2>3. Shaped(config') /\ Typed(config')
    BY <1>2, <2>1, <2>2, FileShapes, FileTyped
  <2> QED BY <1>1, <2>3 DEF ConfigTyped
<1>4. CASE SetFlag
  <2> DEFINE field == Options[argv[i]]
  <2>1. config' = Set(config, field, TRUE) /\ argv[i] \in DOMAIN Options /\ field.kind = "flag"
    BY <1>4 DEF SetFlag, Flag
  <2>2. Fits(field) /\ field.name \notin TypedNames
    <3>1. field.name \in TypedNames => field.kind = TypedKind[field.name]
      BY <2>1, TableKinds
    <3>2. \A name \in TypedNames : TypedKind[name] # "flag"
      BY DEF TypedNames, SharedNames, TypedKind
    <3> QED BY <2>1, <3>1, <3>2, TablesFit
  <2> HIDE DEF field
  <2>3. Shaped(config') /\ Typed(config')
    BY <1>2, <2>1, <2>2, SetIs, SetTyped
  <2> QED BY <1>1, <2>3 DEF ConfigTyped
<1>5. CASE SetOption
  <2> DEFINE field == Options[argv[i]]
             value == Value(field.kind, argv[i + 1])
  <2>1. /\ config' = Set(config, field, value) /\ argv[i] \in DOMAIN Options
        /\ Reads(field.kind, argv[i + 1])
    BY <1>5 DEF SetOption, Valued, HasValue
  <2>2. Fits(field) /\ (field.name \in TypedNames => ValueFits(field.name, value))
    BY <2>1, TablesFit, TableKinds, TextFits
  <2> HIDE DEF field, value
  <2>3. Shaped(config') /\ Typed(config')
    BY <1>2, <2>1, <2>2, SetIs, SetTyped
  <2> QED BY <1>1, <2>3 DEF ConfigTyped
<1>6. CASE Dispatch
  <2>1. /\ Shaped(config')
        /\ config.benchmark.devices # <<>> => config' = config
        /\ config.benchmark.devices = <<>> =>
             \A s \in Sections : \A name \in Names[s] :
               config'[s][name] = IF name = "devices" THEN AllDevices ELSE config[s][name]
    BY <1>2, <1>6, DispatchIs
  <2>3. ValueFits("devices", AllDevices)
    BY AllDevicesFit DEF ConfigTyped, ValueFits
  <2>4. Typed(config')
    <3> SUFFICES ASSUME NEW s \in Sections, NEW name \in Names[s] \cap TypedNames
                 PROVE  ValueFits(name, config'[s][name])
      BY DEF Typed
    <3>1. ValueFits(name, config[s][name])
      BY <1>2 DEF Typed
    <3> QED BY <2>1, <2>3, <3>1
  <2> QED BY <1>1, <2>1, <2>4 DEF ConfigTyped
<1>7. CASE config' = config
  BY <1>1, <1>7 DEF ConfigTyped
<1>8. config' = config \/ LoadFile \/ SetFlag \/ SetOption \/ Dispatch
  <2>1. CASE ConfigNext
    BY <2>1, ConfigSteps
  <2> QED BY <2>1, OtherSteps
<1> QED BY <1>3, <1>4, <1>5, <1>6, <1>7, <1>8

-----------------------------------------------------------------------------
(* The walks of the two passes over the arguments.                         *)

\* The places that a pass reads, of 1..n, when it goes on by two from those
\* in Two and by one from the others.
IsWalk(W, n, Two) ==
  /\ W \subseteq 1..n
  /\ \A k \in 1..n :
       k \in W <=> \/ k = 1
                   \/ k - 1 \in W /\ k - 1 \notin Two
                   \/ k - 2 \in W /\ k - 2 \in Two

\* There is such a walk.
LEMMA WalkExists ==
  ASSUME NEW n \in Nat, NEW Two
  PROVE  \E W : IsWalk(W, n, Two)
<1> DEFINE S == {m \in 0..n : \E W : IsWalk(W, m, Two)}
<1>1. 0 \in S
  <2>1. IsWalk({}, 0, Two)
    BY DEF IsWalk
  <2> QED BY <2>1
<1>2. ASSUME NEW m \in 0 .. n-1, m \in S PROVE m + 1 \in S
  <2>1. PICK W : IsWalk(W, m, Two)
    BY <1>2
  <2> DEFINE k == m + 1
             Read == k = 1 \/ (k - 1 \in W /\ k - 1 \notin Two) \/ (k - 2 \in W /\ k - 2 \in Two)
             V == {j \in 1..k : j \in W \/ (j = k /\ Read)}
  <2>2. W \subseteq 1..m
    BY <2>1 DEF IsWalk
  <2>3. \A j \in 1..m : j \in V <=> j \in W
    BY <2>2
  <2>4. k \in V <=> Read
    BY <2>2
  <2>5. ASSUME NEW j \in 1..k
        PROVE  j \in V <=> \/ j = 1
                           \/ j - 1 \in V /\ j - 1 \notin Two
                           \/ j - 2 \in V /\ j - 2 \in Two
    <3>1. /\ j - 1 \in V <=> j - 1 \in W
          /\ j - 2 \in V <=> j - 2 \in W
      BY <2>2
    <3>2. CASE j = k
      <4> HIDE DEF V
      <4> QED BY <2>4, <3>1, <3>2
    <3>3. CASE j # k
      <4>1. j \in 1..m
        BY <3>3
      <4>2. j \in W <=> \/ j = 1
                        \/ j - 1 \in W /\ j - 1 \notin Two
                        \/ j - 2 \in W /\ j - 2 \in Two
        BY <2>1, <4>1 DEF IsWalk
      <4> HIDE DEF V
      <4> QED BY <2>3, <3>1, <4>1, <4>2
    <3> QED BY <3>2, <3>3
  <2>6. V \subseteq 1..k
    OBVIOUS
  <2> HIDE DEF V
  <2>7. IsWalk(V, k, Two)
    BY <2>5, <2>6 DEF IsWalk
  <2>8. k \in 0..n
    OBVIOUS
  <2> QED BY <2>7, <2>8
<1>3. 0..n \subseteq S
  <2> HIDE DEF S
  <2> QED BY <1>1, <1>2, UpTo
<1> QED BY <1>3

\* The place after one in Two is passed over, and a place that is passed over
\* comes after one in Two.
LEMMA WalkSteps ==
  ASSUME NEW n \in Nat, NEW Two, NEW W, IsWalk(W, n, Two), NEW k \in 1..n
  PROVE  /\ k \in W /\ k \in Two => k + 1 \notin W
         /\ k \notin W => k - 1 \in W /\ k - 1 \in Two
<1>1. /\ W \subseteq 1..n
      /\ \A j \in 1..n : j \in W <=> \/ j = 1
                                     \/ j - 1 \in W /\ j - 1 \notin Two
                                     \/ j - 2 \in W /\ j - 2 \in Two
  BY DEF IsWalk
<1> DEFINE Passes(j) == j \in W /\ j \in Two => j + 1 \notin W
           Covers(j) == j \notin W => j - 1 \in W /\ j - 1 \in Two
           S == {m \in 0..n : \A j \in 1..m : Passes(j) /\ Covers(j)}
<1>2. 0 \in S
  OBVIOUS
<1>3. ASSUME NEW m \in 0 .. n-1, m \in S PROVE m + 1 \in S
  <2> DEFINE j == m + 1
  <2>1. j \in 1..n /\ \A l \in 1..m : Passes(l) /\ Covers(l)
    BY <1>3
  <2>2. Passes(j)
    <3> SUFFICES ASSUME j \in W, j \in Two, j + 1 \in W PROVE FALSE
      OBVIOUS
    <3>1. j - 1 \in W /\ j - 1 \in Two
      <4>1. j + 1 \in 1..n /\ (j + 1) - 1 = j /\ (j + 1) - 2 = j - 1
        BY <1>1, <2>1
      <4> QED BY <1>1, <2>1, <4>1
    <3>2. j - 1 \in 1..m /\ (j - 1) + 1 = j
      BY <1>1, <3>1
    <3> QED BY <2>1, <3>1, <3>2
  <2>3. Covers(j)
    <3> SUFFICES ASSUME j \notin W PROVE j - 1 \in W /\ j - 1 \in Two
      OBVIOUS
    <3>1. j # 1 /\ ~(j - 1 \in W /\ j - 1 \notin Two) /\ ~(j - 2 \in W /\ j - 2 \in Two)
      BY <1>1, <2>1
    <3>2. j - 1 \in 1..m /\ (j - 1) - 1 = j - 2
      BY <2>1, <3>1
    <3>3. j - 1 \in W
      BY <2>1, <3>1, <3>2
    <3> QED BY <3>1, <3>3
  <2> HIDE DEF Passes, Covers
  <2>4. \A l \in 1..j : Passes(l) /\ Covers(l)
    <3>1. \A l \in 1..j : l = j \/ l \in 1..m
      OBVIOUS
    <3> QED BY <2>1, <2>2, <2>3, <3>1
  <2> QED BY <2>1, <2>4
<1>4. 0..n \subseteq S
  <2> HIDE DEF S
  <2> QED BY <1>2, <1>3, UpTo
<1> QED BY <1>4

\* Where the first pass looks for --config.
TakesPath == {k \in 1..Len(argv) : argv[k] = "--config"}
FirstPass == CHOOSE W : IsWalk(W, Len(argv), TakesPath)

\* The places that the second pass goes on from by two.
TakesTwo == {k \in 1..Len(argv) : TakesValue(argv[k])}

\* The recursion of OptionPositions.
OptionWalk ==
  CHOOSE at : at = [k \in 1..Len(argv) |->
    \/ k = 1
    \/ k > 1 /\ at[k - 1] /\ ~TakesValue(argv[k - 1])
    \/ k > 2 /\ at[k - 2] /\ TakesValue(argv[k - 2])]

\* The passes are walks.
LEMMA PassesAreWalks ==
  ASSUME argv \in Seq(STRING)
  PROVE  /\ IsWalk(FirstPass, Len(argv), TakesPath)
         /\ IsWalk(OptionPositions, Len(argv), TakesTwo)
<1> DEFINE n == Len(argv)
<1>1. n \in Nat
  OBVIOUS
<1>2. IsWalk(FirstPass, n, TakesPath)
  <2>1. \E W : IsWalk(W, n, TakesPath)
    BY <1>1, WalkExists
  <2> QED BY <2>1 DEF FirstPass
<1>3. PICK W : IsWalk(W, n, TakesTwo)
  BY <1>1, WalkExists
<1> DEFINE E(f, k) == \/ k = 1
                      \/ k > 1 /\ f[k - 1] /\ ~TakesValue(argv[k - 1])
                      \/ k > 2 /\ f[k - 2] /\ TakesValue(argv[k - 2])
           P(f) == f = [k \in 1..n |-> E(f, k)]
           g == [k \in 1..n |-> k \in W]
<1>4. \A k \in 1..n : (k \in W) = E(g, k)
  <2> TAKE k \in 1..n
  <2>1. /\ W \subseteq 1..n
        /\ k \in W <=> k = 1 \/ (k - 1 \in W /\ k - 1 \notin TakesTwo) \/ (k - 2 \in W /\ k - 2 \in TakesTwo)
    BY <1>3 DEF IsWalk
  <2>2. k > 1 => k - 1 \in 1..n /\ g[k - 1] = (k - 1 \in W)
    BY <1>1
  <2>3. k > 2 => k - 2 \in 1..n /\ g[k - 2] = (k - 2 \in W)
    BY <1>1
  <2>4. \A j \in 1..n : j \in TakesTwo <=> TakesValue(argv[j])
    BY DEF TakesTwo
  <2>5. k - 1 \in W => k > 1
    BY <2>1
  <2>6. k - 2 \in W => k > 2
    BY <2>1
  <2> HIDE DEF g
  <2>7. (k > 1 /\ g[k - 1] /\ ~TakesValue(argv[k - 1])) <=> (k - 1 \in W /\ k - 1 \notin TakesTwo)
    BY <2>2, <2>4, <2>5, Zenon
  <2>8. (k > 2 /\ g[k - 2] /\ TakesValue(argv[k - 2])) <=> (k - 2 \in W /\ k - 2 \in TakesTwo)
    BY <2>3, <2>4, <2>6, Zenon
  <2> DEFINE A == k > 1 /\ g[k - 1] /\ ~TakesValue(argv[k - 1])
             B == k > 2 /\ g[k - 2] /\ TakesValue(argv[k - 2])
  <2>9. /\ A <=> k - 1 \in W /\ k - 1 \notin TakesTwo
        /\ B <=> k - 2 \in W /\ k - 2 \in TakesTwo
    BY <2>7, <2>8, Zenon
  <2>10. E(g, k) = (k = 1 \/ A \/ B)
    BY Zenon
  <2> HIDE DEF A, B, E
  <2>11. k \in W <=> k = 1 \/ A \/ B
    <3>1. k \in W <=> k = 1 \/ (k - 1 \in W /\ k - 1 \notin TakesTwo) \/ (k - 2 \in W /\ k - 2 \in TakesTwo)
      BY <2>1
    <3> QED BY <2>9, <3>1
  <2>12. (k \in W) = (k = 1 \/ A \/ B)
    BY <2>11
  <2> QED BY <2>10, <2>12, Zenon
<1>5. P(g)
  <2> DEFINE h == [k \in 1..n |-> E(g, k)]
  <2>1. \A k \in 1..n : g[k] = (k \in W)
    OBVIOUS
  <2>2. g = h
    <3> HIDE DEF E
    <3> QED BY <1>4
  <2> QED BY <2>2, Zenon
<1>6. P(OptionWalk)
  <2>1. \E f : P(f)
    <3> HIDE DEF P, g
    <3> QED BY <1>5
  <2> QED BY <2>1, Zenon DEF OptionWalk
<1>7. OptionPositions = {k \in 1..n : OptionWalk[k]}
  BY Zenon DEF OptionPositions, OptionWalk
<1>8. \A k \in 1..n : OptionWalk[k] = E(OptionWalk, k)
  <2> HIDE DEF E
  <2> QED BY <1>6
<1>9. IsWalk({k \in 1..n : OptionWalk[k]}, n, TakesTwo)
  <2> DEFINE V == {k \in 1..n : OptionWalk[k]}
  <2>1. ASSUME NEW k \in 1..n
        PROVE  k \in V <=> k = 1 \/ (k - 1 \in V /\ k - 1 \notin TakesTwo) \/ (k - 2 \in V /\ k - 2 \in TakesTwo)
    <3>1. k \in V <=> E(OptionWalk, k)
      BY <1>8
    <3>2. /\ k - 1 \in V <=> k > 1 /\ OptionWalk[k - 1]
          /\ k - 2 \in V <=> k > 2 /\ OptionWalk[k - 2]
      BY <1>1
    <3>3. /\ k > 1 => (k - 1 \in TakesTwo <=> TakesValue(argv[k - 1]))
          /\ k > 2 => (k - 2 \in TakesTwo <=> TakesValue(argv[k - 2]))
      BY <1>1 DEF TakesTwo
    <3> HIDE DEF V
    <3> QED BY <3>1, <3>2, <3>3
  <2>2. V \subseteq 1..n
    OBVIOUS
  <2> HIDE DEF V
  <2>3. IsWalk(V, n, TakesTwo)
    BY <2>1, <2>2 DEF IsWalk
  <2> QED BY <2>3 DEF V
<1> QED BY <1>2, <1>7, <1>9

\* A pass is the same while the arguments are.
LEMMA PassesStay ==
  ASSUME UNCHANGED argv
  PROVE  UNCHANGED <<FirstPass, OptionPositions>>
<1> DEFINE First(args) ==
             CHOOSE W : IsWalk(W, Len(args), {k \in 1..Len(args) : args[k] = "--config"})
           Second(args) ==
             LET at[k \in 1..Len(args)] ==
                   \/ k = 1
                   \/ k > 1 /\ at[k - 1] /\ ~TakesValue(args[k - 1])
                   \/ k > 2 /\ at[k - 2] /\ TakesValue(args[k - 2])
             IN  {k \in 1..Len(args) : at[k]}
<1>1. FirstPass = First(argv) /\ FirstPass' = First(argv')
  BY Zenon DEF FirstPass, TakesPath
<1>2. OptionPositions = Second(argv) /\ OptionPositions' = Second(argv')
  BY Zenon DEF OptionPositions
<1> HIDE DEF First, Second
<1> QED BY <1>1, <1>2

\* Where a pass takes --config for the option.
Configs(W) == {k \in W : argv[k] = "--config"}

\* What the second pass accepts: it takes a value only where there is one.
Known(k) == argv[k] = "--config" \/ Flag(argv[k]) \/ (Valued(argv[k]) /\ k < Len(argv))

\* When every path is a file and every option is known, the passes agree on
\* the --config options: where they part, a file is named like an option.
LEMMA PassesAgree ==
  ASSUME argv \in Seq(STRING), NamesApart,
         \A k \in Configs(FirstPass) : k < Len(argv) /\ argv[k + 1] \in DOMAIN files,
         \A k \in OptionPositions : Known(k)
  PROVE  Configs(FirstPass) = Configs(OptionPositions)
<1> DEFINE n == Len(argv)
           F == FirstPass
           O == OptionPositions
<1>0. n \in Nat
  OBVIOUS
<1>1. IsWalk(F, n, TakesPath) /\ IsWalk(O, n, TakesTwo)
  BY PassesAreWalks
<1>2. /\ F \subseteq 1..n
      /\ \A k \in 1..n : k \in F <=> \/ k = 1
                                     \/ k - 1 \in F /\ argv[k - 1] # "--config"
                                     \/ k - 2 \in F /\ argv[k - 2] = "--config"
  BY <1>1 DEF IsWalk, TakesPath
<1>3. /\ O \subseteq 1..n
      /\ \A k \in 1..n : k \in O <=> \/ k = 1
                                     \/ k - 1 \in O /\ ~TakesValue(argv[k - 1])
                                     \/ k - 2 \in O /\ TakesValue(argv[k - 2])
  BY <1>1 DEF IsWalk, TakesTwo
<1>4. ASSUME NEW k \in O PROVE argv[k] \notin DOMAIN files
  BY DEF NamesApart, Known, Flag, Valued
<1>5. ASSUME NEW k \in F, argv[k] = "--config"
      PROVE  k + 1 \in 1..n /\ k + 1 \notin O
  BY <1>0, <1>2, <1>4, <1>5 DEF Configs
<1>6. \A k \in 1..n : ~TakesValue(argv[k]) => argv[k] # "--config"
  BY DEF TakesValue
<1> DEFINE S == {m \in 0..n : \A k \in 1..m : k \in O => k \in F}
<1>7. 0 \in S
  OBVIOUS
<1>8. ASSUME NEW m \in 0 .. n-1, m \in S PROVE m + 1 \in S
  <2> DEFINE k == m + 1
  <2>1. k \in 1..n /\ \A j \in 1..m : j \in O => j \in F
    BY <1>0, <1>8
  <2>2. ASSUME k \in O PROVE k \in F
    <3>1. CASE k = 1
      BY <1>2, <2>1, <3>1
    <3>2. CASE k - 1 \in O /\ ~TakesValue(argv[k - 1])
      <4>1. k - 1 \in 1..m
        BY <1>3, <3>2
      <4> QED BY <1>2, <1>6, <2>1, <3>2, <4>1
    <3>3. CASE k - 2 \in O /\ TakesValue(argv[k - 2])
      <4>1. k - 2 \in 1..m /\ k - 1 \in 1..n /\ (k - 1) - 1 = k - 2 /\ (k - 1) + 1 = k
        BY <1>3, <2>1, <3>3
      <4>2. k - 2 \in F
        BY <2>1, <3>3, <4>1
      <4>3. CASE argv[k - 2] = "--config"
        BY <1>2, <2>1, <4>2, <4>3
      <4>4. CASE argv[k - 2] # "--config"
        <5>1. k - 1 \in F
          BY <1>2, <4>1, <4>2, <4>4
        <5>2. argv[k - 1] # "--config"
          BY <1>5, <2>2, <4>1, <5>1
        <5> QED BY <1>2, <2>1, <5>1, <5>2
      <4> QED BY <4>3, <4>4
    <3> QED BY <1>3, <2>1, <2>2, <3>1, <3>2, <3>3
  <2>3. \A j \in 1..k : j = k \/ j \in 1..m
    OBVIOUS
  <2> QED BY <2>1, <2>2, <2>3
<1>9. 0..n \subseteq S
  <2> HIDE DEF S
  <2> QED BY <1>0, <1>7, <1>8, UpTo
<1>10. O \subseteq F
  BY <1>0, <1>3, <1>9
<1>11. ASSUME NEW k \in F, argv[k] = "--config" PROVE k \in O
  <2> SUFFICES ASSUME k \notin O PROVE FALSE
    OBVIOUS
  <2>1. k - 1 \in O /\ k - 1 \in TakesTwo
    BY <1>0, <1>1, <1>2, WalkSteps
  <2>2. k - 1 \in F /\ TakesValue(argv[k - 1]) /\ k + 1 \in 1..n /\ (k + 1) - 2 = k - 1
    BY <1>2, <1>5, <1>10, <1>11, <2>1 DEF TakesTwo
  <2>3. k + 1 \in O
    BY <1>3, <2>1, <2>2
  <2> QED BY <1>5, <1>11, <2>3
<1> QED BY <1>10, <1>11 DEF Configs

\* The first pass has taken the paths of the --configs before k.
Collected(k) ==
  LET at == {j \in Configs(FirstPass) : j < k}
  IN  /\ config_paths \in Seq(STRING) /\ Len(config_paths) = Cardinality(at)
      /\ \A j \in at : j < Len(argv) /\ \E m \in DOMAIN config_paths : argv[j + 1] = config_paths[m]
      /\ \A m \in DOMAIN config_paths :
           \E j \in at : argv[j + 1] = config_paths[m] /\ Cardinality({l \in at : l <= j}) = m

\* The files before the k-th were there.
Loaded(k) == \A m \in DOMAIN config_paths : m < k => config_paths[m] \in DOMAIN files

\* The second pass knew the options before k.
Accepted(k) == \A j \in OptionPositions : j < k => Known(j)

Overridden == {"check"} \cup Modes
AllLoaded == {"override"} \cup Overridden
AllCollected == {"load"} \cup AllLoaded

\* How far the passes are, and what they have kept to.
FilesInv ==
  /\ argv \in Seq(STRING)
  /\ phase = "help" => config_paths = <<>>
  /\ phase = "collect" =>
       i \in 1 .. Len(argv)+1 /\ (i <= Len(argv) => i \in FirstPass) /\ Collected(i)
  /\ phase \in AllCollected => Collected(Len(argv) + 1)
  /\ phase = "load" => i \in Nat \ {0} /\ Loaded(i)
  /\ phase \in AllLoaded => Loaded(Len(config_paths) + 1)
  /\ phase = "override" =>
       i \in 1 .. Len(argv)+2 /\ (i <= Len(argv) => i \in OptionPositions) /\ Accepted(i)
  /\ phase \in Overridden => Accepted(Len(argv) + 1)

\* The conclusion from it.
LEMMA FilesInvFound ==
  ASSUME FilesInv
  PROVE  FilesAreTheConfigs
<1> SUFFICES ASSUME Started, NamesApart
             PROVE  LET at == {k \in OptionPositions : argv[k] = "--config"}
                    IN  /\ Len(config_paths) = Cardinality(at)
                        /\ \A m \in DOMAIN config_paths : \E k \in at :
                             argv[k + 1] = config_paths[m] /\ Cardinality({l \in at : l <= k}) = m
  BY DEF FilesAreTheConfigs
<1>1. /\ Collected(Len(argv) + 1) /\ Loaded(Len(config_paths) + 1) /\ Accepted(Len(argv) + 1)
      /\ argv \in Seq(STRING)
  BY DEF FilesInv, Started, Overridden, AllLoaded, AllCollected
<1>2. FirstPass \subseteq 1..Len(argv) /\ OptionPositions \subseteq 1..Len(argv)
  BY <1>1, PassesAreWalks DEF IsWalk
<1>3. {j \in Configs(FirstPass) : j < Len(argv) + 1} = Configs(FirstPass)
  <2>1. Len(argv) \in Nat
    BY <1>1
  <2>2. \A j \in Configs(FirstPass) : j < Len(argv) + 1
    BY <1>2, <2>1 DEF Configs
  <2> QED BY <2>2
<1> DEFINE at == Configs(FirstPass)
<1>4. /\ config_paths \in Seq(STRING) /\ Len(config_paths) = Cardinality(at)
      /\ \A j \in at : j < Len(argv) /\ \E m \in DOMAIN config_paths : argv[j + 1] = config_paths[m]
      /\ \A m \in DOMAIN config_paths :
           \E j \in at : argv[j + 1] = config_paths[m] /\ Cardinality({l \in at : l <= j}) = m
  BY <1>1, <1>3 DEF Collected
<1>5. \A m \in DOMAIN config_paths : config_paths[m] \in DOMAIN files
  BY <1>1, <1>4 DEF Loaded
<1>6. \A k \in at : k < Len(argv) /\ argv[k + 1] \in DOMAIN files
  BY <1>4, <1>5
<1>7. \A k \in OptionPositions : Known(k)
  BY <1>1, <1>2 DEF Accepted
<1>8. at = Configs(OptionPositions)
  BY <1>1, <1>6, <1>7, PassesAgree
<1>9. at = {k \in OptionPositions : argv[k] = "--config"}
  BY <1>8 DEF Configs
<1> HIDE DEF at
<1> QED BY <1>4, <1>9

\* It holds at first.
LEMMA FilesInvInit == Init => FilesInv
BY StartsAssumption
   DEF Init, ConfigInit, FilesInv, Overridden, AllLoaded, AllCollected, Modes

\* What the first pass has taken is the same while the arguments and the
\* paths are.
LEMMA CollectedStay ==
  ASSUME UNCHANGED <<argv, config_paths>>, NEW k
  PROVE  /\ Collected(k)' <=> Collected(k)
         /\ i' = k => (Collected(i)' <=> Collected(k))
<1> DEFINE C(args, paths, W, m) ==
             LET at == {j \in {l \in W : args[l] = "--config"} : j < m}
             IN  /\ paths \in Seq(STRING) /\ Len(paths) = Cardinality(at)
                 /\ \A j \in at : j < Len(args) /\ \E l \in DOMAIN paths : args[j + 1] = paths[l]
                 /\ \A l \in DOMAIN paths :
                      \E j \in at : args[j + 1] = paths[l] /\ Cardinality({q \in at : q <= j}) = l
<1>1. /\ Collected(k) <=> C(argv, config_paths, FirstPass, k)
      /\ Collected(k)' <=> C(argv', config_paths', FirstPass', k)
      /\ Collected(i)' <=> C(argv', config_paths', FirstPass', i')
  BY Zenon DEF Collected, Configs
<1>2. FirstPass' = FirstPass
  BY PassesStay
<1> HIDE DEF C
<1> QED BY <1>1, <1>2

\* A path is taken, or an argument is passed over.
LEMMA PathTaken ==
  ASSUME FilesInv, CollectPath
  PROVE  FilesInv'
<1> DEFINE n == Len(argv)
           F == FirstPass
           At(k) == {j \in Configs(F) : j < k}
           at == At(i)
<1>1. /\ phase = "collect" /\ phase' = "collect" /\ i <= n
      /\ argv' = argv /\ UNCHANGED <<F, Configs(F)>>
  BY PassesStay DEF CollectPath, inputVars, Configs
<1>2. n \in Nat /\ argv \in Seq(STRING) /\ i \in 1..n /\ i \in F /\ Collected(i)
  BY <1>1 DEF FilesInv
<1>3. IsWalk(F, n, TakesPath)
  BY <1>2, PassesAreWalks
<1>4. /\ F \subseteq 1..n
      /\ \A k \in 1..n : k \in F <=> \/ k = 1
                                     \/ k - 1 \in F /\ argv[k - 1] # "--config"
                                     \/ k - 2 \in F /\ argv[k - 2] = "--config"
  BY <1>3 DEF IsWalk, TakesPath
<1>5. /\ config_paths \in Seq(STRING) /\ Len(config_paths) = Cardinality(at)
      /\ \A j \in at : j < n /\ \E m \in DOMAIN config_paths : argv[j + 1] = config_paths[m]
      /\ \A m \in DOMAIN config_paths :
           \E j \in at : argv[j + 1] = config_paths[m] /\ Cardinality({l \in at : l <= j}) = m
  BY <1>2 DEF Collected
<1>6. IsFiniteSet(at) /\ i \notin at
  <2>1. at \subseteq 1..n
    BY <1>4 DEF Configs
  <2> HIDE DEF at
  <2>2. IsFiniteSet(at)
    <3>1. IsFiniteSet(1..n)
      BY <1>2, FS_Interval
    <3> QED BY <2>1, <3>1, FS_Subset
  <2> USE DEF at
  <2> QED BY <1>2, <2>2
<1>7. i' \in 1..n+1 /\ (i' <= n => i' \in F) /\ Collected(i)'
  <2>1. CASE argv[i] # "--config"
    <3>1. config_paths' = config_paths /\ i' = i + 1
      BY <2>1 DEF CollectPath
    <3>2. i + 1 <= n => i + 1 \in F
      <4>1. i + 1 <= n => i + 1 \in 1..n /\ (i + 1) - 1 = i
        BY <1>2
      <4> QED BY <1>2, <1>4, <2>1, <4>1
    <3>3. At(i + 1) = at
      <4>1. \A j \in Configs(F) : j < i + 1 <=> j < i
        BY <1>2, <1>4, <2>1 DEF Configs
      <4> QED BY <4>1
    <3>4. Collected(i + 1)
      BY <1>5, <3>3 DEF Collected
    <3>5. Collected(i)'
      BY <1>1, <3>1, <3>4, CollectedStay
    <3> QED BY <1>2, <3>1, <3>2, <3>5
  <2>2. CASE argv[i] = "--config"
    <3> DEFINE path == argv[i + 1]
    <3>1. i < n /\ config_paths' = Append(config_paths, path) /\ i' = i + 2
      BY <2>2 DEF CollectPath
    <3>2. path \in STRING
      BY <1>2, <3>1
    <3>3. i + 2 <= n => i + 2 \in F
      <4>1. i + 2 <= n => i + 2 \in 1..n /\ (i + 2) - 2 = i
        BY <1>2
      <4> QED BY <1>2, <1>4, <2>2, <4>1
    <3>4. At(i + 2) = at \cup {i}
      <4>1. i + 1 \notin F
        BY <1>2, <1>3, <2>2, WalkSteps DEF TakesPath
      <4>2. \A j \in Configs(F) : j < i + 2 <=> j < i \/ j = i
        BY <1>2, <1>4, <4>1 DEF Configs
      <4>3. i \in Configs(F) /\ i < i + 2
        BY <1>2, <2>2 DEF Configs
      <4> QED BY <4>2, <4>3
    <3>5. Cardinality(at \cup {i}) = Cardinality(at) + 1
      BY <1>6, FS_AddElement
    <3> DEFINE all == at \cup {i}
               paths == Append(config_paths, path)
    <3>6. paths \in Seq(STRING) /\ Len(paths) = Cardinality(all)
      BY <1>5, <3>2, <3>5
    <3>7. /\ DOMAIN paths = 1 .. Len(config_paths)+1 /\ DOMAIN config_paths = 1..Len(config_paths)
          /\ Len(config_paths) \in Nat
          /\ \A m \in DOMAIN config_paths : m \in DOMAIN paths /\ paths[m] = config_paths[m]
          /\ paths[Len(config_paths) + 1] = path
      <4>1. config_paths \in Seq(STRING)
        BY <1>5
      <4> HIDE DEF at, path
      <4>2. DOMAIN config_paths = 1..Len(config_paths) /\ Len(config_paths) \in Nat
        BY <4>1
      <4>3. \A S : \A s \in Seq(S) : \A e \in S :
              /\ Append(s, e) \in Seq(S) /\ Len(Append(s, e)) = Len(s) + 1
              /\ Append(s, e)[Len(s) + 1] = e
        OBVIOUS
      <4>4. /\ Append(config_paths, path) \in Seq(STRING)
            /\ Len(Append(config_paths, path)) = Len(config_paths) + 1
            /\ Append(config_paths, path)[Len(config_paths) + 1] = path
        BY <3>2, <4>1, <4>3, Zenon
      <4>5. Len(paths) = Len(config_paths) + 1 /\ paths \in Seq(STRING)
        BY <4>4, Zenon
      <4>6. DOMAIN paths = 1 .. Len(config_paths)+1
        <5> HIDE DEF paths
        <5> QED BY <4>5
      <4>7. \A m \in 1..Len(config_paths) : paths[m] = config_paths[m]
        BY <3>2, <4>1
      <4>8. paths[Len(config_paths) + 1] = path
        BY <4>4, Zenon
      <4> HIDE DEF paths
      <4> QED BY <4>2, <4>6, <4>7, <4>8
    <3> HIDE DEF paths, all, path
    <3>8. \A j \in all : j < n /\ \E m \in DOMAIN paths : argv[j + 1] = paths[m]
      <4> TAKE j \in all
      <4>1. CASE j \in at
        <5>1. j < n /\ \E m \in DOMAIN config_paths : argv[j + 1] = config_paths[m]
          BY <1>5, <4>1
        <5> QED BY <3>7, <5>1
      <4>2. CASE j = i
        BY <3>1, <3>7, <4>2 DEF path
      <4> QED BY <4>1, <4>2 DEF all
    <3>9. \A j \in at : j \in Int /\ j < i
      BY <1>4 DEF Configs
    <3> HIDE DEF at, At
    <3>10. \A j \in at : {l \in all : l <= j} = {l \in at : l <= j}
      BY <1>2, <3>9 DEF all
    <3>11. {l \in all : l <= i} = all
      BY <1>2, <3>9 DEF all
    <3>12. \A m \in DOMAIN paths :
             \E j \in all : argv[j + 1] = paths[m] /\ Cardinality({l \in all : l <= j}) = m
      <4> TAKE m \in DOMAIN paths
      <4>1. CASE m \in DOMAIN config_paths
        <5>1. PICK j \in at : argv[j + 1] = config_paths[m] /\ Cardinality({l \in at : l <= j}) = m
          BY <1>5, <4>1
        <5> QED BY <3>7, <3>10, <4>1, <5>1 DEF all
      <4>2. CASE m = Len(config_paths) + 1
        <5>1. Cardinality({l \in all : l <= i}) = m
          BY <1>5, <3>5, <3>11, <4>2 DEF all
        <5>2. i \in all /\ argv[i + 1] = paths[m]
          BY <3>7, <4>2 DEF all, path
        <5> QED BY <5>1, <5>2
      <4>3. m \in DOMAIN config_paths \/ m = Len(config_paths) + 1
        BY <3>7
      <4> QED BY <4>1, <4>2, <4>3
    <3>13. all = {j \in Configs(F)' : j < i + 2}
      BY <1>1, <3>4 DEF all, At
    <3>14. Collected(i)'
      <4>1. config_paths' = paths /\ argv' = argv /\ i' = i + 2
        BY <1>1, <3>1 DEF paths, path
      <4>2. {j \in Configs(FirstPass)' : j < i'} = all
        BY <3>13, <4>1
      <4> QED BY <3>6, <3>8, <3>12, <4>1, <4>2 DEF Collected
    <3> QED BY <1>2, <3>1, <3>3, <3>14
  <2> QED BY <2>1, <2>2
<1> QED
  <2> HIDE DEF F
  <2> QED BY <1>1, <1>2, <1>7 DEF FilesInv, F, Overridden, AllLoaded, AllCollected, Modes

\* Every step keeps it.
LEMMA FilesInvKept ==
  ASSUME FilesInv, ConfigTyped, [Next]_vars
  PROVE  FilesInv'
<1> USE DEF Overridden, AllLoaded, AllCollected
<1>1. UNCHANGED <<argv, files>>
  <2>1. CASE ConfigNext
    BY <2>1, ConfigSteps
  <2> QED BY <2>1, OtherSteps
<1>2. UNCHANGED <<FirstPass, OptionPositions, Configs(FirstPass)>>
  BY <1>1, PassesStay DEF Configs
<1>3. \A k : /\ Known(k)' <=> Known(k)
             /\ Accepted(k)' <=> Accepted(k)
             /\ UNCHANGED config_paths => (Collected(k)' <=> Collected(k))
             /\ UNCHANGED config_paths => (Loaded(k)' <=> Loaded(k))
  <2>1. \A k : Known(k)' <=> Known(k)
    BY <1>1 DEF Known, Flag, Valued
  <2>2. \A k : Accepted(k)' <=> Accepted(k)
    BY <1>2, <2>1 DEF Accepted
  <2>3. \A k : UNCHANGED config_paths => (Collected(k)' <=> Collected(k))
    BY <1>1, CollectedStay
  <2>4. \A k : UNCHANGED config_paths => (Loaded(k)' <=> Loaded(k))
    BY <1>1 DEF Loaded
  <2> QED BY <2>1, <2>2, <2>3, <2>4
<1>4. argv \in Seq(STRING) /\ Len(argv) \in Nat
  BY DEF FilesInv
<1>5. /\ OptionPositions \subseteq 1..Len(argv) /\ FirstPass \subseteq 1..Len(argv)
      /\ 1 <= Len(argv) => 1 \in OptionPositions /\ 1 \in FirstPass
      /\ \A k \in OptionPositions :
           IF k \in TakesTwo THEN k + 1 \notin OptionPositions /\ (k + 2 <= Len(argv) => k + 2 \in OptionPositions)
           ELSE k + 1 <= Len(argv) => k + 1 \in OptionPositions
  <2>1. IsWalk(FirstPass, Len(argv), TakesPath) /\ IsWalk(OptionPositions, Len(argv), TakesTwo)
    BY <1>4, PassesAreWalks
  <2>2. /\ OptionPositions \subseteq 1..Len(argv) /\ FirstPass \subseteq 1..Len(argv)
        /\ \A k \in 1..Len(argv) : k \in OptionPositions <=>
             k = 1 \/ (k - 1 \in OptionPositions /\ k - 1 \notin TakesTwo)
                   \/ (k - 2 \in OptionPositions /\ k - 2 \in TakesTwo)
        /\ 1 \in 1..Len(argv) => 1 \in FirstPass
    BY <2>1 DEF IsWalk
  <2>3. ASSUME NEW k \in OptionPositions
        PROVE  /\ k \in 1..Len(argv) /\ (k \in TakesTwo => k + 1 \notin OptionPositions)
               /\ k + 1 <= Len(argv) => k + 1 \in 1..Len(argv) /\ (k + 1) - 1 = k
               /\ k + 2 <= Len(argv) => k + 2 \in 1..Len(argv) /\ (k + 2) - 2 = k
    BY <1>4, <2>1, <2>2, WalkSteps
  <2> QED BY <1>4, <2>2, <2>3
<1>6. CASE ShowHelp
  <2>1. /\ phase = "help" /\ phase' \in {"exit", "collect"} /\ i' = 1 /\ config_paths' = <<>>
    BY <1>6 DEF ShowHelp, GoTo, FilesInv
  <2>2. Collected(i)'
    <3>1. {j \in Configs(FirstPass)' : j < i'} = {}
      <4>1. \A j \in Configs(FirstPass) : j \in 1..Len(argv)
        BY <1>5 DEF Configs
      <4>2. \A j \in Configs(FirstPass)' : ~(j < i')
        BY <1>2, <2>1, <4>1
      <4> QED BY <4>2
    <3>2. Cardinality({}) = 0
      BY FS_EmptySet
    <3>3. config_paths' \in Seq(STRING) /\ Len(config_paths') = 0 /\ DOMAIN config_paths' = {}
      BY <2>1
    <3> QED BY <3>1, <3>2, <3>3 DEF Collected
  <2> QED BY <1>1, <1>2, <1>4, <1>5, <2>1, <2>2 DEF FilesInv, Modes
<1>7. CASE CollectPath
  BY <1>7, PathTaken
<1>8. CASE PathsCollected
  <2>1. /\ phase = "collect" /\ i > Len(argv) /\ phase' = "load" /\ i' = 1 /\ UNCHANGED config_paths
    BY <1>8 DEF PathsCollected, GoTo
  <2>2. Collected(Len(argv) + 1) /\ i' \in Nat \ {0}
    <3>1. i = Len(argv) + 1 /\ Collected(i)
      BY <1>4, <2>1 DEF FilesInv
    <3> QED BY <2>1, <3>1
  <2>3. Loaded(1)
    <3>1. config_paths \in Seq(STRING)
      BY <2>2 DEF Collected
    <3> QED BY <3>1 DEF Loaded
  <2> QED BY <1>1, <1>3, <1>4, <2>1, <2>2, <2>3 DEF FilesInv, Modes
<1>9. CASE LoadFile
  <2>1. /\ phase = "load" /\ phase' = "load" /\ config_paths[i] \in DOMAIN files
        /\ i' = i + 1 /\ UNCHANGED config_paths
    BY <1>9 DEF LoadFile, CanApply, Path
  <2>2. i \in Nat \ {0} /\ Loaded(i) /\ Collected(Len(argv) + 1)
    BY <2>1 DEF FilesInv
  <2>3. Loaded(i + 1)
    <3>1. \A m \in DOMAIN config_paths : m < i + 1 => m < i \/ m = i
      BY <2>2 DEF Collected
    <3> QED BY <2>1, <2>2, <3>1 DEF Loaded
  <2> QED BY <1>1, <1>3, <1>4, <2>1, <2>2, <2>3 DEF FilesInv, Modes
<1>10. CASE FilesLoaded
  <2>1. /\ phase = "load" /\ i > Len(config_paths) /\ phase' = "override" /\ i' = 1
        /\ UNCHANGED config_paths
    BY <1>10 DEF FilesLoaded, GoTo
  <2>2. i \in Nat \ {0} /\ Loaded(i) /\ Collected(Len(argv) + 1)
    BY <2>1 DEF FilesInv
  <2>3. Loaded(Len(config_paths) + 1)
    <3>1. \A m \in DOMAIN config_paths : m < i
      BY <2>1, <2>2 DEF Collected
    <3> QED BY <2>2, <3>1 DEF Loaded
  <2>4. Accepted(1)
    BY <1>4, <1>5 DEF Accepted
  <2> QED BY <1>1, <1>2, <1>3, <1>4, <1>5, <2>1, <2>2, <2>3, <2>4 DEF FilesInv, Modes
<1>11. CASE SkipConfig \/ SetFlag \/ SetOption
  <2>1. /\ phase = "override" /\ phase' = "override" /\ i <= Len(argv) /\ UNCHANGED config_paths
        /\ Known(i)
        /\ i' = IF TakesValue(argv[i]) THEN i + 2 ELSE i + 1
    <3>1. CASE SkipConfig
      BY <3>1 DEF SkipConfig, Skips, Known, TakesValue
    <3>2. CASE SetFlag
      <4>1. ~TakesValue(argv[i])
        <5>1. "--config" \notin DOMAIN Options
          BY DEF Options, OptionNames
        <5> QED BY <3>2, <5>1 DEF SetFlag, Flag, Valued, TakesValue
      <4> QED BY <3>2, <4>1 DEF SetFlag, Known
    <3>3. CASE SetOption
      BY <3>3 DEF SetOption, HasValue, Known, TakesValue
    <3> QED BY <1>11, <3>1, <3>2, <3>3
  <2>2. i \in 1..Len(argv) /\ i \in OptionPositions /\ Accepted(i)
        /\ Collected(Len(argv) + 1) /\ Loaded(Len(config_paths) + 1)
    BY <1>4, <2>1 DEF FilesInv
  <2>3. i \in TakesTwo <=> TakesValue(argv[i])
    BY <2>2 DEF TakesTwo
  <2>4. i' <= Len(argv) => i' \in OptionPositions
    BY <1>5, <2>1, <2>2, <2>3
  <2>5. Accepted(i')
    <3>1. \A j \in OptionPositions : j < i' => j < i \/ j = i
      BY <1>4, <1>5, <2>1, <2>2, <2>3
    <3> QED BY <2>1, <2>2, <3>1 DEF Accepted
  <2>6. i' \in 1 .. Len(argv)+2
    BY <1>4, <2>1, <2>2
  <2> QED BY <1>1, <1>2, <1>3, <1>4, <2>1, <2>2, <2>4, <2>5, <2>6 DEF FilesInv, Modes
<1>12. CASE ArgumentsRead
  <2>1. /\ phase = "override" /\ phase' = "check" /\ i > Len(argv) /\ UNCHANGED config_paths
    BY <1>12 DEF ArgumentsRead, GoTo
  <2>2. i \in 1 .. Len(argv)+2 /\ Accepted(i) /\ Collected(Len(argv) + 1)
        /\ Loaded(Len(config_paths) + 1)
    BY <2>1 DEF FilesInv
  <2>3. Accepted(Len(argv) + 1)
    <3>1. \A j \in OptionPositions : j < i
      BY <1>4, <1>5, <2>1, <2>2
    <3> QED BY <2>2, <3>1 DEF Accepted
  <2> QED BY <1>1, <1>3, <1>4, <2>1, <2>2, <2>3 DEF FilesInv, Modes
<1>13. CASE Dispatch
  <2>1. phase = "check" /\ phase' = config.main.mode /\ UNCHANGED config_paths
    BY <1>13 DEF Dispatch, GoTo
  <2>2. phase' \in Modes
    <3>1. "main" \in Sections /\ "mode" \in Names["main"] \cap TypedNames
      BY DEF Sections, Names, TypedNames
    <3> QED BY <2>1, <3>1 DEF ConfigTyped, Typed, ValueFits
  <2> QED BY <1>1, <1>3, <1>4, <2>1, <2>2 DEF FilesInv, Modes
<1>14. CASE phase' \in Later \/ phase' = "exit"
  BY <1>1, <1>4, <1>14 DEF FilesInv, Modes, Later
<1>15. CASE ~ConfigNext /\ phase' = phase
  <2>1. UNCHANGED <<config_paths, i>>
    BY <1>15, OtherSteps
  <2> QED BY <1>1, <1>2, <1>3, <1>15, <2>1 DEF FilesInv
<1>16. PathMissing \/ LoadFails \/ ArgumentFails \/ CheckFails => phase' = "exit"
  BY DEF PathMissing, LoadFails, ArgumentFails, CheckFails, Fail
<1> QED
  BY <1>6, <1>7, <1>8, <1>9, <1>10, <1>11, <1>12, <1>13, <1>14, <1>15, <1>16, OtherSteps
     DEF ConfigNext

\* The files that are loaded are those that the second pass skips as the
\* values of --config, in their order, when no file is named like an option:
\* once every path was loaded and every option was known, the two passes
\* agree on where the --config options are.
THEOREM FilesFound == Spec => []FilesAreTheConfigs
<1>1. FilesInv => FilesAreTheConfigs
  BY FilesInvFound
<1>2. ConfigTyped /\ [Next]_vars => ConfigTyped'
  BY ConfigTypedKept
<1>3. ConfigTyped /\ FilesInv /\ [Next]_vars => FilesInv'
  BY FilesInvKept
<1> QED BY ConfigTypedInit, FilesInvInit, <1>1, <1>2, <1>3, PTL DEF Spec

-----------------------------------------------------------------------------
(* What a setting is.                                                      *)

\* The keys of a file for a field of a section, and the one that is read last.
Matching(root, s, name) ==
  {key \in DOMAIN root \cap DOMAIN Keys : Keys[key].name = name /\ s \in Keys[key].sections}

LastKey(root, s, name, key) ==
  /\ key \in Matching(root, s, name)
  /\ "devices" \in Matching(root, s, name) => key = "devices"

\* The key of a field, but that device is a second one for the devices.
KeyName(name) ==
  CASE name = "requested_diff" -> "pool_difficulty"
    [] name = "submit_nonce_be" -> "nonce_submit_be"
    [] name = "rpc_cookie_path" -> "rpc_cookie"
    [] OTHER -> name

\* A field has one key, or device and devices, of which devices comes later.
LEMMA KeysApart ==
  /\ \A key \in DOMAIN Keys : key # "device" => key = KeyName(Keys[key].name)
  /\ Keys["device"].name = "devices" /\ KeyName("devices") = "devices"
  /\ \A k \in 1..19 : KeyOrder[k] = "device" => k = 2
  /\ KeyOrder[3] = "devices"
  /\ DOMAIN Keys = {KeyOrder[k] : k \in 1..19}
<1>1. ASSUME NEW key \in DOMAIN Keys, key # "device"
      PROVE  key = KeyName(Keys[key].name)
  <2>1. PICK k \in DOMAIN KeyOrder : key = KeyOrder[k]
    BY DEF Keys
  <2>2. DOMAIN KeyOrder = 1..19
    BY DEF KeyOrder
  <2>3. key \in {"mode", "device", "devices", "threads", "blocks", "chunk_nonces", "seconds",
                 "pool", "user", "pass", "pool_difficulty", "debug_pool_header",
                 "nonce_submit_be", "rpc_url", "rpc_user", "rpc_pass", "rpc_cookie", "address",
                 "template_poll_seconds"}
    BY <2>1, <2>2 DEF KeyOrder
  <2>4. Keys[key].name = CASE key = "pool_difficulty" -> "requested_diff"
                           [] key = "nonce_submit_be" -> "submit_nonce_be"
                           [] key = "rpc_cookie" -> "rpc_cookie_path"
                           [] OTHER -> key
    BY <1>1, <2>3 DEF Keys, Shared, Field
  <2> QED BY <1>1, <2>3, <2>4 DEF KeyName
<1>2. DOMAIN KeyOrder = 1..19 /\ KeyOrder[2] = "device" /\ KeyOrder[3] = "devices"
      /\ \A k \in 1..19 : KeyOrder[k] = "device" => k = 2
  BY DEF KeyOrder
<1>3. DOMAIN Keys = {KeyOrder[k] : k \in 1..19}
  BY <1>2 DEF Keys
<1>4. Keys["device"].name = "devices"
  <2>1. "device" \in DOMAIN Keys
    BY <1>2, <1>3
  <2> QED BY <2>1 DEF Keys, Shared, Field
<1> QED BY <1>1, <1>2, <1>3, <1>4 DEF KeyName

\* A file sets a field by the last of its keys that it has.
LEMMA FileSets ==
  ASSUME NEW root, NEW c, Shaped(c), NEW s \in Sections, NEW name \in Names[s]
  PROVE  /\ Matching(root, s, name) = {} => apply_json_config(root, c)[s][name] = c[s][name]
         /\ Matching(root, s, name) # {} =>
              \E key : /\ LastKey(root, s, name, key)
                       /\ apply_json_config(root, c)[s][name] = ValueJson(Keys[key].kind, root[key])
<1> DEFINE f == Sofar(root, c)
           M == Matching(root, s, name)
           V(key) == ValueJson(Keys[key].kind, root[key])
           Untouched(k) == (\A j \in 1..k : KeyOrder[j] \notin M) /\ f[k][s][name] = c[s][name]
           By(k, j) == /\ KeyOrder[j] \in M /\ \A l \in 1..k : KeyOrder[l] \in M => l <= j
                       /\ f[k][s][name] = V(KeyOrder[j])
           S == {k \in 0..19 : Untouched(k) \/ \E j \in 1..k : By(k, j)}
<1>1. /\ f[0] = c /\ apply_json_config(root, c) = f[19]
      /\ \A k \in 1..19 : f[k] = ReadKey(root, KeyOrder[k], f[k - 1])
  BY SofarIs
<1>2. \A k \in 0..19 : Shaped(f[k])
  BY FileShapes
<1>3. DOMAIN Keys = {KeyOrder[k] : k \in 1..19}
  BY KeysApart
<1> HIDE DEF f
<1>4. 0 \in S
  BY <1>1
<1>5. ASSUME NEW k \in 0 .. 19-1, k \in S PROVE k + 1 \in S
  <2> DEFINE m == k + 1
             key == KeyOrder[m]
  <2>1. m \in 1..19 /\ m - 1 = k /\ k \in 0..19
    OBVIOUS
  <2>2. f[m] = ReadKey(root, key, f[k]) /\ Shaped(f[k]) /\ key \in DOMAIN Keys /\ Fits(Keys[key])
    BY <1>1, <1>2, <1>3, <2>1, TablesFit
  <2>3. f[m][s][name] = IF key \in M THEN V(key) ELSE f[k][s][name]
    <3>1. CASE key \in DOMAIN root
      <4> DEFINE field == Keys[key]
                 value == V(key)
      <4>1. f[m] = Set(f[k], field, value)
        BY <2>2, <3>1 DEF ReadKey
      <4>2. key \in M <=> s \in field.sections /\ name = field.name
        BY <2>2, <3>1 DEF Matching
      <4> HIDE DEF field, value, key, m, M
      <4>3. f[m][s][name] = IF s \in field.sections /\ name = field.name THEN value ELSE f[k][s][name]
        BY <2>2, <4>1, SetIs DEF field
      <4> QED BY <4>2, <4>3 DEF value
    <3>2. CASE key \notin DOMAIN root
      BY <2>2, <3>2 DEF ReadKey, Matching
    <3> QED BY <3>1, <3>2
  <2>4. \A j \in 1..m : j = m \/ j \in 1..k
    OBVIOUS
  <2> HIDE DEF M, V
  <2>5. CASE key \in M
    <3>1. By(m, m)
      BY <2>1, <2>3, <2>5
    <3>2. m \in 1..m
      BY <2>1
    <3> QED BY <2>1, <3>1, <3>2
  <2>6. CASE key \notin M /\ Untouched(k)
    <3>1. Untouched(m)
      BY <2>3, <2>4, <2>6
    <3> QED BY <2>1, <3>1
  <2>7. CASE key \notin M /\ ~Untouched(k)
    <3>1. PICK j \in 1..k : By(k, j)
      BY <1>5, <2>7
    <3>2. By(m, j)
      BY <2>3, <2>4, <2>7, <3>1
    <3>3. j \in 1..m
      BY <2>1
    <3> QED BY <2>1, <3>2, <3>3
  <2> QED BY <2>5, <2>6, <2>7
<1>6. 19 \in S
  <2>1. 0..19 \subseteq S
    <3> HIDE DEF S
    <3> QED BY <1>4, <1>5, UpTo
  <2> HIDE DEF S
  <2> QED BY <2>1
<1>7. CASE Untouched(19)
  <2>1. M = {}
    BY <1>3, <1>7 DEF Matching
  <2> QED BY <1>1, <1>7, <2>1
<1>8. CASE ~Untouched(19)
  <2>1. PICK j \in 1..19 : By(19, j)
    BY <1>6, <1>8
  <2> DEFINE key == KeyOrder[j]
  <2>2. key \in M /\ key \in DOMAIN Keys /\ Keys[key].name = name
    BY <2>1 DEF Matching
  <2>3. ASSUME "devices" \in M PROVE key = "devices"
    <3>1. name = "devices" /\ j >= 3
      <4>1. Keys["devices"].name = name /\ "devices" \in DOMAIN Keys
        BY <2>3 DEF Matching
      <4>2. Keys["devices"].name = "devices"
        BY <4>1 DEF Keys, Shared, Field
      <4>3. 3 \in 1..19 /\ KeyOrder[3] = "devices"
        BY KeysApart
      <4> QED BY <2>1, <2>3, <4>1, <4>2, <4>3
    <3>2. key # "device"
      BY <3>1, KeysApart
    <3> QED BY <2>2, <3>1, <3>2, KeysApart
  <2>4. LastKey(root, s, name, key)
    BY <2>2, <2>3 DEF LastKey
  <2>5. apply_json_config(root, c)[s][name] = V(key)
    BY <1>1, <2>1
  <2>6. M # {}
    BY <2>2
  <2> QED BY <2>4, <2>5, <2>6
<1> QED BY <1>7, <1>8

\* What the files before the m-th say of a field.
FilesSay(m, s, name, value) ==
  LET Root(f) == files[config_paths[f]]
      Has(f) == f < m /\ Matching(Root(f), s, name) # {}
  IN  \/ (\A f \in DOMAIN config_paths : ~Has(f)) /\ value = Defaults[s][name]
      \/ \E f \in DOMAIN config_paths :
           /\ Has(f) /\ \A g \in DOMAIN config_paths : Has(g) => g <= f
           /\ \E key : LastKey(Root(f), s, name, key) /\ value = ValueJson(Keys[key].kind, Root(f)[key])

\* The options of a field, and what one says.
OptionsFor(s, name) ==
  {k \in OptionPositions : /\ argv[k] \in DOMAIN Options
                           /\ Options[argv[k]].name = name /\ s \in Options[argv[k]].sections}

OptionValue(k) ==
  IF Flag(argv[k]) THEN TRUE ELSE Value(Options[argv[k]].kind, argv[k + 1])

\* What the options before the m-th argument say of it, else the files.
OptionsSay(m, s, name, value) ==
  \/ (\A k \in OptionsFor(s, name) : ~(k < m)) /\ FilesSay(Len(config_paths) + 1, s, name, value)
  \/ \E k \in OptionsFor(s, name) :
       k < m /\ (\A j \in OptionsFor(s, name) : j < m => j <= k) /\ value = OptionValue(k)

\* A setting is what was said so far, and at last all devices for none.
SettingInv(s, name) ==
  LET value == config[s][name]
      Says(v) == OptionsSay(Len(argv) + 1, s, name, v)
  IN  /\ phase \in {"help", "collect"} => value = Defaults[s][name]
      /\ phase = "load" => FilesSay(i, s, name, value)
      /\ phase = "override" => OptionsSay(i, s, name, value)
      /\ phase = "check" => Says(value)
      /\ phase \in Modes =>
           \E v : Says(v) /\ value = IF name = "devices" /\ v = <<>> THEN AllDevices ELSE v

SettingsInv == \A s \in Sections : \A name \in Names[s] : SettingInv(s, name)

\* The last of a set of places is its maximum.
LEMMA LastIsMax ==
  ASSUME NEW T \in SUBSET Int, NEW k \in T, \A j \in T : j <= k
  PROVE  Max(T) = k
<1>1. k \in T /\ \A j \in T : k >= j
  OBVIOUS
<1>2. Max(T) \in T /\ \A j \in T : Max(T) >= j
  BY <1>1 DEF Max
<1>3. Max(T) \in Int /\ k \in Int /\ Max(T) >= k /\ k >= Max(T)
  BY <1>1, <1>2
<1> HIDE DEF Max
<1> QED BY <1>3

\* What is said of a field is what was asked for.
LEMMA SaidIsAsked ==
  ASSUME argv \in Seq(STRING), config_paths \in Seq(STRING),
         NEW s \in Sections, NEW name \in Names[s],
         NEW value, OptionsSay(Len(argv) + 1, s, name, value)
  PROVE  Asked(s, name) = value
<1> DEFINE options == OptionsFor(s, name)
           keys == LastKeys(s, name)
           file == Max({nk[1] : nk \in keys})
           key == IF <<file, "devices">> \in keys THEN "devices"
                  ELSE CHOOSE k \in DOMAIN Keys : <<file, k>> \in keys
           Root(f) == files[config_paths[f]]
           FromFiles == IF keys # {} THEN ValueJson(Keys[key].kind, files[config_paths[file]][key])
                        ELSE Defaults[s][name]
<1>1. Asked(s, name) = IF options # {} THEN OptionValue(Max(options)) ELSE FromFiles
  BY Zenon DEF Asked, OptionsFor, OptionValue
<1>2. options \subseteq 1..Len(argv) /\ Len(argv) \in Nat
  BY PassesAreWalks DEF OptionsFor, IsWalk
<1>3. ASSUME NEW k \in options, \A j \in options : j <= k PROVE Max(options) = k
  <2> HIDE DEF options
  <2> QED BY <1>2, <1>3, LastIsMax
<1>4. \A k \in options : k < Len(argv) + 1
  BY <1>2
<1>5. CASE options # {}
  <2> HIDE DEF options, FromFiles
  <2>1. PICK k \in options : (\A j \in options : j <= k) /\ value = OptionValue(k)
    BY <1>4, <1>5 DEF OptionsSay, options
  <2> QED BY <1>1, <1>3, <1>5, <2>1
<1>6. CASE options = {}
  <2>1. FilesSay(Len(config_paths) + 1, s, name, value)
    BY <1>6 DEF OptionsSay
  <2> DEFINE Has(f) == Matching(Root(f), s, name) # {}
             P == DOMAIN config_paths
  <2>2. P \subseteq Int /\ \A f \in P : f < Len(config_paths) + 1
    OBVIOUS
  <2>3. \/ (\A f \in P : ~Has(f)) /\ value = Defaults[s][name]
        \/ \E f \in P :
             /\ Has(f) /\ \A g \in P : Has(g) => g <= f
             /\ \E k : LastKey(Root(f), s, name, k) /\ value = ValueJson(Keys[k].kind, Root(f)[k])
    <3> HIDE DEF P
    <3> QED BY <2>1, <2>2 DEF FilesSay, P
  <2>4. \A f \in P : \A k : <<f, k>> \in keys <=> k \in Matching(Root(f), s, name)
    BY DEF LastKeys, Matching
  <2>5. ASSUME NEW nk \in keys PROVE nk[1] \in P /\ nk = <<nk[1], nk[2]>>
    BY DEF LastKeys
  <2> DEFINE T == {nk[1] : nk \in keys}
  <2>6. \A f : f \in T <=> f \in P /\ Has(f)
    <3> TAKE f
    <3>1. ASSUME f \in T PROVE f \in P /\ Has(f)
      <4>1. PICK nk \in keys : f = nk[1]
        BY <3>1
      <4>2. f \in P /\ <<f, nk[2]>> \in keys
        BY <2>5, <4>1
      <4> QED BY <2>4, <4>2
    <3>2. ASSUME f \in P, Has(f) PROVE f \in T
      <4>1. PICK k : <<f, k>> \in keys
        BY <2>4, <3>2
      <4>2. <<f, k>>[1] = f
        OBVIOUS
      <4> QED BY <4>1, <4>2
    <3> QED BY <3>1, <3>2
  <2>7. keys = {} <=> T = {}
    OBVIOUS
  <2>8. CASE \A f \in P : ~Has(f)
    <3>1. keys = {}
      BY <2>6, <2>7, <2>8
    <3>2. value = Defaults[s][name]
      BY <2>3, <2>8
    <3> QED BY <1>1, <1>6, <3>1, <3>2, Zenon
  <2>9. CASE \E f \in P : Has(f)
    <3>1. PICK f \in P :
             /\ Has(f) /\ \A g \in P : Has(g) => g <= f
             /\ \E k : LastKey(Root(f), s, name, k) /\ value = ValueJson(Keys[k].kind, Root(f)[k])
      BY <2>3, <2>9
    <3>2. file = f
      <4>1. f \in T /\ T \subseteq Int /\ \A g \in T : g <= f
        BY <2>2, <2>6, <3>1
      <4> HIDE DEF T
      <4>2. Max(T) = f
        BY <4>1, LastIsMax
      <4> QED BY <4>2 DEF T
    <3>3. PICK k : LastKey(Root(f), s, name, k) /\ value = ValueJson(Keys[k].kind, Root(f)[k])
      BY <3>1
    <3> DEFINE M == Matching(Root(f), s, name)
    <3>4. k \in M /\ ("devices" \in M => k = "devices")
      BY <3>3 DEF LastKey
    <3>5. \A l \in M : l \in DOMAIN Keys /\ Keys[l].name = name
      BY DEF Matching
    <3>6. \A l : <<file, l>> \in keys <=> l \in M
      BY <2>4, <3>2
    <3>7. key = k
      <4>1. CASE "devices" \in M
        BY <3>4, <3>6, <4>1, Zenon
      <4>2. CASE "devices" \notin M
        <5>1. ASSUME NEW l \in M PROVE l = k
          <6>1. CASE l = "device" \/ k = "device"
            <7>1. name = "devices"
              BY <3>4, <3>5, <6>1, KeysApart
            <7>2. l \in {"device", "devices"} /\ k \in {"device", "devices"}
              BY <3>4, <3>5, <7>1, KeysApart
            <7> QED BY <3>4, <4>2, <7>2
          <6>2. CASE l # "device" /\ k # "device"
            BY <3>4, <3>5, <6>2, KeysApart
          <6> QED BY <6>1, <6>2
        <5> DEFINE choice == CHOOSE l \in DOMAIN Keys : <<file, l>> \in keys
        <5> HIDE DEF file, keys, M
        <5>2. choice = k
          BY <3>4, <3>5, <3>6, <5>1
        <5>3. key = choice
          BY <3>6, <4>2, Zenon
        <5> QED BY <5>2, <5>3
      <4> QED BY <4>1, <4>2
    <3>8. keys # {}
      BY <3>4, <3>6
    <3> HIDE DEF file, keys, key
    <3>9. FromFiles = ValueJson(Keys[k].kind, files[config_paths[f]][k])
      BY <3>2, <3>7, <3>8
    <3> HIDE DEF FromFiles
    <3> QED BY <1>1, <1>6, <3>3, <3>9
  <2> QED BY <2>8, <2>9
<1> QED BY <1>5, <1>6

\* The conclusion from it.
LEMMA SettingsAsked ==
  ASSUME ConfigTyped, FilesInv, SettingsInv
  PROVE  ArgumentsBeforeFiles
<1> SUFFICES ASSUME Started, NEW s \in Sections, NEW name \in Names[s]
             PROVE  config[s][name] = IF name = "devices" /\ Asked(s, name) = <<>> THEN AllDevices
                                      ELSE Asked(s, name)
  BY DEF ArgumentsBeforeFiles, ConfigTyped, Shaped
<1>1. argv \in Seq(STRING) /\ Collected(Len(argv) + 1)
  BY DEF FilesInv, Started, AllCollected, AllLoaded, Overridden
<1>2. config_paths \in Seq(STRING)
  BY <1>1 DEF Collected
<1>3. PICK v : /\ OptionsSay(Len(argv) + 1, s, name, v)
               /\ config[s][name] = IF name = "devices" /\ v = <<>> THEN AllDevices ELSE v
  BY DEF SettingsInv, SettingInv, Started
<1>4. Asked(s, name) = v
  BY <1>1, <1>2, <1>3, SaidIsAsked
<1> QED BY <1>3, <1>4

\* At first no setting differs from its default.
LEMMA SettingsInit == Init => SettingsInv
<1> SUFFICES ASSUME Init, NEW s \in Sections, NEW name \in Names[s] PROVE SettingInv(s, name)
  BY DEF SettingsInv
<1>1. phase = "help" /\ config = Defaults
  BY DEF Init, ConfigInit
<1> QED BY <1>1 DEF SettingInv, Modes

\* What was said stays while the arguments, files and paths do.
LEMMA SaidStays ==
  ASSUME UNCHANGED <<argv, files>>, NEW s, NEW name
  PROVE  /\ OptionsFor(s, name)' = OptionsFor(s, name)
         /\ \A k : OptionValue(k)' = OptionValue(k)
         /\ UNCHANGED config_paths =>
              \A m, v : /\ FilesSay(m, s, name, v)' <=> FilesSay(m, s, name, v)
                        /\ OptionsSay(m, s, name, v)' <=> OptionsSay(m, s, name, v)
<1>1. OptionsFor(s, name)' = OptionsFor(s, name)
  BY PassesStay DEF OptionsFor
<1>2. \A k : OptionValue(k)' = OptionValue(k)
  BY DEF OptionValue
<1>3. ASSUME UNCHANGED config_paths, NEW m, NEW v
      PROVE  FilesSay(m, s, name, v)' <=> FilesSay(m, s, name, v)
  BY <1>3 DEF FilesSay
<1>4. ASSUME UNCHANGED config_paths, NEW m, NEW v
      PROVE  OptionsSay(m, s, name, v)' <=> OptionsSay(m, s, name, v)
  BY <1>1, <1>2, <1>3, <1>4 DEF OptionsSay
<1> QED BY <1>1, <1>2, <1>3, <1>4

\* Another file may say something else.
LEMMA FileSaid ==
  ASSUME config_paths \in Seq(STRING), NEW m \in DOMAIN config_paths, NEW c, Shaped(c),
         NEW s \in Sections, NEW name \in Names[s], FilesSay(m, s, name, c[s][name])
  PROVE  FilesSay(m + 1, s, name, apply_json_config(files[config_paths[m]], c)[s][name])
<1> DEFINE Root(f) == files[config_paths[f]]
           P == DOMAIN config_paths
           Has(f) == Matching(Root(f), s, name) # {}
           value == c[s][name]
           after == apply_json_config(Root(m), c)[s][name]
           Holds(f, v) == \E key : LastKey(Root(f), s, name, key) /\ v = ValueJson(Keys[key].kind, Root(f)[key])
           Said(n, v) == \/ (\A f \in P : ~(f < n /\ Has(f))) /\ v = Defaults[s][name]
                         \/ \E f \in P : /\ f < n /\ Has(f)
                                         /\ \A g \in P : g < n /\ Has(g) => g <= f
                                         /\ Holds(f, v)
<1>1. \A n, v : FilesSay(n, s, name, v) <=> Said(n, v)
  BY Zenon DEF FilesSay
<1>2. /\ ~Has(m) => after = value
      /\ Has(m) => Holds(m, after)
  BY FileSets
<1>3. m \in Int /\ m \in P /\ \A f \in P : f \in Int
  OBVIOUS
<1> HIDE DEF P, Has, Holds, value, after
<1>4. Said(m, value)
  BY <1>1 DEF value
<1>5. \A f \in P : f < m + 1 <=> f < m \/ f = m
  BY <1>3
<1>6. CASE Has(m)
  <2>1. /\ m < m + 1 /\ Holds(m, after) /\ \A g \in P : g < m + 1 => g <= m
    BY <1>2, <1>3, <1>6
  <2> QED BY <1>1, <1>3, <1>6, <2>1 DEF after
<1>7. CASE ~Has(m)
  <2>1. Said(m + 1, value)
    BY <1>4, <1>5, <1>7
  <2> QED BY <1>1, <1>2, <1>7, <2>1 DEF after
<1> QED BY <1>6, <1>7

\* So may another option.
LEMMA OptionSaid ==
  ASSUME argv \in Seq(STRING), NEW m \in OptionPositions, NEW next \in Int, m < next,
         \A k \in OptionPositions : k < next => k <= m,
         NEW s, NEW name, NEW before, NEW after, OptionsSay(m, s, name, before),
         after = IF m \in OptionsFor(s, name) THEN OptionValue(m) ELSE before
  PROVE  OptionsSay(next, s, name, after)
<1> DEFINE T == OptionsFor(s, name)
<1>1. OptionPositions \subseteq Int
  <2>1. IsWalk(OptionPositions, Len(argv), TakesTwo) /\ 1..Len(argv) \subseteq Int
    BY PassesAreWalks
  <2> QED BY <2>1 DEF IsWalk
<1>2. T \subseteq OptionPositions
  BY DEF OptionsFor
<1>3. \A k \in T : k < next <=> k < m \/ k = m
  <2> HIDE DEF T
  <2>1. m \in Int /\ \A k \in T : k \in Int /\ (k < next => k <= m)
    BY <1>1, <1>2
  <2> QED BY <2>1
<1> DEFINE F(v) == FilesSay(Len(config_paths) + 1, s, name, v)
           Said(n, v) == \/ (\A k \in T : ~(k < n)) /\ F(v)
                         \/ \E k \in T : k < n /\ (\A j \in T : j < n => j <= k) /\ v = OptionValue(k)
<1>4. \A n, v : OptionsSay(n, s, name, v) <=> Said(n, v)
  BY Zenon DEF OptionsSay
<1> HIDE DEF F, T
<1>5. Said(m, before) /\ after = IF m \in T THEN OptionValue(m) ELSE before
  BY <1>4 DEF T
<1>6. CASE m \in T
  <2>1. \A j \in T : j < next => j <= m
    BY <1>1, <1>2
  <2> QED BY <1>4, <1>5, <1>6, <2>1
<1>7. CASE m \notin T
  <2>1. Said(next, before)
    BY <1>3, <1>5, <1>7
  <2> QED BY <1>4, <1>5, <1>7, <2>1
<1> QED BY <1>6, <1>7

\* Every step keeps it.
LEMMA SettingsKept ==
  ASSUME SettingsInv, FilesInv, ConfigTyped, [Next]_vars
  PROVE  SettingsInv'
<1> SUFFICES ASSUME NEW s \in Sections, NEW name \in Names[s] PROVE SettingInv(s, name)'
  BY DEF SettingsInv
<1> DEFINE value == config[s][name]
           n == Len(argv)
<1>1. UNCHANGED <<argv, files, device_count>>
  <2>1. CASE ConfigNext
    BY <2>1, ConfigSteps
  <2> QED BY <2>1, OtherSteps
<1>2. /\ OptionsFor(s, name)' = OptionsFor(s, name)
      /\ \A k : OptionValue(k)' = OptionValue(k)
      /\ UNCHANGED config_paths =>
           \A m, v : /\ FilesSay(m, s, name, v)' <=> FilesSay(m, s, name, v)
                     /\ OptionsSay(m, s, name, v)' <=> OptionsSay(m, s, name, v)
  BY <1>1, SaidStays
<1>3. SettingInv(s, name) /\ argv \in Seq(STRING) /\ n \in Nat /\ Shaped(config)
  BY DEF SettingsInv, FilesInv, ConfigTyped
<1>4. /\ OptionPositions \subseteq 1..n
      /\ \A k \in OptionPositions : k \in TakesTwo => k + 1 \notin OptionPositions
  <2>1. IsWalk(OptionPositions, n, TakesTwo)
    BY <1>3, PassesAreWalks
  <2>2. OptionPositions \subseteq 1..n
    BY <2>1 DEF IsWalk
  <2> QED BY <1>3, <2>1, <2>2, WalkSteps
<1>5. CASE ShowHelp
  <2>1. phase = "help" /\ phase' \in {"exit", "collect"} /\ UNCHANGED config
    BY <1>5 DEF ShowHelp, GoTo
  <2> QED BY <1>3, <2>1 DEF SettingInv, Modes
<1>6. CASE CollectPath
  <2>1. phase = "collect" /\ phase' = "collect" /\ UNCHANGED config
    BY <1>6 DEF CollectPath
  <2> QED BY <1>3, <2>1 DEF SettingInv, Modes
<1>7. CASE PathsCollected
  <2>1. phase = "collect" /\ phase' = "load" /\ i' = 1 /\ UNCHANGED <<config, config_paths>>
    BY <1>7 DEF PathsCollected, GoTo
  <2>2. value = Defaults[s][name] /\ config_paths \in Seq(STRING)
    <3>1. Collected(i)
      BY <2>1 DEF FilesInv
    <3> QED BY <1>3, <2>1, <3>1 DEF SettingInv, Collected
  <2>3. FilesSay(1, s, name, value)
    BY <2>2 DEF FilesSay
  <2> QED BY <1>2, <2>1, <2>3 DEF SettingInv, Modes
<1>8. CASE LoadFile
  <2>1. /\ phase = "load" /\ phase' = "load" /\ i <= Len(config_paths) /\ i' = i + 1
        /\ config' = apply_json_config(files[config_paths[i]], config) /\ UNCHANGED config_paths
    BY <1>8 DEF LoadFile, Path
  <2>2. config_paths \in Seq(STRING) /\ i \in DOMAIN config_paths
    <3>1. Collected(n + 1) /\ i \in Nat \ {0}
      BY <2>1 DEF FilesInv, AllCollected
    <3> QED BY <2>1, <3>1 DEF Collected
  <2>3. FilesSay(i, s, name, value)
    BY <1>3, <2>1 DEF SettingInv
  <2>4. FilesSay(i + 1, s, name, config'[s][name])
    BY <1>3, <2>1, <2>2, <2>3, FileSaid
  <2> QED BY <1>2, <2>1, <2>4 DEF SettingInv, Modes
<1>9. CASE FilesLoaded
  <2>1. /\ phase = "load" /\ i > Len(config_paths) /\ phase' = "override" /\ i' = 1
        /\ UNCHANGED <<config, config_paths>>
    BY <1>9 DEF FilesLoaded, GoTo
  <2>2. FilesSay(i, s, name, value) /\ config_paths \in Seq(STRING) /\ i \in Nat
    BY <1>3, <2>1 DEF SettingInv, FilesInv, AllCollected, Collected
  <2>3. FilesSay(Len(config_paths) + 1, s, name, value)
    <3>1. \A f \in DOMAIN config_paths : f < i <=> f < Len(config_paths) + 1
      BY <2>1, <2>2
    <3> QED BY <2>2, <3>1 DEF FilesSay
  <2>4. OptionsSay(1, s, name, value)
    <3>1. \A k \in OptionsFor(s, name) : ~(k < 1)
      BY <1>3, <1>4 DEF OptionsFor
    <3> QED BY <2>3, <3>1 DEF OptionsSay
  <2> QED BY <1>2, <2>1, <2>4 DEF SettingInv, Modes
<1>10. CASE SkipConfig \/ SetFlag \/ SetOption
  <2>1. /\ phase = "override" /\ phase' = "override" /\ i <= n /\ UNCHANGED config_paths
    BY <1>10 DEF SkipConfig, SetFlag, SetOption
  <2>2. i \in OptionPositions /\ i \in 1..n /\ OptionsSay(i, s, name, value)
    BY <1>3, <1>4, <2>1 DEF FilesInv, SettingInv
  <2>3. /\ i' = i + 1 \/ (i' = i + 2 /\ i \in TakesTwo)
        /\ config'[s][name] = IF i \in OptionsFor(s, name) THEN OptionValue(i) ELSE value
    <3>1. CASE SkipConfig
      <4>1. argv[i] = "--config" /\ i' = i + 2 /\ UNCHANGED config
        BY <3>1 DEF SkipConfig, Skips
      <4>2. "--config" \notin DOMAIN Options
        BY DEF Options, OptionNames
      <4> QED BY <2>2, <4>1, <4>2 DEF OptionsFor, TakesTwo, TakesValue
    <3>2. CASE SetFlag \/ SetOption
      <4> DEFINE field == Options[argv[i]]
      <4>1. /\ argv[i] \in DOMAIN Options
            /\ i' = i + 1 \/ (i' = i + 2 /\ i \in TakesTwo)
            /\ config' = Set(config, field, OptionValue(i))
        <5>1. CASE SetFlag
          BY <5>1 DEF SetFlag, Flag, OptionValue
        <5>2. CASE SetOption
          BY <2>2, <5>2 DEF SetOption, Flag, Valued, OptionValue, TakesTwo, TakesValue
        <5> QED BY <3>2, <5>1, <5>2
      <4>2. Fits(field)
        BY <4>1, TablesFit
      <4>3. i \in OptionsFor(s, name) <=> s \in field.sections /\ name = field.name
        BY <2>2, <4>1 DEF OptionsFor
      <4> HIDE DEF field
      <4>4. config'[s][name] = IF s \in field.sections /\ name = field.name THEN OptionValue(i)
                               ELSE value
        BY <1>3, <4>1, <4>2, SetIs
      <4> QED BY <4>1, <4>3, <4>4
    <3> QED BY <1>10, <3>1, <3>2
  <2>4. i' \in Int /\ i < i' /\ \A k \in OptionPositions : k < i' => k <= i
    BY <1>3, <1>4, <2>2, <2>3
  <2>5. OptionsSay(i', s, name, config'[s][name])
    <3> DEFINE next == i'
               after == config'[s][name]
    <3> HIDE DEF next, after
    <3> QED BY <1>3, <2>2, <2>3, <2>4, OptionSaid DEF next, after
  <2> QED BY <1>2, <2>1, <2>5 DEF SettingInv, Modes
<1>11. CASE ArgumentsRead
  <2>1. /\ phase = "override" /\ phase' = "check" /\ i > n /\ UNCHANGED <<config, config_paths>>
    BY <1>11 DEF ArgumentsRead, GoTo
  <2>2. OptionsSay(i, s, name, value) /\ i \in Int
    BY <1>3, <2>1 DEF SettingInv, FilesInv
  <2>3. OptionsSay(n + 1, s, name, value)
    <3>1. \A k \in OptionsFor(s, name) : k < i <=> k < n + 1
      BY <1>3, <1>4, <2>1, <2>2 DEF OptionsFor
    <3> QED BY <2>2, <3>1 DEF OptionsSay
  <2> QED BY <1>1, <1>2, <2>1, <2>3 DEF SettingInv, Modes
<1>12. CASE Dispatch
  <2>1. /\ phase = "check" /\ UNCHANGED config_paths /\ phase' = config.main.mode
        /\ config.benchmark.devices # <<>> => config' = config
        /\ config.benchmark.devices = <<>> =>
             \A t \in Sections : \A m \in Names[t] :
               config'[t][m] = IF m = "devices" THEN AllDevices ELSE config[t][m]
    <3>1. device_count \in Nat
      BY NonceSpaceAssumption DEF ConfigTyped
    <3> QED BY <1>3, <1>12, <3>1, DispatchIs DEF Dispatch
  <2>2. OptionsSay(n + 1, s, name, value)
    BY <1>3, <2>1 DEF SettingInv
  <2>3. name = "devices" => value = config.benchmark.devices
    <3>1. "devices" \notin Names["main"] /\ Sections = Modes \cup {"main"}
      BY DEF Names, Sections, Modes
    <3>2. "benchmark" \in Modes /\ "devices" \in SharedNames
      BY DEF Modes, SharedNames
    <3> QED BY <1>3, <3>1, <3>2 DEF Shaped
  <2>4. config'[s][name] = IF name = "devices" /\ value = <<>> THEN AllDevices ELSE value
    BY <2>1, <2>3
  <2>5. AllDevices' = AllDevices
    BY <1>1 DEF AllDevices
  <2>6. phase' \in Modes
    <3>1. "main" \in Sections /\ "mode" \in Names["main"] \cap TypedNames
      BY DEF Sections, Names, TypedNames
    <3> QED BY <2>1, <3>1 DEF ConfigTyped, Typed, ValueFits
  <2> QED BY <1>1, <1>2, <2>1, <2>2, <2>4, <2>5, <2>6 DEF SettingInv, Modes
<1>13. CASE phase' \in Later \/ phase' = "exit"
  BY <1>13 DEF SettingInv, Modes, Later
<1>14. CASE ~ConfigNext /\ phase' = phase
  <2>1. UNCHANGED <<config_paths, i, config>>
    BY <1>14, OtherSteps
  <2>2. AllDevices' = AllDevices
    BY <1>1 DEF AllDevices
  <2> QED BY <1>1, <1>2, <1>3, <1>14, <2>1, <2>2 DEF SettingInv
<1>15. PathMissing \/ LoadFails \/ ArgumentFails \/ CheckFails => phase' = "exit"
  BY DEF PathMissing, LoadFails, ArgumentFails, CheckFails, Fail
<1> QED
  BY <1>5, <1>6, <1>7, <1>8, <1>9, <1>10, <1>11, <1>12, <1>13, <1>14, <1>15, OtherSteps
     DEF ConfigNext

\* Every setting that a mode starts with is what its last option says, else
\* what the last file that has it says, by its last key, else the default;
\* and a mode without devices gets them all.
THEOREM SettingsKeepOrder == Spec => []ArgumentsBeforeFiles
<1>1. ConfigTyped /\ FilesInv /\ SettingsInv => ArgumentsBeforeFiles
  BY SettingsAsked
<1>2. ConfigTyped /\ [Next]_vars => ConfigTyped'
  BY ConfigTypedKept
<1>3. ConfigTyped /\ FilesInv /\ [Next]_vars => FilesInv'
  BY FilesInvKept
<1>4. ConfigTyped /\ FilesInv /\ SettingsInv /\ [Next]_vars => SettingsInv'
  BY SettingsKept
<1> QED BY ConfigTypedInit, FilesInvInit, SettingsInit, <1>1, <1>2, <1>3, <1>4, PTL DEF Spec

-----------------------------------------------------------------------------
(* What a benchmark counts.                                                *)

\* The kernel counts every nonce of the chunk once: those of a round's first
\* half, and those a stride further on, which are the others.
LEMMA CountedAll ==
  ASSUME NEW total \in Nat, NEW stride \in Nat \ {0}
  PROVE  KernelCount(total, stride) = total
<1> DEFINE Chunk == 0 .. total-1
           n == 2 * stride
           A == {k \in Chunk : k % n < stride}
           B == {k \in A : k + stride < total}
           C == Chunk \ A
           f == [k \in B |-> k + stride]
<1>1. KernelCount(total, stride) = Cardinality(A) + Cardinality(B)
  BY DEF KernelCount, SecondInChunk
<1>2. IsFiniteSet(Chunk) /\ Cardinality(Chunk) = total
  <2>1. IsFiniteSet(Chunk) /\ Cardinality(Chunk) = IF 0 > total - 1 THEN 0 ELSE (total - 1) - 0 + 1
    BY FS_Interval
  <2> QED BY <2>1
<1>3. n \in Nat \ {0} /\ n = stride + stride
  OBVIOUS
<1>4. ASSUME NEW k \in B PROVE k + stride \in C
  <2> DEFINE q == k \div n
             r == k % n
             m == k + stride
  <2>1. k \in Nat /\ k + stride < total /\ r < stride
    BY <1>4
  <2>2. k = n * q + r /\ q \in Nat /\ r \in 0 .. n-1
    BY <1>3, <2>1, Divided
  <2> HIDE DEF q, r
  <2>3. m = n * q + (r + stride) /\ r + stride \in 0 .. n-1 /\ m \in Nat
    BY <1>3, <2>1, <2>2
  <2> HIDE DEF m
  <2>4. m % n = r + stride
    <3> DEFINE s == r + stride
    <3>1. m = n * q + s /\ s \in 0 .. n-1 /\ q \in Int
      BY <2>2, <2>3
    <3> HIDE DEF s, n
    <3>2. m \in Nat /\ n \in Nat \ {0}
      BY <1>3, <2>3
    <3>3. m % n = s
      BY <3>1, <3>2, Remainder
    <3> QED BY <3>3 DEF s
  <2>5. m \in Chunk /\ ~(m % n < stride)
    BY <2>1, <2>2, <2>3, <2>4 DEF m
  <2> QED BY <2>5 DEF m
<1>5. A \in SUBSET Chunk /\ B \in SUBSET A
  OBVIOUS
<1>6. ASSUME NEW k \in C PROVE \E l \in B : l + stride = k
  <2> DEFINE q == k \div n
             r == k % n
             l == k - stride
  <2>1. k \in Nat /\ k < total /\ ~(r < stride)
    OBVIOUS
  <2>2. k = n * q + r /\ q \in Nat /\ r \in 0 .. n-1
    BY <1>3, <2>1, Divided
  <2> HIDE DEF q, r
  <2>3. /\ l = n * q + (r - stride) /\ r - stride \in 0 .. n-1 /\ r - stride < stride
        /\ n * q \in Nat /\ l \in Nat
    <3>1. n * q \in Nat
      BY <1>3, <2>2
    <3> QED BY <1>3, <2>1, <2>2, <3>1
  <2> HIDE DEF l
  <2>4. l % n = r - stride
    <3> DEFINE s == r - stride
    <3>1. l = n * q + s /\ s \in 0 .. n-1 /\ q \in Int
      BY <2>2, <2>3
    <3> HIDE DEF s, n
    <3>2. l \in Nat /\ n \in Nat \ {0}
      BY <1>3, <2>3
    <3>3. l % n = s
      BY <3>1, <3>2, Remainder
    <3> QED BY <3>3 DEF s
  <2>5. l + stride = k
    BY <2>1 DEF l
  <2>6. l \in B
    BY <2>1, <2>3, <2>4, <2>5
  <2> QED BY <2>5, <2>6
<1>7. f \in Bijection(B, C)
  <2>1. \A k \in B : k \in Int
    OBVIOUS
  <2>2. f \in [B -> C]
    <3> HIDE DEF B, C
    <3> QED BY <1>4
  <2>3. ASSUME NEW k \in B, NEW l \in B, f[k] = f[l] PROVE k = l
    <3>1. k \in Int /\ l \in Int
      BY <2>1
    <3>2. k + stride = l + stride
      <4> HIDE DEF B
      <4> QED BY <2>3
    <3> QED BY <3>1, <3>2
  <2>4. \A k \in C : \E l \in B : f[l] = k
    <3> HIDE DEF B, C
    <3> QED BY <1>6
  <2> HIDE DEF B, C, f
  <2> QED BY <2>2, <2>3, <2>4 DEF Bijection, Injection, Surjection, IsInjective
<1>8. IsFiniteSet(C) /\ Cardinality(C) = total - Cardinality(Chunk \cap A)
  <2> HIDE DEF Chunk, A
  <2> QED BY <1>2, FS_Difference
<1>9. Chunk \cap A = A
  BY <1>5
<1>10. Cardinality(B) = Cardinality(C)
  <2> HIDE DEF B, C, f
  <2>1. ExistsBijection(B, C)
    BY <1>7 DEF ExistsBijection
  <2>2. IsFiniteSet(B)
    <3>1. B \subseteq Chunk
      BY <1>5
    <3> HIDE DEF Chunk
    <3> QED BY <1>2, <3>1, FS_Subset
  <2> QED BY <2>1, <2>2, FS_Bijection
<1>11. IsFiniteSet(A) /\ Cardinality(A) \in Nat /\ Cardinality(C) \in Nat
  <2>1. IsFiniteSet(A)
    <3> HIDE DEF Chunk, A
    <3> QED BY <1>2, <1>5, FS_Subset
  <2> HIDE DEF A, B, C
  <2> QED BY <1>8, <2>1, FS_CardinalityType
<1>12. Cardinality(C) = total - Cardinality(A)
  <2> HIDE DEF A, C, Chunk
  <2> QED BY <1>8, <1>9
<1> HIDE DEF A, B, C, Chunk, f, n
<1> QED BY <1>1, <1>10, <1>11, <1>12

\* A device that can be launched has a number, and some threads.
LEMMA LaunchFits ==
  ASSUME NEW cfg, NEW t, t \in DOMAIN cfg.devices,
         DeviceList(cfg.devices), cfg.blocks \in Int, cfg.threads \in Int
  PROVE  /\ Blocks(cfg, t) \in Nat
         /\ Blocks(cfg, t) > 0 => cfg.devices[t] \in Nat /\ cfg.threads \in Nat \ {0}
<1> DEFINE d == cfg.devices[t]
           a == IF cfg.blocks > 0 THEN cfg.blocks ELSE Gpus[d].sms * BlocksPerSm
           m == Gpus[d].max_grid
           refused == d \notin DOMAIN Gpus \/ cfg.threads \notin 1..MaxThreads \/ cfg.threads % Warp # 0
<1>1. Blocks(cfg, t) = IF refused THEN 0 ELSE Min({a, m})
  BY DEF Blocks, resolve_device_and_launch
<1>2. CASE refused
  BY <1>1, <1>2
<1>3. CASE ~refused
  <2>1. Gpus[d].sms \in Nat /\ m \in Nat /\ BlocksPerSm \in Nat /\ d \in Nat /\ MaxThreads \in Nat
    BY <1>3, LaunchAssumption
  <2>2. a \in Nat
    <3>1. Gpus[d].sms * BlocksPerSm \in Nat
      BY <2>1
    <3> QED BY <3>1
  <2>3. Blocks(cfg, t) = Min({a, m}) /\ cfg.threads \in Nat \ {0}
    BY <1>1, <1>3, <2>1
  <2> HIDE DEF a, m, d
  <2>4. Min({a, m}) \in Nat
    BY <2>1, <2>2, MinOfTwo
  <2> QED BY <2>1, <2>3, <2>4 DEF d
<1> QED BY <1>2, <1>3

\* What a step of the program is to the benchmark: a start, a step of a
\* thread, the end, or something before it or after it.
LEMMA BenchSteps ==
  ASSUME ConfigTyped, [Next]_vars
  PROVE  \/ RunBenchmark \/ Measure \/ EndBenchmark
         \/ UNCHANGED <<benchVars, phase, exit_code, config>>
         \/ /\ phase \notin {"measuring", "exit"} /\ phase' # "measuring"
            /\ UNCHANGED benchVars
<1>1. CASE Configure
  <2>1. CASE Dispatch
    <3>1. phase = "check" /\ phase' = config.main.mode
      BY <2>1 DEF Dispatch, GoTo
    <3>2. config.main.mode \in Modes
      <4>1. "main" \in Sections /\ "mode" \in Names["main"] \cap TypedNames
        BY DEF Sections, Names, TypedNames
      <4>2. ValueFits("mode", config["main"]["mode"])
        BY <4>1 DEF ConfigTyped, Typed
      <4> QED BY <4>2 DEF ValueFits
    <3> QED BY <1>1, <3>1, <3>2 DEF Configure, Modes
  <2>2. CASE ~Dispatch
    <3>1. phase \in Parsing /\ phase' \in Parsing \cup {"exit"}
      BY <1>1, <2>2, ConfigSteps DEF Configure
    <3> QED BY <1>1, <3>1 DEF Configure, Parsing
  <2> QED BY <2>1, <2>2
<1>2. CASE StartMode
  BY <1>2, StartSteps DEF Starting
<1>3. CASE Running \/ UNCHANGED vars
  BY <1>3 DEF Running, vars, configVars
<1> QED BY <1>1, <1>2, <1>3 DEF Next

\* Numbers from 1 to the count of each thread, paired with the thread.
Pairs(threads, count) == {p \in threads \X Nat : p[2] \in 1..count[p[1]]}

\* The numbers from a + 1 to b, paired with a thread, are b - a pairs.
LEMMA PairsCount ==
  ASSUME NEW t, NEW a \in Nat, NEW b \in Nat, a <= b
  PROVE  /\ IsFiniteSet({t} \X (a + 1 .. b))
         /\ Cardinality({t} \X (a + 1 .. b)) = b - a
<1>1. IsFiniteSet({t}) /\ Cardinality({t}) = 1
  BY FS_Singleton
<1>2. IsFiniteSet(a + 1 .. b) /\ Cardinality(a + 1 .. b) = b - a
  <2>1. /\ IsFiniteSet(a + 1 .. b)
        /\ Cardinality(a + 1 .. b) = IF a + 1 > b THEN 0 ELSE b - (a + 1) + 1
    BY FS_Interval
  <2> QED BY <2>1
<1>3. /\ IsFiniteSet({t} \X (a + 1 .. b))
      /\ Cardinality({t} \X (a + 1 .. b)) = Cardinality({t}) * Cardinality(a + 1 .. b)
  BY <1>1, <1>2, FS_Product
<1> QED BY <1>1, <1>2, <1>3

\* The pairs of a thread whose count goes from c[t] up to d[t] are so many
\* more, those of the others being the same.
LEMMA PairsGrow ==
  ASSUME NEW T, NEW t \in T, NEW c, NEW d, NEW n \in Nat, c[t] \in Nat, d[t] = c[t] + n,
         \A u \in T \ {t} : d[u] = c[u], IsFiniteSet(Pairs(T, c))
  PROVE  /\ IsFiniteSet(Pairs(T, d))
         /\ Cardinality(Pairs(T, d)) = Cardinality(Pairs(T, c)) + n
<1> DEFINE New == {t} \X (c[t] + 1 .. d[t])
           Old == Pairs(T, c)
<1>1. d[t] \in Nat /\ c[t] <= d[t]
  OBVIOUS
<1>2. IsFiniteSet(New) /\ Cardinality(New) = n
  <2>1. IsFiniteSet(New) /\ Cardinality(New) = d[t] - c[t]
    BY <1>1, PairsCount
  <2> HIDE DEF New
  <2> QED BY <1>1, <2>1
<1>3. Pairs(T, d) = Old \cup New
  <2>1. ASSUME NEW u \in T, NEW k \in Nat
        PROVE  k \in 1..d[u] <=> k \in 1..c[u] \/ (u = t /\ k \in c[t] + 1 .. d[t])
    BY <1>1
  <2> QED BY <1>1, <2>1 DEF Pairs
<1>4. Old \cap New = {}
  BY <1>1 DEF Pairs
<1> HIDE DEF New, Old
<1>5. IsFiniteSet(Old) /\ Cardinality(Old) \in Nat
  BY FS_CardinalityType DEF Old
<1>6. /\ IsFiniteSet(Old \cup New)
      /\ Cardinality(Old \cup New) = Cardinality(Old) + Cardinality(New) - Cardinality(Old \cap New)
  BY <1>2, <1>5, FS_Union
<1>7. Cardinality(Old \cap New) = 0
  BY <1>4, FS_EmptySet
<1> QED BY <1>2, <1>3, <1>5, <1>6, <1>7 DEF Old

\* A thread that leaves takes its pairs with it.
LEMMA PairsShrink ==
  ASSUME NEW T, NEW t \in T, NEW c, c[t] \in Nat, IsFiniteSet(Pairs(T, c))
  PROVE  /\ IsFiniteSet(Pairs(T \ {t}, c))
         /\ Cardinality(Pairs(T \ {t}, c)) = Cardinality(Pairs(T, c)) - c[t]
<1> DEFINE Gone == {t} \X (0 + 1 .. c[t])
           All == Pairs(T, c)
<1>1. IsFiniteSet(Gone) /\ Cardinality(Gone) = c[t]
  <2>1. IsFiniteSet(Gone) /\ Cardinality(Gone) = c[t] - 0
    <3>1. 0 \in Nat /\ 0 <= c[t]
      OBVIOUS
    <3> QED BY <3>1, PairsCount, Zenon
  <2> HIDE DEF Gone
  <2> QED BY <2>1
<1>2. Pairs(T \ {t}, c) = All \ Gone
  BY DEF Pairs
<1>3. All \cap Gone = Gone
  BY DEF Pairs
<1> HIDE DEF Gone, All
<1>4. IsFiniteSet(All)
  BY DEF All
<1>5. IsFiniteSet(All \ Gone) /\ Cardinality(All \ Gone) = Cardinality(All) - Cardinality(All \cap Gone)
  BY <1>4, FS_Difference
<1> QED BY <1>1, <1>2, <1>3, <1>5 DEF All

\* The pairs depend on the counts of their threads only.
LEMMA PairsSame ==
  ASSUME NEW T, NEW c, NEW d, \A u \in T : c[u] = d[u]
  PROVE  Pairs(T, c) = Pairs(T, d)
BY DEF Pairs

\* The nonces that threads have counted and not yet handed over: with the
\* total, all that were hashed, but for failures unseen.
Unmerged == {t \in DOMAIN bpc : bpc[t] # "end"}
Pending == Pairs(Unmerged, d_counter)

SumInv ==
  /\ IsFiniteSet(Pending)
  /\ global_total_nonces + Cardinality(Pending) <= hashed
  /\ unseen = {} => global_total_nonces + Cardinality(Pending) = hashed

BenchPhases == {"start", "launch", "merge", "end"}

ThreadTypes ==
  /\ init_errors \in Nat /\ global_total_nonces \in Nat /\ hashed \in Nat
  /\ DOMAIN d_counter = DOMAIN bpc /\ DOMAIN launches = DOMAIN bpc
  /\ DOMAIN partition_scanned = DOMAIN bpc
  /\ \A t \in DOMAIN bpc :
       d_counter[t] \in Nat /\ launches[t] \in Nat /\ bpc[t] \in BenchPhases

\* A thread that launches has a place in a partition that is not empty, and
\* one that is done has launched, and hashed unless a failure went unseen, or
\* a device has failed.
Launched(t) == launches[t] > 0 /\ (t \in unseen \/ d_counter[t] > 0)

ThreadInv(cfg, t) ==
  /\ bpc[t] \in {"launch", "merge"} => Blocks(cfg, t) > 0
  /\ bpc[t] \in {"start", "launch"} => partition_scanned[t] \in Nat
  /\ bpc[t] = "start" => partition_scanned[t] = 0 /\ d_counter[t] = 0
  /\ bpc[t] = "launch" => partition_scanned[t] < BenchPartition(cfg, t).size
  /\ bpc[t] = "merge" => Launched(t)
  /\ bpc[t] = "end" => Launched(t) \/ init_errors > 0

BenchInv ==
  /\ ThreadTypes
  /\ phase \notin {"measuring", "exit"} => DOMAIN bpc = {}
  /\ phase = "measuring" =>
       /\ DOMAIN bpc = DOMAIN config.benchmark.devices
       /\ \A t \in DOMAIN bpc : ThreadInv(config.benchmark, t)
  /\ SumInv
  /\ SuccessIsComplete

\* Nothing is counted at first.
LEMMA BenchInvInit == Init => BenchInv
<1> SUFFICES ASSUME Init PROVE BenchInv
  OBVIOUS
<1>1. /\ bpc = <<>> /\ partition_scanned = <<>> /\ launches = <<>> /\ d_counter = <<>>
      /\ init_errors = 0 /\ global_total_nonces = 0 /\ hashed = 0 /\ phase = "help"
  BY DEF Init, BenchInit, ConfigInit
<1>2. DOMAIN <<>> = {}
  OBVIOUS
<1>3. Pending = {}
  <2>1. Unmerged = {}
    BY <1>1, <1>2 DEF Unmerged
  <2> QED BY <2>1 DEF Pending, Pairs
<1>4. IsFiniteSet(Pending) /\ Cardinality(Pending) = 0
  BY <1>3, FS_EmptySet
<1>5. ThreadTypes
  BY <1>1, <1>2 DEF ThreadTypes
<1>6. SuccessIsComplete
  BY <1>1 DEF SuccessIsComplete
<1> QED BY <1>1, <1>2, <1>4, <1>5, <1>6 DEF BenchInv, SumInv

\* A thread of the benchmark, and what its configuration is.
LEMMA ThreadFits ==
  ASSUME ConfigTyped, NEW t \in DOMAIN config.benchmark.devices
  PROVE  LET cfg == config.benchmark
         IN  /\ Blocks(cfg, t) \in Nat
             /\ cfg.chunk_nonces \in Nat
             /\ Blocks(cfg, t) > 0 => cfg.threads \in Nat \ {0}
             /\ Blocks(cfg, t) > 0 => BenchPartition(cfg, t).size \in Nat \ {0}
<1> DEFINE cfg == config.benchmark
<1>1. "benchmark" \in Sections /\ SharedNames \subseteq Names["benchmark"] \cap TypedNames
  BY DEF Sections, Names, SharedNames, TypedNames
<1>2. \A name \in SharedNames : ValueFits(name, cfg[name])
  BY <1>1 DEF ConfigTyped, Typed
<1>3. /\ DeviceList(cfg.devices) /\ cfg.blocks \in Int /\ cfg.threads \in Int
      /\ cfg.chunk_nonces \in Nat
  BY <1>2 DEF ValueFits, SharedNames
<1>4. t \in DOMAIN cfg.devices
  OBVIOUS
<1> HIDE DEF cfg
<1>5. /\ Blocks(cfg, t) \in Nat
      /\ Blocks(cfg, t) > 0 => cfg.devices[t] \in Nat /\ cfg.threads \in Nat \ {0}
  BY <1>3, <1>4, LaunchFits
<1>6. Blocks(cfg, t) > 0 => BenchPartition(cfg, t).size \in Nat \ {0}
  <2>1. Len(cfg.devices) \in Nat \ {0} /\ Len(cfg.devices) <= NonceSpace
    BY <1>3, <1>4 DEF DeviceList
  <2> QED BY <1>5, <2>1, RangeNotEmpty DEF BenchPartition
<1> QED BY <1>3, <1>5, <1>6 DEF cfg

\* The size of a launch of a thread that can launch: some nonces, and no more
\* than are left of its partition.
LEMMA ToBenchFits ==
  ASSUME ConfigTyped, NEW t \in DOMAIN config.benchmark.devices,
         Blocks(config.benchmark, t) > 0, partition_scanned[t] \in Nat,
         partition_scanned[t] < BenchPartition(config.benchmark, t).size
  PROVE  LET n == ToBench(config.benchmark, t)
         IN  /\ n \in Nat \ {0}
             /\ n <= BenchPartition(config.benchmark, t).size - partition_scanned[t]
             /\ KernelCount(n, Blocks(config.benchmark, t) * config.benchmark.threads) = n
<1> DEFINE cfg == config.benchmark
           b == Blocks(cfg, t)
           stride == b * cfg.threads
           least == BenchChunk(cfg, t)
           left == BenchPartition(cfg, t).size - partition_scanned[t]
           n == ToBench(cfg, t)
<1>1. /\ b \in Nat \ {0} /\ cfg.threads \in Nat \ {0} /\ cfg.chunk_nonces \in Nat
      /\ BenchPartition(cfg, t).size \in Nat
  BY ThreadFits
<1>2. left \in Nat \ {0}
  BY <1>1
<1>3. stride \in Nat \ {0}
  BY <1>1
<1>4. least \in Nat \ {0}
  <2> DEFINE wish == IF cfg.chunk_nonces = 0 THEN stride * BenchPerThread ELSE cfg.chunk_nonces
  <2>1. least = Max({stride, wish})
    BY DEF BenchChunk
  <2>2. wish \in Int
    <3>1. stride * BenchPerThread \in Int
      <4> HIDE DEF stride
      <4> QED BY <1>3, BenchAssumption
    <3> HIDE DEF stride
    <3> QED BY <1>1, <3>1
  <2> HIDE DEF stride, wish, least
  <2>3. Max({stride, wish}) \in Int /\ Max({stride, wish}) >= stride
    BY <1>3, <2>2, MaxOfTwo
  <2> QED BY <1>3, <2>1, <2>3
<1>5. n = Min({least, left})
  BY DEF ToBench
<1> HIDE DEF least, left, n, stride, b, cfg
<1>6. n \in Nat \ {0} /\ n <= left
  <2>1. Min({least, left}) = IF least <= left THEN least ELSE left
    BY <1>2, <1>4, MinOfTwo
  <2> QED BY <1>2, <1>4, <1>5, <2>1
<1>7. KernelCount(n, stride) = n
  BY <1>3, <1>6, CountedAll
<1> QED BY <1>6, <1>7 DEF n, left, stride, b, cfg

\* A start of the benchmark begins with nothing counted.
LEMMA BenchBegins ==
  ASSUME BenchInv, RunBenchmark
  PROVE  BenchInv'
<1> DEFINE D == DOMAIN config.benchmark.devices
<1>1. /\ phase = "benchmark" /\ phase' = "measuring" /\ config' = config
      /\ bpc' = [t \in D |-> "start"] /\ partition_scanned' = [t \in D |-> 0]
      /\ launches' = [t \in D |-> 0] /\ d_counter' = [t \in D |-> 0]
      /\ UNCHANGED <<init_errors, global_total_nonces, hashed, unseen>>
  BY DEF RunBenchmark, SpawnThreads, argVars
<1> HIDE DEF D
<1>2. /\ DOMAIN bpc' = D /\ DOMAIN partition_scanned' = D /\ DOMAIN launches' = D
      /\ DOMAIN d_counter' = D
      /\ \A t \in D : /\ bpc'[t] = "start" /\ partition_scanned'[t] = 0 /\ launches'[t] = 0
                      /\ d_counter'[t] = 0
  BY <1>1
<1>3. ThreadTypes'
  BY <1>1, <1>2 DEF ThreadTypes, BenchInv, BenchPhases
<1>4. \A t \in D : ThreadInv(config.benchmark, t)'
  BY <1>2 DEF ThreadInv
<1>5. Pending' = {}
  <2>1. Unmerged' \subseteq D
    BY <1>2 DEF Unmerged
  <2> QED BY <1>2, <2>1 DEF Pending, Pairs
<1>6. IsFiniteSet(Pending') /\ Cardinality(Pending') = 0
  BY <1>5, FS_EmptySet
<1>7. SumInv'
  <2>1. Pending = {}
    BY <1>1 DEF BenchInv, Pending, Unmerged, Pairs
  <2>2. Cardinality(Pending) = 0
    BY <2>1, FS_EmptySet
  <2> QED BY <1>1, <1>6, <2>2 DEF BenchInv, SumInv
<1>8. SuccessIsComplete'
  BY <1>1 DEF SuccessIsComplete
<1>9. D = DOMAIN (config.benchmark.devices)'
  BY <1>1 DEF D
<1> QED BY <1>1, <1>2, <1>3, <1>4, <1>7, <1>8, <1>9 DEF BenchInv

\* A step of a thread keeps what its own invariant says of it, and the sum.
LEMMA BenchMeasures ==
  ASSUME ConfigTyped, BenchInv, Measure
  PROVE  BenchInv'
<1> DEFINE cfg == config.benchmark
           T == Unmerged
<1>1. PICK t \in DOMAIN bpc : BenchThread(cfg, t, cfg.seconds = NaN)
  BY DEF Measure
<1>2. phase = "measuring" /\ phase' = "measuring" /\ config' = config /\ exit_code' = exit_code
  BY DEF Measure, configVars
<1>3. /\ DOMAIN bpc = DOMAIN cfg.devices /\ \A u \in DOMAIN bpc : ThreadInv(cfg, u)
      /\ ThreadTypes /\ IsFiniteSet(Pending) /\ Cardinality(Pending) \in Nat
      /\ global_total_nonces + Cardinality(Pending) <= hashed
      /\ unseen = {} => global_total_nonces + Cardinality(Pending) = hashed
  BY <1>2, FS_CardinalityType DEF BenchInv, SumInv
<1>4. SuccessIsComplete'
  BY <1>2 DEF SuccessIsComplete
<1> SUFFICES /\ ThreadTypes' /\ DOMAIN bpc' = DOMAIN bpc
             /\ \A u \in DOMAIN bpc : ThreadInv(cfg, u)'
             /\ SumInv'
  BY <1>2, <1>3, <1>4 DEF BenchInv
<1>5. t \in DOMAIN cfg.devices
  BY <1>3
<1>6. /\ Blocks(cfg, t) \in Nat
      /\ Blocks(cfg, t) > 0 => BenchPartition(cfg, t).size \in Nat \ {0}
  BY <1>5, ThreadFits
<1>7. BenchPartition(cfg, t)' = BenchPartition(cfg, t) /\ Blocks(cfg, t)' = Blocks(cfg, t)
  BY <1>2 DEF BenchPartition, Blocks
<1>8. ASSUME NEW u \in DOMAIN bpc, u # t,
             bpc'[u] = bpc[u], partition_scanned'[u] = partition_scanned[u],
             launches'[u] = launches[u], d_counter'[u] = d_counter[u], unseen \subseteq unseen',
             init_errors' \in Nat, init_errors' >= init_errors
      PROVE  ThreadInv(cfg, u)'
  <2>1. BenchPartition(cfg, u)' = BenchPartition(cfg, u) /\ Blocks(cfg, u)' = Blocks(cfg, u)
    BY <1>2 DEF BenchPartition, Blocks
  <2> QED BY <1>3, <1>8, <2>1 DEF ThreadInv, ThreadTypes, Launched
<1>9. ThreadInv(cfg, t)
  BY <1>3
<1> HIDE DEF cfg
<1>10. ASSUME bpc[t] # "end", NEW next \in BenchPhases, next # "end",
              bpc' = [bpc EXCEPT ![t] = next]
       PROVE  T' = T
  BY <1>10 DEF Unmerged
<1>11. ASSUME bpc[t] # "end", bpc' = [bpc EXCEPT ![t] = "end"]
       PROVE  T' = T \ {t}
  BY <1>11 DEF Unmerged
<1>12. CASE BenchStartFails(cfg, t)
  <2>1. /\ bpc[t] = "start" /\ bpc' = [bpc EXCEPT ![t] = "end"] /\ init_errors' = init_errors + 1
        /\ UNCHANGED <<partition_scanned, launches, d_counter, global_total_nonces, hashed, unseen>>
    BY <1>12 DEF BenchStartFails, Becomes, ErrorsUp
  <2>2. ThreadTypes' /\ DOMAIN bpc' = DOMAIN bpc
    BY <1>3, <2>1 DEF ThreadTypes, BenchPhases
  <2>3. ThreadInv(cfg, t)' /\ d_counter[t] = 0
    BY <1>3, <1>9, <2>1 DEF ThreadInv, ThreadTypes
  <2>4. \A u \in DOMAIN bpc : ThreadInv(cfg, u)'
    BY <1>3, <1>8, <2>1, <2>3 DEF ThreadTypes
  <2>5. /\ IsFiniteSet(Pairs(T \ {t}, d_counter))
        /\ Cardinality(Pairs(T \ {t}, d_counter)) = Cardinality(Pairs(T, d_counter)) - d_counter[t]
    <3>1. t \in T /\ d_counter[t] \in Nat /\ IsFiniteSet(Pairs(T, d_counter))
      BY <1>3, <2>1 DEF Unmerged, Pending, ThreadTypes
    <3> HIDE DEF T
    <3> QED BY <3>1, PairsShrink
  <2>6. Pending' = Pairs(T \ {t}, d_counter)
    BY <1>11, <2>1 DEF Pending
  <2>7. d_counter[t] \in Nat /\ hashed \in Nat /\ global_total_nonces \in Nat
    BY <1>3 DEF ThreadTypes
  <2> QED BY <1>3, <2>1, <2>2, <2>3, <2>4, <2>5, <2>6, <2>7 DEF Pending, SumInv
<1>13. CASE BenchStarts(cfg, t)
  <2>1. /\ bpc[t] = "start" /\ Blocks(cfg, t) > 0
        /\ bpc' = [bpc EXCEPT ![t] = IF BenchPartition(cfg, t).size = 0 THEN "merge" ELSE "launch"]
        /\ UNCHANGED <<partition_scanned, launches, d_counter, init_errors, global_total_nonces,
                       hashed, unseen>>
    BY <1>13 DEF BenchStarts, Becomes
  <2>2. bpc' = [bpc EXCEPT ![t] = "launch"]
    BY <1>6, <2>1
  <2>3. ThreadTypes' /\ DOMAIN bpc' = DOMAIN bpc
    BY <1>3, <2>1, <2>2 DEF ThreadTypes, BenchPhases
  <2>4. ThreadInv(cfg, t)'
    BY <1>3, <1>6, <1>7, <1>9, <2>1, <2>2 DEF ThreadInv, ThreadTypes
  <2>5. \A u \in DOMAIN bpc : ThreadInv(cfg, u)'
    BY <1>3, <1>8, <2>1, <2>2, <2>4 DEF ThreadTypes
  <2>6. Pending' = Pending
    <3>1. T' = T
      BY <1>10, <2>1, <2>2 DEF BenchPhases
    <3> QED BY <2>1, <3>1 DEF Pending
  <2> QED BY <1>3, <2>1, <2>3, <2>5, <2>6 DEF SumInv
<1>14. ASSUME NEW runs \in BOOLEAN, NEW again \in BOOLEAN, BenchLaunch(cfg, t, runs, again)
       PROVE  /\ ThreadTypes' /\ DOMAIN bpc' = DOMAIN bpc
              /\ \A u \in DOMAIN bpc : ThreadInv(cfg, u)'
              /\ SumInv'
  <2> DEFINE n == ToBench(cfg, t)
             count == KernelCount(n, Blocks(cfg, t) * cfg.threads)
             scanned == partition_scanned[t] + n
             size == BenchPartition(cfg, t).size
             next == IF again THEN "launch" ELSE "merge"
             more == IF runs THEN count ELSE 0
             hash == IF runs THEN n ELSE 0
             place == IF scanned >= size THEN 0 ELSE scanned
  <2>1. /\ bpc[t] = "launch" /\ bpc' = [bpc EXCEPT ![t] = next]
        /\ d_counter' = [d_counter EXCEPT ![t] = @ + more]
        /\ hashed' = hashed + hash
        /\ unseen' = unseen \cup IF runs THEN {} ELSE {t}
        /\ launches' = [launches EXCEPT ![t] = @ + 1]
        /\ partition_scanned' = [partition_scanned EXCEPT ![t] = place]
        /\ UNCHANGED <<init_errors, global_total_nonces>>
    BY <1>14 DEF BenchLaunch, Becomes
  <2>2. /\ Blocks(cfg, t) > 0 /\ partition_scanned[t] \in Nat /\ partition_scanned[t] < size
        /\ size \in Nat \ {0}
    BY <1>6, <1>9, <2>1 DEF ThreadInv
  <2>3. n \in Nat \ {0} /\ n <= size - partition_scanned[t] /\ count = n
    BY <1>5, <2>2, ToBenchFits DEF cfg
  <2>4. place \in Nat /\ place < size
    <3> HIDE DEF n, size
    <3> QED BY <2>2, <2>3
  <2>5. next \in {"launch", "merge"} /\ more \in Nat /\ hash \in Nat /\ more = hash /\ (runs => more > 0)
    <3> HIDE DEF n, count
    <3> QED BY <2>3
  <2>6. BenchPartition(cfg, t)'.size = size
    BY <1>7
  <2> HIDE DEF n, count, scanned, size, next, more, hash, place
  <2>7. ThreadTypes' /\ DOMAIN bpc' = DOMAIN bpc
    <3>1. \A u \in DOMAIN bpc : bpc'[u] \in BenchPhases
      BY <1>3, <2>1, <2>5 DEF ThreadTypes, BenchPhases
    <3> QED BY <1>3, <2>1, <2>5, <3>1 DEF ThreadTypes
  <2>8. ThreadInv(cfg, t)'
    <3>1. bpc'[t] = next /\ launches'[t] = launches[t] + 1 /\ partition_scanned'[t] = place
          /\ launches[t] \in Nat /\ d_counter'[t] = d_counter[t] + more /\ d_counter[t] \in Nat
      BY <1>3, <2>1 DEF ThreadTypes
    <3>2. Launched(t)'
      BY <2>1, <2>5, <3>1 DEF Launched
    <3> QED BY <1>7, <2>2, <2>4, <2>5, <2>6, <3>1, <3>2 DEF ThreadInv
  <2>9. \A u \in DOMAIN bpc : ThreadInv(cfg, u)'
    BY <1>3, <1>8, <2>1, <2>8 DEF ThreadTypes
  <2>10. /\ IsFiniteSet(Pairs(T, d_counter'))
         /\ Cardinality(Pairs(T, d_counter')) = Cardinality(Pairs(T, d_counter)) + more
    <3>1. t \in T /\ d_counter[t] \in Nat /\ IsFiniteSet(Pairs(T, d_counter))
          /\ T \subseteq DOMAIN bpc
      BY <1>3, <2>1 DEF Unmerged, Pending, ThreadTypes
    <3>2. d_counter'[t] = d_counter[t] + more /\ \A u \in T \ {t} : d_counter'[u] = d_counter[u]
      BY <1>3, <2>1, <3>1 DEF ThreadTypes
    <3> HIDE DEF T
    <3> QED BY <2>5, <3>1, <3>2, PairsGrow
  <2>11. Pending' = Pairs(T, d_counter')
    <3>1. T' = T
      BY <1>10, <2>1, <2>5 DEF BenchPhases
    <3> QED BY <3>1 DEF Pending
  <2>12. hashed \in Nat /\ global_total_nonces \in Nat
    BY <1>3 DEF ThreadTypes
  <2>13. unseen' = {} => unseen = {}
    BY <2>1
  <2> QED BY <1>3, <2>1, <2>5, <2>7, <2>9, <2>10, <2>11, <2>12, <2>13 DEF Pending, SumInv
<1>15. ASSUME NEW copied \in BOOLEAN, BenchMerge(cfg, t, copied)
       PROVE  /\ ThreadTypes' /\ DOMAIN bpc' = DOMAIN bpc
              /\ \A u \in DOMAIN bpc : ThreadInv(cfg, u)'
              /\ SumInv'
  <2>1. /\ bpc[t] = "merge" /\ bpc' = [bpc EXCEPT ![t] = "end"]
        /\ global_total_nonces' = global_total_nonces + IF copied THEN d_counter[t] ELSE 0
        /\ unseen' = unseen \cup IF copied THEN {} ELSE {t}
        /\ UNCHANGED <<partition_scanned, launches, d_counter, init_errors, hashed>>
    BY <1>15 DEF BenchMerge, Becomes
  <2>2. d_counter[t] \in Nat /\ hashed \in Nat /\ global_total_nonces \in Nat
    BY <1>3 DEF ThreadTypes
  <2>3. ThreadTypes' /\ DOMAIN bpc' = DOMAIN bpc
    <3>1. \A u \in DOMAIN bpc : bpc'[u] \in BenchPhases
      BY <1>3, <2>1 DEF ThreadTypes, BenchPhases
    <3> QED BY <1>3, <2>1, <2>2, <3>1 DEF ThreadTypes
  <2>4. ThreadInv(cfg, t)'
    BY <1>3, <1>9, <2>1 DEF ThreadInv, ThreadTypes, Launched
  <2>5. \A u \in DOMAIN bpc : ThreadInv(cfg, u)'
    BY <1>3, <1>8, <2>1, <2>4 DEF ThreadTypes
  <2>6. /\ IsFiniteSet(Pairs(T \ {t}, d_counter))
        /\ Cardinality(Pairs(T \ {t}, d_counter)) = Cardinality(Pairs(T, d_counter)) - d_counter[t]
    <3>1. t \in T /\ d_counter[t] \in Nat /\ IsFiniteSet(Pairs(T, d_counter))
      BY <1>3, <2>1 DEF Unmerged, Pending, ThreadTypes
    <3> HIDE DEF T
    <3> QED BY <3>1, PairsShrink
  <2>7. Pending' = Pairs(T \ {t}, d_counter)
    BY <1>11, <2>1 DEF Pending
  <2>8. unseen' = {} => unseen = {} /\ copied
    BY <2>1
  <2> QED BY <1>3, <2>1, <2>2, <2>3, <2>5, <2>6, <2>7, <2>8 DEF Pending, SumInv
<1> QED BY <1>1, <1>12, <1>13, <1>14, <1>15 DEF BenchThread

\* Every step keeps the invariant.
LEMMA BenchInvKept ==
  ASSUME ConfigTyped, BenchInv, [Next]_vars
  PROVE  BenchInv'
<1>1. CASE RunBenchmark
  BY <1>1, BenchBegins
<1>2. CASE Measure
  BY <1>2, BenchMeasures
<1>3. CASE EndBenchmark
  <2>1. /\ phase = "measuring" /\ BenchJoined /\ phase' = "exit" /\ exit_code' = BenchCode
        /\ UNCHANGED benchVars
    BY <1>3 DEF EndBenchmark, Leave
  <2>2. ThreadTypes' /\ Pending' = Pending
    BY <2>1 DEF ThreadTypes, Pending, Unmerged, benchVars, BenchInv
  <2>3. SuccessIsComplete'
    <3>1. ASSUME exit_code' = 0, NEW t \in DOMAIN bpc
          PROVE  launches[t] > 0 /\ (t \in unseen \/ d_counter[t] > 0)
      <4>1. init_errors = 0
        BY <2>1, <3>1 DEF BenchCode, BenchInv, ThreadTypes
      <4>2. bpc[t] = "end" /\ ThreadInv(config.benchmark, t)
        BY <2>1 DEF BenchJoined, BenchInv
      <4> QED BY <4>1, <4>2 DEF ThreadInv, Launched
    <3>2. unseen = {} => global_total_nonces = hashed
      <4>1. Pending = {}
        BY <2>1 DEF BenchJoined, Pending, Unmerged, Pairs
      <4>2. Cardinality(Pending) = 0
        BY <4>1, FS_EmptySet
      <4> QED BY <4>2 DEF BenchInv, SumInv, ThreadTypes
    <3> QED BY <2>1, <3>1, <3>2 DEF SuccessIsComplete, benchVars
  <2> QED BY <2>1, <2>2, <2>3 DEF BenchInv, SumInv, benchVars
<1>4. CASE UNCHANGED <<benchVars, phase, exit_code, config>>
  <2>1. ThreadTypes' /\ Pending' = Pending /\ SuccessIsComplete'
    BY <1>4 DEF ThreadTypes, Pending, Unmerged, benchVars, BenchInv, SuccessIsComplete
  <2>2. \A t : ThreadInv(config.benchmark, t)' <=> ThreadInv(config.benchmark, t)
    BY <1>4 DEF ThreadInv, Launched, Blocks, BenchPartition, benchVars
  <2> QED BY <1>4, <2>1, <2>2 DEF BenchInv, SumInv, benchVars
<1>5. CASE /\ phase \notin {"measuring", "exit"} /\ phase' # "measuring"
           /\ UNCHANGED benchVars
  <2>1. ThreadTypes' /\ Pending' = Pending /\ DOMAIN bpc = {}
    BY <1>5 DEF ThreadTypes, Pending, Unmerged, benchVars, BenchInv
  <2>2. Cardinality(Pending) = 0
    <3>1. Pending = {}
      BY <2>1 DEF Pending, Unmerged, Pairs
    <3> QED BY <3>1, FS_EmptySet
  <2>3. unseen = {} => global_total_nonces = hashed
    BY <2>2 DEF BenchInv, SumInv, ThreadTypes
  <2>4. SuccessIsComplete'
    BY <1>5, <2>1, <2>3 DEF SuccessIsComplete, benchVars
  <2> QED BY <1>5, <2>1, <2>4 DEF BenchInv, SumInv, benchVars
<1> QED BY <1>1, <1>2, <1>3, <1>4, <1>5, BenchSteps

\* A benchmark never reports a hash that no kernel computed, whichever
\* launches and copies fail unseen and however the chunks are cut.
THEOREM TotalsHashed == Spec => []TotalsWereHashed
<1>1. ASSUME BenchInv PROVE TotalsWereHashed
  <2>1. Cardinality(Pending) \in Nat
    BY <1>1, FS_CardinalityType DEF BenchInv, SumInv
  <2> QED BY <1>1, <2>1 DEF BenchInv, SumInv, ThreadTypes, TotalsWereHashed
<1>2. ConfigTyped /\ [Next]_vars => ConfigTyped'
  BY ConfigTypedKept
<1>3. ConfigTyped /\ BenchInv /\ [Next]_vars => BenchInv'
  BY BenchInvKept
<1> QED BY ConfigTypedInit, BenchInvInit, <1>1, <1>2, <1>3, PTL DEF Spec

\* A program that ends well and has started threads has launched on the
\* device of each one, and each has hashed unless a failure of its own went
\* unseen: every failure at a start is counted, every thread that starts has
\* a nonce to launch for, and a kernel that runs counts its whole chunk.
THEOREM SuccessComplete == Spec => []SuccessIsComplete
<1>1. BenchInv => SuccessIsComplete
  BY DEF BenchInv
<1>2. ConfigTyped /\ [Next]_vars => ConfigTyped'
  BY ConfigTypedKept
<1>3. ConfigTyped /\ BenchInv /\ [Next]_vars => BenchInv'
  BY BenchInvKept
<1> QED BY ConfigTypedInit, BenchInvInit, <1>1, <1>2, <1>3, PTL DEF Spec

-----------------------------------------------------------------------------
(* What an address pays, and which addresses the decoder takes.            *)

\* An interval from 0 on, without its ends.
LEMMA Digits ==
  ASSUME NEW n \in Nat
  PROVE  0 .. n - 1 = Below(n)
BY DEF Below

\* An address is in one of the two forms.
Base58Text(text) == text.form = "base58" /\ text.digits \in Seq(Below(58) \cup {Bad})
Bech32Text(text) == text.form = "bech32" /\ text.values \in Seq(Below(32) \cup {Bad})

\* Every text is an address in one of the two forms.
LEMMA AddressIs ==
  ASSUME NEW text
  PROVE  Base58Text(AddressOf(text)) \/ Bech32Text(AddressOf(text))
<1> DEFINE a == AddressOf(text)
<1>1. 0 .. Radix - 1 = Below(58)
  BY Digits DEF Radix
<1>2. 0..31 = Below(32)
  <2>1. 0..(32 - 1) = Below(32)
    BY Digits
  <2>2. 32 - 1 = 31
    OBVIOUS
  <2> QED BY <2>1, <2>2
<1>3. CASE text \in DOMAIN AddressText
  <2>1. a = AddressText[text]
    BY <1>3 DEF AddressOf
  <2>2. \/ a.form = "base58" /\ a.digits \in Seq(0 .. Radix - 1 \cup {Bad})
        \/ a.form = "bech32" /\ a.values \in Seq(0..31 \cup {Bad})
    BY Zenon, <1>3, <2>1, AddressAssumption
  <2> HIDE DEF a
  <2> QED BY <1>1, <1>2, <2>2 DEF Base58Text, Bech32Text, a
<1>4. CASE text \notin DOMAIN AddressText
  <2>1. a = [form |-> "base58", digits |-> <<Bad>>]
    BY <1>4 DEF AddressOf
  <2>2. <<Bad>> \in Seq(Below(58) \cup {Bad})
    OBVIOUS
  <2> HIDE DEF a
  <2> QED BY <2>1, <2>2 DEF Base58Text, a
<1> QED BY <1>3, <1>4

\* What is assumed of the sizes.
LEMMA Sizes ==
  /\ Bad \notin Below(58) /\ HashSize \in Nat /\ CheckSize \in Nat
  /\ V0Sizes \subseteq Nat /\ V1Sizes \subseteq Nat
<1>1. 0 .. Radix - 1 = Below(58)
  BY Digits DEF Radix
<1> QED BY <1>1, AddressAssumption

\* A script is decoded well.
LEMMA ScriptIs ==
  ASSUME NEW bytes
  PROVE  Script(bytes).script = bytes /\ Script(bytes).ok /\ ~Script(bytes).throws
BY DEF Script

\* The script of a base58 address pays what the text spells.
LEMMA PaysBase58 ==
  ASSUME NEW text, Base58Text(text), NEW d, d = decode_bitcoin_address_script(text), d.ok
  PROVE  Pays(d.script, text)
<1> DEFINE P == decode_base58check(text.digits)
           s == d.script
           T == Tail(P)
           v == Head(P)
<1>1. d = IF P = <<>> THEN Failed("base58check") ELSE build_script_from_version(T, v)
  BY DEF decode_bitcoin_address_script, Base58Text
<1>2. P # <<>> /\ d = build_script_from_version(T, v)
  <2> HIDE DEF P
  <2> QED BY <1>1 DEF Failed
<1>3. P \in Seq(Below(256)) /\ Spells(text.digits, P \o Checksum(P))
  <2>1. text.digits \in Seq(Below(58) \cup {Bad})
    BY DEF Base58Text
  <2> HIDE DEF P
  <2>2. P = decode_base58check(text.digits)
    BY DEF P
  <2> QED BY <1>2, <2>1, <2>2, Sizes, DecodedSpells
<1> HIDE DEF P
<1>4. v \in Below(256) /\ T \in Seq(Below(256)) /\ P = <<v>> \o T
  BY <1>2, <1>3
<1> HIDE DEF v, T
<1>5. Len(T) = HashSize
  BY <1>2 DEF build_script_from_version, Failed
<1>6. \/ v \in {0, 111} /\ s = <<118, 169, HashSize>> \o T \o <<136, 172>>
      \/ v \in {5, 196} /\ s = <<169, HashSize>> \o T \o <<135>>
  <2> DEFINE A == <<118, 169, HashSize>> \o T \o <<136, 172>>
             B == <<169, HashSize>> \o T \o <<135>>
  <2>1. d = IF v \in {0, 111} THEN Script(A) ELSE IF v \in {5, 196} THEN Script(B) ELSE Failed("version")
    BY <1>2, <1>5 DEF build_script_from_version
  <2> HIDE DEF A, B
  <2>2. \/ v \in {0, 111} /\ d = Script(A)
        \/ v \in {5, 196} /\ d = Script(B)
    BY <2>1 DEF Failed
  <2>3. Script(A).script = A /\ Script(B).script = B
    BY DEF Script
  <2> QED BY <2>2, <2>3 DEF A, B
<1> HIDE DEF s
<1>7. CASE v \in {0, 111} /\ s = <<118, 169, HashSize>> \o T \o <<136, 172>>
  <2>1. s[1] = 118 /\ SubSeq(s, 3 + 1, 3 + HashSize) = T
    BY <1>4, <1>5, <1>7, Sizes
  <2> DEFINE version == <<v, 118>>
  <2>2. version \in {0, 111} \X {118} \cup {5, 196} \X {169}
    BY <1>7
  <2>3. <<version[1]>> \o SubSeq(s, 3 + 1, 3 + HashSize) = P /\ s[1] = version[2] /\ version[2] = 118
    BY <1>4, <2>1
  <2> HIDE DEF version
  <2>4. Pays(s, text)
    <3>1. Spells(text.digits, P \o Checksum(P)) /\ text.form = "base58"
      BY <1>3 DEF Base58Text
    <3> DEFINE at(u) == IF u[2] = 118 THEN 3 ELSE 2
               payload(u) == <<u[1]>> \o SubSeq(s, at(u) + 1, at(u) + HashSize)
    <3>2. at(version) = 3 /\ payload(version) = P
      BY <2>3
    <3>3. s[1] = version[2] /\ Spells(text.digits, payload(version) \o Checksum(payload(version)))
      BY <2>3, <3>1, <3>2
    <3> HIDE DEF at, payload
    <3>4. \E u \in {0, 111} \X {118} \cup {5, 196} \X {169} :
            s[1] = u[2] /\ Spells(text.digits, payload(u) \o Checksum(payload(u)))
      BY <2>2, <3>3
    <3> QED BY Zenon, <3>1, <3>4 DEF Pays, at, payload
  <2> QED BY <2>4 DEF s
<1>8. CASE v \in {5, 196} /\ s = <<169, HashSize>> \o T \o <<135>>
  <2>1. s[1] = 169 /\ SubSeq(s, 2 + 1, 2 + HashSize) = T
    BY <1>4, <1>5, <1>8, Sizes
  <2> DEFINE version == <<v, 169>>
  <2>2. version \in {0, 111} \X {118} \cup {5, 196} \X {169}
    BY <1>8
  <2>3. version[1] = v /\ version[2] = 169
    OBVIOUS
  <2>4. <<version[1]>> \o SubSeq(s, 2 + 1, 2 + HashSize) = P
    BY <1>4, <2>1, <2>3
  <2>5. s[1] = version[2] /\ version[2] # 118
    BY <2>1, <2>3
  <2> HIDE DEF version
  <2> QED BY <1>3, <2>2, <2>4, <2>5 DEF Pays, Base58Text, s
<1> QED BY <1>6, <1>7, <1>8

\* The values that make the program.
Middle(values) == SubSeq(values, 2, Len(values) - 6)

\* The values of the program are values.
LEMMA MiddleIs ==
  ASSUME NEW values \in Seq(Below(32) \cup {Bad}), \A k \in DOMAIN values : values[k] # Bad
  PROVE  values \in Seq(Below(32)) /\ Middle(values) \in Seq(Below(32))
<1>1. values \in Seq(Below(32))
  <2>1. \A k \in 1..Len(values) : values[k] \in Below(32)
    <3> TAKE k \in 1..Len(values)
    <3>1. k \in DOMAIN values
      OBVIOUS
    <3>2. values[k] \in Below(32) \cup {Bad}
      BY ElementOfSeq
    <3> QED BY <3>1, <3>2
  <2> QED BY <2>1
<1>2. Middle(values) \in Seq(Below(32))
  BY <1>1 DEF Middle
<1> QED BY <1>1, <1>2

\* The script of a bech32 address pays the program of its values.
LEMMA PaysBech32 ==
  ASSUME NEW text, Bech32Text(text), NEW d, d = decode_bitcoin_address_script(text), d.ok
  PROVE  Pays(d.script, text)
<1> DEFINE values == text.values
           v == values[1]
           c == convert_bits(Middle(values))
           b == c.bytes
           s == d.script
<1>1. d = decode_bech32(text) /\ values \in Seq(Below(32) \cup {Bad})
  BY DEF decode_bitcoin_address_script, Bech32Text
<1>2. /\ \A k \in DOMAIN values : values[k] # Bad
      /\ c.ok /\ d = Script(<<IF v = 0 THEN 0 ELSE 80 + v, Len(b)>> \o b)
  BY <1>1 DEF decode_bech32, Failed, Throws, Middle
<1>3. Middle(values) \in Seq(Below(32))
  BY <1>1, <1>2, MiddleIs
<1>4. b \in Seq(Below(256)) /\ Packs(Middle(values), b)
  <2> HIDE DEF values
  <2> QED BY <1>2, <1>3, ConvertBits
<1>5. s = <<IF v = 0 THEN 0 ELSE 80 + v, Len(b)>> \o b
  <2> DEFINE r == <<IF v = 0 THEN 0 ELSE 80 + v, Len(b)>> \o b
  <2>1. d = Script(r)
    BY <1>2
  <2> HIDE DEF r
  <2>2. d.script = r
    BY <2>1, ScriptIs
  <2> QED BY <2>2 DEF r
<1> DEFINE o == IF v = 0 THEN 0 ELSE 80 + v
<1> HIDE DEF b, s, o
<1>6. s[1] = o /\ s[2] = Len(b) /\ SubSeq(s, 3, Len(s)) = b
  BY <1>4, <1>5 DEF o
<1> QED BY <1>4, <1>6 DEF Pays, Bech32Text, Middle, s, o

\* A script that is decoded pays the address.
LEMMA DecodedPays ==
  ASSUME NEW text, NEW d, d = decode_bitcoin_address_script(AddressOf(text)), d.ok
  PROVE  Pays(d.script, AddressOf(text))
BY AddressIs, PaysBase58, PaysBech32

\* A standard bech32 address is decoded.
LEMMA Bech32IsDecoded ==
  ASSUME NEW text, Bech32Text(text), Standard(text)
  PROVE  decode_bitcoin_address_script(text).ok /\ ~decode_bitcoin_address_script(text).throws
<1> DEFINE values == text.values
           v == values[1]
           n == Len(values)
           c == convert_bits(Middle(values))
           d == decode_bitcoin_address_script(text)
<1>1. PICK size \in V0Sizes \cup V1Sizes :
        LET pad == 5 * Len(Middle(values)) - 8 * size
        IN  /\ ~text.mixed /\ n > 6
            /\ \A k \in DOMAIN values : values[k] # Bad
            /\ pad \in 0..4 /\ Number(Middle(values), 32) % 2 ^ pad = 0
            /\ \/ v = 0 /\ text.sum = "bech32" /\ size \in V0Sizes
               \/ v \in 1..16 /\ text.sum = "bech32m" /\ size \in V1Sizes
  BY DEF Standard, Bech32Text, Middle
<1>2. values \in Seq(Below(32)) /\ Middle(values) \in Seq(Below(32)) /\ size \in Nat
  BY <1>1, MiddleIs, Sizes DEF Bech32Text
<1>3. c.ok /\ Len(c.bytes) = size
  <2> DEFINE m == Middle(values)
             pad == 5 * Len(m) - 8 * size
  <2>1. pad \in 0..4 /\ Number(m, 32) % 2 ^ pad = 0
    BY <1>1
  <2>2. c = convert_bits(m) /\ m \in Seq(Below(32))
    BY <1>2
  <2> HIDE DEF m, c
  <2> QED BY <1>2, <2>1, <2>2, ConvertBits
<1>4. d = Script(<<IF v = 0 THEN 0 ELSE 80 + v, Len(c.bytes)>> \o c.bytes)
  <2>1. d = decode_bech32(text)
    BY DEF decode_bitcoin_address_script, Bech32Text
  <2>2. ~text.mixed /\ ~(n < 6) /\ n # 6 /\ ~(\E k \in DOMAIN values : values[k] = Bad)
    <3>1. n \in Nat /\ n > 6 /\ ~text.mixed
      BY <1>1, <1>2
    <3>2. \A k \in DOMAIN values : values[k] # Bad
      BY <1>1
    <3> HIDE DEF n
    <3> QED BY <3>1, <3>2
  <2>3. \/ v = 0 /\ text.sum = "bech32" /\ size \in V0Sizes
        \/ v \in Nat /\ v # 0 /\ v <= 16 /\ text.sum = "bech32m" /\ size \in V1Sizes
    <3>1. \/ v = 0 /\ text.sum = "bech32" /\ size \in V0Sizes
          \/ v \in 1..16 /\ text.sum = "bech32m" /\ size \in V1Sizes
      BY <1>1
    <3> HIDE DEF v
    <3>2. v \in 1..16 => v \in Nat /\ v # 0 /\ v <= 16
      OBVIOUS
    <3> QED BY Zenon, <3>1, <3>2
  <2> DEFINE sum == text.sum
             r == <<IF v = 0 THEN 0 ELSE 80 + v, Len(c.bytes)>> \o c.bytes
  <2> HIDE DEF v
  <2>4. /\ ~(v > 16) /\ sum # "none"
        /\ v = 0 => sum = "bech32" /\ Len(c.bytes) \in V0Sizes
        /\ v # 0 => sum = "bech32m" /\ Len(c.bytes) \in V1Sizes
    BY <1>3, <2>3
  <2>5. decode_bech32(text)
          = IF text.mixed \/ n < 6 \/ (\E k \in DOMAIN values : values[k] = Bad)
               \/ sum = "none" \/ v > 16
            THEN Failed("bech32")
            ELSE IF n = 6 THEN Throws
            ELSE IF /\ c.ok
                    /\ v = 0 => sum = "bech32" /\ Len(c.bytes) \in V0Sizes
                    /\ v # 0 => sum = "bech32m" /\ Len(c.bytes) \in V1Sizes
                 THEN Script(r)
            ELSE Failed("program")
    BY Zenon DEF decode_bech32, Middle, v
  <2> HIDE DEF values, n, c, sum, r, d
  <2>6. d = Script(r)
    <3> DEFINE refused == \/ text.mixed \/ n < 6 \/ (\E k \in DOMAIN values : values[k] = Bad)
                          \/ sum = "none" \/ v > 16
               taken == /\ c.ok
                        /\ v = 0 => sum = "bech32" /\ Len(c.bytes) \in V0Sizes
                        /\ v # 0 => sum = "bech32m" /\ Len(c.bytes) \in V1Sizes
    <3>1. ~refused
      BY Zenon, <2>2, <2>4
    <3>2. taken
      BY Zenon, <1>3, <2>4
    <3>3. d = IF refused THEN Failed("bech32") ELSE IF n = 6 THEN Throws
              ELSE IF taken THEN Script(r) ELSE Failed("program")
      BY Zenon, <2>1, <2>5
    <3> HIDE DEF refused, taken
    <3> QED BY Zenon, <2>2, <3>1, <3>2, <3>3
  <2> QED BY <2>6 DEF r
<1> HIDE DEF c, d
<1>5. d.ok /\ ~d.throws
  BY <1>4, ScriptIs
<1> QED BY <1>5 DEF d

\* A standard base58 address is decoded, by its only reading.
LEMMA Base58IsDecoded ==
  ASSUME NEW text, Base58Text(text), Standard(text)
  PROVE  decode_bitcoin_address_script(text).ok /\ ~decode_bitcoin_address_script(text).throws
<1>1. PICK version \in {0, 5, 111, 196}, hash \in [1..HashSize -> 0 .. Byte - 1] :
        Spells(text.digits, <<version>> \o hash \o Checksum(<<version>> \o hash))
  BY DEF Standard, Base58Text
<1> DEFINE P == <<version>> \o hash
           d == decode_bitcoin_address_script(text)
<1>2. hash \in Seq(Below(256)) /\ Len(hash) = HashSize
  <2>1. 0 .. Byte - 1 = Below(256)
    <3>1. Byte \in Nat /\ Byte = 256
      BY DEF Byte
    <3>2. 0 .. Byte - 1 = Below(Byte)
      BY <3>1, Digits
    <3> QED BY <3>1, <3>2, Zenon
  <2>2. hash \in [1..HashSize -> Below(256)] /\ HashSize \in Nat
    BY <2>1, Sizes
  <2> QED BY <2>2
<1>3. P \in Seq(Below(256)) /\ P # <<>> /\ Head(P) = version /\ Tail(P) = hash
  <2>1. version \in Below(256)
    BY DEF Below
  <2> QED BY <1>2, <2>1
<1> HIDE DEF P
<1>4. decode_base58check(text.digits) = P
  <2>1. Spells(text.digits, P \o Checksum(P))
    BY <1>1 DEF P
  <2>2. text.digits \in Seq(Below(58) \cup {Bad})
    BY DEF Base58Text
  <2> QED BY <1>3, <2>1, <2>2, Sizes, SpelledIsDecoded
<1>5. d = build_script_from_version(hash, version)
  BY <1>3, <1>4 DEF decode_bitcoin_address_script, Base58Text
<1> HIDE DEF d
<1>6. \E bytes : d = Script(bytes)
  BY <1>2, <1>5 DEF build_script_from_version
<1>7. d.ok /\ ~d.throws
  BY <1>6, ScriptIs
<1> QED BY <1>7 DEF d

\* What the documentation calls standard is decoded without the node.
LEMMA StandardIsDecoded ==
  ASSUME NEW text, Standard(AddressOf(text))
  PROVE  decode_bitcoin_address_script(AddressOf(text)).ok
<1> DEFINE a == AddressOf(text)
<1>1. Base58Text(a) \/ Bech32Text(a)
  BY AddressIs
<1>2. Standard(a)
  OBVIOUS
<1> HIDE DEF a
<1>3. decode_bitcoin_address_script(a).ok
  BY <1>1, <1>2, Base58IsDecoded, Bech32IsDecoded
<1> QED BY <1>3 DEF a

-----------------------------------------------------------------------------
(* The payout.                                                             *)

\* The calls that lead to an address, and whether it is the one asked for.
FirstCall == Append(<<>>, "getblockchaininfo")
Called == IF config.solo.address = "" THEN Append(FirstCall, "getnewaddress") ELSE FirstCall
CalledNode == Append(Called, "getaddressinfo")
Addressed == config.solo.address # "" => payout_address = config.solo.address

\* The script is the decoder's, or the node's for what it cannot decode.
Scripted(calls, node_calls) ==
  \/ Decoded.ok /\ payout_script = Decoded.script /\ rpc_calls = calls
  \/ ~Decoded.ok /\ payout_script = NodeScript[payout_address] /\ rpc_calls = node_calls

ScriptedBefore == Scripted(Called, CalledNode)
ScriptedAfter == Scripted(Append(Called, "getblocktemplate"), Append(CalledNode, "getblocktemplate"))

PayoutInv ==
  /\ phase \in Parsing \cup {"solo", "probe"} => rpc_calls = <<>>
  /\ phase = "new_address" => config.solo.address = "" /\ rpc_calls = FirstCall
  /\ phase = "decode" => Addressed /\ rpc_calls = Called
  /\ phase = "address_info" => Addressed /\ rpc_calls = Called /\ ~Decoded.ok
  /\ phase = "template" => Addressed /\ ScriptedBefore
  /\ phase = "solo mining" => Addressed /\ ScriptedAfter

\* The call before the last one.
LEMMA LastButOne ==
  ASSUME NEW S, NEW c \in Seq(S), NEW a \in S, NEW b \in S
  PROVE  Append(Append(c, a), b)[Len(Append(Append(c, a), b)) - 1] = a
<1> DEFINE d == Append(c, a)
           e == Append(d, b)
<1>1. d \in Seq(S) /\ Len(d) = Len(c) + 1 /\ Len(c) \in Nat /\ d[Len(c) + 1] = a
  BY AppendProperties
<1> HIDE DEF d
<1>2. Len(e) = Len(d) + 1 /\ e[Len(d)] = d[Len(d)]
  BY <1>1, AppendProperties
<1> HIDE DEF e
<1>3. Len(e) - 1 = Len(d)
  BY <1>1, <1>2
<1>4. e[Len(e) - 1] = a
  BY <1>1, <1>2, <1>3
<1> QED BY <1>4 DEF e, d

\* A sequence and one more element, by name.
LEMMA OneAppended ==
  ASSUME NEW S, NEW s \in Seq(S), NEW x \in S, NEW t, t = Append(s, x)
  PROVE  /\ t \in Seq(S) /\ Len(t) = Len(s) + 1
         /\ t[Len(s) + 1] = x
         /\ \A k \in 1..Len(s) : t[k] = s[k]
<1>1. t \in Seq(S) /\ Len(t) = Len(s) + 1
  BY AppendProperties
<1>2. t[Len(s) + 1] = x
  BY AppendProperties
<1>3. \A k \in 1..Len(s) : t[k] = s[k]
  BY AppendProperties
<1> QED BY <1>1, <1>2, <1>3

\* Two calls, one after the other.
LEMMA TwoCalls ==
  ASSUME NEW S, NEW a \in S, NEW b \in S
  PROVE  Append(Append(<<>>, a), b) = <<a, b>>
<1> DEFINE d == Append(<<>>, a)
           e == Append(d, b)
<1>1. d = Append(<<>>, a) /\ e = Append(d, b)
  OBVIOUS
<1> HIDE DEF d, e
<1>2. <<>> \in Seq(S) /\ Len(<<>>) = 0
  OBVIOUS
<1>3. d \in Seq(S) /\ Len(d) = 1 /\ d[1] = a
  <2>1. d \in Seq(S) /\ Len(d) = Len(<<>>) + 1 /\ d[Len(<<>>) + 1] = a
    BY <1>1, <1>2, OneAppended
  <2> QED BY <1>2, <2>1
<1>4. e \in Seq(S) /\ Len(e) = 2 /\ e[1] = a /\ e[2] = b
  <2>1. /\ e \in Seq(S) /\ Len(e) = Len(d) + 1 /\ e[Len(d) + 1] = b
        /\ \A k \in 1..Len(d) : e[k] = d[k]
    BY <1>1, <1>3, OneAppended
  <2> QED BY <1>3, <2>1
<1>5. <<a, b>> \in Seq(S) /\ Len(<<a, b>>) = 2
  OBVIOUS
<1>6. e = <<a, b>>
  BY <1>4, <1>5, SeqEqual
<1> QED BY <1>6 DEF d, e

Methods == {"getblockchaininfo", "getnewaddress", "getaddressinfo", "getblocktemplate"}

\* The calls so far are calls.
LEMMA CalledIs == Called \in Seq(Methods)
<1>1. \A c \in Seq(Methods) : \A a \in Methods : Append(c, a) \in Seq(Methods)
  BY AppendProperties
<1>2. <<>> \in Seq(Methods)
  OBVIOUS
<1>3. "getblockchaininfo" \in Methods /\ "getnewaddress" \in Methods
  BY DEF Methods
<1> HIDE DEF Methods
<1>4. FirstCall \in Seq(Methods)
  BY <1>1, <1>2, <1>3 DEF FirstCall
<1> HIDE DEF FirstCall
<1> QED BY <1>1, <1>3, <1>4 DEF Called

\* It holds at first.
LEMMA PayoutInvInit == Init => PayoutInv
<1> SUFFICES ASSUME Init PROVE PayoutInv
  OBVIOUS
<1>1. phase = "help" /\ rpc_calls = <<>>
  BY DEF Init, ConfigInit, SoloInit
<1> QED BY <1>1 DEF PayoutInv

\* Each step of the start keeps it.
LEMMA StartKeepsPayout ==
  ASSUME PayoutInv, StartMode
  PROVE  PayoutInv'
<1>1. config' = config
  BY StartSteps
<1>2. Called' = Called
  BY <1>1 DEF Called, FirstCall
<1> SUFFICES ASSUME SoloNext PROVE PayoutInv'
  BY DEF StartMode
<1>3. CASE StartSolo
  <2>1. phase = "solo" /\ phase' = "probe" /\ rpc_calls' = rpc_calls
    BY <1>3 DEF StartSolo, Goes
  <2> QED BY <2>1 DEF PayoutInv
<1>4. CASE StartSoloFails \/ CallFails \/ DecodeThrows \/ StartPoolFails
  <2>1. phase' = "exit"
    BY <1>4 DEF StartSoloFails, CallFails, DecodeThrows, StartPoolFails, Gives, Leave
  <2> QED BY <2>1 DEF PayoutInv, Parsing
<1>5. CASE verify_rpc_connection
  <2>1. /\ phase = "probe" /\ rpc_calls' = Append(rpc_calls, "getblockchaininfo")
        /\ phase' = (IF config.solo.address = "" THEN "new_address" ELSE "decode")
        /\ payout_address' = config.solo.address
    BY <1>5 DEF verify_rpc_connection, Goes, Calls
  <2>2. rpc_calls' = FirstCall /\ FirstCall' = FirstCall
    BY <2>1 DEF PayoutInv, FirstCall
  <2>3. phase' = "decode" => rpc_calls' = Called' /\ Addressed'
    <3> HIDE DEF FirstCall
    <3> QED BY <1>1, <1>2, <2>1, <2>2 DEF Called, Addressed
  <2>4. phase' = "new_address" => config'.solo.address = ""
    BY <1>1, <2>1
  <2>5. phase' \in {"new_address", "decode"}
    BY <2>1
  <2> HIDE DEF FirstCall
  <2> QED BY <2>2, <2>3, <2>4, <2>5 DEF PayoutInv, Parsing
<1>6. CASE getnewaddress
  <2>1. /\ phase = "new_address" /\ phase' = "decode"
        /\ rpc_calls' = Append(rpc_calls, "getnewaddress")
    BY <1>6 DEF getnewaddress, Goes, Calls
  <2>2. config.solo.address = "" /\ rpc_calls = FirstCall
    BY <2>1 DEF PayoutInv
  <2>3. rpc_calls' = Called' /\ Addressed'
    BY <1>1, <1>2, <2>1, <2>2 DEF Called, Addressed
  <2> QED BY <2>1, <2>3 DEF PayoutInv, Parsing
<1>7. CASE DecodeAddress
  <2>1. /\ phase = "decode" /\ phase' = (IF Decoded.ok THEN "template" ELSE "address_info")
        /\ payout_script' = Decoded.script
        /\ payout_address' = payout_address /\ rpc_calls' = rpc_calls
    BY <1>7 DEF DecodeAddress, Goes
  <2>2. Addressed /\ rpc_calls = Called
    BY <2>1 DEF PayoutInv
  <2>3. Decoded' = Decoded /\ Addressed'
    BY <1>1, <2>1, <2>2 DEF Decoded, Addressed
  <2>4. rpc_calls' = Called'
    BY <1>2, <2>1, <2>2
  <2>5. phase' = "template" => ScriptedBefore'
    <3> HIDE DEF Decoded, Called
    <3> QED BY <2>1, <2>3, <2>4 DEF ScriptedBefore, Scripted
  <2>6. phase' = "address_info" => ~(Decoded').ok
    BY <2>1, <2>3
  <2>7. phase' \in {"template", "address_info"}
    BY <2>1
  <2> QED BY <2>3, <2>4, <2>5, <2>6, <2>7 DEF PayoutInv, Parsing
<1>8. CASE getaddressinfo
  <2>1. /\ phase = "address_info" /\ phase' = "template"
        /\ rpc_calls' = Append(rpc_calls, "getaddressinfo")
        /\ payout_script' = NodeScript[payout_address] /\ payout_address' = payout_address
    BY <1>8 DEF getaddressinfo, Goes, Calls
  <2>2. Addressed /\ rpc_calls = Called /\ ~Decoded.ok
    BY <2>1 DEF PayoutInv
  <2>3. Decoded' = Decoded /\ Addressed'
    BY <1>1, <2>1, <2>2 DEF Decoded, Addressed
  <2>4. rpc_calls' = CalledNode'
    BY <1>2, <2>1, <2>2 DEF CalledNode
  <2>5. ScriptedBefore'
    BY <2>1, <2>2, <2>3, <2>4 DEF ScriptedBefore, Scripted
  <2> QED BY <2>1, <2>3, <2>5 DEF PayoutInv, Parsing
<1>9. CASE getblocktemplate
  <2>1. /\ phase = "template" /\ phase' = "solo mining"
        /\ rpc_calls' = Append(rpc_calls, "getblocktemplate")
        /\ payout_script' = payout_script /\ payout_address' = payout_address
    BY <1>9 DEF getblocktemplate, Goes, Calls
  <2>2. Addressed /\ ScriptedBefore
    BY <2>1 DEF PayoutInv
  <2>3. Decoded' = Decoded /\ Addressed'
    BY <1>1, <2>1, <2>2 DEF Decoded, Addressed
  <2>4. /\ rpc_calls = Called => rpc_calls' = Append(Called, "getblocktemplate")'
        /\ rpc_calls = CalledNode => rpc_calls' = Append(CalledNode, "getblocktemplate")'
    BY <1>2, <2>1 DEF CalledNode
  <2>5. ScriptedAfter'
    <3> HIDE DEF Decoded, Called, CalledNode
    <3> QED BY <2>1, <2>2, <2>3, <2>4 DEF ScriptedBefore, ScriptedAfter, Scripted
  <2> QED BY <2>1, <2>3, <2>5 DEF PayoutInv, Parsing
<1>10. CASE StartPool
  <2>1. phase' = "pool mining"
    BY <1>10 DEF StartPool, Goes
  <2> QED BY <2>1 DEF PayoutInv, Parsing
<1> QED BY <1>3, <1>4, <1>5, <1>6, <1>7, <1>8, <1>9, <1>10 DEF SoloNext

\* Every step keeps it: before the start nothing has been called.
LEMMA PayoutInvKept ==
  ASSUME ConfigTyped, PayoutInv, [Next]_vars
  PROVE  PayoutInv'
<1>1. CASE Configure
  <2>1. rpc_calls' = rpc_calls /\ phase \in Parsing
    BY <1>1, ConfigSteps DEF Configure, soloVars
  <2>2. phase' \in Parsing \cup {"exit"} \cup Modes
    <3>1. CASE Dispatch
      <4>1. phase' = config.main.mode
        BY <3>1 DEF Dispatch, GoTo
      <4>2. config.main.mode \in Modes
        <5>1. "main" \in Sections /\ "mode" \in Names["main"] \cap TypedNames
          BY DEF Sections, Names, TypedNames
        <5>2. ValueFits("mode", config["main"]["mode"])
          BY <5>1 DEF ConfigTyped, Typed
        <5> QED BY <5>2 DEF ValueFits
      <4> QED BY <4>1, <4>2
    <3>2. CASE ~Dispatch
      BY <1>1, <3>2, ConfigSteps DEF Configure
    <3> QED BY <3>1, <3>2
  <2>3. rpc_calls' = <<>>
    BY <2>1 DEF PayoutInv
  <2> QED BY <2>2, <2>3 DEF PayoutInv, Parsing, Modes
<1>2. CASE StartMode
  BY <1>2, StartKeepsPayout
<1>3. CASE RunBenchmark
  <2>1. phase' = "measuring"
    BY <1>3 DEF RunBenchmark
  <2> QED BY <2>1 DEF PayoutInv, Parsing
<1>4. CASE Measure \/ EndBenchmark
  <2>1. phase' \in {"measuring", "exit"}
    BY <1>4 DEF Measure, EndBenchmark, Leave, configVars
  <2> QED BY <2>1 DEF PayoutInv, Parsing
<1>5. CASE Running \/ UNCHANGED vars
  <2>1. UNCHANGED <<phase, config, payout_address, payout_script, rpc_calls>>
    BY <1>5 DEF Running, vars, configVars, soloVars
  <2> QED BY <2>1 DEF PayoutInv, Addressed, ScriptedBefore, ScriptedAfter, Scripted, Called, CalledNode,
                    FirstCall, Decoded
<1> QED BY <1>1, <1>2, <1>3, <1>4, <1>5 DEF Next

\* Solo mode mines to the address that was asked for, or to the one the
\* wallet gave when none was: the script that the decoder builds pays what
\* the text says, for every text in either form, and any other script is the
\* node's.
THEOREM PayoutIsAsked == Spec => []PaysTheAsked
<1>1. ASSUME PayoutInv, phase = "solo mining"
      PROVE  /\ config.solo.address # "" => payout_address = config.solo.address
             /\ \/ Pays(payout_script, AskedText)
                \/ rpc_calls[Len(rpc_calls) - 1] = "getaddressinfo"
                   /\ payout_script = NodeScript[payout_address]
  <2>1. Addressed /\ ScriptedAfter
    BY <1>1 DEF PayoutInv
  <2>2. AskedText = AddressOf(payout_address)
    BY <2>1 DEF AskedText, Addressed
  <2>3. CASE Decoded.ok /\ payout_script = Decoded.script
    <3>1. Pays(payout_script, AddressOf(payout_address))
      <4> DEFINE d == Decoded
      <4>1. d = decode_bitcoin_address_script(AddressOf(payout_address)) /\ d.ok
        BY <2>3 DEF Decoded
      <4> HIDE DEF d
      <4>2. Pays(d.script, AddressOf(payout_address))
        BY <4>1, DecodedPays
      <4> QED BY <2>3, <4>2 DEF d
    <3> QED BY <2>1, <2>2, <3>1 DEF Addressed
  <2>4. CASE ~(Decoded.ok /\ payout_script = Decoded.script)
    <3>1. /\ payout_script = NodeScript[payout_address]
          /\ rpc_calls = Append(Append(Called, "getaddressinfo"), "getblocktemplate")
      BY <2>1, <2>4 DEF ScriptedAfter, Scripted, CalledNode
    <3>2. rpc_calls[Len(rpc_calls) - 1] = "getaddressinfo"
      <4>1. "getaddressinfo" \in Methods /\ "getblocktemplate" \in Methods
        BY DEF Methods
      <4> HIDE DEF Called, Methods
      <4> QED BY <3>1, <4>1, CalledIs, LastButOne
    <3> QED BY <2>1, <3>1, <3>2 DEF Addressed
  <2> QED BY <2>3, <2>4
<1>2. PayoutInv => PaysTheAsked
  BY <1>1 DEF PaysTheAsked
<1>3. ConfigTyped /\ [Next]_vars => ConfigTyped'
  BY ConfigTypedKept
<1>4. ConfigTyped /\ PayoutInv /\ [Next]_vars => PayoutInv'
  BY PayoutInvKept
<1> QED BY ConfigTypedInit, PayoutInvInit, <1>2, <1>3, <1>4, PTL DEF Spec

\* A standard address is decoded without a call to the node, however long
\* its text is: no carry is lost, and the decoder reads the very bytes that
\* the text spells.
THEOREM StandardLocal == Spec => []StandardIsLocal
<1>1. ASSUME PayoutInv, phase = "solo mining", config.solo.address # "", Standard(AskedText)
      PROVE  rpc_calls = <<"getblockchaininfo", "getblocktemplate">>
  <2>1. Addressed /\ ScriptedAfter
    BY <1>1 DEF PayoutInv
  <2>2. AskedText = AddressOf(payout_address)
    BY <1>1, <2>1 DEF AskedText, Addressed
  <2>3. Decoded.ok
    BY <1>1, <2>2, StandardIsDecoded DEF Decoded
  <2>4. rpc_calls = Append(Called, "getblocktemplate")
    BY <2>1, <2>3 DEF ScriptedAfter, Scripted
  <2>5. Called = Append(<<>>, "getblockchaininfo")
    BY <1>1 DEF Called, FirstCall
  <2>6. "getblockchaininfo" \in Methods /\ "getblocktemplate" \in Methods
    BY DEF Methods
  <2> HIDE DEF Methods
  <2> QED BY <2>4, <2>5, <2>6, TwoCalls
<1>2. PayoutInv => StandardIsLocal
  BY <1>1 DEF StandardIsLocal
<1>3. ConfigTyped /\ [Next]_vars => ConfigTyped'
  BY ConfigTypedKept
<1>4. ConfigTyped /\ PayoutInv /\ [Next]_vars => PayoutInv'
  BY PayoutInvKept
<1> QED BY ConfigTypedInit, PayoutInvInit, <1>2, <1>3, <1>4, PTL DEF Spec

=============================================================================
