------------------------------- MODULE Config -------------------------------
(***************************************************************************)
(* From the command line to a run mode (parse_args and main in             *)
(* src/src/main.cpp): two passes over the arguments, the JSON files between*)
(* them, the checks, the devices.  A step is one round of one of the loops.*)
(*                                                                         *)
(* A text is a string; what it spells as a number is given by IntOf, NatOf *)
(* and RealOf, defined where parse_int, parse_u64 and parse_double succeed *)
(* (std::stoi and its kin, external).  A JSON file is a function from its  *)
(* keys to [type, value].                                                  *)
(***************************************************************************)
EXTENDS Integers, FiniteSets, SequencesExt

CONSTANTS
  IntOf, NatOf, RealOf,   \* texts as numbers, where they are
  DevicesOf,              \* texts as lists of devices: std::getline by commas
  NaN,                    \* the double that spells "nan"
  Half                    \* ints are -Half .. Half-1, 2^31 in the code

ASSUME ConfigAssumption ==
  /\ Half \in Nat \ {0}
  /\ \A text \in DOMAIN IntOf : IntOf[text] \in Int
  /\ \A text \in DOMAIN NatOf : NatOf[text] \in Nat

VARIABLES
  argv, files,      \* the arguments; the JSON roots of the files
  device_count,     \* external: what the CUDA driver answers, 0 if it fails
  phase,            \* which loop parse_args is in, then the mode that runs
  i,                \* its index
  config_paths, config,
  exit_code

configVars == <<argv, files, device_count, phase, i, config_paths, config, exit_code>>

Modes == {"benchmark", "pool", "solo"}

\* The defaults of the structures and the first lines of parse_args.
Defaults == [
  main      |-> [mode |-> "benchmark"],
  benchmark |-> [devices |-> <<>>, blocks |-> 0, threads |-> 256, chunk_nonces |-> 0,
                 seconds |-> 10],
  pool      |-> [devices |-> <<>>, blocks |-> 0, threads |-> 256, chunk_nonces |-> 0,
                 pool |-> "poolflix.eu:5555", user |-> "", pass |-> "x", requested_diff |-> 0,
                 debug_pool_header |-> FALSE, submit_nonce_be |-> FALSE],
  solo      |-> [devices |-> <<>>, blocks |-> 0, threads |-> 256, chunk_nonces |-> 0,
                 rpc_url |-> "http://127.0.0.1:8332", rpc_user |-> "", rpc_pass |-> "",
                 rpc_cookie_path |-> "", address |-> "", template_poll_seconds |-> 15]]

\* Where an option or a key writes: a field of some sections, and how its
\* value is read.
Field(kind, sections, name) == [kind |-> kind, sections |-> sections, name |-> name]

\* Mutant: solo mode is left out.
WithoutSolo(kind, name) == Field(kind, {"benchmark", "pool"}, name)

\* The fields every mode has.
Shared(kind, name) == Field(kind, Modes, name)

OptionNames ==
  {"--mode", "--device", "--threads", "--blocks", "--chunk-nonces", "--seconds",
   "--pool", "--user", "--pass", "--pool-difficulty", "--debug-pool-header",
   "--nonce-submit-be", "--rpc-url", "--rpc-user", "--rpc-pass", "--rpc-cookie",
   "--address"}

Options == [arg \in OptionNames |->
  CASE arg = "--mode" -> Field("mode", {"main"}, "mode")
    [] arg = "--device" -> Shared("devices", "devices")
    [] arg = "--threads" -> Shared("int", "threads")
    [] arg = "--blocks" -> Shared("int", "blocks")
    [] arg = "--chunk-nonces" -> Shared("nat", "chunk_nonces")
    [] arg = "--seconds" -> Field("real", {"benchmark"}, "seconds")
    [] arg = "--pool" -> Field("text", {"pool"}, "pool")
    [] arg = "--user" -> Field("text", {"pool"}, "user")
    [] arg = "--pass" -> Field("text", {"pool"}, "pass")
    [] arg = "--pool-difficulty" -> Field("positive", {"pool"}, "requested_diff")
    [] arg = "--debug-pool-header" -> Field("flag", {"pool"}, "debug_pool_header")
    [] arg = "--nonce-submit-be" -> Field("flag", {"pool"}, "submit_nonce_be")
    [] arg = "--rpc-url" -> Field("text", {"solo"}, "rpc_url")
    [] arg = "--rpc-user" -> Field("text", {"solo"}, "rpc_user")
    [] arg = "--rpc-pass" -> Field("text", {"solo"}, "rpc_pass")
    [] arg = "--rpc-cookie" -> Field("text", {"solo"}, "rpc_cookie_path")
    [] arg = "--address" -> Field("text", {"solo"}, "address")]

\* devices is read after device; the other keys do not meet.
KeyOrder == <<"mode", "device", "devices", "threads", "blocks", "chunk_nonces", "seconds", "pool",
  "user", "pass", "pool_difficulty", "debug_pool_header", "nonce_submit_be", "rpc_url", "rpc_user",
  "rpc_pass", "rpc_cookie", "address", "template_poll_seconds">>

Keys == [key \in {KeyOrder[k] : k \in DOMAIN KeyOrder} |->
  CASE key = "mode" -> Field("mode", {"main"}, "mode")
    [] key = "device" -> Shared("devices", "devices")
    [] key = "devices" -> Shared("devices", "devices")
    [] key = "threads" -> Shared("int", "threads")
    [] key = "blocks" -> Shared("int", "blocks")
    [] key = "chunk_nonces" -> Shared("nat", "chunk_nonces")
    [] key = "seconds" -> Field("real", {"benchmark"}, "seconds")
    [] key = "pool" -> Field("text", {"pool"}, "pool")
    [] key = "user" -> Field("text", {"pool"}, "user")
    [] key = "pass" -> Field("text", {"pool"}, "pass")
    [] key = "pool_difficulty" -> Field("real", {"pool"}, "requested_diff")
    [] key = "debug_pool_header" -> Field("flag", {"pool"}, "debug_pool_header")
    [] key = "nonce_submit_be" -> Field("flag", {"pool"}, "submit_nonce_be")
    [] key = "rpc_url" -> Field("text", {"solo"}, "rpc_url")
    [] key = "rpc_user" -> Field("text", {"solo"}, "rpc_user")
    [] key = "rpc_pass" -> Field("text", {"solo"}, "rpc_pass")
    [] key = "rpc_cookie" -> Field("text", {"solo"}, "rpc_cookie_path")
    [] key = "address" -> Field("text", {"solo"}, "address")
    [] key = "template_poll_seconds" -> Field("int", {"solo"}, "template_poll_seconds")]

Set(c, field, value) ==
  [s \in DOMAIN c |-> IF s \in field.sections THEN [c[s] EXCEPT ![field.name] = value] ELSE c[s]]

\* Whether a text is a value of a kind, and which.
Reads(kind, text) ==
  CASE kind = "mode" -> text \in Modes
    [] kind = "devices" -> text \in DOMAIN DevicesOf
    [] kind = "int" -> text \in DOMAIN IntOf
    [] kind = "nat" -> text \in DOMAIN NatOf
    [] kind = "real" -> text \in DOMAIN RealOf
    [] kind = "positive" -> text \in DOMAIN RealOf /\ RealOf[text] # NaN /\ RealOf[text] > 0
    [] OTHER -> TRUE

Value(kind, text) ==
  CASE kind = "devices" -> DevicesOf[text]
    [] kind = "int" -> IntOf[text]
    [] kind = "nat" -> NatOf[text]
    [] kind \in {"real", "positive"} -> RealOf[text]
    [] OTHER -> text

\* The same for a JSON value.
ReadsJson(kind, json) ==
  CASE kind = "mode" -> json.type = "string" /\ json.value \in Modes
    [] kind = "devices" -> \/ json.type = "string" /\ json.value \in DOMAIN DevicesOf
                           \/ json.type \in {"array", "int"}
    [] kind = "int" -> json.type = "int"
    [] kind = "nat" -> json.type = "int" /\ json.value >= 0
    [] kind = "real" -> json.type \in {"int", "real"}
    [] kind = "flag" -> json.type = "bool"
    [] kind = "text" -> json.type = "string"

\* An integer that does not fit is cut to an int.
CutToInt(n) == ((n + Half) % (2 * Half)) - Half

ValueJson(kind, json) ==
  CASE kind = "devices" /\ json.type = "string" -> DevicesOf[json.value]
    [] kind = "devices" /\ json.type = "array" -> [k \in DOMAIN json.value |-> CutToInt(json.value[k])]
    [] kind = "devices" /\ json.type = "int" -> <<CutToInt(json.value)>>
    [] kind = "int" -> CutToInt(json.value)
    [] OTHER -> json.value

-----------------------------------------------------------------------------
ConfigInit ==
  /\ phase = "help" /\ i = 1
  /\ config_paths = <<>> /\ config = Defaults /\ exit_code = 0

inputVars == <<argv, files, device_count>>

GoTo(next) == phase' = next /\ i' = 1

Fail ==
  /\ phase' = "exit" /\ exit_code' = 1
  /\ UNCHANGED <<inputVars, i, config_paths, config>>

\* --help anywhere, even as the value of an option.
ShowHelp ==
  /\ phase = "help"
  /\ GoTo(IF \E k \in DOMAIN argv : argv[k] \in {"--help", "-h"} THEN "exit" ELSE "collect")
  /\ UNCHANGED <<inputVars, config_paths, config, exit_code>>

\* The first pass takes whatever follows a --config.
CollectPath ==
  /\ phase = "collect" /\ i <= Len(argv)
  /\ argv[i] = "--config" => i < Len(argv)
  /\ IF argv[i] = "--config"
     THEN config_paths' = Append(config_paths, argv[i + 1]) /\ i' = i + 2
     ELSE UNCHANGED config_paths /\ i' = i + 1
  /\ UNCHANGED <<inputVars, phase, config, exit_code>>

PathMissing ==
  /\ phase = "collect" /\ i = Len(argv) /\ argv[i] = "--config"
  /\ Fail

PathsCollected ==
  /\ phase = "collect" /\ i > Len(argv)
  /\ GoTo("load")
  /\ UNCHANGED <<inputVars, config_paths, config, exit_code>>

\* A file that cannot be opened or parsed, or whose root is no object, is
\* not in files.
CanApply(path) ==
  /\ path \in DOMAIN files
  /\ \A key \in DOMAIN files[path] \cap DOMAIN Keys : ReadsJson(Keys[key].kind, files[path][key])

ReadKey(root, key, c) ==
  IF key \in DOMAIN root THEN Set(c, Keys[key], ValueJson(Keys[key].kind, root[key])) ELSE c

apply_json_config(root, c) ==
  LET sofar[k \in 0 .. Len(KeyOrder)] ==
        IF k = 0 THEN c ELSE ReadKey(root, KeyOrder[k], sofar[k - 1])
  IN  sofar[Len(KeyOrder)]

\* Mutant: the files are applied from the last to the first.
PathFromEnd(n) == config_paths[Len(config_paths) + 1 - n]
Path(n) == config_paths[n]

LoadFile ==
  /\ phase = "load" /\ i <= Len(config_paths) /\ CanApply(Path(i))
  /\ config' = apply_json_config(files[Path(i)], config)
  /\ i' = i + 1
  /\ UNCHANGED <<inputVars, phase, config_paths, exit_code>>

LoadFails ==
  /\ phase = "load" /\ i <= Len(config_paths) /\ ~CanApply(Path(i))
  /\ Fail

FilesLoaded ==
  /\ phase = "load" /\ i > Len(config_paths)
  /\ GoTo("override")
  /\ UNCHANGED <<inputVars, config_paths, config, exit_code>>

Flag(arg) == arg \in DOMAIN Options /\ Options[arg].kind = "flag"
Valued(arg) == arg \in DOMAIN Options /\ Options[arg].kind # "flag"

\* Mutant: an argument nobody knows is passed over.
IgnoresUnknown(arg) == arg = "--config" \/ ~(Flag(arg) \/ Valued(arg))

\* The second pass's rounds over an argument that takes no value here.
Skips(arg) == arg = "--config"

\* The second pass skips --config and what follows it.
SkipConfig ==
  /\ phase = "override" /\ i <= Len(argv) /\ Skips(argv[i])
  /\ i' = IF argv[i] = "--config" THEN i + 2 ELSE i + 1
  /\ UNCHANGED <<inputVars, phase, config_paths, config, exit_code>>

SetFlag ==
  /\ phase = "override" /\ i <= Len(argv) /\ Flag(argv[i])
  /\ config' = Set(config, Options[argv[i]], TRUE)
  /\ i' = i + 1
  /\ UNCHANGED <<inputVars, phase, config_paths, exit_code>>

HasValue == i < Len(argv) /\ Reads(Options[argv[i]].kind, argv[i + 1])

SetOption ==
  /\ phase = "override" /\ i <= Len(argv) /\ Valued(argv[i]) /\ HasValue
  /\ config' = Set(config, Options[argv[i]], Value(Options[argv[i]].kind, argv[i + 1]))
  /\ i' = i + 2
  /\ UNCHANGED <<inputVars, phase, config_paths, exit_code>>

\* An unknown argument, a value that is missing or not of the kind.
ArgumentFails ==
  /\ phase = "override" /\ i <= Len(argv)
  /\ ~Skips(argv[i]) /\ ~Flag(argv[i])
  /\ ~(Valued(argv[i]) /\ HasValue)
  /\ Fail

ArgumentsRead ==
  /\ phase = "override" /\ i > Len(argv)
  /\ GoTo("check")
  /\ UNCHANGED <<inputVars, config_paths, config, exit_code>>

\* The checks look at the benchmark's copy of the shared fields; seconds
\* that are not a number are not <= 0.
Checked ==
  /\ config.benchmark.seconds # NaN => config.benchmark.seconds > 0
  /\ config.benchmark.threads \in 1..1024 /\ config.benchmark.threads % 32 = 0
  /\ config.benchmark.blocks >= 0
  /\ config.main.mode = "pool" => config.pool.user # ""

\* All devices when none is given, or the first when there are none.
AllDevices == IF device_count = 0 THEN <<0>> ELSE [k \in 1..device_count |-> k - 1]

Dispatch ==
  /\ phase = "check" /\ Checked
  /\ config' = IF config.benchmark.devices # <<>> THEN config
               ELSE [s \in DOMAIN config |-> IF s \in Modes
                       THEN [config[s] EXCEPT !.devices = @ \o AllDevices] ELSE config[s]]
  /\ GoTo(config.main.mode)
  /\ UNCHANGED <<inputVars, config_paths, exit_code>>

CheckFails ==
  /\ phase = "check" /\ ~Checked
  /\ Fail

ConfigNext ==
  \/ ShowHelp \/ CollectPath \/ PathMissing \/ PathsCollected
  \/ LoadFile \/ LoadFails \/ FilesLoaded
  \/ SkipConfig \/ SetFlag \/ SetOption \/ ArgumentFails \/ ArgumentsRead
  \/ Dispatch \/ CheckFails

-----------------------------------------------------------------------------
(* What the arguments say, by the grammar of the usage.                    *)

TakesValue(arg) == Valued(arg) \/ arg = "--config"

\* The positions of the options: every argument but the values of options.
OptionPositions ==
  LET at[k \in 1..Len(argv)] ==
        \/ k = 1
        \/ k > 1 /\ at[k - 1] /\ ~TakesValue(argv[k - 1])
        \/ k > 2 /\ at[k - 2] /\ TakesValue(argv[k - 2])
  IN  {k \in 1..Len(argv) : at[k]}

Started == phase \in Modes

\* No file is named like an option.
NamesApart == DOMAIN files \cap (DOMAIN Options \cup {"--config"}) = {}

\* The first pass loads the files that the second pass takes for the values
\* of --config, all of them and in their order, although it takes any
\* --config for the option (main.cpp:371-381 and 420-423).  It may load one
\* more, named like an option, after a --config that is a value: in
\* "--user --config --pool" the second pass reads the option --pool.
FilesAreTheConfigs ==
  Started /\ NamesApart =>
    LET at == {k \in OptionPositions : argv[k] = "--config"}
    IN  /\ Len(config_paths) = Cardinality(at)
        /\ \A n \in DOMAIN config_paths :
             \E k \in at : argv[k + 1] = config_paths[n] /\ Cardinality({m \in at : m <= k}) = n

\* The last file with a key for a field of a section, and that key.
LastKeys(s, name) ==
  {nk \in (DOMAIN config_paths) \X DOMAIN Keys :
     /\ nk[2] \in DOMAIN files[config_paths[nk[1]]]
     /\ Keys[nk[2]].name = name /\ s \in Keys[nk[2]].sections}

Asked(s, name) ==
  LET options == {k \in OptionPositions : /\ argv[k] \in DOMAIN Options
                                          /\ Options[argv[k]].name = name
                                          /\ s \in Options[argv[k]].sections}
      keys == LastKeys(s, name)
      file == Max({nk[1] : nk \in keys})
      key == IF <<file, "devices">> \in keys THEN "devices"
             ELSE CHOOSE k \in DOMAIN Keys : <<file, k>> \in keys
  IN  IF options # {}
      THEN IF Flag(argv[Max(options)]) THEN TRUE
           ELSE Value(Options[argv[Max(options)]].kind, argv[Max(options) + 1])
      ELSE IF keys # {} THEN ValueJson(Keys[key].kind, files[config_paths[file]][key])
      ELSE Defaults[s][name]

\* Every setting is what its last option says, else what the last file that
\* has it says, else the default ("--config: Load JSON config before CLI
\* overrides", main.cpp:37), and without devices all of them are taken.
ArgumentsBeforeFiles ==
  Started =>
    \A s \in DOMAIN config : \A name \in DOMAIN config[s] :
      config[s][name] = IF name = "devices" /\ Asked(s, name) = <<>> THEN AllDevices
                        ELSE Asked(s, name)

\* The mode that runs has launch parameters that were checked, although the
\* checks read the benchmark's copy of them (main.cpp:581-590).
LaunchIsChecked ==
  Started =>
    /\ config[phase].threads \in 1..1024 /\ config[phase].threads % 32 = 0
    /\ config[phase].blocks >= 0
    /\ config[phase].devices # <<>>

=============================================================================
