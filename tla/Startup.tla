------------------------------ MODULE Startup ------------------------------
(***************************************************************************)
(* The program from main (src/src/main.cpp) to a running mode: the         *)
(* configuration, then the start of solo or pool mode, or the whole of     *)
(* benchmark mode.                                                         *)
(***************************************************************************)
EXTENDS SoloStart, Benchmark

\* Situations to start in: [argv, files, device_count, home, cookies].
CONSTANT Starts

\* A list of devices is no longer than the nonce space, of which each device
\* gets a part.
DeviceList(list) == list \in Seq(Int) /\ Len(list) <= NonceSpace

\* What JSON values are, by their types.
JsonValue(json) ==
  /\ json.type = "int" => json.value \in Int
  /\ json.type = "array" => DeviceList(json.value)

ASSUME StartsAssumption ==
  /\ \A text \in DOMAIN DevicesOf : DeviceList(DevicesOf[text])
  /\ \A s \in Starts :
       /\ s.argv \in Seq(STRING) /\ s.device_count \in 0..NonceSpace
       /\ \A path \in DOMAIN s.files : \A key \in DOMAIN s.files[path] :
            JsonValue(s.files[path][key])

vars == <<configVars, soloVars, benchVars>>

Init ==
  /\ \E s \in Starts :
       /\ argv = s.argv /\ files = s.files /\ device_count = s.device_count
       /\ home = s.home /\ cookies = s.cookies
  /\ ConfigInit /\ SoloInit /\ BenchInit

Configure == ConfigNext /\ UNCHANGED <<soloVars, benchVars>>

StartMode == SoloNext /\ UNCHANGED benchVars

RunBenchmark ==
  /\ phase = "benchmark" /\ phase' = "measuring"
  /\ SpawnThreads(config.benchmark.devices)
  /\ UNCHANGED <<argVars, i, exit_code, soloVars>>

Measure ==
  /\ phase = "measuring"
  /\ \E t \in DOMAIN bpc :
       BenchThread(config.benchmark, t, config.benchmark.seconds = NaN)
  /\ UNCHANGED <<configVars, soloVars>>

EndBenchmark ==
  /\ phase = "measuring" /\ BenchJoined
  /\ Leave(BenchCode)
  /\ UNCHANGED <<argVars, i, soloVars, benchVars>>

\* The program has ended, or the mode's own module takes over.
Running ==
  /\ phase \in {"exit", "solo mining", "pool mining"}
  /\ UNCHANGED vars

Next == Configure \/ StartMode \/ RunBenchmark \/ Measure \/ EndBenchmark \/ Running

Spec == Init /\ [][Next]_vars

-----------------------------------------------------------------------------
\* A benchmark reports no hash that no kernel computed, whichever launches
\* fail unseen.
TotalsWereHashed == global_total_nonces <= hashed

\* A benchmark that ends well has launched on every device.  That a launch
\* ran is not looked at (lines 663-664): a device may have hashed nothing, but
\* only when one of its own launches or its copy failed unseen; and if none
\* did on any device, the total is every nonce that was hashed.
SuccessIsComplete ==
  phase = "exit" /\ exit_code = 0 =>
    /\ \A t \in DOMAIN bpc : launches[t] > 0 /\ (t \in unseen \/ d_counter[t] > 0)
    /\ unseen = {} => global_total_nonces = hashed

=============================================================================
