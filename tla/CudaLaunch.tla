----------------------------- MODULE CudaLaunch -----------------------------
(***************************************************************************)
(* Whether a launch fits a CUDA device (resolve_device_and_launch in       *)
(* src/src/sha256_benchmark.cu).  External: the driver.                    *)
(***************************************************************************)
EXTENDS Integers, FiniteSetsExt

CONSTANTS
  Gpus,          \* function from device ids to [sms, max_grid]
  BlocksPerSm,   \* 32 in the code
  Warp,          \* 32
  MaxThreads     \* 1024

ASSUME LaunchAssumption ==
  /\ DOMAIN Gpus \subseteq Nat
  /\ \A g \in DOMAIN Gpus : Gpus[g].sms \in Nat /\ Gpus[g].max_grid \in Nat \ {0}
  /\ BlocksPerSm \in Nat /\ Warp \in Nat \ {0} /\ MaxThreads \in Nat

\* The blocks of a launch, or 0 when there can be none.
resolve_device_and_launch(device, requested_blocks, threads) ==
  IF device \notin DOMAIN Gpus \/ threads \notin 1..MaxThreads \/ threads % Warp # 0 THEN 0
  ELSE Min({IF requested_blocks > 0 THEN requested_blocks ELSE Gpus[device].sms * BlocksPerSm,
            Gpus[device].max_grid})

=============================================================================
