----------------------------- MODULE Benchmark -----------------------------
(***************************************************************************)
(* Benchmark mode (run_benchmark in src/src/sha256_benchmark.cu): a thread *)
(* per configured device launches the counting kernel over its partition   *)
(* until the time is up, then adds its figures to the totals.              *)
(*                                                                         *)
(* External: the driver.  After the start its failures go unseen: a launch *)
(* or a copy back that fails is only missing in the totals, and a launch   *)
(* is counted as one all the same.  The copy that clears the counter (line *)
(* 631) is taken to succeed.                                               *)
(***************************************************************************)
EXTENDS CudaLaunch, NoncePartition, Sequences

CONSTANTS
  BenchPerThread,  \* 4096: nonces per thread of an automatic chunk
  MaxLaunches      \* bound: launches of a device

ASSUME BenchAssumption == BenchPerThread \in Nat

VARIABLES
  bpc, partition_scanned, launches, d_counter,   \* of the threads
  init_errors, global_total_nonces, global_launches,
  hashed,          \* history: the nonces the kernels hashed, all threads
  unseen           \* history: threads with a launch or copy that failed

benchVars == <<bpc, partition_scanned, launches, d_counter,
               init_errors, global_total_nonces, global_launches, hashed, unseen>>

BenchInit ==
  /\ bpc = <<>> /\ partition_scanned = <<>> /\ launches = <<>> /\ d_counter = <<>>
  /\ init_errors = 0 /\ global_total_nonces = 0 /\ global_launches = 0 /\ hashed = 0
  /\ unseen = {}

SpawnThreads(devices) ==
  /\ bpc' = [t \in DOMAIN devices |-> "start"]
  /\ partition_scanned' = [t \in DOMAIN devices |-> 0]
  /\ launches' = [t \in DOMAIN devices |-> 0]
  /\ d_counter' = [t \in DOMAIN devices |-> 0]
  /\ UNCHANGED <<init_errors, global_total_nonces, global_launches, hashed, unseen>>

Blocks(cfg, t) == resolve_device_and_launch(cfg.devices[t], cfg.blocks, cfg.threads)

BenchChunk(cfg, t) ==
  LET min_chunk == Blocks(cfg, t) * cfg.threads
  IN  Max({min_chunk, IF cfg.chunk_nonces = 0 THEN min_chunk * BenchPerThread
                      ELSE cfg.chunk_nonces})

\* The partition goes by the id of the device, not by its place in the list.
BenchPartition(cfg, t) == split_nonce_space(cfg.devices[t], Len(cfg.devices))

ToBench(cfg, t) ==
  Min({BenchChunk(cfg, t), BenchPartition(cfg, t).size - partition_scanned[t]})

\* Mutant: the second nonce of a round is counted without a look.
SecondAlways(k, total) == TRUE

SecondInChunk(k, total) == k < total

\* What the kernel's threads add to the counter for a chunk: thread t takes
\* t, t + 2 * stride and so on, and with each the nonce a stride further on.
KernelCount(total, stride) ==
  LET rounds == {k \in 0 .. total - 1 : k % (2 * stride) < stride}
  IN  Cardinality(rounds) + Cardinality({k \in rounds : SecondInChunk(k + stride, total)})

Becomes(t, from, to) == bpc[t] = from /\ bpc' = [bpc EXCEPT ![t] = to]

\* Mutant: an error at the start is not counted.
ErrorsKept(n) == n
ErrorsUp(n) == n + 1

\* The device or the launch does not fit, or an allocation fails.
BenchStartFails(cfg, t) ==
  /\ Becomes(t, "start", "end")
  /\ init_errors' = ErrorsUp(init_errors)
  /\ UNCHANGED <<partition_scanned, launches, d_counter, global_total_nonces, global_launches,
                 hashed, unseen>>

BenchStarts(cfg, t) ==
  /\ Becomes(t, "start", IF BenchPartition(cfg, t).size = 0 THEN "merge" ELSE "launch")
  /\ Blocks(cfg, t) > 0
  /\ UNCHANGED <<partition_scanned, launches, d_counter, init_errors, global_total_nonces,
                 global_launches, hashed, unseen>>

\* A round of the loop.  There is another one while there is time; with
\* seconds that are not a number there never is.
BenchLaunch(cfg, t, runs, again) ==
  LET count == KernelCount(ToBench(cfg, t), Blocks(cfg, t) * cfg.threads)
      scanned == partition_scanned[t] + ToBench(cfg, t)
  IN  /\ Becomes(t, "launch", IF again THEN "launch" ELSE "merge")
      /\ d_counter' = [d_counter EXCEPT ![t] = @ + IF runs THEN count ELSE 0]
      /\ hashed' = hashed + IF runs THEN ToBench(cfg, t) ELSE 0
      /\ unseen' = unseen \cup IF runs THEN {} ELSE {t}
      /\ launches' = [launches EXCEPT ![t] = @ + 1]
      /\ partition_scanned' = [partition_scanned EXCEPT
           ![t] = IF scanned >= BenchPartition(cfg, t).size THEN 0 ELSE scanned]
      /\ UNCHANGED <<init_errors, global_total_nonces, global_launches>>

\* The counter is copied, or stays 0, and added under out_mutex.
BenchMerge(cfg, t, copied) ==
  /\ Becomes(t, "merge", "end")
  /\ global_total_nonces' = global_total_nonces + IF copied THEN d_counter[t] ELSE 0
  /\ global_launches' = global_launches + launches[t]
  /\ unseen' = unseen \cup IF copied THEN {} ELSE {t}
  /\ UNCHANGED <<partition_scanned, launches, d_counter, init_errors, hashed>>

BenchThread(cfg, t, endless) ==
  \/ BenchStartFails(cfg, t) \/ BenchStarts(cfg, t)
  \/ \E runs \in BOOLEAN, again \in BOOLEAN :
       (again => ~endless /\ launches[t] + 1 < MaxLaunches) /\ BenchLaunch(cfg, t, runs, again)
  \/ \E copied \in BOOLEAN : BenchMerge(cfg, t, copied)

BenchJoined == \A t \in DOMAIN bpc : bpc[t] = "end"

BenchCode == IF init_errors > 0 THEN 1 ELSE 0

=============================================================================
