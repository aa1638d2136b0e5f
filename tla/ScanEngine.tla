----------------------------- MODULE ScanEngine -----------------------------
(***************************************************************************)
(* The scan engine of a CUDA device (src/src/sha256_benchmark.cu) and the  *)
(* worker that calls it for one chunk after the other                      *)
(* (src/src/pool_miner.cpp, 810-975; src/src/solo_miner.cpp is alike).     *)
(*                                                                         *)
(* The calls to the driver up to the launch are one step, in which any of  *)
(* them may fail: nothing else uses the device.  The threads of the kernel *)
(* interleave from one access of the shared result to the next.            *)
(*                                                                         *)
(* External: the CUDA driver, which may fail, and what a header hashes to  *)
(* (digest).                                                               *)
(***************************************************************************)
EXTENDS HeaderHash, ShareTarget, CudaLaunch, FiniteSets

CONSTANTS
  Header,        \* function from jobs to the header a worker builds
  Difficulties,  \* of the shares, in halves
  Digests,       \* functions from a job and a nonce to the hash
  Partition,     \* the nonces of the worker: [start, size]
  Configs,       \* [device, blocks, threads, chunk] as configured
  PerThread,     \* 1024 in the code: nonces per thread of an automatic chunk
  MinChunk,      \* 2^24: the bounds of an automatic chunk,
  MaxChunk,      \* 2^31
  MaxManual,     \* 2^32: and of a configured one
  PollEvery,     \* 512: iterations between two looks at the found flag
  MaxScans       \* bound: chunks the worker scans

Jobs == DOMAIN Header
Nonces == Partition.start .. Partition.start + Partition.size - 1

Unset == <<>>
NoJob == 0

\* A header is 80 bytes; two that differ in the nonce alone are one job.
ASSUME ScanAssumption ==
  /\ \A j \in Jobs : Header[j] \in [1..80 -> {<<b>> : b \in 0..255}]
  /\ \A j, k \in Jobs : (\A b \in 1..76 : Header[j][b] = Header[k][b]) => j = k
  /\ \A c \in Configs : c.blocks \in Nat /\ c.threads \in Nat /\ c.chunk \in Nat
  /\ \A d \in Digests : d \in [Jobs \X Nonces -> [1..Words -> 0 .. Word-1]]
  /\ \A d \in Difficulties : d \in Nat /\ integer_diff(d) <= Word
  /\ NoJob \notin Jobs /\ Partition.start \in Nat /\ Partition.size \in Nat \ {0} /\ PollEvery \in Nat \ {0}
  /\ MinChunk \in Nat \ {0} /\ MaxChunk \in Nat /\ MaxChunk >= MinChunk
  /\ MaxManual \in Nat \ {0} /\ PerThread \in Nat /\ MaxScans \in Nat

VARIABLES
  digest,              \* external: what headers hash to
  config, engine,      \* as configured, and the engine of the device
  device_result,       \* *engine.d_result: the flag, the nonce, the hash
  wpc, job, diff, partition_scanned, work, result,  \* the worker
  gpu,                 \* the kernel's threads
  false_positives,     \* shares the CPU does not confirm
  scans                \* bound

vars == <<digest, config, engine, device_result, wpc, job, diff, partition_scanned,
          work, result, gpu, false_positives, scans>>

NoResult == [found |-> FALSE, nonce |-> 0, hash |-> Unset]
NoWork == [nonce_count |-> 0, start_nonce |-> 0, midstate |-> Unset, tail |-> Unset,
           target |-> Unset]
NoEngine == [blocks |-> 0, threads |-> 0,
             cached_midstate |-> Unset, d_midstate |-> Unset, midstate_valid |-> FALSE,
             cached_target |-> Unset, d_target |-> Unset, target_valid |-> FALSE]

Init ==
  /\ digest \in Digests /\ config \in Configs
  /\ engine = NoEngine /\ device_result = NoResult
  /\ wpc = "start" /\ job = NoJob /\ diff = 0 /\ partition_scanned = 0
  /\ work = NoWork /\ result = NoResult
  /\ gpu = Unset /\ false_positives = 0 /\ scans = 0

-----------------------------------------------------------------------------
(* The engine, and the chunk that suits it.                                *)

Blocks == resolve_device_and_launch(config.device, config.blocks, config.threads)

TunedChunk ==
  IF config.chunk # 0 THEN Min({config.chunk, MaxManual})
  ELSE Min({Max({engine.blocks * engine.threads * PerThread, MinChunk}), MaxChunk})

CreateEngine ==
  /\ wpc = "start" /\ Blocks > 0
  /\ engine' = [NoEngine EXCEPT !.blocks = Blocks, !.threads = config.threads]
  /\ wpc' = "ready"
  /\ UNCHANGED <<digest, config, device_result, job, diff, partition_scanned, work, result,
                 gpu, false_positives, scans>>

\* The launch does not fit the device, or an allocation fails.
CreateEngineFails ==
  /\ wpc = "start"
  /\ wpc' = "end"
  /\ UNCHANGED <<digest, config, engine, device_result, job, diff, partition_scanned, work,
                 result, gpu, false_positives, scans>>

-----------------------------------------------------------------------------
(* The worker's next chunk, and run_cuda_scan up to the launch.            *)

\* What the worker makes of a header and of a difficulty.
Built == [j \in Jobs |-> build_midstate_from_header(Header[j])]
Target == [d \in Difficulties |-> target_from_difficulty(d)]

\* A chunk of the same header, or of another one, which starts the
\* partition anew.
NextWork(j, d) ==
  LET scanned == IF j = job THEN partition_scanned ELSE 0
  IN  [nonce_count |-> Min({TunedChunk, Partition.size - scanned}),
       start_nonce |-> Partition.start + scanned,
       midstate |-> Built[j].midstate, tail |-> Built[j].tail,
       target |-> Target[d]]

\* The cached values are overwritten before the copy that may fail.
MidstateCopied(e, w, ok) ==
  IF e.midstate_valid /\ e.cached_midstate = w.midstate THEN e
  ELSE IF ok THEN [e EXCEPT !.cached_midstate = w.midstate, !.d_midstate = w.midstate,
                            !.midstate_valid = TRUE]
  ELSE [e EXCEPT !.cached_midstate = w.midstate]

TargetCopied(e, w, ok) ==
  IF e.target_valid /\ e.cached_target = w.target THEN e
  ELSE IF ok THEN [e EXCEPT !.cached_target = w.target, !.d_target = w.target,
                            !.target_valid = TRUE]
  ELSE [e EXCEPT !.cached_target = w.target]

\* Where the worker goes when a scan fails.  Mutant: on to the next chunk.
GoesOn == "ready"
AfterFailure == "end"

TakeChunk(j, d) ==
  /\ wpc = "ready" /\ scans < MaxScans
  /\ j # job => partition_scanned' = 0
  /\ j = job => UNCHANGED partition_scanned
  /\ job' = j /\ diff' = d /\ work' = NextWork(j, d)
  /\ result' = NoResult /\ scans' = scans + 1
  /\ UNCHANGED <<digest, config, false_positives>>

\* The kernel's threads, at the head of their loops.
Launched == [t \in 0 .. engine.blocks * engine.threads - 1 |->
               [pc |-> "head", i |-> t, poll_counter |-> 0, nonce |-> 0]]

Launch(j, d) ==
  /\ TakeChunk(j, d)
  /\ engine' = TargetCopied(MidstateCopied(engine, NextWork(j, d), TRUE), NextWork(j, d), TRUE)
  /\ device_result' = NoResult
  /\ gpu' = Launched
  /\ wpc' = "scan"

\* A call to the driver before the launch, or the launch, fails.
LaunchFails(j, d) ==
  /\ TakeChunk(j, d)
  /\ LET midstate(ok) == MidstateCopied(engine, NextWork(j, d), ok)
         target(ok) == TargetCopied(midstate(TRUE), NextWork(j, d), ok)
     IN  \/ engine' \in {engine, midstate(FALSE), target(FALSE), target(TRUE)}
            /\ UNCHANGED device_result
         \/ engine' = target(TRUE) /\ device_result' = NoResult
  /\ wpc' = AfterFailure
  /\ UNCHANGED gpu

-----------------------------------------------------------------------------
(* The kernel, thread t.                                                   *)

\* The jobs whose header, with the nonce in it, the kernel hashes when its
\* midstate is m and its tail is t.
HashedHeaders ==
  [m \in {Built[j].midstate : j \in Jobs} \cup {Unset} |->
    [t \in {Built[j].tail : j \in Jobs} |-> [n \in Nonces |->
     {j \in Jobs : sha256d_hash_words_be(m, t, WordOf(n)) = sha256d(verify_header(Header[j], n))}]]]

\* What the kernel computes for a nonce.  A message that is no header's
\* hashes to anything; the lowest hash meets every target.
DigestOf(n) ==
  LET hashed == IF n \in Nonces THEN HashedHeaders[engine.d_midstate][work.tail][n] ELSE {}
  IN  IF hashed = {} THEN [i \in 1..Words |-> 0] ELSE digest[CHOOSE j \in hashed : TRUE, n]

Stride == engine.blocks * engine.threads

SetThread(t, changed) == gpu' = [gpu EXCEPT ![t] = changed]

workerVars == <<digest, config, engine, wpc, job, diff, partition_scanned, work, result,
                false_positives, scans>>

\* The head of the loop: the end of the chunk, or a look at the found flag.
LoopHead(t) ==
  LET me == gpu[t]
      polls == me.poll_counter = 0
  IN  /\ wpc = "scan" /\ me.pc = "head"
      /\ SetThread(t, [me EXCEPT
           !.pc = IF me.i >= work.nonce_count \/ (polls /\ device_result.found)
                  THEN "exit" ELSE "first",
           !.poll_counter = (@ + 1) % PollEvery])
      /\ UNCHANGED <<workerVars, device_result>>

\* Mutant: the flag is set without a look at it.
WinsAlways == TRUE

\* The outcome of atomicCAS(&result->found, 0, 1) == 0.
Wins == ~device_result.found

\* Hashes the nonce at index k, and goes to next when it misses the target.
Try(t, k, next) ==
  LET me == gpu[t]
      n == work.start_nonce + k
      meets == hash_be_meets_target_le(DigestOf(n), engine.d_target)
  IN  /\ IF meets
         THEN /\ device_result' = [device_result EXCEPT !.found = TRUE]
              /\ SetThread(t, [me EXCEPT !.pc = IF Wins THEN "nonce" ELSE "exit", !.nonce = n])
         ELSE /\ SetThread(t, next) /\ UNCHANGED device_result
      /\ UNCHANGED workerVars

First(t) ==
  /\ wpc = "scan" /\ gpu[t].pc = "first"
  /\ Try(t, gpu[t].i, [gpu[t] EXCEPT !.pc = "second"])

InChunk(k) == k < work.nonce_count

\* Mutant: the index stays where it is.
SameIndex(i) == i
NextIndex(i) == i + 2 * Stride

Second(t) ==
  LET me == gpu[t]
      next == [me EXCEPT !.pc = "head", !.i = NextIndex(@)]
  IN  /\ wpc = "scan" /\ me.pc = "second"
      /\ IF InChunk(me.i + Stride) THEN Try(t, me.i + Stride, next)
         ELSE SetThread(t, next) /\ UNCHANGED <<workerVars, device_result>>

\* The winner's two stores.
WriteNonce(t) ==
  /\ wpc = "scan" /\ gpu[t].pc = "nonce"
  /\ device_result' = [device_result EXCEPT !.nonce = gpu[t].nonce]
  /\ SetThread(t, [gpu[t] EXCEPT !.pc = "hash"])
  /\ UNCHANGED workerVars

WriteHash(t) ==
  /\ wpc = "scan" /\ gpu[t].pc = "hash"
  /\ device_result' = [device_result EXCEPT !.hash = DigestOf(gpu[t].nonce)]
  /\ SetThread(t, [gpu[t] EXCEPT !.pc = "exit"])
  /\ UNCHANGED workerVars

Thread(t) == LoopHead(t) \/ First(t) \/ Second(t) \/ WriteNonce(t) \/ WriteHash(t)

-----------------------------------------------------------------------------
(* The end of run_cuda_scan and of the worker's round.                     *)

\* The copy of the result waits for the kernel.
ReadResult ==
  /\ wpc = "scan" /\ \A t \in DOMAIN gpu : gpu[t].pc = "exit"
  /\ result' = device_result
  /\ wpc' = "judge" /\ gpu' = Unset
  /\ UNCHANGED <<digest, config, engine, device_result, job, diff, partition_scanned, work,
                 false_positives, scans>>

\* The kernel or the copy fails.
ScanFails ==
  /\ wpc = "scan"
  /\ wpc' = AfterFailure /\ gpu' = Unset
  /\ UNCHANGED <<digest, config, engine, device_result, job, diff, partition_scanned, work,
                 result, false_positives, scans>>

\* Mutant: the end of the partition is noticed one nonce late.
PassOverLate(scanned) == scanned > Partition.size

PassOver(scanned) == scanned >= Partition.size

\* The worker goes on in its partition and has the CPU confirm the share.
Judge ==
  LET scanned == partition_scanned + work.nonce_count
      cpu_valid == hash_be_meets_target(digest[job, result.nonce], work.target)
  IN  /\ wpc = "judge"
      /\ partition_scanned' = IF PassOver(scanned) THEN 0 ELSE scanned
      /\ false_positives' = false_positives + IF result.found /\ ~cpu_valid THEN 1 ELSE 0
      /\ wpc' = "ready"
      /\ UNCHANGED <<digest, config, engine, device_result, job, diff, work, result, gpu, scans>>

\* Where the bound, or the end of the worker, ends the run.
Ended ==
  /\ wpc = "end" \/ (wpc = "ready" /\ scans = MaxScans)
  /\ UNCHANGED vars

Next ==
  \/ CreateEngine \/ CreateEngineFails
  \/ \E j \in Jobs, d \in Difficulties : Launch(j, d) \/ LaunchFails(j, d)
  \/ \E t \in DOMAIN gpu : Thread(t)
  \/ ReadResult \/ ScanFails \/ Judge \/ Ended

\* The device runs every thread of a launched kernel, and the worker goes on.
Tids == 0 .. MaxThreads * Max({Gpus[g].max_grid : g \in DOMAIN Gpus}) - 1
Fairness ==
  /\ \A t \in Tids : WF_vars(t \in DOMAIN gpu /\ Thread(t))
  /\ WF_vars(ReadResult) /\ WF_vars(Judge)

Spec == Init /\ [][Next]_vars /\ Fairness

-----------------------------------------------------------------------------
TypeOK ==
  /\ digest \in Digests /\ config \in Configs
  /\ engine.blocks \in Nat
  /\ engine.threads \in 0..MaxThreads
  /\ engine.midstate_valid \in BOOLEAN /\ engine.target_valid \in BOOLEAN
  /\ wpc \in {"start", "ready", "scan", "judge", "end"}
  /\ job \in Jobs \cup {NoJob} /\ diff \in Difficulties \cup {0}
  /\ partition_scanned \in 0 .. Partition.size - 1
  /\ work.nonce_count \in 0..Partition.size
  /\ device_result.found \in BOOLEAN /\ result.found \in BOOLEAN
  /\ \A t \in DOMAIN gpu :
       /\ t \in 0..Stride-1
       /\ gpu[t].pc \in {"head", "first", "second", "nonce", "hash", "exit"}
       /\ gpu[t].poll_counter \in 0..PollEvery-1
  /\ false_positives \in 0..MaxScans /\ scans \in 0..MaxScans

Chunk == work.start_nonce .. work.start_nonce + work.nonce_count - 1

\* The target in place is the quotient of the target of difficulty 1 by the
\* whole part of the difficulty, for every difficulty that fits a word, and
\* the hashes that meet it word by word are those not above it as integers
\* (target_from_difficulty, pool_miner.cpp:378-384, and the comparisons).
TargetIsExact ==
  work # NoWork =>
    LET quotient == TargetValue(kDiff1Target) \div integer_diff(diff)
    IN  /\ TargetValue(work.target) = quotient
        /\ \A n \in Chunk : hash_be_meets_target(digest[job, n], work.target)
                            <=> HashValue(digest[job, n]) <= quotient

\* The nonces of the chunk whose hash meets the target: the shares.
Candidates ==
  {n \in Chunk : hash_be_meets_target(digest[job, n], target_from_difficulty(diff))}

\* A scan that returns reports a nonce exactly when the chunk has a share,
\* whatever threads stop early for another one, and whatever midstate and
\* target the engine had cached from the scans before (run_cuda_scan).
FindsCandidates ==
  wpc = "judge" => (result.found <=> Candidates # {})

\* What it reports is one share of this chunk: its nonce and its hash come
\* from the same thread (the atomicCAS of sha256d_scan_kernel).
ResultIsGenuine ==
  wpc = "judge" /\ result.found =>
    result.nonce \in Candidates /\ result.hash = digest[job, result.nonce]

\* The GPU never reports a nonce that the CPU does not confirm: a false
\* positive (pool_miner.cpp:984) needs a device that computes wrongly.
NoFalsePositives == false_positives = 0

\* Every launched kernel ends (sha256d_scan_kernel's loop).
ScansReturn == wpc = "scan" ~> wpc # "scan"

=============================================================================
