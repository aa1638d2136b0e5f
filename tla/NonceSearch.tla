----------------------------- MODULE NonceSearch -----------------------------
(***************************************************************************)
(* The search space of a job in pool mode: how the worker loops of         *)
(* run_pool_miner (src/src/pool_miner.cpp) walk it, each through its nonce *)
(* partition chunk by chunk, with a new extranonce2 after every pass.      *)
(* Locks, shares, failed scans and the network are PoolMiner's; a step     *)
(* here is one round of a worker's loop.  A scan that reports a share may  *)
(* leave nonces of its chunk unhashed (ScanEngine has its threads), while  *)
(* the worker counts and passes over the whole chunk.  Widths are scaled   *)
(* by Byte (256 in the code).                                              *)
(***************************************************************************)
EXTENDS NoncePartition, FiniteSets

CONSTANTS
  Count,      \* config.devices.size()
  Byte,       \* values of a byte
  Ex2Sizes,   \* the sizes of extranonce2, in bytes, a pool may give
  Chunk,      \* tuned_chunk
  Jobs,       \* bound: jobs the pool announces, 1 .. Jobs
  MaxPasses,  \* bound: passes of a worker over its partition in one job
  MaxFinds    \* bound: nonces that scans report

ASSUME SearchAssumption ==
  /\ Count \in Nat \ {0}
  /\ Byte \in Nat \ {0, 1} /\ \E bits \in 1..Byte : Byte = 2 ^ bits
  /\ Ex2Sizes \subseteq 1..16 /\ Chunk \in Nat \ {0}
  /\ Jobs \in Nat /\ MaxPasses \in Nat /\ MaxFinds \in Nat

VARIABLES
  extranonce2_size,   \* as the answer to mining.subscribe gives it
  job,                \* the id in shared_job, 0 before the first
  current_job_id,     \* locals of the workers
  partition_scanned, base_ex2, current_ex2,
  global_hashes,
  pass,               \* history: passes a worker has finished in its job
  tried,              \* history: the <<job, extranonce2, nonce>> hashed
  found,              \* history: those of them that scans reported
  repeated            \* history: the rounds that hashed what was hashed before

vars == <<extranonce2_size, job, current_job_id, partition_scanned, base_ex2, current_ex2,
          global_hashes, pass, tried, found, repeated>>

Workers == 0..Count-1

Init ==
  /\ extranonce2_size \in Ex2Sizes
  /\ job = 0
  /\ current_job_id = [w \in Workers |-> 0]
  /\ partition_scanned = [w \in Workers |-> 0]
  /\ base_ex2 = [w \in Workers |-> 0]
  /\ current_ex2 = [w \in Workers |-> 0]
  /\ global_hashes = 0
  /\ pass = [w \in Workers |-> 0]
  /\ tried = {} /\ found = {} /\ repeated = {}

\* How many values so many bytes have.
Values[bytes \in 0..16] == IF bytes = 0 THEN 1 ELSE Byte * Values[bytes - 1]

\* The bitwise or: the sum, without the bits the two have in common.
Or(a, b) ==
  LET and[p \in (0..a) \X (0..b)] ==
        IF p[1] = 0 \/ p[2] = 0 THEN 0
        ELSE (2 * and[<<p[1] \div 2, p[2] \div 2>>]) + ((p[1] % 2) * (p[2] % 2))
  IN  a + b - and[<<a, b>>]

\* The worker's index is or-ed in above the low three bytes of the counter,
\* or above the low two when extranonce2 has fewer than four: onto the bits
\* that the counter has there itself.  make_extranonce2_bytes keeps the low
\* extranonce2_size bytes.
Extranonce2(w, base) ==
  LET low == Values[IF extranonce2_size >= 4 THEN 3 ELSE 2]
  IN  (Or(w, base \div low) * low + (base % low)) % Values[extranonce2_size]

Partition(w) == split_nonce_space(w, Count)

\* Mutant: the extranonce2 is not advanced after a pass.
SameBase(base) == base

NextBase(base) == (base + 1) % Values[4]

\* How many nonces the next chunk has.
ToScan(size, scanned) ==
  IF Chunk < size - scanned THEN Chunk ELSE size - scanned

\* Mutant: a pass ends when less than a chunk remains.
TailLeftOut(size, scanned) == scanned + Chunk > size

\* Whether a pass is over once scanned nonces of the partition are done.
PassDone(size, scanned) == scanned >= size

NewJob ==
  /\ job < Jobs
  /\ job' = job + 1
  /\ UNCHANGED <<extranonce2_size, current_job_id, partition_scanned, base_ex2,
                 current_ex2, global_hashes, pass, tried, found, repeated>>

\* What a scan of a chunk hashes and reports: all of it and nothing, or a
\* share, and then only what its threads got to before they saw the flag.
Scan(chunk, done) ==
  \/ done = chunk /\ UNCHANGED found
  \/ /\ Cardinality(found) < MaxFinds
     /\ \E hit \in done : found' = found \cup {hit}

\* One round of the loop, from copying shared_job to the end of the chunk.
ScanChunk(w) ==
  LET restart == job # current_job_id[w]
      scanned == IF restart THEN 0 ELSE partition_scanned[w]
      base == IF restart THEN 0 ELSE base_ex2[w]
      passes == IF restart THEN 0 ELSE pass[w]
      ex2 == IF scanned = 0 THEN Extranonce2(w, base) ELSE current_ex2[w]
      start == Partition(w).start + scanned
      to_scan == ToScan(Partition(w).size, scanned)
      chunk == {<<job, ex2, n>> : n \in start .. start + to_scan - 1}
      finished == PassDone(Partition(w).size, scanned + to_scan)
  IN  /\ job # 0 /\ Partition(w).size # 0
      /\ passes < MaxPasses
      /\ current_job_id' = [current_job_id EXCEPT ![w] = job]
      /\ current_ex2' = [current_ex2 EXCEPT ![w] = ex2]
      /\ partition_scanned' = [partition_scanned EXCEPT
           ![w] = IF finished THEN 0 ELSE scanned + to_scan]
      /\ base_ex2' = [base_ex2 EXCEPT
           ![w] = IF finished THEN NextBase(base) ELSE base]
      /\ pass' = [pass EXCEPT ![w] = IF finished THEN passes + 1 ELSE passes]
      /\ global_hashes' = global_hashes + to_scan
      /\ \E done \in SUBSET chunk :
           /\ Scan(chunk, done)
           /\ tried' = tried \cup done
           /\ repeated' = repeated \cup
                IF done \cap tried = {} THEN {} ELSE {[worker |-> w, job |-> job, pass |-> passes]}
      /\ UNCHANGED <<extranonce2_size, job>>

\* Where the bounds end the run; the program goes on.
BoundReached ==
  /\ job = Jobs
  /\ \A w \in Workers : current_job_id[w] = job /\ pass[w] = MaxPasses
  /\ UNCHANGED vars

Next == NewJob \/ (\E w \in Workers : ScanChunk(w)) \/ BoundReached

Spec == Init /\ [][Next]_vars

-----------------------------------------------------------------------------
\* The passes of a job whose counter is below the device prefix, and within
\* the width of extranonce2.
FreshPasses ==
  Values[IF extranonce2_size >= 4 THEN 3 ELSE IF extranonce2_size = 1 THEN 1 ELSE 2]

\* No nonce is hashed a second time under the same extranonce2, by the same
\* worker or by another, before that worker has gone through the values its
\* counter has below the prefix; after that the program does repeat itself
\* (lines 890-897, 951-957 and split_nonce_space).  The dashboard counts at
\* least the work done, and exactly that as long as nothing was repeated and
\* no find has cut a scan short (line 951).
HashesAreDistinctWork ==
  /\ \A r \in repeated : r.pass >= FreshPasses
  /\ Cardinality(tried) <= global_hashes
  /\ repeated = {} /\ found = {} => global_hashes = Cardinality(tried)

\* The only nonces a worker passes over unhashed are those of a chunk in
\* which a share was found, whatever the chunk size: all others of its
\* partition are hashed under the extranonce2 of each pass finished in its
\* job, and the first partition_scanned under the current one (lines
\* 919-957).
PassesAreGapless ==
  \A w \in Workers : current_job_id[w] # 0 =>
    LET p == Partition(w)
        ChunkOf(n) == (n - p.start) \div Chunk
        Covered(ex2, n) ==
          \/ <<current_job_id[w], ex2, n>> \in tried
          \/ \E m \in NoncesOf(p) :
               <<current_job_id[w], ex2, m>> \in found /\ ChunkOf(m) = ChunkOf(n)
    IN  /\ \A b \in 0..pass[w]-1 : \A n \in NoncesOf(p) :
             Covered(Extranonce2(w, b % Values[4]), n)
        /\ partition_scanned[w] > 0 =>
             /\ current_ex2[w] = Extranonce2(w, base_ex2[w])
             /\ \A n \in p.start .. p.start + partition_scanned[w] - 1 :
                  Covered(current_ex2[w], n)

=============================================================================
