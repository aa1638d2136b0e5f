------------------------- MODULE NonceSearch_proofs -------------------------
(***************************************************************************)
(* No nonce is hashed twice before a counter is used up, and none is left  *)
(* out but after a find, for any number of workers, size of extranonce2,   *)
(* chunk and number of passes.  Two workers never meet because their       *)
(* nonces differ, two passes of one worker because their extranonce2 does: *)
(* SearchInv says of every hash tried whose it is and from which pass.     *)
(***************************************************************************)
EXTENDS NonceSearch, NoncePartition_proofs, FiniteSetTheorems

-----------------------------------------------------------------------------
(* Values of extranonce2.                                                  *)

\* The recursion of Values has a solution.
LEMMA ValuesAre ==
  /\ Values[0] = 1
  /\ \A k \in 1..16 : Values[k] = Byte * Values[k - 1]
<1> DEFINE step == [k \in 1..16 |-> [x \in Nat |-> Byte * x]]
<1>1. Byte \in Nat
  BY SearchAssumption
<1>2. step \in [1..16 -> [Nat -> Nat]]
  BY <1>1
<1>3. PICK f : Iterates(f, 16, Nat, 1, step)
  <2> DEFINE n == 16
             T == Nat
             base == 1
  <2>1. n \in Nat /\ base \in T /\ step \in [1..n -> [T -> T]]
    BY <1>2
  <2>2. \E f : Iterates(f, n, T, base, step)
    <3> HIDE DEF step, n, T, base
    <3> QED BY <2>1, Iteration
  <2> QED BY <2>2
<1>4. f \in [0..16 -> Nat] /\ f[0] = 1 /\ \A k \in 1..16 : f[k] = Byte * f[k - 1]
  BY <1>3 DEF Iterates
<1>5. f = [k \in 0..16 |-> IF k = 0 THEN 1 ELSE Byte * f[k - 1]]
  <2>1. \A k \in 0..16 : f[k] = IF k = 0 THEN 1 ELSE Byte * f[k - 1]
    BY <1>4
  <2> QED BY <1>4, <2>1
<1>6. Values = [k \in 0..16 |-> IF k = 0 THEN 1 ELSE Byte * Values[k - 1]]
  BY <1>5, Zenon DEF Values
<1> QED BY <1>6

\* They are numbers, and more bytes have more values.
LEMMA ValuesGrow ==
  /\ \A k \in 0..16 : Values[k] \in Nat \ {0}
  /\ \A k \in 0..16 : \A j \in 0..k : Values[j] <= Values[k]
  /\ Values[3] < Values[4]
<1>1. Byte \in Nat /\ Byte >= 2
  BY SearchAssumption
<1> DEFINE S == {k \in 0..16 : \A j \in 0..k : Values[j] \in Nat \ {0} /\ Values[j] <= Values[k]}
<1>2. 0 \in S
  BY ValuesAre
<1>3. ASSUME NEW k \in 0 .. 16-1, k \in S PROVE k + 1 \in S /\ Values[k] < Values[k + 1]
  <2> DEFINE v == Values[k]
             w == Values[k + 1]
  <2>1. v \in Nat \ {0} /\ \A j \in 0..k : Values[j] \in Nat \ {0} /\ Values[j] <= v
    BY <1>3
  <2>2. w = Byte * v
    <3>1. k + 1 \in 1..16 /\ (k + 1) - 1 = k
      OBVIOUS
    <3> QED BY <3>1, ValuesAre
  <2> HIDE DEF v, w
  <2>3. w \in Nat \ {0} /\ v < w
    <3> DEFINE c == Byte - 2
               d == c * v
    <3>1. c \in Nat /\ Byte = c + 2
      BY <1>1
    <3> HIDE DEF c
    <3>2. d \in Nat /\ w = d + 2 * v
      BY <2>1, <2>2, <3>1
    <3> HIDE DEF d
    <3> QED BY <2>1, <3>2
  <2>4. \A j \in 0 .. k + 1 : j \in 0..k \/ j = k + 1
    OBVIOUS
  <2>5. \A j \in 0 .. k + 1 : Values[j] \in Nat \ {0} /\ Values[j] <= w
    <3> TAKE j \in 0 .. k + 1
    <3>1. CASE j \in 0..k
      <4>1. Values[j] <= v /\ Values[j] \in Nat \ {0}
        BY <2>1, <3>1
      <4> QED BY <2>1, <2>3, <4>1
    <3>2. CASE j = k + 1
      BY <2>3, <3>2 DEF w
    <3> QED BY <2>4, <3>1, <3>2
  <2> QED BY <2>3, <2>5 DEF v, w
<1>4. 0..16 \subseteq S
  <2> HIDE DEF S
  <2> QED BY <1>2, <1>3, UpTo
<1>5. Values[3] < Values[4]
  <2>1. 3 \in 0 .. 16-1 /\ 3 \in S /\ 3 + 1 = 4
    BY <1>4
  <2> QED BY <1>3, <2>1
<1> QED BY <1>4, <1>5

\* A number or-ed with 0 is itself.
LEMMA OrZero ==
  ASSUME NEW a \in Nat
  PROVE  Or(a, 0) = a
<1> DEFINE Body(f) == [p \in (0..a) \X (0..0) |->
             IF p[1] = 0 \/ p[2] = 0 THEN 0
             ELSE (2 * f[<<p[1] \div 2, p[2] \div 2>>]) + ((p[1] % 2) * (p[2] % 2))]
           and == CHOOSE f : f = Body(f)
           zero == [p \in (0..a) \X (0..0) |-> 0]
<1>1. ASSUME NEW f PROVE Body(f) = zero
  <2>1. \A p \in (0..a) \X (0..0) : p[2] = 0
    OBVIOUS
  <2> QED BY <2>1, Zenon
<1>2. and = zero
  <2>1. zero = Body(zero)
    BY <1>1
  <2>2. and = Body(and)
    <3> HIDE DEF Body, zero
    <3> QED BY <2>1, Zenon
  <2> HIDE DEF and, Body, zero
  <2> QED BY <1>1, <2>2
<1>3. zero[<<a, 0>>] = 0
  OBVIOUS
<1>4. Or(a, 0) = a + 0 - and[<<a, 0>>]
  BY Zenon DEF Or
<1> HIDE DEF and, zero
<1> QED BY <1>2, <1>3, <1>4

\* There are no more fresh passes than values, nor than a counter below the
\* prefix has.
LEMMA PassesFit ==
  ASSUME extranonce2_size \in Ex2Sizes
  PROVE  /\ FreshPasses \in Nat /\ FreshPasses <= Values[extranonce2_size]
         /\ FreshPasses <= Values[IF extranonce2_size >= 4 THEN 3 ELSE 2]
         /\ FreshPasses < Values[4]
         /\ Values[extranonce2_size] \in Nat \ {0}
<1> DEFINE e == extranonce2_size
           low == IF e >= 4 THEN 3 ELSE 2
           k == IF e >= 4 THEN 3 ELSE IF e = 1 THEN 1 ELSE 2
<1>1. e \in 1..16
  BY SearchAssumption
<1>2. /\ e \in 0..16 /\ k \in 0..e /\ k \in 0..low /\ low \in 0..3
      /\ 3 \in 0..16 /\ k \in 0..16 /\ low \in 0..16 /\ 4 \in 0..16
  BY <1>1
<1>3. FreshPasses = Values[k]
  BY DEF FreshPasses
<1> HIDE DEF e, k, low
<1>4. /\ Values[k] \in Nat /\ Values[e] \in Nat \ {0} /\ Values[3] \in Nat /\ Values[4] \in Nat
      /\ Values[low] \in Nat
      /\ Values[k] <= Values[e] /\ Values[k] <= Values[low] /\ Values[low] <= Values[3]
      /\ Values[3] < Values[4]
  BY <1>2, ValuesGrow
<1> QED BY <1>3, <1>4 DEF e, low

\* The number of a fresh pass is the worker's counter, and only added to its
\* prefix.
LEMMA FreshPassIs ==
  ASSUME extranonce2_size \in Ex2Sizes, NEW w \in Workers, NEW a \in 0 .. FreshPasses-1
  PROVE  /\ a % Values[4] = a
         /\ Extranonce2(w, a) =
              (w * Values[IF extranonce2_size >= 4 THEN 3 ELSE 2] + a) % Values[extranonce2_size]
<1> DEFINE low == Values[IF extranonce2_size >= 4 THEN 3 ELSE 2]
           v == Values[4]
<1>1. a \in Nat /\ a \in 0 .. low-1 /\ a \in 0 .. v-1 /\ low \in Nat \ {0} /\ v \in Nat \ {0}
  <2>1. low \in Nat \ {0} /\ v \in Nat \ {0}
    BY ValuesGrow
  <2> QED BY <2>1, PassesFit
<1> HIDE DEF low, v
<1>2. a = low * 0 + a /\ a = v * 0 + a /\ 0 \in Int
  BY <1>1
<1>3. a % v = a /\ a \div low = 0 /\ a % low = a
  BY <1>1, <1>2, Remainder
<1>4. Or(w, 0) = w
  <2>1. w \in Nat
    BY SearchAssumption DEF Workers
  <2> QED BY <2>1, OrZero
<1>5. Extranonce2(w, a) = (Or(w, a \div low) * low + (a % low)) % Values[extranonce2_size]
  BY Zenon DEF Extranonce2, low
<1> QED BY <1>3, <1>4, <1>5 DEF low, v

\* Numbers less than n apart are equal when their remainders are.
LEMMA RemaindersApart ==
  ASSUME NEW n \in Nat \ {0}, NEW x \in Nat, NEW a \in 0 .. n-1, NEW b \in 0 .. n-1,
         (x + a) % n = (x + b) % n
  PROVE  a = b
<1> DEFINE c == x + a
           d == x + b
<1>1. c \in Nat /\ d \in Nat /\ n \in Nat /\ c - d = a - b
  OBVIOUS
<1> HIDE DEF c, d
<1>2. c % n = d % n
  BY DEF c, d
<1>3. ~(c < d)
  <2>1. c < d => c + n <= d
    BY <1>1, <1>2, NextInStep
  <2> QED BY <1>1, <2>1
<1>4. ~(d < c)
  <2>1. d < c => d + n <= c
    BY <1>1, <1>2, NextInStep
  <2> QED BY <1>1, <2>1
<1> QED BY <1>1, <1>3, <1>4

\* Two fresh passes of a worker have two values of extranonce2.
LEMMA PassesApart ==
  ASSUME extranonce2_size \in Ex2Sizes, NEW w \in Workers,
         NEW a \in 0 .. FreshPasses-1, NEW b \in 0 .. FreshPasses-1,
         Extranonce2(w, a) = Extranonce2(w, b)
  PROVE  a = b
<1> DEFINE x == w * Values[IF extranonce2_size >= 4 THEN 3 ELSE 2]
           n == Values[extranonce2_size]
<1>1. x \in Nat
  <2>1. Values[3] \in Nat /\ Values[2] \in Nat /\ w \in Nat
    BY ValuesGrow, SearchAssumption DEF Workers
  <2> QED BY <2>1
<1>2. n \in Nat \ {0} /\ a \in 0 .. n-1 /\ b \in 0 .. n-1
  BY PassesFit
<1>3. (x + a) % n = (x + b) % n
  BY FreshPassIs
<1> HIDE DEF x, n
<1> QED BY <1>1, <1>2, <1>3, RemaindersApart

\* The counter after one pass more.
LEMMA NextBaseIs ==
  ASSUME NEW k \in Nat
  PROVE  NextBase(k % Values[4]) = (k + 1) % Values[4]
<1> DEFINE n == Values[4]
           d == k \div n
           m == k % n
<1>1. n \in Nat \ {0}
  BY ValuesGrow
<1>2. k = n * d + m /\ d \in Nat /\ m \in 0 .. n-1
  <2> HIDE DEF n
  <2> QED BY <1>1, Divided
<1>3. NextBase(m) = (m + 1) % n
  BY DEF NextBase
<1> HIDE DEF n, d, m
<1>4. CASE m + 1 < n
  <2>1. m + 1 \in 0 .. n-1 /\ m + 1 = n * 0 + (m + 1) /\ k + 1 = n * d + (m + 1)
    BY <1>1, <1>2, <1>4
  <2>2. (m + 1) % n = m + 1
    BY <1>1, <1>2, <2>1, Remainder
  <2>3. (k + 1) % n = m + 1
    BY <1>1, <1>2, <2>1, Remainder
  <2> QED BY <1>3, <2>2, <2>3 DEF n, m
<1>5. CASE ~(m + 1 < n)
  <2>1. m + 1 = n * 1 + 0 /\ k + 1 = n * (d + 1) + 0 /\ d + 1 \in Int /\ 0 \in 0 .. n-1
    BY <1>1, <1>2, <1>5
  <2>2. (m + 1) % n = 0
    BY <1>1, <1>2, <2>1, Remainder
  <2>3. (k + 1) % n = 0
    BY <1>1, <1>2, <2>1, Remainder
  <2> QED BY <1>3, <2>2, <2>3 DEF n, m
<1> QED BY <1>4, <1>5

-----------------------------------------------------------------------------
(* The invariant.                                                          *)

SearchTypes ==
  /\ extranonce2_size \in Ex2Sizes /\ job \in Nat
  /\ current_job_id \in [Workers -> 0..job]
  /\ partition_scanned \in [Workers -> Nat]
  /\ base_ex2 \in [Workers -> Nat] /\ pass \in [Workers -> Nat]
  /\ current_ex2 = [w \in Workers |-> current_ex2[w]]
  /\ global_hashes \in Nat

\* Where a worker is: in the middle of its partition only at the start of a
\* chunk and under the extranonce2 of its pass, and nowhere before its first
\* job.
PlaceInv ==
  \A w \in Workers :
    /\ current_job_id[w] = 0 => pass[w] = 0 /\ partition_scanned[w] = 0
    /\ base_ex2[w] = pass[w] % Values[4]
    /\ \E q \in Nat : partition_scanned[w] = Chunk * q
    /\ partition_scanned[w] > 0 =>
         /\ partition_scanned[w] < Partition(w).size
         /\ current_ex2[w] = Extranonce2(w, base_ex2[w])

\* Whether a hash is of a worker: the nonce is one of its own, and in its
\* present job it has come that far.
IsOf(w, hash) ==
  /\ hash[3] \in NoncesOf(Partition(w)) /\ hash[1] <= current_job_id[w]
  /\ hash[1] = current_job_id[w] =>
       \/ \E b \in 0 .. pass[w]-1 : hash[2] = Extranonce2(w, b % Values[4])
       \/ /\ hash[2] = Extranonce2(w, base_ex2[w])
          /\ hash[3] < Partition(w).start + partition_scanned[w]

TriedInv ==
  /\ IsFiniteSet(tried)
  /\ \A hash \in tried : /\ hash[1] \in Nat /\ hash[3] \in Nat
                         /\ \E w \in Workers : IsOf(w, hash)

\* Whether a worker has hashed a nonce, as far as the hashes and finds T and
\* F go, or has passed over it in a chunk with a find.
CoveredBy(T, F, w, j, ex2, n) ==
  \/ <<j, ex2, n>> \in T
  \/ \E m \in NoncesOf(Partition(w)) :
       /\ <<j, ex2, m>> \in F
       /\ (m - Partition(w).start) \div Chunk = (n - Partition(w).start) \div Chunk

CoveredInv ==
  \A w \in Workers : current_job_id[w] # 0 =>
    /\ \A b \in 0..pass[w]-1 : \A n \in NoncesOf(Partition(w)) :
         CoveredBy(tried, found, w, current_job_id[w], Extranonce2(w, b % Values[4]), n)
    /\ \A n \in Partition(w).start .. Partition(w).start + partition_scanned[w] - 1 :
         CoveredBy(tried, found, w, current_job_id[w], Extranonce2(w, base_ex2[w]), n)

SearchInv == SearchTypes /\ PlaceInv /\ TriedInv /\ HashesAreDistinctWork /\ CoveredInv

\* Initially.
LEMMA SearchInvInit == Init => SearchInv
<1> SUFFICES ASSUME Init PROVE SearchInv
  OBVIOUS
<1> USE DEF Init
<1>1. SearchTypes
  BY DEF SearchTypes
<1>2. PlaceInv
  <2>1. 0 % Values[4] = 0
    <3>1. Values[4] \in Nat \ {0} /\ 0 \in 0 .. Values[4]-1 /\ 0 = Values[4] * 0 + 0
      BY ValuesGrow
    <3> QED BY <3>1, Remainder
  <2>2. 0 = Chunk * 0 /\ 0 \in Nat
    BY SearchAssumption
  <2> QED BY <2>1, <2>2 DEF PlaceInv
<1>3. IsFiniteSet({}) /\ Cardinality({}) = 0
  BY FS_EmptySet
<1>4. TriedInv
  BY <1>3 DEF TriedInv
<1>5. HashesAreDistinctWork /\ CoveredInv
  BY <1>3 DEF HashesAreDistinctWork, CoveredInv
<1> QED BY <1>1, <1>2, <1>4, <1>5 DEF SearchInv

\* The part of a worker.
LEMMA PartitionIs ==
  ASSUME NEW w \in Workers
  PROVE  /\ Partition(w).start \in Nat /\ Partition(w).size \in Nat
         /\ NoncesOf(Partition(w)) = Partition(w).start .. Partition(w).start + Partition(w).size - 1
         /\ \A v \in Workers : \A x : x \in NoncesOf(Partition(w)) /\ x \in NoncesOf(Partition(v)) => v = w
<1>1. Count \in Nat \ {0} /\ w \in 0 .. Count-1
  BY SearchAssumption DEF Workers
<1>2. Partition(w).start \in Nat /\ Partition(w).size \in Nat
  BY <1>1, RangesMeet DEF Partition
<1>3. ASSUME NEW v \in Workers, NEW x, x \in NoncesOf(Partition(w)), x \in NoncesOf(Partition(v))
      PROVE  v = w
  <2>1. v \in 0 .. Count-1
    BY DEF Workers
  <2>2. x \in 0 .. NonceSpace-1
    <3>1. Partition(w).start + Partition(w).size <= NonceSpace
      <4>1. Cut(w + 1, Count) <= Cut(Count, Count) /\ Cut(Count, Count) = NonceSpace
        <5>1. w + 1 \in 0..Count /\ Count \in 0..Count /\ w + 1 <= Count
          BY <1>1
        <5> QED BY <1>1, <5>1, CutsRise
      <4>2. Partition(w).start = Cut(w, Count) /\ Partition(w).size = Cut(w + 1, Count) - Cut(w, Count)
        BY <1>1, RangeOfWorker DEF Partition
      <4>3. Cut(w, Count) \in Nat /\ Cut(w + 1, Count) \in Nat
        BY <1>1, CutsRise
      <4> QED BY <4>1, <4>2, <4>3
    <3> QED BY <1>2, <1>3, <3>1, NonceSpaceAssumption DEF NoncesOf
  <2>3. PICK k \in 0 .. Count-1 :
          \A j \in 0 .. Count-1 : (x \in NoncesOf(split_nonce_space(j, Count))) <=> (k = j)
    BY <1>1, <2>2, EveryNonceHasOneWorker
  <2> QED BY <1>1, <1>3, <2>1, <2>3 DEF Partition
<1> QED BY <1>2, <1>3 DEF NoncesOf

\* A new job.
LEMMA NewJobKeeps ==
  ASSUME SearchInv, NewJob
  PROVE  SearchInv'
<1> USE DEF NewJob, SearchInv
<1>1. SearchTypes'
  BY DEF SearchTypes
<1>2. PlaceInv'
  BY DEF PlaceInv, Extranonce2
<1>3. TriedInv'
  BY DEF TriedInv, IsOf, Extranonce2
<1>4. HashesAreDistinctWork' /\ CoveredInv'
  BY DEF HashesAreDistinctWork, CoveredInv, FreshPasses, Extranonce2
<1> QED BY <1>1, <1>2, <1>3, <1>4

\* Whatever a scan hashes and reports, its whole chunk is covered by it.
LEMMA ScanCovers ==
  ASSUME NEW w \in Workers, NEW j, NEW ex2, NEW scanned \in Nat, NEW q \in Nat, NEW to_scan \in Nat,
         scanned = Chunk * q, to_scan <= Chunk,
         scanned + to_scan <= Partition(w).size,
         NEW done, NEW T, NEW F, NEW F1, done \subseteq T, F \subseteq F1,
         LET chunk == {<<j, ex2, n>> : n \in Partition(w).start + scanned ..
                                             Partition(w).start + scanned + to_scan - 1}
         IN  /\ done \subseteq chunk
             /\ done = chunk \/ \E hit \in done : F1 = F \cup {hit},
         NEW x \in Partition(w).start + scanned .. Partition(w).start + scanned + to_scan - 1
  PROVE  CoveredBy(T, F1, w, j, ex2, x)
<1> DEFINE start == Partition(w).start
           size == Partition(w).size
           chunk == {<<j, ex2, n>> : n \in start + scanned .. start + scanned + to_scan - 1}
<1>1. start \in Nat /\ size \in Nat /\ NoncesOf(Partition(w)) = start .. start + size - 1
  BY PartitionIs
<1>2. Chunk \in Nat \ {0}
  BY SearchAssumption
<1>3. ASSUME NEW n \in start + scanned .. start + scanned + to_scan - 1
      PROVE  (n - start) \div Chunk = q /\ n \in NoncesOf(Partition(w))
  <2> HIDE DEF start, size
  <2>1. n - start \in Nat /\ n - start = Chunk * q + (n - start - scanned)
    BY <1>1, <1>2
  <2>2. n - start - scanned \in 0 .. Chunk-1
    BY <1>1, <1>2
  <2>3. (n - start) \div Chunk = q
    BY <1>2, <2>1, <2>2, Remainder
  <2> QED BY <1>1, <2>3 DEF size
<1>4. CASE done = chunk
  BY <1>4 DEF CoveredBy
<1>5. CASE \E hit \in done : F1 = F \cup {hit}
  <2>1. PICK m \in start + scanned .. start + scanned + to_scan - 1 : <<j, ex2, m>> \in F1
    BY <1>5
  <2>2. (m - start) \div Chunk = (x - start) \div Chunk /\ m \in NoncesOf(Partition(w))
    BY <1>3, <2>1
  <2> HIDE DEF chunk
  <2> QED BY <2>1, <2>2 DEF CoveredBy
<1> QED BY <1>4, <1>5

\* A round of a fresh pass hashes what nobody has: another worker's nonces
\* are others, its own earlier passes had another extranonce2, and in this
\* pass it was not as far.
LEMMA ScanKeeps ==
  ASSUME SearchInv, NEW w \in Workers, ScanChunk(w)
  PROVE  SearchInv'
<1> DEFINE restart == job # current_job_id[w]
           scanned == IF restart THEN 0 ELSE partition_scanned[w]
           base == IF restart THEN 0 ELSE base_ex2[w]
           passes == IF restart THEN 0 ELSE pass[w]
           ex2 == IF scanned = 0 THEN Extranonce2(w, base) ELSE current_ex2[w]
           start == Partition(w).start
           size == Partition(w).size
           to_scan == ToScan(size, scanned)
           finished == PassDone(size, scanned + to_scan)
           chunk == {<<job, ex2, n>> : n \in start + scanned .. start + scanned + to_scan - 1}
           round == [worker |-> w, job |-> job, pass |-> passes]
<1>1. /\ job # 0 /\ size # 0
      /\ current_job_id' = [current_job_id EXCEPT ![w] = job]
      /\ current_ex2' = [current_ex2 EXCEPT ![w] = ex2]
      /\ partition_scanned' = [partition_scanned EXCEPT
           ![w] = IF finished THEN 0 ELSE scanned + to_scan]
      /\ base_ex2' = [base_ex2 EXCEPT ![w] = IF finished THEN NextBase(base) ELSE base]
      /\ pass' = [pass EXCEPT ![w] = IF finished THEN passes + 1 ELSE passes]
      /\ global_hashes' = global_hashes + to_scan
      /\ extranonce2_size' = extranonce2_size /\ job' = job
  BY DEF ScanChunk
<1>2. PICK done \in SUBSET chunk :
        /\ Scan(chunk, done)
        /\ tried' = tried \cup done
        /\ repeated' = repeated \cup IF done \cap tried = {} THEN {} ELSE {round}
  BY Zenon DEF ScanChunk
<1>3. /\ SearchTypes /\ PlaceInv /\ TriedInv /\ HashesAreDistinctWork /\ CoveredInv
      /\ extranonce2_size \in Ex2Sizes /\ job \in Nat /\ global_hashes \in Nat
      /\ current_job_id \in [Workers -> 0..job] /\ partition_scanned \in [Workers -> Nat]
      /\ base_ex2 \in [Workers -> Nat] /\ pass \in [Workers -> Nat]
      /\ current_ex2 = [v \in Workers |-> current_ex2[v]]
  BY DEF SearchInv, SearchTypes
<1>4. /\ start \in Nat /\ size \in Nat \ {0}
      /\ NoncesOf(Partition(w)) = start .. start + size - 1
  BY <1>1, PartitionIs
<1>5. /\ Chunk \in Nat \ {0} /\ Values[4] \in Nat \ {0} /\ 0 % Values[4] = 0
  <2>1. Values[4] \in Nat \ {0} /\ 0 \in 0 .. Values[4]-1 /\ 0 = Values[4] * 0 + 0
    BY ValuesGrow
  <2> QED BY <2>1, Remainder, SearchAssumption
<1>6. /\ scanned \in Nat /\ scanned < size
      /\ passes \in Nat /\ base = passes % Values[4]
  BY <1>3, <1>4, <1>5 DEF PlaceInv
<1>7. PICK q \in Nat : scanned = Chunk * q
  <2>1. PICK q \in Nat : partition_scanned[w] = Chunk * q
    BY <1>3 DEF PlaceInv
  <2>2. 0 = Chunk * 0
    BY <1>5
  <2> QED BY <2>1, <2>2
<1>8. ex2 = Extranonce2(w, base)
  <2>1. scanned # 0 => ~restart /\ partition_scanned[w] > 0
    BY <1>3
  <2>2. scanned # 0 => current_ex2[w] = Extranonce2(w, base)
    BY <1>3, <2>1 DEF PlaceInv
  <2> HIDE DEF base, scanned
  <2> QED BY <2>2
<1>9. /\ to_scan \in 1 .. size - scanned /\ to_scan <= Chunk
      /\ (finished <=> scanned + to_scan >= size)
      /\ ~finished => to_scan = Chunk
  <2> HIDE DEF size, scanned
  <2> QED BY <1>4, <1>5, <1>6 DEF ToScan, PassDone
<1>10. NextBase(base) = (passes + 1) % Values[4]
  BY <1>6, NextBaseIs
<1>11. \A v \in Workers : \A b : Extranonce2(v, b)' = Extranonce2(v, b)
  BY <1>1 DEF Extranonce2
<1> HIDE DEF restart, scanned, base, passes, ex2, start, size, to_scan, finished
<1>12. /\ current_job_id'[w] = job
       /\ current_ex2'[w] = ex2
       /\ finished => /\ partition_scanned'[w] = 0 /\ pass'[w] = passes + 1
                      /\ base_ex2'[w] = (passes + 1) % Values[4]
       /\ ~finished => /\ partition_scanned'[w] = scanned + to_scan /\ pass'[w] = passes
                       /\ base_ex2'[w] = base
  BY <1>1, <1>3, <1>10
<1>13. \A v \in Workers \ {w} :
         /\ current_job_id'[v] = current_job_id[v] /\ current_ex2'[v] = current_ex2[v]
         /\ partition_scanned'[v] = partition_scanned[v] /\ base_ex2'[v] = base_ex2[v]
         /\ pass'[v] = pass[v]
  BY <1>1, <1>3
<1>14. \A hash \in tried : IsOf(w, hash) => ~restart \/ hash[1] < job
  BY <1>3 DEF IsOf, TriedInv, restart
<1>15. ASSUME passes < FreshPasses
       PROVE  chunk \cap tried = {}
  <2> SUFFICES ASSUME NEW n \in start + scanned .. start + scanned + to_scan - 1,
                      <<job, ex2, n>> \in tried
               PROVE  FALSE
    OBVIOUS
  <2> DEFINE hash == <<job, ex2, n>>
  <2>1. hash[1] = job /\ hash[2] = ex2 /\ hash[3] = n
    OBVIOUS
  <2>2. n \in NoncesOf(Partition(w)) /\ n \in Nat
    BY <1>4, <1>6, <1>9
  <2>3. PICK v \in Workers : IsOf(v, hash)
    BY <1>3 DEF TriedInv
  <2> HIDE DEF hash
  <2>4. v = w
    BY <2>1, <2>2, <2>3, PartitionIs DEF IsOf
  <2>5. ~restart
    BY <1>3, <1>14, <2>1, <2>3, <2>4 DEF hash
  <2>6. \/ \E b \in 0 .. passes-1 : ex2 = Extranonce2(w, b % Values[4])
        \/ ex2 = Extranonce2(w, base) /\ n < start + scanned
    BY <2>1, <2>3, <2>4, <2>5 DEF IsOf, restart, base, passes, scanned, start
  <2>7. ASSUME NEW b \in 0 .. passes-1, ex2 = Extranonce2(w, b % Values[4]) PROVE FALSE
    <3>1. /\ b \in 0 .. FreshPasses-1 /\ passes \in 0 .. FreshPasses-1 /\ b # passes
      <4>1. FreshPasses \in Nat
        BY <1>3, PassesFit
      <4> QED BY <1>6, <1>15, <4>1
    <3>2. b % Values[4] = b /\ base = passes
      BY <1>3, <1>6, <3>1, FreshPassIs
    <3> QED BY <1>3, <1>8, <2>7, <3>1, <3>2, PassesApart
  <2> QED BY <1>4, <1>6, <1>9, <2>2, <2>6, <2>7
<1>16. IsFiniteSet(done) /\ Cardinality(done) <= to_scan /\ Cardinality(done) \in Nat
       /\ (done = chunk => Cardinality(done) = to_scan)
  <2> DEFINE a == start + scanned
             S == a .. a + to_scan - 1
  <2>1. a \in Nat /\ to_scan \in Nat
    BY <1>4, <1>6, <1>9
  <2>2. IsFiniteSet(S) /\ Cardinality(S) = to_scan
    <3>1. IsFiniteSet(S) /\ Cardinality(S) = IF a > a + to_scan - 1 THEN 0 ELSE (a + to_scan - 1) - a + 1
      <4> HIDE DEF a
      <4> QED BY <2>1, FS_Interval
    <3> HIDE DEF a, S
    <3> QED BY <2>1, <3>1
  <2>3. chunk = {<<job, ex2, n>> : n \in S}
    OBVIOUS
  <2>4. IsFiniteSet(chunk) /\ Cardinality(chunk) = Cardinality(S)
    <3> DEFINE f == [n \in S |-> <<job, ex2, n>>]
    <3> HIDE DEF S
    <3>1. f \in [S -> chunk] /\ \A x, y \in S : f[x] = f[y] => x = y
      BY <2>3
    <3>2. \A t \in chunk : \E n \in S : f[n] = t
      BY <2>3
    <3> HIDE DEF f, chunk
    <3>3. f \in Bijection(S, chunk)
      BY <3>1, <3>2 DEF Bijection, Injection, Surjection, IsInjective
    <3>4. ExistsBijection(S, chunk)
      BY <3>3 DEF ExistsBijection
    <3> QED BY <2>2, <3>4, FS_Bijection
  <2> HIDE DEF S, chunk
  <2>5. IsFiniteSet(done) /\ Cardinality(done) <= Cardinality(chunk)
    BY <1>2, <2>4, FS_Subset
  <2> QED BY <2>2, <2>4, <2>5, FS_CardinalityType
<1> HIDE DEF chunk, round
<1>17. (done = chunk /\ found' = found) \/ \E hit \in done : found' = found \cup {hit}
  BY <1>2 DEF Scan
<1>18. IsFiniteSet(tried') /\ HashesAreDistinctWork'
  <2>1. /\ IsFiniteSet(tried) /\ Cardinality(tried) \in Nat /\ Cardinality(tried) <= global_hashes
        /\ repeated = {} /\ found = {} => global_hashes = Cardinality(tried)
        /\ \A r \in repeated : r.pass >= FreshPasses
    BY <1>3, FS_CardinalityType DEF TriedInv, HashesAreDistinctWork
  <2>2. /\ IsFiniteSet(done \cup tried) /\ IsFiniteSet(done \cap tried)
        /\ Cardinality(done \cup tried)
             = Cardinality(done) + Cardinality(tried) - Cardinality(done \cap tried)
        /\ Cardinality(done \cap tried) \in Nat
    <3>1. IsFiniteSet(done \cap tried)
      BY <1>16, FS_Subset
    <3> QED BY <1>16, <2>1, <3>1, FS_Union, FS_CardinalityType
  <2>3. tried' = done \cup tried
    BY <1>2
  <2>4. Cardinality(tried') <= global_hashes'
    BY <1>1, <1>3, <1>9, <1>16, <2>1, <2>2, <2>3
  <2>5. ASSUME repeated' = {}, found' = {} PROVE global_hashes' = Cardinality(tried')
    <3>1. repeated = {} /\ done \cap tried = {}
      BY <1>2, <2>5
    <3>2. found = {} /\ done = chunk
      BY <1>17, <2>5
    <3>3. Cardinality(done \cap tried) = 0
      BY <3>1, FS_EmptySet
    <3> QED BY <1>1, <1>3, <1>9, <1>16, <2>1, <2>2, <2>3, <3>1, <3>2, <3>3
  <2>6. \A r \in repeated' : r.pass >= FreshPasses
    <3>1. CASE done \cap tried = {}
      BY <1>2, <2>1, <3>1
    <3>2. CASE done \cap tried # {}
      <4>1. passes >= FreshPasses
        <5>1. FreshPasses \in Nat
          BY <1>3, PassesFit
        <5>2. ~(passes < FreshPasses)
          BY <1>2, <1>15, <3>2
        <5> QED BY <1>6, <5>1, <5>2
      <4>2. round.pass = passes
        BY DEF round
      <4> QED BY <1>2, <2>1, <4>1, <4>2
    <3> QED BY <3>1, <3>2
  <2>7. FreshPasses' = FreshPasses
    BY <1>1 DEF FreshPasses
  <2>8. IsFiniteSet(tried')
    BY <2>2, <2>3
  <2> QED BY <2>4, <2>5, <2>6, <2>7, <2>8 DEF HashesAreDistinctWork
<1>19. SearchTypes'
  <2>1. /\ (IF finished THEN 0 ELSE scanned + to_scan) \in Nat
        /\ (IF finished THEN NextBase(base) ELSE base) \in Nat
        /\ (IF finished THEN passes + 1 ELSE passes) \in Nat
    <3>1. \A k \in Nat : k % Values[4] \in Nat
      BY <1>5
    <3> QED BY <1>6, <1>9, <1>10, <3>1
  <2>2. job \in 0..job /\ global_hashes + to_scan \in Nat
    BY <1>3, <1>9
  <2>3. /\ current_job_id' \in [Workers -> 0..job] /\ pass' \in [Workers -> Nat]
        /\ partition_scanned' \in [Workers -> Nat] /\ base_ex2' \in [Workers -> Nat]
    BY <1>1, <1>3, <2>1, <2>2
  <2>4. current_ex2' = [v \in Workers |-> current_ex2'[v]]
    BY <1>1, <1>3
  <2> QED BY <1>1, <1>3, <2>2, <2>3, <2>4 DEF SearchTypes
<1>20. PlaceInv'
  <2> SUFFICES ASSUME NEW v \in Workers
               PROVE  /\ current_job_id'[v] = 0 => pass'[v] = 0 /\ partition_scanned'[v] = 0
                      /\ base_ex2'[v] = pass'[v] % Values[4]
                      /\ \E k \in Nat : partition_scanned'[v] = Chunk * k
                      /\ partition_scanned'[v] > 0 =>
                           /\ partition_scanned'[v] < Partition(v).size
                           /\ current_ex2'[v] = Extranonce2(v, base_ex2'[v])
    BY <1>1 DEF PlaceInv, Extranonce2
  <2>1. CASE v = w
    <3>1. \E k \in Nat : partition_scanned'[w] = Chunk * k
      <4>1. 0 = Chunk * 0 /\ Chunk * (q + 1) = Chunk * q + Chunk /\ q + 1 \in Nat
        BY <1>5
      <4> QED BY <1>7, <1>9, <1>12, <4>1
    <3> QED BY <1>1, <1>4, <1>6, <1>8, <1>9, <1>12, <2>1, <3>1 DEF size
  <2>2. CASE v # w
    BY <1>3, <1>13, <2>2 DEF PlaceInv
  <2> QED BY <2>1, <2>2
<1>21. TriedInv'
  <2>1. ASSUME NEW hash \in tried PROVE \E v \in Workers : IsOf(v, hash)'
    <3>1. PICK v \in Workers : IsOf(v, hash)
      BY <1>3 DEF TriedInv
    <3>2. CASE v # w
      BY <1>1, <1>13, <3>1, <3>2 DEF IsOf, Extranonce2
    <3>3. CASE v = w
      <4>1. hash[3] \in NoncesOf(Partition(w)) /\ hash[1] <= current_job_id[w]
        BY <3>1, <3>3 DEF IsOf
      <4>2. hash[1] \in Nat /\ hash[3] \in Nat /\ current_job_id[w] \in 0..job
        BY <1>3 DEF TriedInv
      <4>3. ASSUME hash[1] = job
            PROVE  \/ \E b \in 0 .. pass'[w]-1 : hash[2] = Extranonce2(w, b % Values[4])
                   \/ /\ hash[2] = Extranonce2(w, base_ex2'[w])
                      /\ hash[3] < start + partition_scanned'[w]
        <5>1. ~restart
          BY <1>3, <1>14, <3>1, <3>3, <4>3
        <5>2. \/ \E b \in 0 .. passes-1 : hash[2] = Extranonce2(w, b % Values[4])
              \/ hash[2] = Extranonce2(w, base) /\ hash[3] < start + scanned
          BY <3>1, <3>3, <4>3, <5>1 DEF IsOf, restart, base, passes, scanned, start
        <5>3. passes + 1 \in Nat /\ passes \in 0 .. (passes + 1) - 1
              /\ 0 .. passes-1 \subseteq 0 .. (passes + 1) - 1
          BY <1>6
        <5>4. CASE finished
          BY <1>6, <1>12, <5>2, <5>3, <5>4
        <5>5. CASE ~finished
          <6>1. hash[3] < start + scanned => hash[3] < start + (scanned + to_scan)
            BY <1>4, <1>6, <1>9, <4>2
          <6>2. /\ pass'[w] = passes /\ base_ex2'[w] = base
                /\ partition_scanned'[w] = scanned + to_scan
            BY <1>12, <5>5
          <6> QED BY <5>2, <6>1, <6>2
        <5> QED BY <5>4, <5>5
      <4>4. IsOf(w, hash)'
        BY <1>1, <1>3, <1>12, <4>1, <4>2, <4>3 DEF IsOf, Extranonce2, start
      <4> QED BY <4>4
    <3> QED BY <3>2, <3>3
  <2>2. ASSUME NEW hash \in chunk
        PROVE  /\ hash[1] \in Nat /\ hash[3] \in Nat
               /\ IsOf(w, hash)'
    <3>1. PICK n \in start + scanned .. start + scanned + to_scan - 1 : hash = <<job, ex2, n>>
      BY <2>2 DEF chunk
    <3>2. n \in Nat /\ n \in NoncesOf(Partition(w)) /\ n < start + (scanned + to_scan)
      BY <1>4, <1>6, <1>9
    <3>3. hash[1] = job /\ hash[2] = ex2 /\ hash[3] = n
      BY <3>1
    <3>4. \/ \E b \in 0 .. pass'[w]-1 : hash[2] = Extranonce2(w, b % Values[4])
          \/ hash[2] = Extranonce2(w, base_ex2'[w]) /\ hash[3] < start + partition_scanned'[w]
      <4>1. CASE finished
        <5>1. passes \in 0 .. (passes + 1) - 1
          BY <1>6
        <5> QED BY <1>6, <1>8, <1>12, <3>3, <4>1, <5>1
      <4>2. CASE ~finished
        BY <1>8, <1>12, <3>2, <3>3, <4>2
      <4> QED BY <4>1, <4>2
    <3>5. IsOf(w, hash)'
      BY <1>1, <1>3, <1>12, <3>2, <3>3, <3>4 DEF IsOf, Extranonce2, start
    <3> QED BY <1>3, <3>2, <3>3, <3>5
  <2>3. \A hash \in tried' : hash \in tried \/ hash \in chunk
    BY <1>2
  <2>4. \A hash \in tried' : hash[1] \in Nat /\ hash[3] \in Nat /\ \E v \in Workers : IsOf(v, hash)'
    BY <1>3, <2>1, <2>2, <2>3 DEF TriedInv
  <2> QED BY <1>18, <2>4 DEF TriedInv
<1>22. CoveredInv'
  <2> DEFINE Cov(v, j, e, n) == CoveredBy(tried', found', v, j, e, n)
  <2>1. ASSUME NEW v \in Workers, NEW j, NEW e, NEW n, CoveredBy(tried, found, v, j, e, n)
        PROVE  Cov(v, j, e, n)
    <3>1. tried \subseteq tried' /\ found \subseteq found'
      BY <1>2, <1>17
    <3> QED BY <2>1, <3>1 DEF CoveredBy
  <2>2. ASSUME NEW n \in start + scanned .. start + scanned + to_scan - 1
        PROVE  Cov(w, job, ex2, n)
    <3>1. scanned + to_scan <= size /\ to_scan \in Nat /\ done \subseteq tried' /\ found \subseteq found'
      BY <1>2, <1>4, <1>6, <1>9, <1>17
    <3>2. done \subseteq chunk /\ (done = chunk \/ \E hit \in done : found' = found \cup {hit})
      BY <1>2, <1>17
    <3> QED BY <1>6, <1>7, <1>9, <2>2, <3>1, <3>2, ScanCovers DEF chunk, start, size
  <2> HIDE DEF Cov
  <2>3. ASSUME NEW v \in Workers, current_job_id'[v] # 0
        PROVE  /\ \A b \in 0 .. pass'[v]-1 : \A n \in NoncesOf(Partition(v)) :
                    Cov(v, current_job_id'[v], Extranonce2(v, b % Values[4]), n)
               /\ \A n \in Partition(v).start .. Partition(v).start + partition_scanned'[v] - 1 :
                    Cov(v, current_job_id'[v], Extranonce2(v, base_ex2'[v]), n)
    <3>1. CASE v # w
      BY <1>3, <1>13, <2>1, <2>3, <3>1 DEF CoveredInv
    <3>2. CASE v = w
      <4>1. \A b \in 0 .. passes-1 : \A n \in NoncesOf(Partition(w)) :
              Cov(w, job, Extranonce2(w, b % Values[4]), n)
        <5>1. CASE restart
          BY <5>1 DEF restart, passes
        <5>2. CASE ~restart
          BY <1>1, <1>3, <2>1, <5>2 DEF restart, passes, CoveredInv
        <5> QED BY <5>1, <5>2
      <4>2. \A n \in start .. start + scanned - 1 : Cov(w, job, ex2, n)
        <5>1. CASE restart
          BY <1>4, <5>1 DEF restart, scanned
        <5>2. CASE ~restart
          BY <1>1, <1>3, <1>8, <2>1, <5>2 DEF restart, scanned, base, start, CoveredInv
        <5> QED BY <5>1, <5>2
      <4>3. \A n \in start .. start + (scanned + to_scan) - 1 : Cov(w, job, ex2, n)
        <5>1. \A n \in start .. start + (scanned + to_scan) - 1 :
                \/ n \in start .. start + scanned - 1
                \/ n \in start + scanned .. start + scanned + to_scan - 1
          BY <1>4, <1>6, <1>9
        <5> QED BY <2>2, <4>2, <5>1
      <4>4. CASE finished
        <5>1. scanned + to_scan = size
          BY <1>4, <1>6, <1>9, <4>4
        <5>2. \A n \in NoncesOf(Partition(w)) : Cov(w, job, Extranonce2(w, passes % Values[4]), n)
          BY <1>4, <1>6, <1>8, <4>3, <5>1
        <5>3. \A b \in 0 .. (passes + 1) - 1 : b \in 0 .. passes-1 \/ b = passes
          BY <1>6
        <5>4. Partition(w).start .. Partition(w).start + 0 - 1 = {}
          BY <1>4 DEF start
        <5> QED BY <1>12, <3>2, <4>1, <4>4, <5>2, <5>3, <5>4
      <4>5. CASE ~finished
        BY <1>8, <1>12, <3>2, <4>1, <4>3, <4>5 DEF start
      <4> QED BY <4>4, <4>5
    <3> QED BY <3>1, <3>2
  <2> QED BY <1>11, <2>3 DEF CoveredInv, Cov
<1> QED BY <1>18, <1>19, <1>20, <1>21, <1>22 DEF SearchInv

\* Every step keeps it.
LEMMA SearchInvKept == SearchInv /\ [Next]_vars => SearchInv'
<1> SUFFICES ASSUME SearchInv, [Next]_vars PROVE SearchInv'
  OBVIOUS
<1>1. CASE NewJob
  BY <1>1, NewJobKeeps
<1>2. ASSUME NEW w \in Workers, ScanChunk(w) PROVE SearchInv'
  BY <1>2, ScanKeeps
<1>3. CASE UNCHANGED vars
  BY <1>3
     DEF vars, SearchInv, SearchTypes, PlaceInv, TriedInv, IsOf, HashesAreDistinctWork,
         CoveredInv, FreshPasses, Extranonce2
<1> QED BY <1>1, <1>2, <1>3 DEF Next, BoundReached

-----------------------------------------------------------------------------
(* The theorems.                                                           *)

\* A nonce is hashed again under the same extranonce2 only by a worker whose
\* counter has used up the values below the device prefix; and the dashboard
\* counts the work done, or more after a find or a repeat, for any number of
\* workers, chunk and width.
THEOREM WorkIsDistinct == Spec => []HashesAreDistinctWork
<1>1. SearchInv => HashesAreDistinctWork
  BY DEF SearchInv
<1> QED BY <1>1, SearchInvInit, SearchInvKept, PTL DEF Spec

\* A pass leaves out no nonce of the worker's partition, those of a chunk
\* with a find excepted.
THEOREM PassesGapless == Spec => []PassesAreGapless
<1>1. SearchInv => PassesAreGapless
  <2> SUFFICES ASSUME SearchInv, NEW w \in Workers, current_job_id[w] # 0
               PROVE  /\ \A b \in 0..pass[w]-1 : \A n \in NoncesOf(Partition(w)) :
                           CoveredBy(tried, found, w, current_job_id[w],
                                     Extranonce2(w, b % Values[4]), n)
                      /\ partition_scanned[w] > 0 =>
                           /\ current_ex2[w] = Extranonce2(w, base_ex2[w])
                           /\ \A n \in Partition(w).start ..
                                       Partition(w).start + partition_scanned[w] - 1 :
                                CoveredBy(tried, found, w, current_job_id[w], current_ex2[w], n)
    BY Zenon DEF PassesAreGapless, CoveredBy
  <2> QED BY DEF SearchInv, PlaceInv, CoveredInv
<1> QED BY <1>1, SearchInvInit, SearchInvKept, PTL DEF Spec

=============================================================================
